----------------------------- MODULE BootUpdate -----------------------------
(***************************************************************************)
(* Installing a new kernel and booting it: pkg_install_kernel of           *)
(* user/program_support/pkg_kernel.c, the GRUB script that                 *)
(* tools/build_boot_support.py installs, and mark_boot_success of          *)
(* src/kernel/kmain.c.  They share files on disk: the kernel images        *)
(* /boot/kernNNNN.bin, /boot/boot.cfg, /boot/status.cfg and grubenv.       *)
(* A file is rewritten by truncating it and writing it again, and the      *)
(* machine may be reset, or lose power, between any two steps.             *)
(***************************************************************************)
EXTENDS Naturals, FiniteSets, FiniteSetsExt

CONSTANTS
  MAX_KERNEL_VERSION,   \* the highest NNNN
  LISTED_MAX,           \* kernels that sys_listdir("/boot", .., 64) returns
  SOURCES,              \* what a kernel to install may turn out to be
  FAULTS                \* whether power and writes may fail; a reset is always possible

ASSUME VersionAssumption == MAX_KERNEL_VERSION \in Nat \ {0}
ASSUME ListedAssumption == LISTED_MAX \in Nat \ {0}
ASSUME SourcesAssumption == SOURCES \subseteq {"empty", "bad", "hang", "good"}
ASSUME FaultsAssumption == FAULTS \in BOOLEAN

Versions == 1..MAX_KERNEL_VERSION
None == 0

VARIABLES
  image,         \* the kernel files: see Images
  cfgDefault,    \* boot.cfg: the default and the fallback kernel, None when
  cfgFallback,   \*   the file is empty
  status,        \* status.cfg
  lastPending,   \* grubenv: numos_last_pending_kernel
  running,       \* the kernel in memory
  pc,            \* what the machine is doing: see Places
  new,           \* pkg: new_kernel_path
  old            \* pkg: fallback_kernel

disk == <<image, cfgDefault, cfgFallback, status, lastPending>>
pkg  == <<new, old>>
vars == <<disk, running, pc, pkg>>

(* none: no such file; empty, partial: left by an interrupted or failed    *)
(* copy; bad: GRUB cannot load it; hang: it loads and dies before          *)
(* mark_boot_success; good: it reaches it.                                 *)
Images == {"none", "empty", "partial", "bad", "hang", "good"}
Staged == {"bad", "hang", "good"}
Places == {"off", "norun", "hung", "init", "mark", "up",
           "staging", "staged", "cfg", "cfgDone", "stat"}

TypeOK ==
  /\ image \in [Versions -> Images]
  /\ cfgDefault \in Versions \cup {None} /\ cfgFallback \in Versions \cup {None}
  /\ status \in {"success", "pending", "failed", "empty"}
  /\ lastPending \in Versions \cup {None}
  /\ running \in Versions \cup {None} /\ pc \in Places
  /\ new \in Versions \cup {None} /\ old \in Versions \cup {None}

(* The disk image as it is built: kernel 1, which works.                   *)
Init ==
  /\ image = [v \in Versions |-> IF v = 1 THEN "good" ELSE "none"]
  /\ cfgDefault = 1 /\ cfgFallback = 1
  /\ status = "success" /\ lastPending = None
  /\ running = None /\ pc = "off"
  /\ new = None /\ old = None

-----------------------------------------------------------------------------
(* The GRUB script.  What boot.cfg does not say defaults to kernel 1, and  *)
(* an empty status.cfg leaves the script's default, success.               *)
Default  == IF cfgDefault = None THEN 1 ELSE cfgDefault
Fallback == IF cfgFallback = None THEN 1 ELSE cfgFallback

TriedBefore == status = "pending" /\ lastPending = Default
Path == IF status = "failed" \/ TriedBefore THEN Fallback ELSE Default

(* Mutant of SavedPending: grubenv is not written.                         *)
SavedPendingNot == lastPending
SavedPending == IF status = "pending" THEN Default ELSE None

Loads(v) == image[v] \in {"hang", "good"}

(* A missing default, or one that multiboot2 refuses, gives way to the     *)
(* fallback.                                                               *)
Chosen ==
  LET path == IF image[Path] = "none" /\ image[Fallback] # "none" THEN Fallback ELSE Path
  IN  IF Loads(path) THEN path
      ELSE IF Loads(Fallback) THEN Fallback ELSE None

GrubBoot ==
  /\ pc = "off"
  /\ lastPending' = SavedPending
  /\ running' = Chosen
  /\ pc' = IF Chosen = None THEN "norun" ELSE IF image[Chosen] = "good" THEN "init" ELSE "hung"
  /\ UNCHANGED <<image, cfgDefault, cfgFallback, status, pkg>>

(* mark_boot_success: truncate status.cfg, write it.  Neither failure      *)
(* stops the boot.                                                         *)
MarkOpen ==
  /\ pc = "init"
  /\ status' = "empty" /\ pc' = "mark"
  /\ UNCHANGED <<image, cfgDefault, cfgFallback, lastPending, running, pkg>>
MarkWrite ==
  /\ pc = "mark"
  /\ status' = "success" /\ pc' = "up"
  /\ UNCHANGED <<image, cfgDefault, cfgFallback, lastPending, running, pkg>>
MarkFails ==
  /\ FAULTS /\ pc \in {"init", "mark"}
  /\ pc' = "up"
  /\ UNCHANGED <<disk, running, pkg>>
mark_boot_success == MarkOpen \/ MarkWrite \/ MarkFails

-----------------------------------------------------------------------------
(* pkg_install_kernel.                                                     *)

(* The directory listing: the first entries, which are the oldest files.   *)
Listed == {v \in Versions : image[v] # "none" /\
             Cardinality({w \in 1..(v - 1) : image[w] # "none"}) < LISTED_MAX}
Reusable == {v \in Listed : image[v] = "empty"}
Kept     == Listed \ Reusable
Highest  == IF Kept = {} THEN 0 ELSE Max(Kept)

CanSelect == Reusable # {} \/ Highest < MAX_KERNEL_VERSION

(* Mutant of select_kernel_install_path: the highest version is taken      *)
(* itself, not the one after it.                                           *)
SelectHighest == IF Reusable # {} THEN Min(Reusable) ELSE Highest
select_kernel_install_path == IF Reusable # {} THEN Min(Reusable) ELSE Highest + 1

(* Choose the file and the fallback kernel, then create or truncate the    *)
(* file.                                                                   *)
StageOpen ==
  /\ pc = "up"
  /\ CanSelect
  /\ new' = select_kernel_install_path
  /\ old' = Default
  /\ image' = [image EXCEPT ![new'] = "empty"]
  /\ pc' = "staging"
  /\ UNCHANGED <<cfgDefault, cfgFallback, status, lastPending, running>>
(* Some of it is written.                                                  *)
StageWrite ==
  /\ pc = "staging" /\ image[new] = "empty"
  /\ image' = [image EXCEPT ![new] = "partial"]
  /\ UNCHANGED <<cfgDefault, cfgFallback, status, lastPending, running, pc, pkg>>
(* A download that breaks off empties the file before its next attempt.    *)
StageRetry ==
  /\ pc = "staging" /\ image[new] = "partial"
  /\ image' = [image EXCEPT ![new] = "empty"]
  /\ UNCHANGED <<cfgDefault, cfgFallback, status, lastPending, running, pc, pkg>>
(* The copy ends and is accepted, whatever it is worth: copy_file takes an *)
(* empty source for a kernel, and a download whose length is not announced *)
(* ends where the connection does.                                         *)
StageDone == \E quality \in SOURCES :
  /\ pc = "staging"
  /\ image' = [image EXCEPT ![new] = quality]
  /\ pc' = "staged"
  /\ UNCHANGED <<cfgDefault, cfgFallback, status, lastPending, running, pkg>>

(* Mutant of StageFails: a failed copy is not noticed.                     *)
StageFailsUnseen ==
  /\ pc = "staging"
  /\ image' = [image EXCEPT ![new] = "partial"]
  /\ pc' = "staged"
  /\ UNCHANGED <<cfgDefault, cfgFallback, status, lastPending, running, pkg>>

(* The copy fails, or the VESA check refuses its result: pkg gives up and  *)
(* leaves the piece it has or, after a download or the check, an empty     *)
(* file.                                                                   *)
StageFails ==
  /\ pc = "staging"
  /\ \E left \in {"empty", image[new]} : image' = [image EXCEPT ![new] = left]
  /\ pc' = "up" /\ new' = None /\ old' = None
  /\ UNCHANGED <<cfgDefault, cfgFallback, status, lastPending, running>>

(* write_boot_cfg, then write_boot_status("pending").                      *)
CfgOpen ==
  /\ pc = "staged"
  /\ cfgDefault' = None /\ cfgFallback' = None
  /\ pc' = "cfg"
  /\ UNCHANGED <<image, status, lastPending, running, pkg>>
CfgWrite ==
  /\ pc = "cfg"
  /\ cfgDefault' = new /\ cfgFallback' = old
  /\ pc' = "cfgDone"
  /\ UNCHANGED <<image, status, lastPending, running, pkg>>
StatusOpen ==
  /\ pc = "cfgDone"
  /\ status' = "empty" /\ pc' = "stat"
  /\ UNCHANGED <<image, cfgDefault, cfgFallback, lastPending, running, pkg>>
StatusWrite ==
  /\ pc = "stat"
  /\ status' = "pending" /\ pc' = "up"
  /\ new' = None /\ old' = None
  /\ UNCHANGED <<image, cfgDefault, cfgFallback, lastPending, running>>
(* A write that fails: pkg gives up there.                                 *)
WriteFails ==
  /\ FAULTS /\ pc \in {"staged", "cfg", "cfgDone", "stat"}
  /\ pc' = "up" /\ new' = None /\ old' = None
  /\ UNCHANGED <<disk, running>>

pkg_install_kernel ==
  \/ StageOpen \/ StageWrite \/ StageRetry \/ StageDone \/ StageFails
  \/ CfgOpen \/ CfgWrite \/ StatusOpen \/ StatusWrite \/ WriteFails

-----------------------------------------------------------------------------
(* The machine is reset (by its user, or by sys_reboot), or loses power.   *)
Stops ==
  /\ pc' = "off" /\ running' = None /\ new' = None /\ old' = None
  /\ UNCHANGED disk
ResetStuck == pc \in {"hung", "norun"} /\ Stops
Reboot     == pc = "up" /\ Stops
PowerLoss  == FAULTS /\ pc # "off" /\ Stops

Next == GrubBoot \/ mark_boot_success \/ pkg_install_kernel \/ ResetStuck \/ Reboot \/ PowerLoss

Spec == Init /\ [][Next]_vars

(* The machine boots when it is on, a kernel's early init goes on, and     *)
(* somebody resets a machine that hangs.                                   *)
FairSpec == Spec /\ WF_vars(GrubBoot) /\ WF_vars(mark_boot_success) /\ WF_vars(ResetStuck)

-----------------------------------------------------------------------------
(* At every instant, and so after a power failure at any instant, the      *)
(* kernels GRUB would boot are files that were staged to the end: boot.cfg *)
(* is rewritten only after the copy.                                       *)
NamedAreStaged == image[Default] \in Staged /\ image[Fallback] \in Staged

(* "The kernel updater never overwrites the running kernel in place".      *)
RunningUntouched == [][running # None => image'[running] = image[running]]_vars

(* Nor does it ever touch a kernel that GRUB would boot, from the defaults *)
(* of a truncated boot.cfg included.                                       *)
NamedUntouched == [][\A v \in {Default, Fallback} : image'[v] = image[v]]_vars

(* A pending kernel that dies is followed by the fallback kernel: "falls   *)
(* back to the previous kernel on the next boot".                          *)
FallbackStarts ==
  (pc = "hung" /\ status = "pending" /\ image[Fallback] = "good")
     ~> (running = Fallback /\ pc = "init")

=============================================================================
