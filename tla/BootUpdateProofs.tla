-------------------------- MODULE BootUpdateProofs --------------------------
(***************************************************************************)
(* The updater never touches a kernel that runs or that GRUB would boot,   *)
(* and GRUB never finds a half-written kernel, whatever the number of      *)
(* kernels and wherever power fails.  Two conditions are needed: the       *)
(* directory listing is long enough, and no empty file is installed.       *)
(***************************************************************************)
EXTENDS BootUpdate, NaturalFacts, FiniteSetTheorems

(* What the updater relies on and does not check.                          *)
Sound == LISTED_MAX >= MAX_KERNEL_VERSION /\ "empty" \notin SOURCES

(* The inductive invariant: every kernel that may be booted or that runs   *)
(* has been staged, the one being written has not, and the pair that       *)
(* boot.cfg is about to name has.                                          *)
IInv ==
  /\ TypeOK
  /\ image[1] \in Staged
  /\ cfgDefault # None => image[cfgDefault] \in Staged
  /\ cfgFallback # None => image[cfgFallback] \in Staged
  /\ running # None => image[running] \in Staged
  /\ pc = "staging" => new # None /\ image[new] \in {"empty", "partial"}
  /\ pc \in {"staged", "cfg", "cfgDone", "stat"} => new # None /\ image[new] \in Staged
  /\ pc \in {"staging", "staged", "cfg", "cfgDone", "stat"} => old # None /\ image[old] \in Staged

(* Max picks the greatest of a nonempty bounded set of versions.           *)
LEMMA MaxFact ==
  ASSUME NEW M \in Nat, NEW T, T \subseteq 1..M, T # {}
  PROVE  Max(T) \in T /\ \A y \in T : y <= Max(T)
<1> DEFINE U == {n \in Nat : \E v \in T : n = M - v}
<1>0. \A v \in T : v \in 1..M /\ M - v \in Nat
  OBVIOUS
<1>1. U \subseteq Nat /\ U # {}
  BY <1>0, Zenon
<1>2. PICK u \in U : \A w \in U : u <= w
  BY <1>1, LeastElement, Zenon
<1>3. PICK x \in T : u = M - x
  BY <1>2
<1>4. \A y \in T : x >= y
  <2> TAKE y \in T
  <2>1. u <= M - y
    BY <1>0, <1>2
  <2> QED
    BY <1>0, <1>3, <2>1
<1>5. Max(T) \in T /\ \A y \in T : Max(T) >= y
  <2> DEFINE P(m) == \A y \in T : m >= y
  <2>1. \E m \in T : P(m)
    BY <1>4
  <2>2. Max(T) = CHOOSE m \in T : P(m)
    BY DEF Max
  <2> HIDE DEF P
  <2>3. Max(T) \in T /\ P(Max(T))
    BY <2>1, <2>2, Zenon
  <2> QED
    BY <2>3 DEF P
<1> QED
  BY <1>5

(* With a long enough listing every kernel file is listed.                 *)
LEMMA AllListed ==
  ASSUME TypeOK, Sound
  PROVE  Listed = {v \in Versions : image[v] # "none"}
<1>1. ASSUME NEW v \in Versions
      PROVE  Cardinality({w \in 1..(v - 1) : image[w] # "none"}) < LISTED_MAX
  <2>1. v \in Int /\ 1 \in Int /\ v >= 1 /\ v <= MAX_KERNEL_VERSION /\ v - 1 \in Int
    BY VersionAssumption DEF Versions
  <2>2. IsFiniteSet(1..(v - 1)) /\ Cardinality(1..(v - 1)) = v - 1
    BY <2>1, FS_Interval
  <2> DEFINE W == {w \in 1..(v - 1) : image[w] # "none"}
  <2>3. W \in SUBSET (1..(v - 1))
    OBVIOUS
  <2> HIDE DEF W
  <2>4. IsFiniteSet(W) /\ Cardinality(W) <= v - 1
    BY <2>2, <2>3, FS_Subset, Zenon
  <2>5. Cardinality(W) \in Nat
    BY <2>4, FS_CardinalityType
  <2>6. Cardinality(W) < LISTED_MAX
    BY <2>1, <2>4, <2>5, VersionAssumption, ListedAssumption DEF Sound
  <2> QED
    BY <2>6 DEF W
<1> QED
  BY <1>1 DEF Listed

(* The file that is chosen for a new kernel does not exist or is empty.    *)
LEMMA SelectFact ==
  ASSUME TypeOK, Sound, CanSelect
  PROVE  /\ select_kernel_install_path \in Versions
         /\ image[select_kernel_install_path] \in {"none", "empty"}
<1> DEFINE new0 == select_kernel_install_path
<1>1. CASE Reusable # {}
  <2>1. Reusable \subseteq Nat
    BY VersionAssumption DEF Reusable, Listed, Versions
  <2>2. Min(Reusable) \in Reusable
    BY <1>1, <2>1, MinProperties
  <2> QED
    BY <1>1, <2>2 DEF select_kernel_install_path, Reusable, Listed
<1>2. CASE Reusable = {}
  <2>1. new0 = Highest + 1 /\ Highest < MAX_KERNEL_VERSION
    BY <1>2 DEF select_kernel_install_path, CanSelect
  <2>2. Highest \in Nat /\ \A v \in Kept : v <= Highest
    <3>1. CASE Kept = {}
      BY <3>1 DEF Highest
    <3>2. CASE Kept # {}
      <4>1. Kept \subseteq 1..MAX_KERNEL_VERSION /\ MAX_KERNEL_VERSION \in Nat
        BY VersionAssumption DEF Kept, Listed, Versions
      <4>2. Max(Kept) \in Kept /\ \A y \in Kept : y <= Max(Kept)
        BY <3>2, <4>1, MaxFact, Zenon
      <4>3. Highest = Max(Kept)
        BY <3>2 DEF Highest
      <4>4. Highest \in Kept /\ \A y \in Kept : y <= Highest
        BY <4>2, <4>3, Zenon
      <4> QED
        BY <4>1, <4>4
    <3> QED
      BY <3>1, <3>2
  <2>3. new0 \in Versions
    BY <2>1, <2>2, VersionAssumption DEF Versions
  <2>4. new0 \notin Kept
    BY <2>1, <2>2
  <2>5. image[new0] = "none"
    BY <1>2, <2>3, <2>4, AllListed DEF Kept
  <2> QED
    BY <2>3, <2>5
<1> QED
  BY <1>1, <1>2

-----------------------------------------------------------------------------
(* The disk image as built satisfies the invariant.                        *)
LEMMA InitIInv ==
  ASSUME Init
  PROVE  IInv
BY VersionAssumption DEF Init, IInv, TypeOK, Versions, None, Images, Staged, Places

(* The kernels that GRUB may start, and what is known of the one it picks. *)
LEMMA NamedFact ==
  ASSUME IInv
  PROVE  /\ 1 \in Versions
         /\ Default \in Versions /\ image[Default] \in Staged
         /\ Fallback \in Versions /\ image[Fallback] \in Staged
BY VersionAssumption DEF IInv, TypeOK, Default, Fallback, Versions, None

(* The kernel that is booted has a staged image.                           *)
LEMMA ChosenFact ==
  ASSUME IInv
  PROVE  Chosen \in Versions \cup {None} /\ (Chosen # None => image[Chosen] \in Staged)
<1>1. Path \in Versions
  BY NamedFact DEF Path
<1> QED
  BY <1>1, NamedFact DEF Chosen, Loads, Staged

(* Booting and marking the boot change no image and leave pkg's state.     *)
LEMMA BootStep ==
  ASSUME IInv, GrubBoot \/ mark_boot_success
  PROVE  IInv'
<1>1. CASE GrubBoot
  <2>1. SavedPending \in Versions \cup {None}
    BY NamedFact DEF SavedPending
  <2>2. TypeOK'
    BY <1>1, <2>1, ChosenFact DEF GrubBoot, IInv, TypeOK, Places, pkg
  <2>3. pc' \in {"norun", "init", "hung"}
    BY <1>1 DEF GrubBoot
  <2> QED
    BY <1>1, <2>2, <2>3, ChosenFact DEF GrubBoot, IInv, pkg
<1>2. CASE MarkOpen
  BY <1>2 DEF MarkOpen, IInv, TypeOK, Places, pkg
<1>3. CASE MarkWrite
  BY <1>3 DEF MarkWrite, IInv, TypeOK, Places, pkg
<1>4. CASE MarkFails
  BY <1>4 DEF MarkFails, IInv, TypeOK, Places, pkg, disk
<1> QED
  BY <1>1, <1>2, <1>3, <1>4 DEF mark_boot_success

(* Writing the image of the kernel that is being staged, which nothing     *)
(* names, leaves the named ones staged.                                    *)
LEMMA StageStep ==
  ASSUME IInv, Sound, StageOpen \/ StageWrite \/ StageRetry \/ StageDone \/ StageFails
  PROVE  IInv' /\ \A v \in Versions : image[v] \in Staged => image'[v] = image[v]
<1>1. CASE StageOpen
  <2>1. new' \in Versions /\ image[new'] \in {"none", "empty"}
    BY <1>1, SelectFact DEF StageOpen, IInv
  <2>2. \A v \in Versions : image'[v] = IF v = new' THEN "empty" ELSE image[v]
    BY <1>1, <2>1 DEF StageOpen, IInv, TypeOK
  <2>3. image' \in [Versions -> Images]
    BY <1>1, <2>1 DEF StageOpen, IInv, TypeOK, Images
  <2>4. TypeOK'
    BY <1>1, <2>1, <2>3, NamedFact DEF StageOpen, IInv, TypeOK, Places
  <2>5. \A v \in Versions : image[v] \in Staged => image'[v] = image[v]
    BY <2>1, <2>2 DEF Staged
  <2>6. None \notin Versions
    BY DEF None, Versions
  <2> QED
    BY <1>1, <2>1, <2>2, <2>4, <2>5, <2>6, NamedFact DEF StageOpen, IInv, TypeOK
<1>2. ASSUME pc = "staging", NEW q \in Images, image' = [image EXCEPT ![new] = q],
             cfgDefault' = cfgDefault, cfgFallback' = cfgFallback, running' = running,
             TypeOK'
      PROVE  /\ \A v \in Versions : image[v] \in Staged => image'[v] = image[v]
             /\ image'[new] = q
             /\ image'[1] \in Staged /\ image'[old] \in Staged
             /\ cfgDefault' # None => image'[cfgDefault'] \in Staged
             /\ cfgFallback' # None => image'[cfgFallback'] \in Staged
             /\ running' # None => image'[running'] \in Staged
  <2>1. new \in Versions /\ image[new] \notin Staged /\ old \in Versions /\ image[old] \in Staged
    BY <1>2 DEF IInv, TypeOK, Staged
  <2>2. \A v \in Versions : image'[v] = IF v = new THEN q ELSE image[v]
    BY <1>2, <2>1 DEF IInv, TypeOK
  <2>3. \A v \in Versions : image[v] \in Staged => image'[v] = image[v]
    BY <2>1, <2>2
  <2> QED
    BY <1>2, <2>1, <2>2, <2>3, NamedFact DEF IInv, TypeOK
<1>3. CASE StageWrite \/ StageRetry
  <2>1. TypeOK'
    BY <1>3 DEF StageWrite, StageRetry, IInv, TypeOK, Images, pkg
  <2> QED
    BY <1>2, <1>3, <2>1 DEF StageWrite, StageRetry, IInv, Images, pkg
<1>4. CASE StageDone
  <2>1. PICK q \in SOURCES : image' = [image EXCEPT ![new] = q]
    BY <1>4, Zenon DEF StageDone
  <2>2. q \in Staged /\ q \in Images
    BY SourcesAssumption DEF Sound, Staged, Images
  <2>3. TypeOK'
    BY <1>4, <2>1, <2>2 DEF StageDone, IInv, TypeOK, Places, pkg
  <2> QED
    BY <1>2, <1>4, <2>1, <2>2, <2>3, Zenon DEF StageDone, IInv, pkg
<1>5. CASE StageFails
  <2>1. PICK q \in {"empty", image[new]} : image' = [image EXCEPT ![new] = q]
    BY <1>5, Zenon DEF StageFails
  <2>2. q \in Images
    BY <1>5, <2>1 DEF StageFails, IInv, Images
  <2>3. TypeOK'
    BY <1>5, <2>1, <2>2 DEF StageFails, IInv, TypeOK, Places
  <2> QED
    BY <1>2, <1>5, <2>1, <2>2, <2>3, Zenon DEF StageFails, IInv
<1> QED
  BY <1>1, <1>3, <1>4, <1>5

(* Rewriting boot.cfg and status.cfg, and stopping, change no image.       *)
LEMMA FilesStep ==
  ASSUME IInv, CfgOpen \/ CfgWrite \/ StatusOpen \/ StatusWrite \/ WriteFails
                 \/ ResetStuck \/ Reboot \/ PowerLoss
  PROVE  IInv'
<1>1. CASE CfgOpen
  BY <1>1 DEF CfgOpen, IInv, TypeOK, Places, pkg
<1>2. CASE CfgWrite
  BY <1>2 DEF CfgWrite, IInv, TypeOK, Places, pkg
<1>3. CASE StatusOpen
  BY <1>3 DEF StatusOpen, IInv, TypeOK, Places, pkg
<1>4. CASE StatusWrite
  BY <1>4 DEF StatusWrite, IInv, TypeOK, Places
<1>5. CASE WriteFails
  BY <1>5 DEF WriteFails, IInv, TypeOK, Places, disk
<1>6. CASE Stops
  BY <1>6 DEF Stops, IInv, TypeOK, Places, disk
<1> QED
  BY <1>1, <1>2, <1>3, <1>4, <1>5, <1>6 DEF ResetStuck, Reboot, PowerLoss

(* Every step keeps the invariant and every image that is staged.          *)
LEMMA NextStep ==
  ASSUME IInv, Sound, [Next]_vars
  PROVE  IInv' /\ \A v \in Versions : image[v] \in Staged => image'[v] = image[v]
<1>1. CASE GrubBoot \/ mark_boot_success
  BY <1>1, BootStep DEF GrubBoot, mark_boot_success, MarkOpen, MarkWrite, MarkFails, disk
<1>2. CASE StageOpen \/ StageWrite \/ StageRetry \/ StageDone \/ StageFails
  BY <1>2, StageStep
<1>3. CASE CfgOpen \/ CfgWrite \/ StatusOpen \/ StatusWrite \/ WriteFails
             \/ ResetStuck \/ Reboot \/ PowerLoss
  BY <1>3, FilesStep DEF CfgOpen, CfgWrite, StatusOpen, StatusWrite, WriteFails,
                         ResetStuck, Reboot, PowerLoss, Stops, disk
<1>4. CASE UNCHANGED vars
  BY <1>4 DEF vars, disk, pkg, IInv, TypeOK
<1> QED
  BY <1>1, <1>2, <1>3, <1>4 DEF Next, pkg_install_kernel

(* The inductive invariant holds in every reachable state.                 *)
THEOREM Invariance == Sound => (Spec => []IInv)
<1> SUFFICES ASSUME Sound PROVE Spec => []IInv
  OBVIOUS
<1>1. Init => IInv
  BY InitIInv
<1>2. IInv /\ [Next]_vars => IInv'
  BY NextStep
<1> QED
  BY <1>1, <1>2, PTL DEF Spec

(* At every instant the kernels that GRUB would boot, by boot.cfg or by    *)
(* its defaults, are files that pkg finished writing.                      *)
THEOREM NamedAreStagedAlways == Sound => (Spec => []NamedAreStaged)
<1> SUFFICES ASSUME Sound PROVE Spec => []NamedAreStaged
  OBVIOUS
<1>1. IInv => NamedAreStaged
  BY NamedFact DEF NamedAreStaged
<1>2. Spec => []IInv
  BY Invariance
<1> QED
  BY <1>1, <1>2, PTL

(* pkg never writes to the image of the running kernel.                    *)
THEOREM RunningIsUntouched == Sound => (Spec => RunningUntouched)
<1> SUFFICES ASSUME Sound PROVE Spec => RunningUntouched
  OBVIOUS
<1>1. IInv /\ [Next]_vars => [running # None => image'[running] = image[running]]_vars
  <2> SUFFICES ASSUME IInv, [Next]_vars, running # None
               PROVE  image'[running] = image[running]
    OBVIOUS
  <2>1. running \in Versions /\ image[running] \in Staged
    BY DEF IInv, TypeOK
  <2> QED
    BY <2>1, NextStep
<1>2. Spec => []IInv
  BY Invariance
<1> QED
  BY <1>1, <1>2, PTL DEF Spec, RunningUntouched

(* pkg never writes to the image of a kernel that GRUB would boot next.    *)
THEOREM NamedIsUntouched == Sound => (Spec => NamedUntouched)
<1> SUFFICES ASSUME Sound PROVE Spec => NamedUntouched
  OBVIOUS
<1>1. IInv /\ [Next]_vars => [\A v \in {Default, Fallback} : image'[v] = image[v]]_vars
  BY NextStep, NamedFact
<1>2. Spec => []IInv
  BY Invariance
<1> QED
  BY <1>1, <1>2, PTL DEF Spec, NamedUntouched
=============================================================================
