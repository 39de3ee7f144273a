------------------------------ MODULE Allocator ------------------------------
(***************************************************************************)
(* What kmalloc and kfree promise their callers: the extents handed out    *)
(* and not yet given back lie in the arena and never overlap, and only     *)
(* kfree of an extent's own pointer ends it.  Extents are measured in      *)
(* granules of HEAP_ALIGNMENT bytes.                                       *)
(***************************************************************************)
EXTENDS Naturals

CONSTANT ArenaEnd     \* granules of the arena: extents lie in 0..ArenaEnd-1

VARIABLE extents      \* the extents handed out: records [start, len]

Cells(e) == e.start .. (e.start + e.len - 1)

Init == extents = {}

(* An extent that overlaps none of those handed out.                       *)
Malloc == \E start, len \in 0..ArenaEnd :
  /\ len > 0 /\ start + len <= ArenaEnd
  /\ \A e \in extents : start + len <= e.start \/ e.start + e.len <= start
  /\ extents' = extents \cup {[start |-> start, len |-> len]}

Free == \E e \in extents : extents' = extents \ {e}

Next == Malloc \/ Free

Spec == Init /\ [][Next]_extents
=============================================================================
