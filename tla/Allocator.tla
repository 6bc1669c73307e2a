----------------------------- MODULE Allocator -----------------------------
(***************************************************************************)
(* What an allocator promises: a block it hands out shares no byte with a  *)
(* block still in use.  A block is a run of bytes in a slab of memory.     *)
(***************************************************************************)
EXTENDS Integers

VARIABLES
  out,    \* the blocks in use
  held    \* how many were handed out and not taken back

vars == <<out, held>>

Overlap(b, c) ==
  b.slab = c.slab /\ b.at < c.at + c.size /\ c.at < b.at + b.size

Init == out = {} /\ held = 0

Allocate ==
  /\ \E b \in out' : out' = out \union {b} /\ \A c \in out : ~Overlap(b, c)
  /\ held' = held + 1

Release == held' = held - 1 /\ \E b \in out : out' = out \ {b}

ReleaseAll == out' = {} /\ held' = 0

Next == Allocate \/ Release \/ ReleaseAll

Spec == Init /\ [][Next]_vars

=============================================================================
