-------------------------------- MODULE Gang --------------------------------
(***************************************************************************)
(* The allocator of src/src/gang.c: blocks of any size are cut from the    *)
(* newest slab one after the other, and all are freed at once.  Alignment  *)
(* is not implemented (ptr_align returns its argument).                    *)
(***************************************************************************)
EXTENDS Naturals

CONSTANTS
  SlabBytes,    \* g_alloc
  SlabHdr,      \* sizeof(struct _slab)
  Sizes,        \* the sizes asked for
  MaxGangSlabs  \* bound: malloc fails after so many slabs

GangAssumption ==
  SlabBytes \in Nat /\ SlabHdr \in Nat /\ Sizes \subseteq Nat /\ MaxGangSlabs \in Nat

VARIABLES
  g_slab,     \* how many slabs there are
  g_ptr,      \* where the next block of the newest one goes
  g_used,     \* the blocks handed out
  g_held      \* history: how many were

vars == <<g_slab, g_ptr, g_used, g_held>>

Init == g_slab = 0 /\ g_ptr = 0 /\ g_used = {} /\ g_held = 0

\* A block of no bytes is given an address and is nothing to keep apart.
HandOut(slab, at, sz) ==
  IF sz = 0 THEN UNCHANGED <<g_used, g_held>>
  ELSE /\ g_used' = g_used \union {[slab |-> slab, at |-> at, size |-> sz]}
       /\ g_held' = g_held + 1

\* (A definition X_Y above a definition X is X with a plausible bug Y.)
Fits_NoSize(sz) == g_slab # 0 /\ g_ptr < SlabBytes
Fits(sz) == g_slab # 0 /\ g_ptr + sz < SlabBytes

\* do_alloc
AllocFast(sz) ==
  /\ Fits(sz)
  /\ HandOut(g_slab, g_ptr, sz)
  /\ g_ptr' = g_ptr + sz
  /\ UNCHANGED g_slab

\* do_alloc_slow
After_First(sz) == SlabHdr
After(sz) == SlabHdr + sz

AllocSlow(sz) ==
  /\ ~Fits(sz)
  /\ g_slab < MaxGangSlabs /\ SlabHdr + sz <= SlabBytes
  /\ g_slab' = g_slab + 1
  /\ HandOut(g_slab', SlabHdr, sz)
  /\ g_ptr' = After(sz)

\* Out of memory, or more than a slab holds: the slab just had is given back.
AllocFails(sz) == ~Fits(sz) /\ UNCHANGED vars

\* gang_free, and a new gang.
Free == g_slab' = 0 /\ g_ptr' = 0 /\ g_used' = {} /\ g_held' = 0

Next == (\E sz \in Sizes : AllocFast(sz) \/ AllocSlow(sz) \/ AllocFails(sz)) \/ Free

Spec == Init /\ [][Next]_vars

-----------------------------------------------------------------------------
(* Properties.                                                             *)

TypeOK ==
  /\ g_slab \in 0 .. MaxGangSlabs /\ g_ptr \in 0 .. SlabBytes
  /\ g_used \subseteq [slab : 1 .. g_slab, at : Nat, size : Sizes]
  /\ g_held \in Nat

\* A block handed out shares no byte with one handed out before.
Abstract == INSTANCE Allocator WITH out <- g_used, held <- g_held

ImplementsAllocator == Abstract!Spec

\* A block lies inside its slab, and after the slab's header.
InsideSlab == \A b \in g_used : SlabHdr <= b.at /\ b.at + b.size <= SlabBytes

=============================================================================
