------------------------------- MODULE Mpool -------------------------------
(***************************************************************************)
(* The pool of equal objects of src/src/mpool.c.  Objects are named by the *)
(* slab they lie in, the first being 1, and their index in it.  An object  *)
(* that is returned joins the free list, of which the newest comes first.  *)
(* A caller returns only what it was given, and nothing twice.             *)
(***************************************************************************)
EXTENDS Integers, Sequences

CONSTANTS
  ObjSize,    \* bytes of an object, at least those of a pointer
  SlabObjs,   \* objects of a slab, or 0 for as many as SlabAuto bytes hold
  SlabAuto,   \* 8192
  PoolHdr,    \* sizeof(struct _mpool_hdr)
  MaxSlabs,   \* bound: malloc fails after so many slabs
  MaxStray    \* bound: objects next_obj may go past the end of a slab

ASSUME MpoolAssumption ==
  /\ ObjSize \in Nat \ {0} /\ SlabAuto \in Nat \ {0}
  /\ SlabObjs \in Nat /\ PoolHdr \in Nat /\ MaxSlabs \in Nat /\ MaxStray \in Nat

VARIABLES
  slabs,      \* how many there are; the newest is the head of m->slabs
  next_obj,   \* index of the next object of the newest slab
  free,       \* the free list
  used,       \* the objects the caller has
  held        \* history: how many it was given and has not returned

vars == <<slabs, next_obj, free, used, held>>

\* slab_size of mpool_new.
SlabSize ==
  PoolHdr + (IF SlabObjs # 0 THEN SlabObjs * ObjSize
             ELSE IF ObjSize < SlabAuto THEN SlabAuto - (SlabAuto % ObjSize)
             ELSE 4 * ObjSize)

\* Where object k of a slab starts.
Offset(k) == PoolHdr + k * ObjSize

Init == slabs = 0 /\ next_obj = 0 /\ free = <<>> /\ used = {} /\ held = 0

-----------------------------------------------------------------------------
(* mpool_alloc.  (A definition X_Y above a definition X is X with a         *)
(* plausible bug Y; no specification uses it.)                              *)

\* A freed object first.
AllocFree ==
  /\ free # <<>>
  /\ used' = used \union {Head(free)} /\ held' = held + 1
  /\ free' = Tail(free)
  /\ UNCHANGED <<slabs, next_obj>>

\* Is there space in the newest slab?
Space_Strict == slabs # 0 /\ Offset(next_obj + 1) < SlabSize
Space_OffByOne == slabs # 0 /\ Offset(next_obj) <= SlabSize
Space == slabs # 0 /\ Offset(next_obj + 1) <= SlabSize

AllocNext ==
  /\ free = <<>> /\ Space
  /\ used' = used \union {<<slabs, next_obj>>} /\ held' = held + 1
  /\ next_obj' = next_obj + 1
  /\ UNCHANGED <<slabs, free>>

\* mpool_alloc_slow, which hands out the first object itself.
FirstNext_Zero == 0
FirstNext == 1

AllocSlab ==
  /\ free = <<>> /\ ~Space
  /\ slabs < MaxSlabs
  /\ slabs' = slabs + 1 /\ next_obj' = FirstNext
  /\ used' = used \union {<<slabs + 1, 0>>} /\ held' = held + 1
  /\ UNCHANGED free

\* Out of memory: next_obj has been moved past the end all the same.
AllocFails ==
  /\ free = <<>> /\ ~Space
  /\ IF slabs = 0 THEN UNCHANGED next_obj
     ELSE Offset(next_obj) <= SlabSize + MaxStray * ObjSize /\ next_obj' = next_obj + 1
  /\ UNCHANGED <<slabs, free, used, held>>

-----------------------------------------------------------------------------

\* mpool_return
Return(o) ==
  /\ free' = <<o>> \o free /\ used' = used \ {o} /\ held' = held - 1
  /\ UNCHANGED <<slabs, next_obj>>

\* mpool_free, and a new pool.
Free ==
  slabs' = 0 /\ next_obj' = 0 /\ free' = <<>> /\ used' = {} /\ held' = 0

Alloc == AllocFree \/ AllocNext \/ AllocSlab \/ AllocFails

Next == Alloc \/ (\E o \in used : Return(o)) \/ Free

Spec == Init /\ [][Next]_vars

-----------------------------------------------------------------------------
(* Properties.                                                             *)

Objects == (1 .. slabs) \X Nat

TypeOK ==
  /\ slabs \in 0 .. MaxSlabs /\ next_obj \in Nat
  /\ free \in Seq(Objects) /\ used \subseteq Objects /\ held \in Nat

Freed == {free[i] : i \in DOMAIN free}

\* Returning and reusing objects in any order, across slabs and failed
\* allocations, mpool_alloc never hands out a byte that is in use.
Block(o) == [slab |-> o[1], at |-> Offset(o[2]), size |-> ObjSize]

Abstract == INSTANCE Allocator WITH out <- {Block(o) : o \in used}

ImplementsAllocator == Abstract!Spec

\* Every object in use or on the free list ends inside its slab.
InsideSlab ==
  \A o \in used \union Freed : Offset(o[2] + 1) <= SlabSize

\* "mpool_alloc() scans before trying to commit further memory": a slab is
\* added only when every object that fits in those there are is in use.
Full ==
  \A s \in 1 .. slabs, k \in 0 .. SlabSize : Offset(k + 1) <= SlabSize => <<s, k>> \in used

GrowsWhenFull == [][slabs' > slabs => Full]_vars

=============================================================================
