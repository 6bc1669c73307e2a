------------------------------ MODULE MCAlloc ------------------------------
(* TLC instance of Mpool and Gang side by side, as struct _emv has one of   *)
(* each: every interleaving of their operations, with unrelated failures.   *)
EXTENDS Mpool

CONSTANTS SlabBytes, SlabHdr, Sizes, MaxGangSlabs
VARIABLES g_slab, g_ptr, g_used, g_held

G == INSTANCE Gang

ASSUME GangSizes == G!GangAssumption

BothInit == Init /\ G!Init

BothNext == (Next /\ UNCHANGED <<g_slab, g_ptr, g_used, g_held>>) \/ (G!Next /\ UNCHANGED vars)

BothSpec == BothInit /\ [][BothNext]_<<vars, g_slab, g_ptr, g_used, g_held>>

\* Both keep their types.
BothTypeOK == TypeOK /\ G!TypeOK

\* The gang hands out no byte twice (see Gang).
GangImplementsAllocator == G!ImplementsAllocator

\* The gang's blocks lie inside their slabs (see Gang).
GangInsideSlab == G!InsideSlab
=============================================================================
