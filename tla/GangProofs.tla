----------------------------- MODULE GangProofs -----------------------------
(***************************************************************************)
(* Proofs about Gang for every slab size and every set of sizes asked for: *)
(* blocks lie inside their slabs, and no byte is handed out twice.         *)
(***************************************************************************)
EXTENDS Gang, TLAPS

\* g_ptr is past everything cut from the newest slab.
Below ==
  /\ g_slab # 0 => SlabHdr <= g_ptr
  /\ \A b \in g_used : b.slab = g_slab => b.at + b.size <= g_ptr

GInv == TypeOK /\ InsideSlab /\ Below

-----------------------------------------------------------------------------

\* A new gang has no slab and no block.
LEMMA GInit == ASSUME GangAssumption, Init PROVE GInv
BY DEF GangAssumption, Init, GInv, TypeOK, InsideSlab, Below

\* What HandOut adds, and that it is the abstract allocator's step, for a
\* block that starts where everything in its slab has ended.
LEMMA HandOutStep ==
  ASSUME GangAssumption, GInv,
         NEW slab \in Nat \ {0}, NEW at \in Nat, NEW sz \in Sizes,
         slab = g_slab' /\ slab <= MaxGangSlabs,
         g_ptr' = at + sz, SlabHdr <= at, at + sz <= SlabBytes,
         (slab = g_slab /\ at = g_ptr) \/ slab = g_slab + 1,
         HandOut(slab, at, sz)
  PROVE  GInv' /\ [Abstract!Next]_(Abstract!vars)
<1> DEFINE b == [slab |-> slab, at |-> at, size |-> sz]
<1>1. sz \in Nat /\ SlabHdr \in Nat /\ SlabBytes \in Nat /\ MaxGangSlabs \in Nat
  BY DEF GangAssumption
<1>2. g_slab \in Nat /\ g_held \in Nat /\ g_used \subseteq [slab : 1 .. g_slab, at : Nat, size : Sizes]
  BY <1>1 DEF GInv, TypeOK
<1>3. \A c \in g_used : /\ c.slab \in 1 .. g_slab /\ c.at \in Nat /\ c.size \in Nat
                        /\ SlabHdr <= c.at /\ c.at + c.size <= SlabBytes
                        /\ c.slab = slab => c.at + c.size <= at
  <2> SUFFICES ASSUME NEW c \in g_used
               PROVE  /\ c.slab \in 1 .. g_slab /\ c.at \in Nat /\ c.size \in Nat
                      /\ SlabHdr <= c.at /\ c.at + c.size <= SlabBytes
                      /\ c.slab = slab => c.at + c.size <= at
    OBVIOUS
  <2>1. c.slab \in 1 .. g_slab /\ c.at \in Nat /\ c.size \in Nat
    BY <1>2 DEF GangAssumption
  <2>2. SlabHdr <= c.at /\ c.at + c.size <= SlabBytes
    BY DEF GInv, InsideSlab
  <2>3. c.slab = g_slab => c.at + c.size <= g_ptr
    BY DEF GInv, Below
  <2>4. slab = g_slab + 1 => c.slab # slab
    BY <1>2, <2>1
  <2> QED BY <2>1, <2>2, <2>3, <2>4
<1>4. /\ b \in [slab : 1 .. g_slab', at : Nat, size : Sizes]
      /\ b.slab = slab /\ b.at = at /\ b.size = sz
  OBVIOUS
<1> HIDE DEF b
<1>5. \/ /\ g_used' = g_used /\ g_held' = g_held
      \/ /\ g_used' = g_used \union {b} /\ g_held' = g_held + 1
  BY DEF HandOut, b
<1>6. g_used' \subseteq g_used \union {b} /\ g_held' \in Nat
  BY <1>2, <1>5
<1>7. TypeOK'
  <2>1. [slab : 1 .. g_slab, at : Nat, size : Sizes] \subseteq [slab : 1 .. g_slab', at : Nat, size : Sizes]
    <3>1. 1 .. g_slab \subseteq 1 .. g_slab'
      BY <1>2
    <3> QED BY <3>1
  <2>2. g_used' \subseteq [slab : 1 .. g_slab', at : Nat, size : Sizes]
    BY <1>2, <1>4, <1>6, <2>1
  <2> QED BY <1>1, <1>6, <2>2 DEF TypeOK
<1>8. InsideSlab'
  BY <1>3, <1>4, <1>6 DEF InsideSlab
<1>9. Below'
  BY <1>1, <1>3, <1>4, <1>6 DEF Below
<1>10. [Abstract!Next]_(Abstract!vars)
  <2>1. CASE g_used' = g_used /\ g_held' = g_held
    BY <2>1 DEF Abstract!vars
  <2>2. CASE g_used' = g_used \union {b} /\ g_held' = g_held + 1
    <3>1. \A c \in g_used : ~Abstract!Overlap(b, c)
      BY <1>1, <1>3, <1>4 DEF Abstract!Overlap
    <3> QED BY <2>2, <3>1 DEF Abstract!Allocate, Abstract!Next
  <2> QED BY <1>5, <2>1, <2>2
<1> QED BY <1>7, <1>8, <1>9, <1>10 DEF GInv

\* Every step keeps the invariant and is one of the abstract allocator's.
LEMMA GStep ==
  ASSUME GangAssumption, GInv, [Next]_vars PROVE GInv' /\ [Abstract!Next]_(Abstract!vars)
<1>1. /\ SlabHdr \in Nat /\ SlabBytes \in Nat /\ MaxGangSlabs \in Nat /\ Sizes \subseteq Nat
      /\ g_slab \in 0 .. MaxGangSlabs /\ g_ptr \in Nat
  BY DEF GangAssumption, GInv, TypeOK
<1>2. CASE UNCHANGED vars
  BY <1>2 DEF vars, GInv, TypeOK, InsideSlab, Below, Abstract!vars
<1>3. ASSUME NEW sz \in Sizes, AllocFast(sz)
      PROVE  GInv' /\ [Abstract!Next]_(Abstract!vars)
  <2>1. g_slab # 0 /\ g_ptr + sz < SlabBytes /\ HandOut(g_slab, g_ptr, sz)
        /\ g_ptr' = g_ptr + sz /\ g_slab' = g_slab
    BY <1>3 DEF AllocFast, Fits
  <2>2. SlabHdr <= g_ptr
    BY <2>1 DEF GInv, Below
  <2>3. g_slab \in Nat \ {0} /\ g_slab <= MaxGangSlabs /\ g_ptr + sz <= SlabBytes
    BY <1>1, <2>1
  <2> QED BY <1>1, <2>1, <2>2, <2>3, HandOutStep
<1>4. ASSUME NEW sz \in Sizes, AllocSlow(sz)
      PROVE  GInv' /\ [Abstract!Next]_(Abstract!vars)
  <2>1. g_slab < MaxGangSlabs /\ SlabHdr + sz <= SlabBytes /\ g_slab' = g_slab + 1
        /\ HandOut(g_slab', SlabHdr, sz) /\ g_ptr' = SlabHdr + sz
    BY <1>4 DEF AllocSlow, After
  <2>2. g_slab + 1 \in Nat \ {0} /\ g_slab + 1 <= MaxGangSlabs /\ SlabHdr <= SlabHdr
        /\ HandOut(g_slab + 1, SlabHdr, sz)
    BY <1>1, <2>1
  <2> QED BY <1>1, <2>1, <2>2, HandOutStep
<1>5. ASSUME NEW sz \in Sizes, AllocFails(sz)
      PROVE  GInv' /\ [Abstract!Next]_(Abstract!vars)
  BY <1>5 DEF AllocFails, vars, GInv, TypeOK, InsideSlab, Below, Abstract!vars
<1>6. CASE Free
  <2>1. GInv'
    BY <1>1, <1>6 DEF Free, GInv, TypeOK, InsideSlab, Below
  <2> QED BY <1>6, <2>1 DEF Free, Abstract!Next, Abstract!ReleaseAll
<1> QED BY <1>2, <1>3, <1>4, <1>5, <1>6 DEF Next

\* The gang's inductive invariant.
THEOREM GangInvariance == ASSUME GangAssumption PROVE Spec => []GInv
<1>1. Init => GInv BY GInit
<1>2. GInv /\ [Next]_vars => GInv' BY GStep
<1> QED BY <1>1, <1>2, PTL DEF Spec

\* A block lies inside its slab, and after the slab's header.
THEOREM GangInside == ASSUME GangAssumption PROVE Spec => []InsideSlab
<1>1. GInv => InsideSlab BY DEF GInv
<1> QED BY <1>1, GangInvariance, PTL

\* gang_alloc hands out no byte twice, whatever sizes are asked for and
\* whichever calls of malloc fail.
THEOREM GangRefines == ASSUME GangAssumption PROVE Spec => ImplementsAllocator
<1>1. Init => Abstract!Init
  BY DEF Init, Abstract!Init
<1>2. GInv /\ [Next]_vars => [Abstract!Next]_(Abstract!vars)
  BY GStep
<1> QED BY <1>1, <1>2, GangInvariance, PTL DEF Spec, ImplementsAllocator, Abstract!Spec

=============================================================================
