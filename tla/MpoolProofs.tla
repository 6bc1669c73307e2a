---------------------------- MODULE MpoolProofs ----------------------------
(***************************************************************************)
(* Proofs about Mpool for every object size, slab size and history of      *)
(* allocations, returns and failures: no byte is handed out twice.  At the *)
(* end, the pool and the gang of a session side by side (MCAlloc).         *)
(***************************************************************************)
EXTENDS MCAlloc, SequenceTheorems, FiniteSetTheorems, TLAPS

\* Where objects lie: inside a slab, below next_obj in the newest one.
Placed ==
  \A o \in used \union Freed :
    Offset(o[2] + 1) <= SlabSize /\ (o[1] = slabs => o[2] < next_obj)

\* An object is on the free list once, or in use, or neither.
Distinct ==
  /\ \A i, j \in DOMAIN free : free[i] = free[j] => i = j
  /\ \A i \in DOMAIN free : free[i] \notin used

\* Every object that was ever cut from a slab is in use or on the free list.
Handed ==
  \A s \in 1 .. slabs, k \in Nat :
    Offset(k + 1) <= SlabSize /\ (s = slabs => k < next_obj)
      => <<s, k>> \in used \union Freed

\* The caller has as many different objects as it was given.
Counted == IsFiniteSet(used) /\ held = Cardinality(used)

PInv == TypeOK /\ Placed /\ Distinct /\ Handed /\ Counted

-----------------------------------------------------------------------------
(* Offsets.                                                                *)

\* Division with remainder, of a dividend no smaller than the divisor.
LEMMA Quotient ==
  ASSUME NEW S \in Nat \ {0}, NEW a \in Nat, S <= a
  PROVE  a - (a % S) \in Nat /\ S <= a - (a % S)
<1> DEFINE q == a \div S
           r == a % S
<1>1. q \in Nat /\ r \in 0 .. S - 1 /\ a = S * q + r
  OBVIOUS
<1> HIDE DEF q, r
<1>2. q # 0
  BY <1>1
<1>3. PICK d \in Nat : q = d + 1
  <2>1. q - 1 \in Nat /\ q = (q - 1) + 1
    BY <1>1, <1>2
  <2> QED BY <2>1
<1>4. S * q = S * d + S /\ S * d \in Nat
  BY <1>3
<1>5. a - r \in Nat /\ S <= a - r
  BY <1>1, <1>4
<1> QED BY <1>5 DEF r

\* A later object starts where an earlier one has ended, or after.
LEMMA OffsetsApart ==
  ASSUME NEW k \in Nat, NEW j \in Nat, k < j
  PROVE  /\ Offset(k) \in Nat /\ Offset(j) \in Nat
         /\ Offset(k) + ObjSize <= Offset(j)
<1>1. PICK d \in Nat : j = k + 1 + d
  <2>1. j - k - 1 \in Nat /\ j = k + 1 + (j - k - 1)
    OBVIOUS
  <2> QED BY <2>1
<1>2. j * ObjSize = k * ObjSize + ObjSize + d * ObjSize
  BY <1>1, MpoolAssumption
<1>3. k * ObjSize \in Nat /\ d * ObjSize \in Nat
  BY MpoolAssumption
<1> QED BY <1>2, <1>3, MpoolAssumption DEF Offset

\* An object ends where the next one starts.
LEMMA OffsetNext ==
  ASSUME NEW k \in Nat
  PROVE  Offset(k + 1) = Offset(k) + ObjSize /\ Offset(k) \in Nat
BY MpoolAssumption DEF Offset

\* slab_size leaves room for an object, whatever mpool_new is asked for.
LEMMA FirstFits == SlabSize \in Nat /\ Offset(1) <= SlabSize
<1>1. Offset(1) = PoolHdr + ObjSize
  BY MpoolAssumption DEF Offset
<1>2. CASE SlabObjs # 0
  <2>1. SlabObjs * ObjSize >= ObjSize /\ SlabObjs * ObjSize \in Nat
    BY <1>2, MpoolAssumption
  <2> QED BY <1>1, <1>2, <2>1, MpoolAssumption DEF SlabSize
<1>3. CASE SlabObjs = 0 /\ ObjSize < SlabAuto
  <2>1. SlabAuto - (SlabAuto % ObjSize) \in Nat /\ ObjSize <= SlabAuto - (SlabAuto % ObjSize)
    BY <1>3, Quotient, MpoolAssumption
  <2> QED BY <1>1, <1>3, <2>1, MpoolAssumption DEF SlabSize
<1>4. CASE SlabObjs = 0 /\ ~(ObjSize < SlabAuto)
  BY <1>1, <1>4, MpoolAssumption DEF SlabSize
<1> QED BY <1>2, <1>3, <1>4

\* Different objects share no byte.
LEMMA BlocksApart ==
  ASSUME NEW o \in Nat \X Nat, NEW p \in Nat \X Nat, o # p
  PROVE  ~Abstract!Overlap(Block(o), Block(p)) /\ Block(o) # Block(p)
<1>1. CASE o[1] # p[1]
  BY <1>1 DEF Abstract!Overlap, Block
<1>2. CASE o[1] = p[1]
  <2>1. o[2] # p[2] /\ o[2] \in Nat /\ p[2] \in Nat
    BY <1>2
  <2>2. o[2] < p[2] \/ p[2] < o[2]
    BY <2>1
  <2>3. /\ Offset(o[2]) \in Nat /\ Offset(p[2]) \in Nat
        /\ \/ Offset(o[2]) + ObjSize <= Offset(p[2])
           \/ Offset(p[2]) + ObjSize <= Offset(o[2])
    BY <2>1, <2>2, OffsetsApart
  <2> QED BY <2>3, MpoolAssumption DEF Abstract!Overlap, Block
<1> QED BY <1>1, <1>2

-----------------------------------------------------------------------------
(* The free list.                                                          *)

\* What is left of the free list when its head is taken.
LEMMA FreeHead ==
  ASSUME NEW S, free \in Seq(S), free # <<>>,
         \A i, j \in DOMAIN free : free[i] = free[j] => i = j
  PROVE  /\ Head(free) = free[1] /\ 1 \in DOMAIN free
         /\ Tail(free) \in Seq(S)
         /\ \A i \in DOMAIN Tail(free) : i + 1 \in DOMAIN free /\ Tail(free)[i] = free[i + 1]
         /\ Freed = {Head(free)} \union {Tail(free)[i] : i \in DOMAIN Tail(free)}
<1>1. /\ Len(free) \in Nat /\ Len(free) > 0 /\ DOMAIN free = 1 .. Len(free)
      /\ Head(free) = free[1]
      /\ Tail(free) \in Seq(S) /\ Len(Tail(free)) = Len(free) - 1
      /\ \A i \in 1 .. Len(Tail(free)) : Tail(free)[i] = free[i + 1]
  BY HeadTailProperties, EmptySeq
<1>2. DOMAIN Tail(free) = 1 .. Len(free) - 1
  BY <1>1
<1>3. \A i \in DOMAIN free : i = 1 \/ (i - 1 \in DOMAIN Tail(free) /\ Tail(free)[i - 1] = free[i])
  BY <1>1, <1>2
<1> QED BY <1>1, <1>2, <1>3 DEF Freed

\* What mpool_return makes of it.
LEMMA FreeCons ==
  ASSUME NEW S, free \in Seq(S), NEW o \in S
  PROVE  LET new == <<o>> \o free IN
         /\ new \in Seq(S) /\ DOMAIN new = 1 .. Len(free) + 1
         /\ new[1] = o
         /\ \A i \in 2 .. Len(free) + 1 : i - 1 \in DOMAIN free /\ new[i] = free[i - 1]
         /\ {new[i] : i \in DOMAIN new} = {o} \union Freed
<1> DEFINE new == <<o>> \o free
<1>1. /\ new \in Seq(S) /\ Len(new) = Len(free) + 1 /\ Len(free) \in Nat
      /\ new[1] = o
      /\ \A i \in 2 .. Len(free) + 1 : i - 1 \in DOMAIN free /\ new[i] = free[i - 1]
  OBVIOUS
<1>2. DOMAIN new = 1 .. Len(free) + 1
  BY <1>1
<1>3. \A i \in DOMAIN free : i + 1 \in 2 .. Len(free) + 1 /\ new[i + 1] = free[i]
  BY <1>1
<1> HIDE DEF new
<1>4. {new[i] : i \in DOMAIN new} \subseteq {o} \union Freed
  BY <1>1, <1>2 DEF Freed
<1>5. {o} \union Freed \subseteq {new[i] : i \in DOMAIN new}
  <2>1. \A i \in DOMAIN free : i + 1 \in DOMAIN new /\ new[i + 1] = free[i]
    BY <1>1, <1>2, <1>3
  <2>2. 1 \in DOMAIN new
    BY <1>1, <1>2
  <2> QED BY <1>1, <2>1, <2>2 DEF Freed
<1> QED BY <1>1, <1>2, <1>4, <1>5 DEF new

-----------------------------------------------------------------------------
(* Every operation keeps the invariant.                                    *)

\* Handing out an object that is not in use keeps the count.
LEMMA CountUp ==
  ASSUME Counted, NEW o, o \notin used, used' = used \union {o}, held' = held + 1
  PROVE  Counted'
<1>1. IsFiniteSet(used') /\ Cardinality(used') = Cardinality(used) + 1
  BY FS_AddElement DEF Counted
<1> QED BY <1>1 DEF Counted

\* A freed object changes hands; used and free list together stay the same.
LEMMA AllocFreeStep == ASSUME PInv, AllocFree PROVE PInv'
<1> DEFINE o == Head(free)
<1>1. /\ free # <<>> /\ used' = used \union {o} /\ held' = held + 1
      /\ free' = Tail(free) /\ slabs' = slabs /\ next_obj' = next_obj
  BY DEF AllocFree
<1>2. /\ o = free[1] /\ 1 \in DOMAIN free
      /\ Tail(free) \in Seq(Objects)
      /\ \A i \in DOMAIN Tail(free) : i + 1 \in DOMAIN free /\ Tail(free)[i] = free[i + 1]
      /\ Freed = {o} \union {Tail(free)[i] : i \in DOMAIN Tail(free)}
  BY <1>1, FreeHead DEF PInv, TypeOK, Distinct
<1>3. o \in Objects
  BY <1>2 DEF PInv, TypeOK
<1>4. Freed' = {Tail(free)[i] : i \in DOMAIN Tail(free)}
  BY <1>1 DEF Freed
<1> HIDE DEF o
<1>5. used' \union Freed' = used \union Freed
  BY <1>1, <1>2, <1>4
<1>6. TypeOK'
  BY <1>1, <1>2, <1>3 DEF PInv, TypeOK, Objects
<1>7. Placed'
  BY <1>1, <1>5 DEF PInv, Placed
<1>8. Distinct'
  <2>1. \A i \in DOMAIN Tail(free) : i \in Nat /\ i + 1 # 1
    BY <1>2, LenProperties
  <2>2. \A i \in DOMAIN Tail(free) : Tail(free)[i] # o
    BY <1>2, <2>1 DEF PInv, Distinct
  <2>3. \A i, j \in DOMAIN Tail(free) : Tail(free)[i] = Tail(free)[j] => i = j
    BY <1>2, <2>1 DEF PInv, Distinct
  <2> QED BY <1>1, <1>2, <2>2, <2>3 DEF PInv, Distinct
<1>9. Handed'
  BY <1>1, <1>5 DEF PInv, Handed
<1>10. o \notin used
  BY <1>2 DEF PInv, Distinct
<1>11. Counted'
  BY <1>1, <1>10, CountUp DEF PInv
<1> QED BY <1>6, <1>7, <1>8, <1>9, <1>11 DEF PInv

\* The object at next_obj is a new one.
LEMMA AllocNextStep == ASSUME PInv, AllocNext PROVE PInv' /\ <<slabs, next_obj>> \notin used
<1> DEFINE o == <<slabs, next_obj>>
<1>1. /\ free = <<>> /\ slabs # 0 /\ Offset(next_obj + 1) <= SlabSize
      /\ used' = used \union {o} /\ held' = held + 1 /\ next_obj' = next_obj + 1
      /\ slabs' = slabs /\ free' = <<>>
  BY DEF AllocNext, Space
<1>2. slabs \in Nat /\ next_obj \in Nat /\ o[1] = slabs /\ o[2] = next_obj /\ o \in Objects
  BY <1>1 DEF PInv, TypeOK, Objects
<1> HIDE DEF o
<1>3. Freed = {} /\ Freed' = {}
  BY <1>1 DEF Freed
<1>4. o \notin used
  BY <1>2 DEF PInv, Placed
<1>5. TypeOK'
  BY <1>1, <1>2 DEF PInv, TypeOK, Objects
<1>6. Placed'
  <2>1. \A p \in used : p[2] \in Nat
    BY DEF PInv, TypeOK, Objects
  <2> QED BY <1>1, <1>2, <1>3, <2>1 DEF PInv, Placed
<1>7. Distinct'
  BY <1>1 DEF Distinct
<1>8. Handed'
  <2> SUFFICES ASSUME NEW s \in 1 .. slabs, NEW k \in Nat,
                      Offset(k + 1) <= SlabSize, s = slabs => k < next_obj + 1
               PROVE  <<s, k>> \in used \union {o}
    BY <1>1 DEF Handed
  <2>1. CASE s = slabs /\ k = next_obj
    BY <2>1 DEF o
  <2>2. CASE s = slabs => k < next_obj
    BY <1>3, <2>2 DEF PInv, Handed
  <2> QED BY <1>2, <2>1, <2>2
<1>9. Counted'
  BY <1>1, <1>4, CountUp DEF PInv
<1> QED BY <1>4, <1>5, <1>6, <1>7, <1>8, <1>9 DEF PInv, o

\* Without space in the newest slab, all that fits there has been handed out.
LEMMA NoSpace ==
  ASSUME PInv, ~Space, NEW s \in 1 .. slabs, NEW k \in Nat, Offset(k + 1) <= SlabSize
  PROVE  <<s, k>> \in used \union Freed
<1>1. slabs # 0 /\ next_obj \in Nat /\ slabs \in Nat
  BY DEF PInv, TypeOK
<1>2. ~(Offset(next_obj + 1) <= SlabSize)
  BY <1>1 DEF Space
<1>3. k < next_obj
  <2> SUFFICES ASSUME next_obj <= k PROVE FALSE
    BY <1>1
  <2>1. next_obj + 1 = k + 1 \/ next_obj + 1 < k + 1
    BY <1>1
  <2>2. Offset(next_obj + 1) \in Nat /\ Offset(k + 1) \in Nat
    BY <1>1, OffsetNext, next_obj + 1 \in Nat, k + 1 \in Nat
  <2>3. Offset(next_obj + 1) <= Offset(k + 1)
    <3>1. CASE next_obj + 1 = k + 1
      BY <2>2, <3>1
    <3>2. CASE next_obj + 1 < k + 1
      <4>1. Offset(next_obj + 1) + ObjSize <= Offset(k + 1)
        BY <1>1, <3>2, OffsetsApart, next_obj + 1 \in Nat, k + 1 \in Nat
      <4> QED BY <2>2, <4>1, MpoolAssumption
    <3> QED BY <2>1, <3>1, <3>2
  <2> QED BY <1>2, <2>2, <2>3, FirstFits
<1> QED BY <1>3 DEF PInv, Handed

\* The first object of a new slab is a new one, and fits.
LEMMA AllocSlabStep == ASSUME PInv, AllocSlab PROVE PInv' /\ <<slabs + 1, 0>> \notin used
<1> DEFINE o == <<slabs + 1, 0>>
<1>1. /\ free = <<>> /\ ~Space /\ slabs < MaxSlabs
      /\ slabs' = slabs + 1 /\ next_obj' = 1
      /\ used' = used \union {o} /\ held' = held + 1 /\ free' = <<>>
  BY DEF AllocSlab, FirstNext
<1>2. slabs \in Nat /\ o[1] = slabs + 1 /\ o[2] = 0 /\ o \in (1 .. slabs + 1) \X Nat
  BY DEF PInv, TypeOK
<1> HIDE DEF o
<1>3. Freed = {} /\ Freed' = {}
  BY <1>1 DEF Freed
<1>4. \A p \in used : p \in (1 .. slabs) \X Nat /\ p[1] # slabs + 1 /\ p[1] \in 1 .. slabs
  BY <1>2 DEF PInv, TypeOK, Objects
<1>5. o \notin used
  BY <1>2, <1>4
<1>6. TypeOK'
  <2>1. used' \subseteq (1 .. slabs + 1) \X Nat
    BY <1>1, <1>2, <1>4
  <2> QED BY <1>1, <1>2, <2>1, MpoolAssumption DEF PInv, TypeOK, Objects
<1>7. Placed'
  BY <1>1, <1>2, <1>3, <1>4, FirstFits DEF PInv, Placed
<1>8. Distinct'
  BY <1>1 DEF Distinct
<1>9. Handed'
  <2> SUFFICES ASSUME NEW s \in 1 .. slabs + 1, NEW k \in Nat,
                      Offset(k + 1) <= SlabSize, s = slabs + 1 => k < 1
               PROVE  <<s, k>> \in used \union {o}
    BY <1>1 DEF Handed
  <2>1. CASE s = slabs + 1
    BY <2>1 DEF o
  <2>2. CASE s \in 1 .. slabs
    BY <1>1, <1>3, <2>2, NoSpace
  <2> QED BY <1>2, <2>1, <2>2
<1>10. Counted'
  BY <1>1, <1>5, CountUp DEF PInv
<1> QED BY <1>5, <1>6, <1>7, <1>8, <1>9, <1>10 DEF PInv, o

\* A failed allocation hands out nothing and loses nothing.
LEMMA AllocFailsStep == ASSUME PInv, AllocFails PROVE PInv'
<1>1. /\ free = <<>> /\ ~Space /\ UNCHANGED <<slabs, free, used, held>>
      /\ next_obj' \in {next_obj, next_obj + 1}
  BY DEF AllocFails
<1>2. next_obj \in Nat /\ \A o \in used \union Freed : o[2] \in Nat
  BY <1>1 DEF PInv, TypeOK, Objects, Freed
<1>3. Freed' = Freed
  BY <1>1 DEF Freed
<1>4. TypeOK'
  BY <1>1, <1>2 DEF PInv, TypeOK, Objects
<1>5. Placed'
  BY <1>1, <1>2, <1>3 DEF PInv, Placed
<1>6. Distinct'
  BY <1>1 DEF PInv, Distinct
<1>7. Handed'
  BY <1>1, <1>3, NoSpace DEF Handed
<1>8. Counted'
  BY <1>1 DEF PInv, Counted
<1> QED BY <1>4, <1>5, <1>6, <1>7, <1>8 DEF PInv

\* An object that is returned was in use, so not on the free list.
LEMMA ReturnStep == ASSUME PInv, NEW o \in used, Return(o) PROVE PInv'
<1>1. /\ free' = <<o>> \o free /\ used' = used \ {o} /\ held' = held - 1
      /\ slabs' = slabs /\ next_obj' = next_obj
  BY DEF Return
<1>2. o \in Objects /\ free \in Seq(Objects) /\ Len(free) \in Nat /\ DOMAIN free = 1 .. Len(free)
  BY DEF PInv, TypeOK
<1>3. /\ free' \in Seq(Objects) /\ DOMAIN free' = 1 .. Len(free) + 1 /\ free'[1] = o
      /\ \A i \in 2 .. Len(free) + 1 : i - 1 \in DOMAIN free /\ free'[i] = free[i - 1]
      /\ Freed' = {o} \union Freed
  <2> DEFINE new == <<o>> \o free
  <2>1. /\ new \in Seq(Objects) /\ DOMAIN new = 1 .. Len(free) + 1 /\ new[1] = o
        /\ \A i \in 2 .. Len(free) + 1 : i - 1 \in DOMAIN free /\ new[i] = free[i - 1]
        /\ {new[i] : i \in DOMAIN new} = {o} \union Freed
    BY <1>2, FreeCons
  <2>2. free' = new
    BY <1>1
  <2>3. Freed' = {new[i] : i \in DOMAIN new}
    BY <2>2 DEF Freed
  <2> HIDE DEF new
  <2> QED BY <2>1, <2>2, <2>3
<1>4. used' \union Freed' = used \union Freed
  BY <1>1, <1>3
<1>9. Counted' /\ held - 1 \in Nat
  <2>1. /\ IsFiniteSet(used') /\ Cardinality(used') = Cardinality(used) - 1
        /\ Cardinality(used') \in Nat
    BY <1>1, FS_RemoveElement, FS_CardinalityType DEF PInv, Counted
  <2> QED BY <1>1, <2>1 DEF PInv, Counted
<1>5. TypeOK'
  BY <1>1, <1>3, <1>9 DEF PInv, TypeOK, Objects
<1>6. Placed'
  BY <1>1, <1>4 DEF PInv, Placed
<1>7. Distinct'
  <2>1. \A i \in 2 .. Len(free) + 1 : free'[i] # o /\ free'[i] \notin used
    BY <1>3 DEF PInv, Distinct
  <2>2. \A i, j \in 2 .. Len(free) + 1 : free'[i] = free'[j] => i = j
    <3> SUFFICES ASSUME NEW i \in 2 .. Len(free) + 1, NEW j \in 2 .. Len(free) + 1,
                        free'[i] = free'[j]
                 PROVE  i = j
      OBVIOUS
    <3>1. i - 1 = j - 1
      BY <1>3 DEF PInv, Distinct
    <3> QED BY <1>2, <3>1
  <2>3. \A i \in DOMAIN free' : i = 1 \/ i \in 2 .. Len(free) + 1
    BY <1>2, <1>3
  <2>4. \A i, j \in DOMAIN free' : free'[i] = free'[j] => i = j
    BY <1>3, <2>1, <2>2, <2>3
  <2>5. \A i \in DOMAIN free' : free'[i] \notin used'
    BY <1>1, <1>3, <2>1, <2>3
  <2> QED BY <2>4, <2>5 DEF Distinct
<1>8. Handed'
  BY <1>1, <1>4 DEF PInv, Handed
<1> QED BY <1>5, <1>6, <1>7, <1>8, <1>9 DEF PInv

\* A new pool has no slab and no object.
LEMMA PInit == ASSUME slabs = 0, next_obj = 0, free = <<>>, used = {}, held = 0 PROVE PInv
<1>1. Freed = {} /\ free \in Seq(Objects)
  BY DEF Freed
<1>2. Counted
  BY FS_EmptySet DEF Counted
<1> QED BY <1>1, <1>2, MpoolAssumption
        DEF PInv, TypeOK, Placed, Distinct, Handed

\* The same of the state a pool is left in by mpool_free.
LEMMA FreeStep == ASSUME Free PROVE PInv'
<1>1. Freed' = {} /\ free' \in Seq(Objects')
  BY DEF Free, Freed
<1>2. Counted'
  BY FS_EmptySet DEF Free, Counted
<1> QED BY <1>1, <1>2, MpoolAssumption
        DEF Free, PInv, TypeOK, Placed, Distinct, Handed

\* Every operation of the pool keeps the invariant.
LEMMA PStep == ASSUME PInv, [Next]_vars PROVE PInv'
<1>1. CASE UNCHANGED vars
  BY <1>1 DEF vars, PInv, TypeOK, Objects, Placed, Distinct, Handed, Counted, Freed
<1>2. CASE Alloc
  BY <1>2, AllocFreeStep, AllocNextStep, AllocSlabStep, AllocFailsStep DEF Alloc
<1>3. ASSUME NEW o \in used, Return(o) PROVE PInv'
  BY <1>3, ReturnStep
<1>4. CASE Free
  BY <1>4, FreeStep
<1> QED BY <1>1, <1>2, <1>3, <1>4 DEF Next

\* The pool's inductive invariant.
THEOREM PoolInvariance == Spec => []PInv
<1>1. Init => PInv BY PInit DEF Init
<1>2. PInv /\ [Next]_vars => PInv' BY PStep
<1> QED BY <1>1, <1>2, PTL DEF Spec

\* TypeOK of the pool.
THEOREM PoolType == Spec => []TypeOK
BY PoolInvariance, PTL DEF PInv

\* Every object in use or on the free list ends inside its slab.
THEOREM PoolInside == Spec => []InsideSlab
<1>1. PInv => InsideSlab
  BY DEF PInv, Placed, InsideSlab
<1> QED BY <1>1, PoolInvariance, PTL

\* mpool_alloc calls malloc only when every object there is is in use.
THEOREM PoolGrows == Spec => GrowsWhenFull
<1>1. ASSUME PInv, [Next]_vars PROVE slabs' > slabs => Full
  <2>1. slabs \in Nat
    BY <1>1 DEF PInv, TypeOK
  <2>2. slabs' > slabs => AllocSlab
    <3>1. UNCHANGED vars \/ AllocFree \/ AllocNext \/ AllocFails => slabs' = slabs
      BY DEF vars, AllocFree, AllocNext, AllocFails
    <3>2. (\E o \in used : Return(o)) => slabs' = slabs
      BY DEF Return
    <3>3. Free => slabs' = 0
      BY DEF Free
    <3>4. UNCHANGED vars \/ AllocFree \/ AllocNext \/ AllocSlab \/ AllocFails
            \/ (\E o \in used : Return(o)) \/ Free
      BY <1>1 DEF Next, Alloc
    <3>5. slabs' = slabs \/ slabs' = 0 => ~(slabs' > slabs)
      BY <2>1
    <3> QED BY <3>1, <3>2, <3>3, <3>4, <3>5
  <2>3. ASSUME AllocSlab PROVE Full
    <3>1. free = <<>> /\ ~Space /\ Freed = {}
      BY <2>3 DEF AllocSlab, Freed
    <3>2. SlabSize \in Nat
      BY FirstFits
    <3> QED BY <1>1, <3>1, <3>2, NoSpace DEF Full
  <2> QED BY <2>2, <2>3
<1>2. PInv /\ [Next]_vars => [slabs' > slabs => Full]_vars
  BY <1>1
<1> QED BY <1>2, PoolInvariance, PTL DEF Spec, GrowsWhenFull

-----------------------------------------------------------------------------
(* The refinement.                                                         *)

\* The blocks in use.
Out == {Block(o) : o \in used}

\* An object that was not in use is a block apart from those that were.
LEMMA HandsOut ==
  ASSUME PInv, NEW o \in Nat \X Nat, o \notin used,
         used' = used \union {o}, held' = held + 1
  PROVE  Abstract!Allocate
<1>1. {Block(p) : p \in used'} = Out \union {Block(o)}
  BY DEF Out
<1>2. \A c \in Out : ~Abstract!Overlap(Block(o), c)
  <2> SUFFICES ASSUME NEW p \in used PROVE ~Abstract!Overlap(Block(o), Block(p))
    BY DEF Out
  <2>1. p \in Nat \X Nat /\ o # p
    BY DEF PInv, TypeOK, Objects
  <2> QED BY <2>1, BlocksApart
<1> QED BY <1>1, <1>2 DEF Abstract!Allocate, Out, Block

\* An object that is returned takes its block with it, and no other.
LEMMA TakesBack ==
  ASSUME PInv, NEW o \in used, used' = used \ {o}, held' = held - 1
  PROVE  Abstract!Release
<1>1. \A p \in used : p \in Nat \X Nat
  BY DEF PInv, TypeOK, Objects
<1>2. \A p \in used : p # o => Block(p) # Block(o)
  BY <1>1, BlocksApart
<1>3. {Block(p) : p \in used'} = Out \ {Block(o)} /\ Block(o) \in Out
  BY <1>2 DEF Out
<1> QED BY <1>3 DEF Abstract!Release, Out, Block

\* An mpool_alloc that succeeds hands out what was free, and one that fails nothing.
LEMMA AllocRefines == ASSUME PInv, Alloc PROVE [Abstract!Next]_(Abstract!vars)
<1>1. slabs \in Nat /\ next_obj \in Nat /\ \A o \in Objects : o \in Nat \X Nat
  BY DEF PInv, TypeOK, Objects
<1>2. CASE AllocFree
  <2>1. Head(free) \in Objects /\ Head(free) \notin used
    BY <1>2, FreeHead DEF AllocFree, PInv, TypeOK, Distinct
  <2>2. Abstract!Allocate
    BY <1>1, <1>2, <2>1, HandsOut DEF AllocFree
  <2> QED BY <2>2 DEF Abstract!Next
<1>3. CASE AllocNext
  <2>1. Abstract!Allocate
    BY <1>1, <1>3, AllocNextStep, HandsOut DEF AllocNext
  <2> QED BY <2>1 DEF Abstract!Next
<1>4. CASE AllocSlab
  <2>1. <<slabs + 1, 0>> \in Nat \X Nat
    BY <1>1
  <2>2. Abstract!Allocate
    BY <1>4, <2>1, AllocSlabStep, HandsOut DEF AllocSlab
  <2> QED BY <2>2 DEF Abstract!Next
<1>5. CASE AllocFails
  BY <1>5 DEF AllocFails, Abstract!vars
<1> QED BY <1>2, <1>3, <1>4, <1>5 DEF Alloc

\* mpool_alloc hands out no byte that is in use, whatever is returned and
\* reused in whatever order, and whichever calls of malloc fail.
THEOREM PoolRefines == Spec => ImplementsAllocator
<1>1. Init => Abstract!Init
  BY DEF Init, Abstract!Init
<1>2. ASSUME PInv, [Next]_vars PROVE [Abstract!Next]_(Abstract!vars)
  <2>1. CASE UNCHANGED vars
    BY <2>1 DEF vars, Abstract!vars
  <2>2. CASE Alloc
    BY <1>2, <2>2, AllocRefines
  <2>3. ASSUME NEW o \in used, Return(o) PROVE [Abstract!Next]_(Abstract!vars)
    <3>1. Abstract!Release
      BY <1>2, <2>3, TakesBack DEF Return
    <3> QED BY <3>1 DEF Abstract!Next
  <2>4. CASE Free
    BY <2>4 DEF Free, Abstract!Next, Abstract!ReleaseAll
  <2> QED BY <1>2, <2>1, <2>2, <2>3, <2>4 DEF Next
<1>3. PInv /\ [Next]_vars => [Abstract!Next]_(Abstract!vars)
  BY <1>2
<1> QED BY <1>1, <1>3, PoolInvariance, PTL DEF Spec, ImplementsAllocator, Abstract!Spec

-----------------------------------------------------------------------------
(* The pool and the gang side by side.  What GangProofs proves of a gang   *)
(* holds of this one.                                                      *)
GP == INSTANCE GangProofs

\* A pool beside a gang behaves as it does alone.
LEMMA PoolHalf == BothSpec => Spec
<1>1. BothInit => Init
  BY DEF BothInit
<1>2. [BothNext]_<<vars, g_slab, g_ptr, g_used, g_held>> => [Next]_vars
  BY DEF BothNext
<1> QED BY <1>1, <1>2, PTL DEF BothSpec, Spec

\* A gang beside a pool behaves as it does alone.
LEMMA GangHalf == BothSpec => GP!Spec
<1>1. BothInit => GP!Init
  BY DEF BothInit, G!Init, GP!Init
<1>2. G!Next => GP!Next
  <2>1. \A sz \in Sizes : /\ (G!AllocFast(sz) => GP!AllocFast(sz))
                         /\ (G!AllocSlow(sz) => GP!AllocSlow(sz))
                         /\ (G!AllocFails(sz) => GP!AllocFails(sz))
    BY DEF G!AllocFast, GP!AllocFast, G!AllocSlow, GP!AllocSlow, G!AllocFails, GP!AllocFails,
           G!Fits, GP!Fits, G!HandOut, GP!HandOut, G!After, GP!After, G!vars, GP!vars
  <2>2. G!Free => GP!Free
    BY DEF G!Free, GP!Free
  <2> QED BY <2>1, <2>2 DEF G!Next, GP!Next
<1>3. [BothNext]_<<vars, g_slab, g_ptr, g_used, g_held>> => [GP!Next]_(GP!vars)
  BY <1>2 DEF BothNext, GP!vars
<1> QED BY <1>1, <1>3, PTL DEF BothSpec, GP!Spec

\* The gang of the two has the sizes the gang's proofs assume.
LEMMA GangConstants == GP!GangAssumption
BY GangSizes DEF G!GangAssumption, GP!GangAssumption

\* Pool and gang keep their types, however their operations interleave.
THEOREM BothTypes == BothSpec => []BothTypeOK
<1>1. Spec => []TypeOK
  <2>1. PInv => TypeOK BY DEF PInv
  <2> QED BY <2>1, PoolInvariance, PTL
<1>2. GP!Spec => []GP!GInv
  BY GangConstants, GP!GangInvariance
<1>3. TypeOK /\ GP!GInv => BothTypeOK
  BY DEF BothTypeOK, GP!GInv, GP!TypeOK, G!TypeOK
<1> QED BY <1>1, <1>2, <1>3, PoolHalf, GangHalf, PTL

\* Every block of the gang lies inside its slab, after the slab's header.
THEOREM BothGangInside == BothSpec => []GangInsideSlab
<1>1. GP!Spec => []GP!InsideSlab
  BY GangConstants, GP!GangInside
<1>2. GP!InsideSlab => GangInsideSlab
  BY DEF GP!InsideSlab, GangInsideSlab, G!InsideSlab
<1> QED BY <1>1, <1>2, GangHalf, PTL

\* The gang hands out no byte twice beside a pool that allocates and returns.
THEOREM BothGangRefines == BothSpec => GangImplementsAllocator
<1>1. GP!Spec => GP!ImplementsAllocator
  BY GangConstants, GP!GangRefines
<1>2. GP!Abstract!Init => G!Abstract!Init
  BY DEF GP!Abstract!Init, G!Abstract!Init
<1>3. [GP!Abstract!Next]_(GP!Abstract!vars) => [G!Abstract!Next]_(G!Abstract!vars)
  BY DEF GP!Abstract!Next, G!Abstract!Next, GP!Abstract!vars, G!Abstract!vars,
         GP!Abstract!Allocate, G!Abstract!Allocate, GP!Abstract!Release, G!Abstract!Release,
         GP!Abstract!ReleaseAll, G!Abstract!ReleaseAll,
         GP!Abstract!Overlap, G!Abstract!Overlap
<1> QED BY <1>1, <1>2, <1>3, GangHalf, PTL
        DEF GP!ImplementsAllocator, GP!Abstract!Spec, GangImplementsAllocator,
            G!ImplementsAllocator, G!Abstract!Spec

=============================================================================
