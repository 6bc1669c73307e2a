--------------------------- MODULE BindingsProofs ---------------------------
(***************************************************************************)
(* Proofs about Bindings and the readers of Device below it, for any set   *)
(* of devices, whatever their descriptors, and any number of objects.  The *)
(* argument is one of counting: an object's reference count is at least    *)
(* the references other objects and the program have, and libusb's count   *)
(* for a device at least the lists, readers and objects that use it.       *)
(***************************************************************************)
EXTENDS Bindings, Integers, FiniteSetTheorems, WellFoundedInduction, TLAPS

-----------------------------------------------------------------------------
(* The inductive invariant.  Its parts take the objects as a parameter: a  *)
(* method goes through several intermediate values of them.                *)

Objects ==
  [kind : Kinds \cup {"free"}, n : Nat, user : BOOLEAN, owner : Handles \cup {None},
   at : Devices \cup Nat \cup Handles \cup {None}, fresh : BOOLEAN, dirty : BOOLEAN,
   listed : BOOLEAN, taken : BOOLEAN, current : Handles \cup {None, Dangling}]

OwnedIn(os, o) == {p \in Handles : os[p].owner = o}
ByUser(object) == IF object.user THEN 1 ELSE 0

\* Which kind owns which; what owns has no owner.
OwnerOf(os, o) ==
  LET owner == os[o].owner
  IN /\ os[o].kind \in {"devlist", "ccid", "emv"} => owner = None
     /\ os[o].kind = "dev" => owner = None \/ os[owner].kind = "devlist"
     /\ os[o].kind = "cci" => owner = None \/ os[owner].kind = "ccid"
     /\ os[o].kind \in {"app", "cur", "data"} => owner \in Handles /\ os[owner].kind = "emv"

\* An application nobody took out of the list is in it, unmarked, or freed.
Tells(object) ==
  object.kind = "app" /\ ~object.taken =>
    (object.listed <=> object.fresh) /\ (object.dirty <=> ~object.fresh)

\* Every reference there is has been counted.
Counted(os, o) ==
  os[o].n >= 1 /\ Cardinality(OwnedIn(os, o)) + ByUser(os[o]) <= os[o].n

Sound(os) ==
  /\ os \in [Handles -> Objects]
  /\ \A o \in Handles :
       /\ os[o].kind = "free" => os[o] = Blank
       /\ OwnerOf(os, o)
       /\ os[o].kind # "free" => Counted(os, o)
       /\ Tells(os[o])

\* A session's current application is one, as long as the session thinks so.
Currents(os) ==
  \A e \in Handles : os[e].kind = "emv" /\ os[e].current \notin {None, Dangling} =>
    os[os[e].current].kind = "cur"

\* What objects point at is there.
Pointers(os, ls, rd) ==
  \A o \in Handles :
    /\ os[o].kind = "dev" =>
         os[o].at \in Devices /\ (os[o].owner # None => os[o].at \in ls[os[o].owner])
    /\ os[o].kind = "ccid" => rd[o].dev \in Devices
    /\ os[o].kind = "cci" /\ os[o].owner # None =>
         os[o].at \in 0 .. rd[os[o].owner].d_num_slots + rd[os[o].owner].d_num_rf - 1

\* Device objects without a list: each has a reference of its own.
Alone(os, d) == {o \in Handles : os[o].kind = "dev" /\ os[o].owner = None /\ os[o].at = d}

RefsKept ==
  \A d \in Devices :
    Cardinality({h \in Handles : d \in lists[h]}) +
    Cardinality({h \in Handles : reader[h].dev = d}) +
    Cardinality(Alone(objs, d)) <= refs[d]

Readers ==
  /\ plugged \subseteq Devices /\ refs \in [Devices -> Nat]
  /\ lists \in [Handles -> SUBSET Devices]
  /\ reader = [h \in Handles |-> reader[h]]
  /\ \A h \in Handles :
       /\ reader[h].dev \in Devices \cup {None} /\ reader[h].held \subseteq Resources
       /\ reader[h].d_num_slots \in Nat /\ reader[h].d_num_rf \in Nat
       /\ reader[h].d_num_slots <= MaxSlots
       /\ Closes(reader[h]) \ {"stdout"} \subseteq reader[h].held
       /\ reader[h].held \subseteq Closes(reader[h]) \cup {"rates", "clocks"}
  /\ leaked \subseteq Resources /\ ReleasedOnce

BInv ==
  Sound(objs) /\ Currents(objs) /\ Pointers(objs, lists, reader) /\ RefsKept /\ Readers

-----------------------------------------------------------------------------
(* Counting.                                                               *)

\* An object owns finitely many others: there are finitely many.
LEMMA OwnedFinite ==
  ASSUME NEW os, NEW o
  PROVE  IsFiniteSet(OwnedIn(os, o)) /\ Cardinality(OwnedIn(os, o)) \in Nat
<1>1. IsFiniteSet(OwnedIn(os, o))
  <2>1. OwnedIn(os, o) \in SUBSET Handles
    BY DEF OwnedIn
  <2> QED BY <2>1, DeviceAssumption, FS_Subset
<1> QED BY <1>1, FS_CardinalityType

\* A subset of the handles counts no more than the set it lies in.
LEMMA Smaller ==
  ASSUME NEW S \in SUBSET Handles, NEW T \in SUBSET S
  PROVE  Cardinality(T) \in Nat /\ Cardinality(S) \in Nat /\ Cardinality(T) <= Cardinality(S)
<1>1. IsFiniteSet(S)
  BY DeviceAssumption, FS_Subset
<1>2. IsFiniteSet(T) /\ Cardinality(T) <= Cardinality(S)
  BY <1>1, FS_Subset
<1> QED BY <1>1, <1>2, FS_CardinalityType

\* One more handle counts at most one more.
LEMMA OneMore ==
  ASSUME NEW S \in SUBSET Handles, NEW h \in Handles, NEW T \in SUBSET (S \cup {h})
  PROVE  Cardinality(T) <= Cardinality(S) + 1
<1>1. IsFiniteSet(S)
  BY DeviceAssumption, FS_Subset
<1>2. Cardinality(S) \in Nat
  BY <1>1, FS_CardinalityType
<1>3. Cardinality(S \cup {h}) <= Cardinality(S) + 1
  <2>1. Cardinality(S \cup {h}) = IF h \in S THEN Cardinality(S) ELSE Cardinality(S) + 1
    BY <1>1, FS_AddElement
  <2> QED BY <1>2, <2>1
<1>4. S \cup {h} \in SUBSET Handles
  OBVIOUS
<1>5. Cardinality(T) <= Cardinality(S \cup {h}) /\ Cardinality(T) \in Nat /\ Cardinality(S \cup {h}) \in Nat
  BY <1>4, Smaller
<1> QED BY <1>2, <1>3, <1>5

\* Objects that change neither kind nor owner, and whose counts still suffice.
LEMMA Changed ==
  ASSUME NEW os, Sound(os), NEW r, r \in [Handles -> Objects],
         \A o \in Handles : /\ r[o].kind = os[o].kind /\ r[o].owner = os[o].owner
                            /\ os[o].kind = "free" => r[o] = Blank
                            /\ os[o].kind # "free" =>
                                 /\ r[o].n >= 1
                                 /\ Cardinality(OwnedIn(os, o)) + ByUser(r[o]) <= r[o].n
                            /\ Tells(r[o])
  PROVE  Sound(r)
<1>1. \A o \in Handles : OwnedIn(r, o) = OwnedIn(os, o)
  BY DEF OwnedIn
<1>2. \A o \in Handles : OwnerOf(r, o)
  <2> SUFFICES ASSUME NEW o \in Handles PROVE OwnerOf(r, o)
    OBVIOUS
  <2>1. OwnerOf(os, o) /\ os[o].owner \in Handles \cup {None}
    BY DEF Sound, Objects
  <2>2. os[o].owner # None => os[os[o].owner].kind = r[os[o].owner].kind
    BY <2>1
  <2>3. os[o].kind \in {"app", "cur", "data"} => os[os[o].owner].kind = r[os[o].owner].kind
    BY <2>1 DEF OwnerOf
  <2> QED BY <2>1, <2>2, <2>3 DEF OwnerOf
<1>3. \A o \in Handles : r[o].kind # "free" => Counted(r, o)
  BY <1>1 DEF Counted
<1> QED BY <1>2, <1>3 DEF Sound

\* The same, if only what nobody counts has changed.
LEMMA Marked ==
  ASSUME NEW os, Sound(os), NEW r, r \in [Handles -> Objects],
         \A o \in Handles : /\ r[o].kind = os[o].kind /\ r[o].owner = os[o].owner
                            /\ r[o].n = os[o].n /\ r[o].user = os[o].user
                            /\ os[o].kind = "free" => r[o] = Blank
                            /\ Tells(r[o])
  PROVE  Sound(r)
<1>1. \A o \in Handles : ByUser(r[o]) = ByUser(os[o])
  BY DEF ByUser
<1>2. \A o \in Handles : os[o].kind # "free" =>
        r[o].n >= 1 /\ Cardinality(OwnedIn(os, o)) + ByUser(r[o]) <= r[o].n
  BY <1>1 DEF Sound, Counted
<1> QED BY <1>2, Changed

\* An owner is alive, and has no owner.
LEMMA OwnerLives ==
  ASSUME NEW os, Sound(os), NEW p \in Handles, os[p].owner \in Handles
  PROVE  /\ os[os[p].owner].kind \in {"devlist", "ccid", "emv"}
         /\ os[os[p].owner].owner = None
         /\ os[p].kind \notin {"free", "devlist", "ccid", "emv"}
<1>1. os[p].owner # None
  BY DeviceAssumption
<1>2. os[p].kind # "free"
  BY <1>1 DEF Sound, Blank
<1>3. os[p].kind \in Kinds /\ OwnerOf(os, p)
  BY <1>2 DEF Sound, Objects
<1>4. os[os[p].owner].kind \in {"devlist", "ccid", "emv"}
  BY <1>1, <1>3 DEF OwnerOf, Kinds
<1>5. OwnerOf(os, os[p].owner)
  BY DEF Sound
<1> QED BY <1>1, <1>2, <1>3, <1>4, <1>5 DEF OwnerOf

\* A new object, and the reference it has to its owner.
LEMMA WithSound ==
  ASSUME NEW os, Sound(os), NEW h \in Handles, os[h].kind = "free",
         NEW object \in Objects, object.kind \in Kinds, object.n >= 1,
         object.kind \in {"devlist", "ccid", "emv"} => object.owner = None,
         object.kind = "dev" => object.owner = None \/ os[object.owner].kind = "devlist",
         object.kind = "cci" => object.owner = None \/ os[object.owner].kind = "ccid",
         object.kind \in {"app", "cur", "data"} =>
           object.owner \in Handles /\ os[object.owner].kind = "emv",
         Tells(object)
  PROVE  Sound(With(os, h, object))
<1> DEFINE r == With(os, h, object)
           owner == object.owner
<1>0. owner \in Handles => os[owner].kind \in {"devlist", "ccid", "emv"}
  BY DeviceAssumption DEF Kinds
<1>1. owner \in Handles \cup {None} /\ owner # h
  BY <1>0, DeviceAssumption DEF Objects
<1>2. /\ r[h] = object
      /\ \A o \in Handles \ {h, owner} : r[o] = os[o]
      /\ owner \in Handles => r[owner] = [os[owner] EXCEPT !.n = @ + 1]
  BY <1>1 DEF With
<1>3. \A o \in Handles : os[o] \in Objects
  BY DEF Sound
<1>4. r \in [Handles -> Objects]
  <2>1. \A o \in Handles : [os[o] EXCEPT !.n = @ + 1] \in Objects
    BY <1>3 DEF Objects
  <2> QED BY <1>3, <2>1 DEF With
<1>5. \A o \in Handles \ {h} :
        /\ r[o].kind = os[o].kind /\ r[o].owner = os[o].owner
        /\ r[o].user = os[o].user /\ (Tells(os[o]) => Tells(r[o]))
  BY <1>2, <1>3 DEF Objects, Tells
<1>6. \A p \in Handles : os[p].owner # h
  BY OwnerLives
<1> HIDE DEF r
<1>7. /\ \A o \in Handles \ {owner} : OwnedIn(r, o) \subseteq OwnedIn(os, o)
      /\ OwnedIn(r, owner) \subseteq OwnedIn(os, owner) \cup {h}
  BY <1>2, <1>5 DEF OwnedIn
<1>8. OwnedIn(r, h) = {}
  BY <1>1, <1>2, <1>5, <1>6 DEF OwnedIn
<1>9. ASSUME NEW o \in Handles, r[o].kind # "free"
      PROVE  Counted(r, o)
  <2>0. ByUser(r[o]) \in {0, 1} /\ r[o].n \in Nat
    BY <1>4 DEF ByUser, Objects
  <2>1. CASE o = h
    <3>1. Cardinality(OwnedIn(r, o)) = 0
      BY <1>8, <2>1, FS_EmptySet
    <3> QED BY <1>2, <2>0, <2>1, <3>1 DEF Counted
  <2>2. CASE o # h /\ o # owner
    <3>1. r[o] = os[o] /\ Counted(os, o)
      BY <1>2, <1>9, <2>2 DEF Sound
    <3>2. Cardinality(OwnedIn(r, o)) \in Nat /\ Cardinality(OwnedIn(os, o)) \in Nat
          /\ Cardinality(OwnedIn(r, o)) <= Cardinality(OwnedIn(os, o))
      <4>1. OwnedIn(os, o) \in SUBSET Handles /\ OwnedIn(r, o) \in SUBSET OwnedIn(os, o)
        BY <1>7, <2>2 DEF OwnedIn
      <4> QED BY <4>1, Smaller
    <3> QED BY <2>0, <3>1, <3>2 DEF Counted
  <2>3. CASE o # h /\ o = owner
    <3>1. r[o].n = os[o].n + 1 /\ ByUser(r[o]) = ByUser(os[o]) /\ Counted(os, o) /\ os[o].n \in Nat
      BY <1>2, <1>3, <1>5, <1>9, <2>3 DEF Sound, ByUser, Objects
    <3>2. Cardinality(OwnedIn(r, o)) <= Cardinality(OwnedIn(os, o)) + 1
      <4>1. OwnedIn(os, o) \in SUBSET Handles /\ OwnedIn(r, o) \in SUBSET (OwnedIn(os, o) \cup {h})
        BY <1>7, <2>3 DEF OwnedIn
      <4> QED BY <4>1, OneMore
    <3>3. Cardinality(OwnedIn(r, o)) \in Nat /\ Cardinality(OwnedIn(os, o)) \in Nat
      BY OwnedFinite
    <3> QED BY <2>0, <3>1, <3>2, <3>3 DEF Counted
  <2> QED BY <2>1, <2>2, <2>3
<1>10. ASSUME NEW o \in Handles PROVE OwnerOf(r, o)
  <2>1. CASE o = h
    <3>1. owner \in Handles => r[owner].kind = os[owner].kind
      BY <1>1, <1>5
    <3> QED BY <1>1, <1>2, <2>1, <3>1 DEF OwnerOf
  <2>2. CASE o # h
    <3>1. OwnerOf(os, o) /\ os[o].owner \in Handles \cup {None} /\ os[o].owner # h
      BY <1>3, <1>6 DEF Sound, Objects
    <3>2. r[o].kind = os[o].kind /\ r[o].owner = os[o].owner
      BY <1>5, <2>2
    <3>3. os[o].owner \in Handles => r[os[o].owner].kind = os[os[o].owner].kind
      BY <1>5, <3>1
    <3> QED BY <3>1, <3>2, <3>3 DEF OwnerOf
  <2> QED BY <2>1, <2>2
<1>11. \A o \in Handles : /\ r[o].kind = "free" => r[o] = Blank
                          /\ Tells(r[o])
  <2> SUFFICES ASSUME NEW o \in Handles
               PROVE  /\ r[o].kind = "free" => r[o] = Blank
                      /\ Tells(r[o])
    OBVIOUS
  <2>1. CASE o = h
    BY <1>2, <2>1 DEF Kinds
  <2>2. CASE o # h /\ o = owner
    BY <1>0, <1>5, <2>2 DEF Sound
  <2>3. CASE o # h /\ o # owner
    BY <1>2, <2>3 DEF Sound
  <2> QED BY <2>1, <2>2, <2>3
<1> QED BY <1>4, <1>9, <1>10, <1>11 DEF Sound, r

\* One reference less, of those that were counted and that are still there.
LEMMA DecrefSound ==
  ASSUME NEW os, Sound(os), NEW o \in Handles, os[o].kind # "free",
         Cardinality(OwnedIn(os, o)) + ByUser(os[o]) < os[o].n
  PROVE  /\ Sound(Decref(os, o))
         /\ \A x \in Handles \ {o} : Decref(os, o)[x] = os[x]
         /\ \/ Decref(os, o)[o] = Blank
            \/ Decref(os, o)[o] = [os[o] EXCEPT !.n = @ - 1]
<1> DEFINE r == Decref(os, o)
<1>1. os \in [Handles -> Objects] /\ os[o].n \in Nat /\ ByUser(os[o]) \in {0, 1}
  BY DEF Sound, Objects, ByUser
<1>2. Cardinality(OwnedIn(os, o)) \in Nat
  BY OwnedFinite
<1>3. CASE os[o].n > 1
  <2>1. r = [os EXCEPT ![o] = [os[o] EXCEPT !.n = @ - 1]]
    BY <1>1, <1>3 DEF Decref
  <2>2. [os[o] EXCEPT !.n = @ - 1] \in Objects
    BY <1>1, <1>3 DEF Objects
  <2>3. r \in [Handles -> Objects] /\ r[o] = [os[o] EXCEPT !.n = @ - 1]
        /\ \A x \in Handles \ {o} : r[x] = os[x]
    BY <1>1, <2>1, <2>2
  <2>4. /\ r[o].n = os[o].n - 1 /\ r[o].kind = os[o].kind /\ r[o].owner = os[o].owner
        /\ r[o].user = os[o].user /\ (Tells(os[o]) => Tells(r[o]))
    BY <1>1, <2>3 DEF Objects, Tells
  <2> HIDE DEF r
  <2>5. ByUser(r[o]) = ByUser(os[o])
    BY <2>4 DEF ByUser
  <2>6. r[o].n >= 1 /\ Cardinality(OwnedIn(os, o)) + ByUser(r[o]) <= r[o].n
    BY <1>1, <1>2, <1>3, <2>4, <2>5
  <2>7. \A x \in Handles :
          /\ r[x].kind = os[x].kind /\ r[x].owner = os[x].owner
          /\ os[x].kind = "free" => r[x] = Blank
          /\ os[x].kind # "free" => r[x].n >= 1 /\ Cardinality(OwnedIn(os, x)) + ByUser(r[x]) <= r[x].n
          /\ Tells(r[x])
    <3> SUFFICES ASSUME NEW x \in Handles
                 PROVE  /\ r[x].kind = os[x].kind /\ r[x].owner = os[x].owner
                        /\ os[x].kind = "free" => r[x] = Blank
                        /\ os[x].kind # "free" =>
                             r[x].n >= 1 /\ Cardinality(OwnedIn(os, x)) + ByUser(r[x]) <= r[x].n
                        /\ Tells(r[x])
      OBVIOUS
    <3>1. CASE x = o
      BY <2>4, <2>6, <3>1 DEF Sound
    <3>2. CASE x # o
      BY <2>3, <3>2 DEF Sound, Counted
    <3> QED BY <3>1, <3>2
  <2>8. Sound(r)
    BY <2>3, <2>7, Changed
  <2> QED BY <2>3, <2>8 DEF r
<1>4. CASE ~(os[o].n > 1)
  <2>1. os[o].n = 1 /\ Cardinality(OwnedIn(os, o)) = 0
    BY <1>1, <1>2, <1>4
  <2>2. OwnedIn(os, o) = {}
    BY <2>1, OwnedFinite, FS_EmptySet
  <2>3. r = [os EXCEPT ![o] = Blank]
    BY <1>4 DEF Decref
  <2>4. Blank \in Objects /\ Blank.kind = "free" /\ Blank.owner = None
    BY DEF Blank, Objects
  <2>5. r \in [Handles -> Objects] /\ r[o] = Blank /\ \A x \in Handles \ {o} : r[x] = os[x]
    BY <1>1, <2>3, <2>4
  <2> HIDE DEF r
  <2>6. \A p \in Handles : os[p].owner # o
    BY <2>2 DEF OwnedIn
  <2>7. \A x \in Handles : OwnedIn(r, x) \in SUBSET OwnedIn(os, x) /\ OwnedIn(os, x) \in SUBSET Handles
    BY <2>4, <2>5, DeviceAssumption DEF OwnedIn
  <2>8. ASSUME NEW x \in Handles \ {o}, os[x].kind # "free" PROVE Counted(r, x)
    <3>1. /\ Cardinality(OwnedIn(r, x)) <= Cardinality(OwnedIn(os, x))
          /\ Cardinality(OwnedIn(r, x)) \in Nat /\ Cardinality(OwnedIn(os, x)) \in Nat
      BY <2>7, Smaller
    <3>2. Counted(os, x) /\ r[x] = os[x]
      BY <2>5, <2>8 DEF Sound
    <3>3. os[x].n \in Nat /\ ByUser(os[x]) \in {0, 1}
      BY <1>1 DEF Objects, ByUser
    <3> QED BY <3>1, <3>2, <3>3 DEF Counted
  <2>9. ASSUME NEW x \in Handles PROVE OwnerOf(r, x)
    <3>1. CASE x = o
      BY <2>4, <2>5, <3>1 DEF OwnerOf
    <3>2. CASE x # o
      <4>1. OwnerOf(os, x) /\ r[x] = os[x] /\ os[x].owner \in Handles \cup {None} /\ os[x].owner # o
        BY <1>1, <2>5, <2>6, <3>2 DEF Sound, Objects
      <4>2. os[x].owner \in Handles => r[os[x].owner] = os[os[x].owner]
        BY <2>5, <4>1
      <4> QED BY <4>1, <4>2 DEF OwnerOf
    <3> QED BY <3>1, <3>2
  <2>10. Sound(r)
    <3>1. \A x \in Handles : /\ r[x].kind = "free" => r[x] = Blank
                             /\ r[x].kind # "free" => Counted(r, x)
                             /\ Tells(r[x])
      <4> SUFFICES ASSUME NEW x \in Handles
                   PROVE  /\ r[x].kind = "free" => r[x] = Blank
                          /\ r[x].kind # "free" => Counted(r, x)
                          /\ Tells(r[x])
        OBVIOUS
      <4>1. CASE x = o
        BY <2>4, <2>5, <4>1 DEF Tells
      <4>2. CASE x # o
        <5>1. r[x] = os[x]
          BY <2>5, <4>2
        <5>2. r[x].kind # "free" => Counted(r, x)
          BY <2>8, <4>2, <5>1
        <5> QED BY <5>1, <5>2 DEF Sound
      <4> QED BY <4>1, <4>2
    <3> QED BY <2>5, <2>9, <3>1 DEF Sound
  <2> QED BY <2>5, <2>10 DEF r
<1> QED BY <1>3, <1>4

\* Equal but for who refers to them.
Same(x, y) ==
  /\ x.kind = y.kind /\ x.owner = y.owner /\ x.at = y.at
  /\ x.fresh = y.fresh /\ x.dirty = y.dirty /\ x.listed = y.listed /\ x.taken = y.taken
  /\ x.current = y.current

\* The program lets go of an object: it, and then its owner, may be freed.
LEMMA DroppedSound ==
  ASSUME NEW os, Sound(os), NEW o \in Handles, os[o].kind # "free", os[o].user
  PROVE  LET r == Dropped([os EXCEPT ![o].user = FALSE], o)
         IN Sound(r) /\ \A x \in Handles : r[x] = Blank \/ Same(r[x], os[x])
<1> DEFINE u == [os EXCEPT ![o].user = FALSE]
           once == Decref(u, o)
           p == os[o].owner
<1>1. os \in [Handles -> Objects] /\ os[o] \in Objects /\ [os[o] EXCEPT !.user = FALSE] \in Objects
  BY DEF Sound, Objects
<1>2. /\ u \in [Handles -> Objects] /\ u[o] = [os[o] EXCEPT !.user = FALSE]
      /\ \A x \in Handles \ {o} : u[x] = os[x]
  BY <1>1
<1>3. \A x \in Handles : u[x].n = os[x].n /\ Same(u[x], os[x])
  <2>1. Same(u[o], os[o]) /\ u[o].n = os[o].n
    BY <1>1, <1>2 DEF Same, Objects
  <2> QED BY <1>2, <2>1 DEF Same
<1>u. ByUser(os[o]) = 1 /\ ByUser(u[o]) = 0
  BY <1>1, <1>2 DEF ByUser, Objects
<1> HIDE DEF u
<1>4. Cardinality(OwnedIn(os, o)) + ByUser(u[o]) < os[o].n /\ os[o].n >= 1
  <2>1. Cardinality(OwnedIn(os, o)) + 1 <= os[o].n /\ os[o].n >= 1
    BY <1>u DEF Sound, Counted
  <2>2. Cardinality(OwnedIn(os, o)) \in Nat /\ os[o].n \in Nat
    BY <1>1, OwnedFinite DEF Objects
  <2> QED BY <1>u, <2>1, <2>2
<1>5. Sound(u)
  <2>1. \A x \in Handles : os[x].kind # "free" =>
          u[x].n >= 1 /\ Cardinality(OwnedIn(os, x)) + ByUser(u[x]) <= u[x].n
    <3> SUFFICES ASSUME NEW x \in Handles, os[x].kind # "free"
                 PROVE  u[x].n >= 1 /\ Cardinality(OwnedIn(os, x)) + ByUser(u[x]) <= u[x].n
      OBVIOUS
    <3>1. CASE x = o
      <4>1. Cardinality(OwnedIn(os, o)) \in Nat /\ os[o].n \in Nat
        BY <1>1, OwnedFinite DEF Objects
      <4> QED BY <1>3, <1>4, <1>u, <3>1, <4>1
    <3>2. CASE x # o
      BY <1>2, <3>2 DEF Sound, Counted
    <3> QED BY <3>1, <3>2
  <2>2. \A x \in Handles : /\ os[x].kind = "free" => u[x] = Blank
                           /\ Tells(u[x])
    <3>1. \A x \in Handles : os[x].kind = "free" => x # o
      OBVIOUS
    <3>2. \A x \in Handles : Tells(os[x]) => Tells(u[x])
      BY <1>3 DEF Tells, Same
    <3> QED BY <1>2, <3>1, <3>2 DEF Sound
  <2>3. \A x \in Handles : u[x].kind = os[x].kind /\ u[x].owner = os[x].owner
    BY <1>3 DEF Same
  <2> QED BY <1>2, <2>1, <2>2, <2>3, Changed
<1>6. OwnedIn(u, o) = OwnedIn(os, o) /\ u[o].kind # "free"
  BY <1>3 DEF OwnedIn, Same
<1>7. /\ Sound(once)
      /\ \A x \in Handles \ {o} : once[x] = u[x]
      /\ once[o] = Blank \/ once[o] = [u[o] EXCEPT !.n = @ - 1]
  BY <1>3, <1>4, <1>5, <1>6, DecrefSound
<1>8. \A x \in Handles : once[x] = Blank \/ Same(once[x], os[x])
  <2>1. once[o] = [u[o] EXCEPT !.n = @ - 1] => Same(once[o], u[o])
    BY <1>2 DEF Same, Objects
  <2> QED BY <1>3, <1>7, <2>1 DEF Same
<1>9. u[o].owner = p
  BY <1>3 DEF Same
<1> HIDE DEF once
<1>10. CASE once[o].kind = "free" /\ p # None
  <2>1. p \in Handles
    BY <1>1, <1>10 DEF Objects
  <2>2. os[p].owner = None /\ os[p].kind # "free"
    BY <2>1, OwnerLives
  <2>3. p # o
    BY <1>10, <2>2
  <2>4. once[p] = os[p]
    BY <1>2, <1>7, <2>1, <2>3
  <2>5. once[o] = Blank /\ Blank.owner = None
    <3>1. [u[o] EXCEPT !.n = @ - 1].kind # "free"
      BY <1>2, <1>6 DEF Objects
    <3> QED BY <1>7, <1>10, <3>1 DEF Blank
  <2>6. OwnedIn(once, p) = OwnedIn(os, p) \ {o} /\ o \in OwnedIn(os, p)
    BY <1>2, <1>7, <1>10, <2>5 DEF OwnedIn
  <2>7. Cardinality(OwnedIn(once, p)) = Cardinality(OwnedIn(os, p)) - 1
    BY <2>6, OwnedFinite, FS_RemoveElement
  <2>8. Cardinality(OwnedIn(once, p)) + ByUser(once[p]) < once[p].n
    <3>1. Cardinality(OwnedIn(os, p)) + ByUser(os[p]) <= os[p].n
      BY <2>1, <2>2 DEF Sound, Counted
    <3>2. Cardinality(OwnedIn(os, p)) \in Nat /\ ByUser(os[p]) \in {0, 1} /\ os[p].n \in Nat
      BY <1>1, <2>1, OwnedFinite DEF ByUser, Objects
    <3> QED BY <2>4, <2>7, <3>1, <3>2
  <2>9. /\ Sound(Decref(once, p))
        /\ \A x \in Handles \ {p} : Decref(once, p)[x] = once[x]
        /\ Decref(once, p)[p] = Blank \/ Decref(once, p)[p] = [once[p] EXCEPT !.n = @ - 1]
    BY <1>7, <2>1, <2>2, <2>4, <2>8, DecrefSound
  <2>10. [once[p] EXCEPT !.n = @ - 1] = [os[p] EXCEPT !.n = @ - 1]
         /\ Same([os[p] EXCEPT !.n = @ - 1], os[p])
    BY <1>1, <2>1, <2>4 DEF Same, Objects
  <2>11. \A x \in Handles : Decref(once, p)[x] = Blank \/ Same(Decref(once, p)[x], os[x])
    BY <1>8, <2>9, <2>10
  <2>12. Dropped(u, o) = Decref(once, p)
    BY <1>9, <1>10 DEF Dropped, once
  <2> QED BY <2>9, <2>11, <2>12 DEF u
<1>11. CASE ~(once[o].kind = "free" /\ p # None)
  <2>1. Dropped(u, o) = once
    BY <1>9, <1>11 DEF Dropped, once
  <2> QED BY <1>7, <1>8, <2>1 DEF u
<1> QED BY <1>10, <1>11

-----------------------------------------------------------------------------
(* Steps of the objects alone.                                             *)

\* The invariant holds before the first call.
LEMMA BInit == BindInit => BInv
<1> SUFFICES ASSUME BindInit PROVE BInv
  OBVIOUS
<1>1. /\ objs = [o \in Handles |-> Blank] /\ plugged \in SUBSET Devices
      /\ refs = [d \in Devices |-> 0] /\ lists = [h \in Handles |-> {}]
      /\ reader = [h \in Handles |-> Closed] /\ leaked = {} /\ unowned = {}
  BY DEF BindInit, DeviceInit
<1>2. Blank \in Objects /\ Blank.kind = "free" /\ Blank.owner = None
  BY DEF Blank, Objects
<1>3. \A o \in Handles : objs[o] = Blank
  BY <1>1
<1>4. Sound(objs)
  <2>1. objs \in [Handles -> Objects]
    BY <1>1, <1>2
  <2>2. \A o \in Handles : OwnerOf(objs, o)
    BY <1>2, <1>3 DEF OwnerOf
  <2> QED BY <1>2, <1>3, <2>1, <2>2 DEF Sound, Tells
<1>5. Currents(objs) /\ Pointers(objs, lists, reader)
  BY <1>2, <1>3 DEF Currents, Pointers
<1>6. RefsKept
  <2> SUFFICES ASSUME NEW d \in Devices
               PROVE  Cardinality({h \in Handles : d \in lists[h]}) +
                      Cardinality({h \in Handles : reader[h].dev = d}) +
                      Cardinality(Alone(objs, d)) <= refs[d]
    BY DEF RefsKept
  <2>1. {h \in Handles : d \in lists[h]} = {} /\ {h \in Handles : reader[h].dev = d} = {}
    BY <1>1, DeviceAssumption DEF Closed
  <2>2. Alone(objs, d) = {}
    BY <1>2, <1>3 DEF Alone
  <2>3. Cardinality({}) = 0 /\ refs[d] = 0
    BY <1>1, FS_EmptySet
  <2> QED BY <2>1, <2>2, <2>3
<1>7. Readers
  <2>1. /\ Closed.dev = None /\ Closed.held = {} /\ Closed.d_num_slots = 0 /\ Closed.d_num_rf = 0
        /\ Closes(Closed) = {}
    BY DEF Closed, Closes
  <2> QED BY <1>1, <2>1, DeviceAssumption DEF Readers, ReleasedOnce
<1> QED BY <1>4, <1>5, <1>6, <1>7 DEF BInv

\* What a step of the objects alone has to keep: it uses no device that was not
\* used before.
Good(os) ==
  /\ Sound(os) /\ Currents(os) /\ Pointers(os, lists, reader)
  /\ \A d \in Devices : Alone(os, d) \subseteq Alone(objs, d)

\* A method that leaves devices and readers alone need only keep the objects sound.
LEMMA QuietStep == ASSUME BInv, UNCHANGED device, Good(objs') PROVE BInv'
<1>1. UNCHANGED <<plugged, refs, lists, reader, leaked, unowned>>
  BY DEF device
<1>2. RefsKept'
  <2> SUFFICES ASSUME NEW d \in Devices
               PROVE  Cardinality({h \in Handles : d \in lists[h]}) +
                      Cardinality({h \in Handles : reader[h].dev = d}) +
                      Cardinality(Alone(objs', d)) <= refs[d]
    BY <1>1 DEF RefsKept, Alone
  <2> DEFINE a == Cardinality({h \in Handles : d \in lists[h]})
             b == Cardinality({h \in Handles : reader[h].dev = d})
  <2>1. a + b + Cardinality(Alone(objs, d)) <= refs[d] /\ refs[d] \in Nat
    BY DEF BInv, RefsKept, Readers
  <2>2. a \in Nat /\ b \in Nat
    BY Smaller
  <2>3. /\ Cardinality(Alone(objs', d)) <= Cardinality(Alone(objs, d))
        /\ Cardinality(Alone(objs', d)) \in Nat /\ Cardinality(Alone(objs, d)) \in Nat
    <3>1. Alone(objs, d) \in SUBSET Handles /\ Alone(objs', d) \in SUBSET Alone(objs, d)
      BY DEF Alone, Good
    <3> QED BY <3>1, Smaller
  <2> QED BY <2>1, <2>2, <2>3
<1>3. Readers'
  BY <1>1 DEF BInv, Readers, ReleasedOnce
<1>4. Sound(objs)' /\ Currents(objs)' /\ Pointers(objs, lists, reader)'
  BY <1>1 DEF Good, Sound, Currents, Pointers, OwnerOf, Counted, OwnedIn, ByUser
<1> QED BY <1>2, <1>3, <1>4 DEF BInv

\* Equal but for the marks of freshness.
Alike(x, y) ==
  /\ x.kind = y.kind /\ x.owner = y.owner /\ x.at = y.at
  /\ x.n = y.n /\ x.user = y.user /\ x.current = y.current

\* Marking objects leaves the counts, the sessions and the pointers.
LEMMA MarkedKeeps ==
  ASSUME BInv, NEW os, os \in [Handles -> Objects],
         \A o \in Handles : /\ Alike(os[o], objs[o])
                            /\ objs[o].kind = "free" => os[o] = Blank
                            /\ Tells(os[o])
  PROVE  Good(os)
<1>1. Sound(os)
  BY Marked DEF BInv, Alike
<1>2. Currents(os)
  <2> SUFFICES ASSUME NEW e \in Handles, os[e].kind = "emv", os[e].current \notin {None, Dangling}
               PROVE  os[os[e].current].kind = "cur"
    BY DEF Currents
  <2>1. os[e].current \in Handles /\ objs[objs[e].current].kind = "cur" /\ os[e].current = objs[e].current
    BY DEF Alike, BInv, Currents, Objects
  <2> QED BY <2>1 DEF Alike
<1>3. Pointers(os, lists, reader)
  BY DEF Pointers, Alike, BInv
<1>4. \A d : Alone(os, d) = Alone(objs, d)
  BY DEF Alone, Alike
<1> QED BY <1>1, <1>2, <1>3, <1>4 DEF Good

\* What the invariant says of the objects alone.
LEMMA Unmarked == ASSUME BInv PROVE Good(objs)
BY DEF BInv, Good

\* What With leaves of the objects there were.
LEMMA WithKeeps ==
  ASSUME NEW os, os \in [Handles -> Objects], NEW h \in Handles, NEW object \in Objects,
         object.owner # h
  PROVE  /\ With(os, h, object)[h] = object
         /\ \A x \in Handles \ {h} : Same(With(os, h, object)[x], os[x])
<1>1. \A x \in Handles : Same([os[x] EXCEPT !.n = @ + 1], os[x])
  BY DEF Same, Objects
<1> QED BY <1>1 DEF With, Same

\* A method makes an object, perhaps after marking others.
LEMMA NewObject ==
  ASSUME BInv, NEW os, Good(os),
         NEW h \in Handles, os[h].kind = "free", NEW object \in Objects,
         object.n >= 1, object.current = None,
         object.kind \in {"dev", "cci", "emv", "app", "cur", "data"},
         object.kind = "dev" =>
           /\ object.owner \in Handles /\ os[object.owner].kind = "devlist"
           /\ object.at \in lists[object.owner],
         object.kind = "cci" /\ object.owner # None =>
           /\ os[object.owner].kind = "ccid"
           /\ object.at \in 0 .. reader[object.owner].d_num_slots + reader[object.owner].d_num_rf - 1,
         object.kind = "emv" => object.owner = None,
         object.kind \in {"app", "cur", "data"} =>
           object.owner \in Handles /\ os[object.owner].kind = "emv",
         Tells(object)
  PROVE  Good(With(os, h, object))
<1> DEFINE r == With(os, h, object)
<1>1. Sound(r)
  BY WithSound DEF Good, Kinds
<1>2. object.owner # h
  BY DeviceAssumption DEF Objects
<1>3. r[h] = object /\ \A x \in Handles \ {h} : Same(r[x], os[x])
  BY <1>2, WithKeeps DEF Good, Sound
<1> HIDE DEF r
<1>4. Currents(r)
  <2> SUFFICES ASSUME NEW e \in Handles, r[e].kind = "emv",
                      r[e].current \notin {None, Dangling}
               PROVE  r[r[e].current].kind = "cur"
    BY DEF Currents
  <2>1. e # h /\ Same(r[e], os[e])
    BY <1>3
  <2>2. os[e].current \in Handles /\ os[os[e].current].kind = "cur" /\ r[e].current = os[e].current
    BY <2>1 DEF Same, Good, Sound, Currents, Objects
  <2> QED BY <1>3, <2>2 DEF Same
<1>5. Pointers(r, lists, reader)
  <2>1. object.kind = "dev" => object.at \in Devices
    BY DEF BInv, Readers
  <2> QED BY <1>3, <2>1 DEF Good, Pointers, Same
<1>6. \A d \in Devices : Alone(r, d) \subseteq Alone(objs, d)
  <2>1. \A d \in Devices : Alone(r, d) \subseteq Alone(os, d)
    BY <1>3, DeviceAssumption DEF Alone, Same
  <2> QED BY <2>1 DEF Good
<1> QED BY <1>1, <1>4, <1>5, <1>6 DEF Good, r

Made(x, kind, owner, at) ==
  /\ x \in Objects /\ x.kind = kind /\ x.owner = owner /\ x.at = at
  /\ x.n >= 1 /\ x.current = None /\ x.fresh = TRUE /\ x.dirty = FALSE /\ x.taken = FALSE
  /\ x.listed = FALSE

\* A new object is one of its kind, with one reference, whoever has it.
LEMMA ObjectMade ==
  ASSUME NEW kind \in Kinds, NEW owner \in Handles \cup {None},
         NEW at \in Devices \cup Nat \cup Handles \cup {None}
  PROVE  /\ Made(Object(kind, owner, at), kind, owner, at)
         /\ Made([Object(kind, owner, at) EXCEPT !.user = FALSE], kind, owner, at)
         /\ Made([Object(kind, owner, at) EXCEPT !.n = 2], kind, owner, at)
<1>1. Blank \in Objects
  BY DEF Blank, Objects
<1>2. Made(Object(kind, owner, at), kind, owner, at)
  <2>1. Object(kind, owner, at) \in Objects
    BY <1>1 DEF Object, Objects
  <2>2. /\ Blank.dirty = FALSE /\ Blank.current = None /\ Blank.taken = FALSE
        /\ Blank.listed = FALSE
    BY DEF Blank
  <2> QED BY <1>1, <2>1, <2>2 DEF Made, Object, Objects
<1>3. ASSUME NEW x, Made(x, kind, owner, at)
      PROVE  Made([x EXCEPT !.user = FALSE], kind, owner, at) /\ Made([x EXCEPT !.n = 2], kind, owner, at)
  <2>1. [x EXCEPT !.user = FALSE] \in Objects /\ [x EXCEPT !.n = 2] \in Objects
    BY <1>3 DEF Made, Objects
  <2> QED BY <1>3, <2>1 DEF Made, Objects
<1> QED BY <1>2, <1>3

\* A device from a list: the list is counted for it.
LEMMA DevlistGetStep ==
  ASSUME BInv, NEW h \in Handles, NEW l \in Handles, NEW d \in Devices, DevlistGet(h, l, d)
  PROVE  BInv'
<1>1. /\ UNCHANGED device /\ objs[h].kind = "free" /\ objs[l].kind = "devlist" /\ d \in lists[l]
      /\ objs' = With(objs, h, Object("dev", l, d))
  BY DEF DevlistGet, Fresh, Live, Mine, Of
<1>2. Made(Object("dev", l, d), "dev", l, d)
  BY ObjectMade DEF Kinds
<1>3. Good(With(objs, h, Object("dev", l, d)))
  BY <1>1, <1>2, Unmarked, NewObject DEF Made, Tells
<1> QED BY <1>1, <1>3, QuietStep

\* An interface made by calling its type points at nothing.
LEMMA BlankCciStep == ASSUME BInv, NEW h \in Handles, BlankCci(h) PROVE BInv'
<1>1. /\ UNCHANGED device /\ objs[h].kind = "free" /\ objs' = With(objs, h, Object("cci", None, None))
  BY DEF BlankCci, Fresh, Live
<1>2. Made(Object("cci", None, None), "cci", None, None)
  BY ObjectMade DEF Kinds
<1>3. Good(With(objs, h, Object("cci", None, None)))
  BY <1>1, <1>2, Unmarked, NewObject DEF Made, Tells
<1> QED BY <1>1, <1>3, QuietStep

\* An interface from a reader: the reader is counted for it.
LEMMA InterfacesGetStep ==
  ASSUME BInv, NEW h \in Handles, NEW r \in Handles, InterfacesGet(h, r) PROVE BInv'
<1>1. PICK i \in 0 .. reader[r].d_num_slots + reader[r].d_num_rf - 1 : CciNew(h, r, i)
  BY DEF InterfacesGet
<1>2. /\ UNCHANGED device /\ objs[h].kind = "free" /\ objs[r].kind = "ccid"
      /\ objs' = With(objs, h, Object("cci", r, i))
  BY <1>1 DEF CciNew, Fresh, Live, Mine, Of
<1>3. i \in Nat
  BY DEF BInv, Readers
<1>4. Made(Object("cci", r, i), "cci", r, i)
  BY <1>3, ObjectMade DEF Kinds
<1>5. Good(With(objs, h, Object("cci", r, i)))
  BY <1>2, <1>4, Unmarked, NewObject DEF Made, Tells
<1> QED BY <1>2, <1>5, QuietStep

\* A session over an interface, of which it counts none.
LEMMA NewEmvStep == ASSUME BInv, NEW h \in Handles, NEW c \in Handles, NewEmv(h, c) PROVE BInv'
<1>1. CASE objs[c].owner = None
  <2>1. UNCHANGED <<device, objs>>
    BY <1>1 DEF NewEmv, Stop
  <2>2. objs' = objs /\ UNCHANGED device
    BY <2>1
  <2> QED BY <2>2, Unmarked, QuietStep
<1>2. CASE objs[c].owner # None
  <2>1. /\ UNCHANGED device /\ objs[h].kind = "free"
        /\ objs' = With(objs, h, Object("emv", None, objs[c].owner))
    BY <1>2 DEF NewEmv, Fresh, Live
  <2>2. objs[c].owner \in Handles
    BY <1>2 DEF BInv, Sound, Objects
  <2>3. Made(Object("emv", None, objs[c].owner), "emv", None, objs[c].owner)
    BY <2>2, ObjectMade DEF Kinds
  <2>4. Good(With(objs, h, Object("emv", None, objs[c].owner)))
    BY <2>1, <2>3, Unmarked, NewObject DEF Made, Tells
  <2> QED BY <2>1, <2>4, QuietStep
<1> QED BY <1>1, <1>2

\* cp_appsel_pse: of the old applications, those in the list turn stale and
\* dirty together, and those that are not in it were stale or taken out before.
LEMMA AppselPseStep == ASSUME BInv, NEW e \in Handles, AppselPse(e) PROVE BInv'
<1> DEFINE forgot == ForgetApps(objs, e)
           os == DirtyApplist(forgot, e)
<1>0. Sound(objs) /\ objs \in [Handles -> Objects]
  BY DEF BInv, Sound
<1>1. UNCHANGED device /\ objs[e].kind = "emv"
  BY DEF AppselPse, Asks, Mine, Of
<1>2. ASSUME NEW x \in Objects
      PROVE  [x EXCEPT !.fresh = FALSE] \in Objects /\ [x EXCEPT !.dirty = TRUE, !.listed = FALSE] \in Objects
  BY DEF Objects
<1>3. forgot \in [Handles -> Objects] /\ os \in [Handles -> Objects]
  <2>1. forgot \in [Handles -> Objects]
    BY <1>0, <1>2 DEF ForgetApps
  <2> HIDE DEF forgot
  <2> QED BY <2>1, <1>2 DEF DirtyApplist
<1>4. \A o \in Handles : /\ Alike(os[o], objs[o])
                         /\ objs[o].kind = "free" => os[o] = Blank
                         /\ Tells(os[o])
  <2> SUFFICES ASSUME NEW o \in Handles
               PROVE  /\ Alike(os[o], objs[o])
                      /\ objs[o].kind = "free" => os[o] = Blank
                      /\ Tells(os[o])
    OBVIOUS
  <2> DEFINE x == objs[o]
             f == forgot[o]
  <2>1. x \in Objects /\ Tells(x) /\ (x.kind = "free" => x = Blank)
    BY <1>0 DEF Sound
  <2>2. f = IF x.kind = "app" /\ x.owner = e THEN [x EXCEPT !.fresh = FALSE] ELSE x
    BY DEF ForgetApps
  <2>3. os[o] = IF f.listed /\ f.owner = e THEN [f EXCEPT !.dirty = TRUE, !.listed = FALSE] ELSE f
    BY DEF DirtyApplist
  <2> HIDE DEF os, forgot, f, x
  <2>4. CASE x.kind = "app" /\ x.owner = e
    <3>1. f = [x EXCEPT !.fresh = FALSE]
      BY <2>2, <2>4
    <3>2. f \in Objects /\ f.owner = e /\ f.kind = "app" /\ Alike(f, x) /\ f.fresh = FALSE
          /\ f.listed = x.listed /\ f.taken = x.taken /\ f.dirty = x.dirty
      BY <2>1, <2>4, <3>1 DEF Alike, Objects
    <3>3. CASE f.listed
      <4>1. os[o] = [f EXCEPT !.dirty = TRUE, !.listed = FALSE]
        BY <2>3, <3>2, <3>3
      <4>2. Alike(os[o], f) /\ os[o].fresh = FALSE /\ os[o].listed = FALSE /\ os[o].dirty = TRUE
        BY <3>2, <4>1 DEF Alike, Objects
      <4>3. Tells(os[o])
        BY <4>2 DEF Tells
      <4>4. Alike(os[o], x)
        BY <3>2, <4>2 DEF Alike
      <4> QED BY <2>4, <4>3, <4>4 DEF x
    <3>4. CASE ~f.listed
      <4>1. os[o] = f
        BY <2>3, <3>4
      <4>2. ASSUME ~f.taken PROVE ~f.listed /\ ~f.fresh /\ f.dirty
        <5>1. ~x.taken /\ ~x.listed
          BY <3>2, <3>4, <4>2
        <5>2. x.dirty
          BY <2>1, <2>4, <5>1 DEF Tells
        <5> QED BY <3>2, <3>4, <5>2
      <4>3. Tells(f)
        BY <4>2 DEF Tells
      <4> QED BY <2>4, <3>2, <4>1, <4>3 DEF x
    <3> QED BY <3>3, <3>4
  <2>5. CASE ~(x.kind = "app" /\ x.owner = e)
    <3>1. f = x
      BY <2>2, <2>5
    <3>2. CASE x.listed /\ x.owner = e
      <4>1. os[o] = [x EXCEPT !.dirty = TRUE, !.listed = FALSE]
        BY <2>3, <3>1, <3>2
      <4>2. Alike(os[o], x) /\ os[o].kind # "app"
        BY <2>1, <2>5, <3>2, <4>1 DEF Alike, Objects
      <4>3. x.kind # "free"
        BY <2>1, <3>2 DEF Blank
      <4>4. Tells(os[o])
        BY <4>2 DEF Tells
      <4> QED BY <4>2, <4>3, <4>4 DEF x
    <3>3. CASE ~(x.listed /\ x.owner = e)
      <4>1. os[o] = x
        BY <2>3, <3>1, <3>3
      <4>2. Alike(x, x)
        BY DEF Alike
      <4> QED BY <2>1, <4>1, <4>2 DEF x
    <3> QED BY <3>2, <3>3
  <2> QED BY <2>4, <2>5
<1> HIDE DEF forgot, os
<1>5. Good(os)
  BY <1>3, <1>4, MarkedKeeps
<1>6. CASE objs' = os
  BY <1>1, <1>5, <1>6, QuietStep
<1>7. ASSUME NEW h \in Handles, Fresh(h), objs' = With(os, h, NewApp(e))
      PROVE  BInv'
  <2> DEFINE made == [Object("app", e, None) EXCEPT !.user = FALSE]
             app == NewApp(e)
  <2>1. Made(made, "app", e, None)
    BY ObjectMade DEF Kinds
  <2>2. app = [made EXCEPT !.listed = TRUE]
    BY <2>1 DEF NewApp, Made, Objects
  <2> HIDE DEF made, app
  <2>3. /\ app \in Objects /\ app.kind = "app" /\ app.owner = e /\ app.n >= 1 /\ app.current = None
        /\ app.fresh = TRUE /\ app.dirty = FALSE /\ app.listed = TRUE
    BY <2>1, <2>2 DEF Made, Objects
  <2>4. Tells(app)
    BY <2>3 DEF Tells
  <2>5. os[h].kind = "free" /\ os[e].kind = "emv"
    BY <1>1, <1>4, <1>7 DEF Fresh, Live, Alike
  <2>6. Good(With(os, h, app))
    BY <1>5, <2>3, <2>4, <2>5, NewObject
  <2> QED BY <1>1, <1>7, <2>6, QuietStep DEF app
<1> QED BY <1>6, <1>7 DEF AppselPse, os, forgot

\* The program takes an application out of the list: what the mark then says
\* of it is not promised.
LEMMA TakeOutStep == ASSUME BInv, NEW a \in Handles, TakeOut(a) PROVE BInv'
<1> DEFINE out == [objs[a] EXCEPT !.listed = FALSE, !.taken = TRUE]
<1>0. objs \in [Handles -> Objects] /\ objs[a] \in Objects /\ Sound(objs)
  BY DEF BInv, Sound
<1>1. UNCHANGED device /\ objs' = [objs EXCEPT ![a] = out] /\ objs[a].listed
  BY <1>0 DEF TakeOut, device
<1>2. out \in Objects /\ Alike(out, objs[a]) /\ out.taken = TRUE
  BY <1>0 DEF Objects, Alike
<1>3. objs[a].kind # "free"
  BY <1>0, <1>1 DEF Sound, Blank
<1> HIDE DEF out
<1>4. /\ objs' \in [Handles -> Objects] /\ objs'[a] = out
      /\ \A o \in Handles \ {a} : objs'[o] = objs[o]
  BY <1>0, <1>1, <1>2
<1>5. \A o \in Handles : /\ Alike(objs'[o], objs[o])
                         /\ objs[o].kind = "free" => objs'[o] = Blank
                         /\ Tells(objs'[o])
  <2> SUFFICES ASSUME NEW o \in Handles
               PROVE  /\ Alike(objs'[o], objs[o])
                      /\ objs[o].kind = "free" => objs'[o] = Blank
                      /\ Tells(objs'[o])
    OBVIOUS
  <2>1. CASE o = a
    BY <1>2, <1>3, <1>4, <2>1 DEF Tells
  <2>2. CASE o # a
    BY <1>0, <1>4, <2>2 DEF Sound, Alike
  <2> QED BY <2>1, <2>2
<1>6. Good(objs')
  BY <1>4, <1>5, MarkedKeeps
<1> QED BY <1>1, <1>6, QuietStep

\* Reading the records again frees the old ones under their objects.
LEMMA ReadAppDataStep == ASSUME BInv, NEW e \in Handles, ReadAppData(e) PROVE BInv'
<1> DEFINE os == ForgetData(objs, e)
<1>0. Sound(objs) /\ objs \in [Handles -> Objects]
  BY DEF BInv, Sound
<1>1. UNCHANGED device /\ objs[e].kind = "emv"
  BY DEF ReadAppData, Asks, Mine, Of
<1>2. \A o \in Handles : [objs[o] EXCEPT !.fresh = FALSE] \in Objects
  BY <1>0 DEF Objects
<1>3. os \in [Handles -> Objects]
  BY <1>0, <1>2 DEF ForgetData
<1>4. \A o \in Handles : /\ Alike(os[o], objs[o])
                         /\ objs[o].kind = "free" => os[o] = Blank
                         /\ Tells(os[o])
  <2> SUFFICES ASSUME NEW o \in Handles
               PROVE  /\ Alike(os[o], objs[o])
                      /\ objs[o].kind = "free" => os[o] = Blank
                      /\ Tells(os[o])
    OBVIOUS
  <2>1. CASE objs[o].kind = "data" /\ objs[o].owner = e
    <3>1. os[o] = [objs[o] EXCEPT !.fresh = FALSE]
      BY <2>1 DEF ForgetData
    <3> QED BY <1>0, <2>1, <3>1 DEF Alike, Objects, Tells
  <2>2. CASE ~(objs[o].kind = "data" /\ objs[o].owner = e)
    <3>1. os[o] = objs[o]
      BY <2>2 DEF ForgetData
    <3> QED BY <1>0, <3>1 DEF Alike, Sound
  <2> QED BY <2>1, <2>2
<1> HIDE DEF os
<1>5. Good(os)
  BY <1>3, <1>4, MarkedKeeps
<1>6. CASE objs' = os
  BY <1>1, <1>5, <1>6, QuietStep
<1>7. ASSUME NEW h \in Handles, Fresh(h), objs' = With(os, h, Object("data", e, None))
      PROVE  BInv'
  <2>1. Made(Object("data", e, None), "data", e, None)
    BY ObjectMade DEF Kinds
  <2>2. os[h].kind = "free" /\ os[e].kind = "emv"
    BY <1>1, <1>4, <1>7 DEF Fresh, Live, Alike
  <2>3. Good(With(os, h, Object("data", e, None)))
    BY <1>5, <2>1, <2>2, NewObject DEF Made, Tells
  <2> QED BY <1>1, <1>7, <2>3, QuietStep
<1> QED BY <1>6, <1>7 DEF ReadAppData, os

\* A method that walks into freed memory ends the behaviour, and changes nothing else.
LEMMA StopStep == ASSUME BInv, NEW what, Stop(what) PROVE BInv'
<1>1. objs' = objs /\ UNCHANGED device
  BY DEF Stop
<1> QED BY <1>1, Unmarked, QuietStep

\* A child of a data object has one reference more than anything drops.
LEMMA DataChildrenStep ==
  ASSUME BInv, NEW h \in Handles, NEW x \in Handles, DataChildren(h, x) PROVE BInv'
<1> DEFINE child == [Object("data", objs[x].owner, None) EXCEPT !.n = 2]
<1>1. CASE ~objs[x].fresh
  BY <1>1, StopStep DEF DataChildren
<1>2. CASE objs[x].fresh
  <2>1. UNCHANGED device /\ objs[h].kind = "free" /\ objs' = With(objs, h, child)
    BY <1>2 DEF DataChildren, Fresh, Live
  <2>2. objs[x].owner \in Handles /\ objs[objs[x].owner].kind = "emv"
    BY DEF DataChildren, Mine, Of, BInv, Sound, OwnerOf
  <2>3. Made(child, "data", objs[x].owner, None)
    BY <2>2, ObjectMade DEF Kinds
  <2> HIDE DEF child
  <2>4. Good(With(objs, h, child))
    BY <2>1, <2>2, <2>3, Unmarked, NewObject DEF Made, Tells
  <2> QED BY <2>1, <2>4, QuietStep
<1> QED BY <1>1, <1>2

\* set_current: the application before is marked, a new one is the session's.
LEMMA SetCurrentStep ==
  ASSUME BInv, NEW h \in Handles, NEW e \in Handles, objs[e].kind = "emv", SetCurrent(h, e)
  PROVE  BInv'
<1> DEFINE was == objs[e].current
           os == IF was = None THEN objs ELSE [objs EXCEPT ![was].dirty = TRUE]
           new == [Object("cur", e, None) EXCEPT !.user = FALSE]
           r == With(os, h, new)
           s == [r EXCEPT ![e].current = h]
<1>0. Sound(objs) /\ objs \in [Handles -> Objects] /\ was \in Handles \cup {None, Dangling}
  BY DEF BInv, Sound, Objects
<1>1. CASE was = Dangling
  BY <1>1, StopStep DEF SetCurrent
<1>2. CASE was # Dangling
  <2>1. UNCHANGED device /\ objs[h].kind = "free" /\ objs' = s
    BY <1>2 DEF SetCurrent, Fresh, Live
  <2>2. Good(os)
    <3>1. CASE was = None
      BY <3>1, Unmarked
    <3>2. CASE was # None
      <4>1. was \in Handles /\ [objs[was] EXCEPT !.dirty = TRUE] \in Objects /\ objs[was].kind = "cur"
        BY <1>0, <1>2, <3>2 DEF BInv, Currents, Objects
      <4>2. /\ os \in [Handles -> Objects] /\ os[was] = [objs[was] EXCEPT !.dirty = TRUE]
            /\ \A o \in Handles \ {was} : os[o] = objs[o]
        BY <1>0, <3>2, <4>1
      <4>3. os[was].kind = "cur" /\ Alike(os[was], objs[was])
        BY <1>0, <4>1, <4>2 DEF Alike, Objects
      <4> HIDE DEF os
      <4>4. \A o \in Handles : /\ Alike(os[o], objs[o])
                               /\ objs[o].kind = "free" => os[o] = Blank
                               /\ Tells(os[o])
        <5> SUFFICES ASSUME NEW o \in Handles
                     PROVE  /\ Alike(os[o], objs[o])
                            /\ objs[o].kind = "free" => os[o] = Blank
                            /\ Tells(os[o])
          OBVIOUS
        <5>1. CASE o = was
          BY <4>1, <4>3, <5>1 DEF Tells
        <5>2. CASE o # was
          BY <1>0, <4>2, <5>2 DEF Alike, Sound
        <5> QED BY <5>1, <5>2
      <4> QED BY <4>2, <4>4, MarkedKeeps
    <3> QED BY <3>1, <3>2
  <2>3. os[h].kind = "free" /\ os[e].kind = "emv" /\ e # h
    <3>1. \A o \in Handles : [objs[o] EXCEPT !.dirty = TRUE].kind = objs[o].kind
      BY <1>0 DEF Objects
    <3> QED BY <1>0, <1>2, <2>1, <3>1
  <2>4. Made(new, "cur", e, None)
    BY ObjectMade DEF Kinds
  <2> HIDE DEF os, new
  <2>5. Good(r)
    BY <2>2, <2>3, <2>4, NewObject DEF Made, Tells
  <2>6. r[h] = new /\ Same(r[e], os[e]) /\ r[h].kind = "cur" /\ r[e].kind = "emv"
    BY <2>2, <2>3, <2>4, WithKeeps DEF Good, Sound, Made, Same
  <2> HIDE DEF r
  <2>7. r \in [Handles -> Objects] /\ Sound(r)
    BY <2>5 DEF Good, Sound
  <2>8. /\ s \in [Handles -> Objects] /\ s[e] = [r[e] EXCEPT !.current = h]
        /\ \A o \in Handles \ {e} : s[o] = r[o]
    <3>1. [r[e] EXCEPT !.current = h] \in Objects
      BY <2>7 DEF Objects
    <3> QED BY <2>7, <3>1
  <2>9. /\ s[e].kind = r[e].kind /\ s[e].owner = r[e].owner /\ s[e].n = r[e].n
        /\ s[e].user = r[e].user /\ s[e].at = r[e].at /\ s[e].current = h
    BY <2>7, <2>8 DEF Objects
  <2> HIDE DEF s
  <2>10. \A o \in Handles : /\ s[o].kind = r[o].kind /\ s[o].owner = r[o].owner
                            /\ s[o].n = r[o].n /\ s[o].user = r[o].user /\ s[o].at = r[o].at
                            /\ r[o].kind = "free" => s[o] = Blank
                            /\ Tells(s[o])
    <3> SUFFICES ASSUME NEW o \in Handles
                 PROVE  /\ s[o].kind = r[o].kind /\ s[o].owner = r[o].owner
                        /\ s[o].n = r[o].n /\ s[o].user = r[o].user /\ s[o].at = r[o].at
                        /\ r[o].kind = "free" => s[o] = Blank
                        /\ Tells(s[o])
      OBVIOUS
    <3>1. CASE o = e
      BY <2>6, <2>9, <3>1 DEF Tells
    <3>2. CASE o # e
      BY <2>7, <2>8, <3>2 DEF Sound
    <3> QED BY <3>1, <3>2
  <2>11. Sound(s)
    BY <2>7, <2>8, <2>10, Marked
  <2>12. Currents(s)
    <3> SUFFICES ASSUME NEW x \in Handles, s[x].kind = "emv", s[x].current \notin {None, Dangling}
                 PROVE  s[s[x].current].kind = "cur"
      BY DEF Currents
    <3>1. CASE x = e
      BY <2>3, <2>6, <2>8, <2>9, <3>1
    <3>2. CASE x # e
      <4>1. s[x] = r[x] /\ r[x].current \in Handles /\ r[r[x].current].kind = "cur"
        BY <2>5, <2>7, <2>8, <3>2 DEF Good, Currents, Objects
      <4> QED BY <2>10, <4>1
    <3> QED BY <3>1, <3>2
  <2>13. Pointers(s, lists, reader) /\ \A d \in Devices : Alone(s, d) = Alone(r, d)
    BY <2>5, <2>10 DEF Good, Pointers, Alone
  <2>14. Good(s)
    BY <2>5, <2>11, <2>12, <2>13 DEF Good
  <2> QED BY <2>1, <2>14, QuietStep
<1> QED BY <1>1, <1>2

\* Selecting makes one application object the session's current one.
LEMMA SelectStep ==
  ASSUME BInv, NEW h \in Handles, NEW e \in Handles,
         SelectAid(h, e) \/ \E a \in Handles : SelectPse(h, e, a)
  PROVE  BInv'
<1>1. objs[e].kind = "emv"
  BY DEF SelectAid, SelectPse, Asks, Mine, Of
<1>2. SetCurrent(h, e) \/ \E what : Stop(what)
  BY DEF SelectAid, SelectPse
<1> QED BY <1>1, <1>2, SetCurrentStep, StopStep

\* One object has its references counted anew.
LEMMA Recounted ==
  ASSUME BInv, UNCHANGED device, NEW r \in Handles, objs[r].kind # "free",
         objs' \in [Handles -> Objects], \A o \in Handles \ {r} : objs'[o] = objs[o],
         Same(objs'[r], objs[r]), objs'[r].n >= 1,
         Cardinality(OwnedIn(objs, r)) + ByUser(objs'[r]) <= objs'[r].n
  PROVE  BInv'
<1>1. Sound(objs) /\ \A o \in Handles : Same(objs'[o], objs[o])
  BY DEF BInv, Same
<1>2. \A o \in Handles : /\ objs'[o].kind = objs[o].kind /\ objs'[o].owner = objs[o].owner
                         /\ objs[o].kind = "free" => objs'[o] = Blank
                         /\ objs[o].kind # "free" =>
                              /\ objs'[o].n >= 1
                              /\ Cardinality(OwnedIn(objs, o)) + ByUser(objs'[o]) <= objs'[o].n
                         /\ Tells(objs'[o])
  <2> SUFFICES ASSUME NEW o \in Handles
               PROVE  /\ objs'[o].kind = objs[o].kind /\ objs'[o].owner = objs[o].owner
                      /\ objs[o].kind = "free" => objs'[o] = Blank
                      /\ objs[o].kind # "free" =>
                           /\ objs'[o].n >= 1
                           /\ Cardinality(OwnedIn(objs, o)) + ByUser(objs'[o]) <= objs'[o].n
                      /\ Tells(objs'[o])
    OBVIOUS
  <2>1. CASE o = r
    BY <1>1, <2>1 DEF Same, Sound, Tells
  <2>2. CASE o # r
    BY <1>1, <2>2 DEF Sound, Counted
  <2> QED BY <2>1, <2>2
<1>3. Sound(objs')
  BY <1>1, <1>2, Changed
<1>4. Currents(objs')
  <2> SUFFICES ASSUME NEW e \in Handles, objs'[e].kind = "emv",
                      objs'[e].current \notin {None, Dangling}
               PROVE  objs'[objs'[e].current].kind = "cur"
    BY DEF Currents
  <2>1. objs'[e].current \in Handles /\ objs'[e].current = objs[e].current
        /\ objs[objs[e].current].kind = "cur"
    BY <1>1 DEF Same, BInv, Currents, Objects
  <2> QED BY <1>1, <2>1 DEF Same
<1>5. Pointers(objs', lists, reader) /\ \A d \in Devices : Alone(objs', d) = Alone(objs, d)
  BY <1>1 DEF BInv, Pointers, Alone, Same
<1>6. Good(objs')
  BY <1>3, <1>4, <1>5 DEF Good
<1> QED BY <1>6, QuietStep

\* cci_owner_get
LEMMA OwnerGetStep == ASSUME BInv, NEW c \in Handles, OwnerGet(c) PROVE BInv'
<1> DEFINE r == objs[c].owner
           x == [objs[r] EXCEPT !.n = @ + 1, !.user = TRUE]
<1>1. CASE r = None
  BY <1>1, StopStep DEF OwnerGet
<1>2. CASE r # None
  <2>1. r \in Handles /\ objs \in [Handles -> Objects] /\ Sound(objs)
    BY <1>2 DEF BInv, Sound, Objects
  <2>2. objs[r].kind # "free" /\ objs[r] \in Objects
    BY <2>1, OwnerLives
  <2>3. /\ UNCHANGED device /\ ~objs[r].user
        /\ objs' = [objs EXCEPT ![r] = x]
    BY <1>2, <2>1 DEF OwnerGet
  <2>4. x \in Objects /\ Same(x, objs[r]) /\ x.n = objs[r].n + 1 /\ x.user = TRUE
    <3>1. ASSUME NEW y \in Objects, NEW m \in Nat
          PROVE  LET z == [y EXCEPT !.n = m, !.user = TRUE]
                 IN z \in Objects /\ Same(z, y) /\ z.n = m /\ z.user = TRUE
      BY DEF Objects, Same
    <3>2. objs[r].n + 1 \in Nat
      BY <2>2 DEF Objects
    <3> QED BY <2>2, <3>1, <3>2
  <2> HIDE DEF x
  <2>5. objs' \in [Handles -> Objects] /\ objs'[r] = x /\ \A o \in Handles \ {r} : objs'[o] = objs[o]
    BY <2>1, <2>3, <2>4
  <2>6. ByUser(x) = 1 /\ ByUser(objs[r]) = 0
    BY <2>3, <2>4 DEF ByUser
  <2>7. x.n >= 1 /\ Cardinality(OwnedIn(objs, r)) + ByUser(x) <= x.n
    <3>1. Counted(objs, r) /\ objs[r].n \in Nat /\ Cardinality(OwnedIn(objs, r)) \in Nat
      BY <2>1, <2>2, OwnedFinite DEF Sound, Objects
    <3> QED BY <2>4, <2>6, <3>1 DEF Counted
  <2> QED BY <2>1, <2>2, <2>3, <2>4, <2>5, <2>7, Recounted
<1> QED BY <1>1, <1>2

\* cp_current_app: no object refers to an application, so that the session's
\* reference, given away, is the one that counts.
LEMMA CurrentAppStep == ASSUME BInv, NEW e \in Handles, CurrentApp(e) PROVE BInv'
<1> DEFINE a == objs[e].current
           x == [objs[a] EXCEPT !.user = TRUE]
<1>1. CASE a = Dangling
  BY <1>1, StopStep DEF CurrentApp
<1>2. CASE a # Dangling
  <2>1. /\ objs \in [Handles -> Objects] /\ Sound(objs) /\ objs[e].kind = "emv" /\ a # None
        /\ UNCHANGED device /\ objs' = [objs EXCEPT ![a].user = TRUE]
    BY <1>2 DEF CurrentApp, Mine, Of, BInv, Sound
  <2>2. a \in Handles /\ objs[a].kind = "cur"
    BY <1>2, <2>1 DEF BInv, Currents, Objects
  <2>3. x \in Objects /\ Same(x, objs[a]) /\ x.n = objs[a].n
    BY <2>1, <2>2 DEF Objects, Same
  <2>4. objs' = [objs EXCEPT ![a] = x]
    BY <2>1
  <2> HIDE DEF x
  <2>5. objs' \in [Handles -> Objects] /\ objs'[a] = x /\ \A o \in Handles \ {a} : objs'[o] = objs[o]
    BY <2>1, <2>2, <2>3, <2>4
  <2>6. OwnedIn(objs, a) = {}
    BY <2>1, <2>2, OwnerLives DEF OwnedIn
  <2>7. x.n >= 1 /\ Cardinality(OwnedIn(objs, a)) + ByUser(x) <= x.n
    <3>1. objs[a].n >= 1 /\ objs[a].n \in Nat
      BY <2>1, <2>2 DEF Sound, Counted, Objects
    <3>2. Cardinality({}) = 0 /\ ByUser(x) \in {0, 1}
      BY FS_EmptySet DEF ByUser
    <3> QED BY <2>3, <2>6, <3>1, <3>2
  <2> QED BY <2>1, <2>2, <2>3, <2>5, <2>7, Recounted
<1> QED BY <1>1, <1>2

-----------------------------------------------------------------------------
(* Recognising and probing devices.                                        *)

\* A set of numbers that is not empty has a least element.
LEMMA LeastExists ==
  ASSUME NEW S, S \subseteq Nat, S # {}
  PROVE  \E x \in S : \A y \in S : x <= y
<1> DEFINE Below == OpToRel(<, Nat)
<1>1. IsWellFoundedOn(Below, Nat)
  BY NatLessThanWellFounded
<1>2. \A x, y \in Nat : y < x => <<y, x>> \in Below
  BY DEF OpToRel
<1> HIDE DEF Below
<1>3. PICK x \in S : \A y \in S : <<y, x>> \notin Below
  BY <1>1, WFMin
<1>4. ASSUME NEW y \in S PROVE x <= y
  <2>1. x \in Nat /\ y \in Nat /\ ~(y < x)
    BY <1>2, <1>3
  <2> QED BY <2>1
<1> QED BY <1>4

\* The greatest of a set of numbers within bounds is one of them.
LEMMA GreatestIn ==
  ASSUME NEW S, NEW n \in Nat, S \subseteq 1 .. n, S # {}
  PROVE  Greatest(S) \in S
<1> DEFINE T == {n - x : x \in S}
<1>1. \A x \in S : x \in Int /\ n - x \in Nat
  OBVIOUS
<1>2. T \subseteq Nat /\ T # {}
  BY <1>1
<1>3. PICK t \in T : \A u \in T : t <= u
  BY <1>2, LeastExists
<1>4. PICK x \in S : t = n - x
  OBVIOUS
<1>5. ASSUME NEW y \in S PROVE x >= y
  <2>1. n - y \in T
    OBVIOUS
  <2>2. t <= n - y
    BY <1>3, <2>1
  <2> QED BY <1>1, <1>4, <2>2
<1>6. \E z \in S : \A y \in S : z >= y
  BY <1>5
<1> QED BY <1>6 DEF Greatest

\* get_endpoint, fill_ccid_desc: a device that is probed has a number of slots.
LEMMA SlotsCounted ==
  ASSUME NEW d \in Devices, ProbeDescriptors(d) # <<>>
  PROVE  Walk(d).slots \in Nat
<1> DEFINE ifs == d.configs[1]
           S == {i \in DOMAIN ifs : ifs[i].desc # "none"}
<1>1. d.configs \in Seq(Seq(Interface))
  BY DeviceAssumption DEF Device
<1>2. DOMAIN d.configs # {}
  BY DEF ProbeDescriptors
<1>3. 1 \in DOMAIN d.configs
  <2>1. DOMAIN d.configs = 1 .. Len(d.configs) /\ Len(d.configs) \in Nat
    BY <1>1
  <2> QED BY <1>2, <2>1
<1>4. ifs \in Seq(Interface)
  BY <1>1, <1>3
<1>5. DOMAIN ifs = 1 .. Len(ifs) /\ Len(ifs) \in Nat
  BY <1>4
<1>6. CASE S = {}
  <2>1. Walk(d).slots = 0
    BY <1>6 DEF Walk
  <2> QED BY <2>1
<1>7. CASE S # {}
  <2> HIDE DEF ifs
  <2>1. S \subseteq 1 .. Len(ifs)
    BY <1>5
  <2>2. Greatest(S) \in S
    BY <1>5, <1>7, <2>1, GreatestIn
  <2>3. Greatest(S) \in 1 .. Len(ifs) /\ Greatest(S) # 0
    BY <1>5, <2>1, <2>2
  <2>4. ifs[Greatest(S)].slots \in Nat
    <3>1. ifs[Greatest(S)] \in Interface
      BY <1>4, <1>5, <2>3
    <3>2. ifs[Greatest(S)].slots \in 0 .. 256
      BY <3>1 DEF Interface
    <3>3. \A v \in 0 .. 256 : v \in Nat
      OBVIOUS
    <3> QED BY <3>2, <3>3, Zenon
  <2>5. Walk(d).slots = ifs[Greatest(S)].slots
    BY <1>7, <2>3 DEF Walk, ifs
  <2> QED BY <2>4, <2>5
<1> QED BY <1>6, <1>7

\* ccid_probe: the labels give back what was acquired, but for the trace file
\* and the tables; and nothing that was not.
LEMMA UndoFits ==
  ASSUME NEW n \in DOMAIN ProbeSteps, NEW w \in Wants
  PROVE  /\ Acquired(n, w) \ Undo(ProbeSteps[n].label) \subseteq {"trace", "rates", "clocks"}
         /\ Undo(ProbeSteps[n].label) \subseteq Acquired(n, w)
<1>1. n \in 1 .. 12
  BY DEF ProbeSteps
<1>2. /\ ProbeSteps[1].gets = {} /\ ProbeSteps[2].gets = {"ccid"} /\ ProbeSteps[3].gets = {"trace"}
      /\ ProbeSteps[4].gets = {"usb"} /\ ProbeSteps[5].gets = {} /\ ProbeSteps[6].gets = {}
      /\ ProbeSteps[7].gets = {} /\ ProbeSteps[8].gets = {} /\ ProbeSteps[9].gets = {"rates"}
      /\ ProbeSteps[10].gets = {"clocks"} /\ ProbeSteps[11].gets = {"xfr"}
  BY DEF ProbeSteps, Step
<1>3. /\ \A k \in 1 .. 10 : ProbeSteps[k].gets \subseteq {"ccid", "trace", "usb", "rates", "clocks"}
      /\ \A k \in 1 .. 3 : ProbeSteps[k].gets \subseteq {"ccid", "trace"}
      /\ \A k \in 1 .. 1 : ProbeSteps[k].gets = {}
      /\ \A k \in 1 .. 11 : ProbeSteps[k].gets \subseteq {"ccid", "trace", "usb", "rates", "clocks", "xfr"}
  <2>1. \A k \in 1 .. 11 : k \in {1, 2, 3, 4, 5, 6, 7, 8, 9, 10, 11}
    OBVIOUS
  <2>2. \A k \in 1 .. 10 : k \in {1, 2, 3, 4, 5, 6, 7, 8, 9, 10}
    OBVIOUS
  <2>3. \A k \in 1 .. 3 : k \in {1, 2, 3}
    OBVIOUS
  <2> QED BY <1>2, <2>1, <2>2, <2>3
<1>4. \A x : x \in Acquired(n, w) <=>
        (\E k \in 1 .. n - 1 : x \in ProbeSteps[k].gets) /\ ~(x \in Optional /\ x \notin w)
  BY DEF Acquired
<1>5. CASE n \in {1, 2}
  <2>1. ProbeSteps[n].label = "out" /\ 1 .. n - 1 \subseteq 1 .. 1
    BY <1>5 DEF ProbeSteps, Step
  <2>2. Undo(ProbeSteps[n].label) = {}
    BY <2>1 DEF Undo
  <2>3. Acquired(n, w) = {}
    BY <1>3, <1>4, <2>1
  <2> QED BY <2>2, <2>3
<1>6. CASE n \in {3, 4}
  <2>1. ProbeSteps[n].label = "out_free" /\ 1 .. n - 1 \subseteq 1 .. 3 /\ 2 \in 1 .. n - 1
    BY <1>6 DEF ProbeSteps, Step
  <2>2. Undo(ProbeSteps[n].label) = {"ccid"}
    BY <2>1 DEF Undo
  <2>3. Acquired(n, w) \subseteq {"ccid", "trace"}
    BY <1>3, <1>4, <2>1
  <2>4. "ccid" \in Acquired(n, w)
    BY <1>2, <1>4, <2>1 DEF Optional
  <2> QED BY <2>2, <2>3, <2>4
<1>7. CASE n \in 5 .. 11
  <2>0. n \in {5, 6, 7, 8, 9, 10, 11}
    BY <1>7
  <2>1. ProbeSteps[n].label = "out_close" /\ 1 .. n - 1 \subseteq 1 .. 10
        /\ 2 \in 1 .. n - 1 /\ 4 \in 1 .. n - 1
    BY <2>0 DEF ProbeSteps, Step
  <2>2. Undo(ProbeSteps[n].label) = {"ccid", "usb"}
    BY <2>1 DEF Undo
  <2>3. Acquired(n, w) \subseteq {"ccid", "trace", "usb", "rates", "clocks"}
    BY <1>3, <1>4, <2>1
  <2>4. "ccid" \in Acquired(n, w) /\ "usb" \in Acquired(n, w)
    BY <1>2, <1>4, <2>1 DEF Optional
  <2> QED BY <2>2, <2>3, <2>4
<1>8. CASE n = 12
  <2>1. ProbeSteps[n].label = "out_freebuf" /\ 1 .. n - 1 = 1 .. 11
    BY <1>8 DEF ProbeSteps, Step
  <2>2. Undo(ProbeSteps[n].label) = {"ccid", "usb", "xfr"}
    BY <2>1 DEF Undo
  <2>3. Acquired(n, w) \subseteq {"ccid", "trace", "usb", "rates", "clocks", "xfr"}
    BY <1>3, <1>4, <2>1
  <2>4. "ccid" \in Acquired(n, w) /\ "usb" \in Acquired(n, w) /\ "xfr" \in Acquired(n, w)
    BY <1>2, <1>4, <2>1 DEF Optional
  <2> QED BY <2>2, <2>3, <2>4
<1> QED BY <1>1, <1>5, <1>6, <1>7, <1>8

\* What all the steps of a probe acquire is among the resources.
LEMMA AcquiredResources == ASSUME NEW w \in Wants PROVE Acquired(13, w) \subseteq Resources
<1>1. \A k \in 1 .. 12 : ProbeSteps[k].gets \subseteq Resources
  <2>1. \A k \in 1 .. 12 : k \in {1, 2, 3, 4, 5, 6, 7, 8, 9, 10, 11, 12}
    OBVIOUS
  <2> QED BY <2>1 DEF ProbeSteps, Step, Resources
<1>2. 13 - 1 = 12
  OBVIOUS
<1> QED BY <1>1, <1>2 DEF Acquired

\* Which of them a device and a caller ask for.
LEMMA AcquiredAll ==
  ASSUME NEW w \in Wants
  PROVE  /\ {"ccid", "usb", "xfr"} \subseteq Acquired(13, w)
         /\ "trace" \in w <=> "trace" \in Acquired(13, w)
         /\ Acquired(13, w) \subseteq {"ccid", "trace", "usb", "xfr", "rates", "clocks"}
<1>1. /\ ProbeSteps[2].gets = {"ccid"} /\ ProbeSteps[3].gets = {"trace"}
      /\ ProbeSteps[4].gets = {"usb"} /\ ProbeSteps[11].gets = {"xfr"}
  BY DEF ProbeSteps, Step
<1>2. 2 \in 1 .. 12 /\ 3 \in 1 .. 12 /\ 4 \in 1 .. 12 /\ 11 \in 1 .. 12 /\ 13 - 1 = 12
  OBVIOUS
<1>3. \A x : x \in Acquired(13, w) <=>
        (\E k \in 1 .. 12 : x \in ProbeSteps[k].gets) /\ ~(x \in Optional /\ x \notin w)
  BY <1>2 DEF Acquired
<1>4. \A k \in 1 .. 12 : ProbeSteps[k].gets \subseteq {"ccid", "trace", "usb", "xfr", "rates", "clocks"}
  <2>1. \A k \in 1 .. 12 : k \in {1, 2, 3, 4, 5, 6, 7, 8, 9, 10, 11, 12}
    OBVIOUS
  <2> QED BY <2>1 DEF ProbeSteps, Step
<1>5. {"ccid", "usb", "xfr"} \subseteq Acquired(13, w)
  BY <1>1, <1>2, <1>3 DEF Optional
<1>6. "trace" \in w <=> "trace" \in Acquired(13, w)
  BY <1>1, <1>2, <1>3 DEF Optional
<1>7. Acquired(13, w) \subseteq {"ccid", "trace", "usb", "xfr", "rates", "clocks"}
  BY <1>3, <1>4
<1> QED BY <1>5, <1>6, <1>7

-----------------------------------------------------------------------------
(* Steps that use devices.                                                 *)

\* Devices come and go, and probes fail: nothing is taken or given back.
LEMMA DeviceStep ==
  ASSUME BInv, UNCHANGED <<refs, lists, reader, objs>>, plugged' \subseteq Devices,
         leaked' \subseteq {"trace", "rates", "clocks"}, unowned' \subseteq {"stdout"}
  PROVE  BInv'
<1>1. Sound(objs)' /\ Currents(objs)' /\ Pointers(objs, lists, reader)'
  BY DEF BInv, Sound, Currents, Pointers, OwnerOf, Counted, OwnedIn, ByUser
<1>2. RefsKept'
  BY DEF BInv, RefsKept, Alone
<1>3. Readers'
  BY DEF BInv, Readers, ReleasedOnce, Resources
<1> QED BY <1>1, <1>2, <1>3 DEF BInv

\* Unplugging a device gives back none of its references.
LEMMA UnplugStep == ASSUME BInv, NEW d \in Devices, Unplug(d), UNCHANGED objs PROVE BInv'
BY DeviceStep DEF Unplug, BInv, Readers, ReleasedOnce

\* A probe that fails, at any of its steps, gives back what it took but for the trace file and tables.
LEMMA NewCcidFailsStep ==
  ASSUME BInv, NEW v \in Handles, NEW n \in DOMAIN ProbeSteps, NEW w \in Wants, NewCcidFails(v, n, w)
  PROVE  BInv'
<1>1. /\ leaked' = leaked \cup (Acquired(n, w) \ Undo(ProbeSteps[n].label))
      /\ unowned' = unowned \cup (Undo(ProbeSteps[n].label) \ Acquired(n, w))
      /\ UNCHANGED <<plugged, refs, lists, reader, objs>>
  BY DEF NewCcidFails, ProbeFails
<1>2. leaked \subseteq {"trace", "rates", "clocks"} /\ unowned \subseteq {"stdout"} /\ plugged \subseteq Devices
  BY DEF BInv, Readers, ReleasedOnce
<1>3. leaked' \subseteq {"trace", "rates", "clocks"} /\ unowned' \subseteq {"stdout"}
  BY <1>1, <1>2, UndoFits
<1> QED BY <1>1, <1>2, <1>3, DeviceStep

\* A new object that owns others, or has a reference of its own to a device.
LEMMA Joined ==
  ASSUME BInv, NEW h \in Handles, objs[h].kind = "free", NEW object \in Objects,
         object.n >= 1, object.current = None, object.owner = None,
         object.kind \in {"devlist", "ccid", "dev"}, objs' = With(objs, h, object)
  PROVE  /\ Sound(objs') /\ Currents(objs')
         /\ objs'[h] = object /\ \A x \in Handles \ {h} : Same(objs'[x], objs[x])
<1>1. Sound(objs) /\ Currents(objs) /\ objs \in [Handles -> Objects] /\ object.owner # h
  BY DeviceAssumption DEF BInv, Sound
<1>2. Sound(objs')
  BY <1>1, WithSound DEF Kinds, Tells
<1>3. objs'[h] = object /\ \A x \in Handles \ {h} : Same(objs'[x], objs[x])
  BY <1>1, WithKeeps
<1>4. Currents(objs')
  <2> SUFFICES ASSUME NEW e \in Handles, objs'[e].kind = "emv",
                      objs'[e].current \notin {None, Dangling}
               PROVE  objs'[objs'[e].current].kind = "cur"
    BY DEF Currents
  <2>1. e # h /\ Same(objs'[e], objs[e])
    BY <1>3
  <2>2. objs[e].current \in Handles /\ objs[objs[e].current].kind = "cur" /\ objs'[e].current = objs[e].current
    BY <1>1, <2>1 DEF Same, Currents, Objects
  <2> QED BY <1>3, <2>2 DEF Same
<1> QED BY <1>2, <1>3, <1>4

\* Of three sets that use a device, one has gained a handle, and so has the count.
LEMMA RefsStep ==
  ASSUME NEW a, NEW b, NEW c, NEW a1, NEW b1, NEW c1, NEW r, NEW r1, NEW h \in Handles,
         a \in SUBSET Handles, b \in SUBSET Handles, c \in SUBSET Handles,
         Cardinality(a) + Cardinality(b) + Cardinality(c) <= r, r \in Nat,
         \/ r1 = r + 1 /\ a1 \subseteq a \cup {h} /\ b1 \subseteq b /\ c1 \subseteq c
         \/ r1 = r + 1 /\ a1 \subseteq a /\ b1 \subseteq b \cup {h} /\ c1 \subseteq c
         \/ r1 = r + 1 /\ a1 \subseteq a /\ b1 \subseteq b /\ c1 \subseteq c \cup {h}
         \/ r1 = r /\ a1 \subseteq a /\ b1 \subseteq b /\ c1 \subseteq c
  PROVE  Cardinality(a1) + Cardinality(b1) + Cardinality(c1) <= r1
<1>1. a1 \in SUBSET Handles /\ b1 \in SUBSET Handles /\ c1 \in SUBSET Handles
  OBVIOUS
<1>2. /\ Cardinality(a) \in Nat /\ Cardinality(b) \in Nat /\ Cardinality(c) \in Nat
      /\ Cardinality(a1) \in Nat /\ Cardinality(b1) \in Nat /\ Cardinality(c1) \in Nat
  BY <1>1, Smaller
<1>3. ASSUME NEW s \in SUBSET Handles, NEW s1 \in SUBSET (s \cup {h})
      PROVE  Cardinality(s1) <= Cardinality(s) + 1 /\ (s1 \subseteq s => Cardinality(s1) <= Cardinality(s))
  BY OneMore, Smaller
<1>4. /\ a1 \subseteq a => Cardinality(a1) <= Cardinality(a)
      /\ b1 \subseteq b => Cardinality(b1) <= Cardinality(b)
      /\ c1 \subseteq c => Cardinality(c1) <= Cardinality(c)
      /\ a1 \subseteq a \cup {h} => Cardinality(a1) <= Cardinality(a) + 1
      /\ b1 \subseteq b \cup {h} => Cardinality(b1) <= Cardinality(b) + 1
      /\ c1 \subseteq c \cup {h} => Cardinality(c1) <= Cardinality(c) + 1
  BY <1>3
<1> QED BY <1>2, <1>4

\* libccid_get_device_list
LEMMA NewDevlistStep == ASSUME BInv, NEW h \in Handles, NewDevlist(h) PROVE BInv'
<1>1. /\ objs[h].kind = "free" /\ objs' = With(objs, h, Object("devlist", None, None))
      /\ lists' = [lists EXCEPT ![h] = Recognised]
      /\ refs' = [d \in Devices |-> IF d \in Recognised THEN refs[d] + 1 ELSE refs[d]]
      /\ UNCHANGED <<plugged, reader, leaked, unowned>>
  BY DEF NewDevlist, GetDeviceList, Fresh, Live
<1>2. Made(Object("devlist", None, None), "devlist", None, None)
  BY ObjectMade DEF Kinds
<1>3. /\ Sound(objs') /\ Currents(objs')
      /\ objs'[h].kind = "devlist" /\ \A x \in Handles \ {h} : Same(objs'[x], objs[x])
  BY <1>1, <1>2, Joined DEF Made
<1>4. Readers /\ RefsKept /\ Sound(objs) /\ Pointers(objs, lists, reader) /\ Recognised \subseteq Devices
  BY DEF BInv, Readers, Recognised
<1>5. /\ lists' \in [Handles -> SUBSET Devices] /\ lists'[h] = Recognised
      /\ \A x \in Handles \ {h} : lists'[x] = lists[x]
  BY <1>1, <1>4 DEF Readers
<1>6. Pointers(objs', lists', reader)
  <2> SUFFICES ASSUME NEW o \in Handles
               PROVE  /\ objs'[o].kind = "dev" =>
                           /\ objs'[o].at \in Devices
                           /\ objs'[o].owner # None => objs'[o].at \in lists'[objs'[o].owner]
                      /\ objs'[o].kind = "ccid" => reader[o].dev \in Devices
                      /\ objs'[o].kind = "cci" /\ objs'[o].owner # None =>
                           objs'[o].at \in 0 .. reader[objs'[o].owner].d_num_slots
                                                + reader[objs'[o].owner].d_num_rf - 1
    BY DEF Pointers
  <2>1. CASE o = h
    BY <1>3, <2>1
  <2>2. CASE o # h
    <3>1. Same(objs'[o], objs[o])
      BY <1>3, <2>2
    <3>2. objs[o].kind = "dev" /\ objs[o].owner # None => objs[o].owner \in Handles \ {h}
      BY <1>1, <1>4 DEF Sound, OwnerOf, Objects
    <3> QED BY <1>4, <1>5, <3>1, <3>2 DEF Pointers, Same
  <2> QED BY <2>1, <2>2
<1>7. RefsKept'
  <2> SUFFICES ASSUME NEW d \in Devices
               PROVE  Cardinality({x \in Handles : d \in lists'[x]}) +
                      Cardinality({x \in Handles : reader[x].dev = d}) +
                      Cardinality(Alone(objs', d)) <= refs'[d]
    BY <1>1 DEF RefsKept, Alone
  <2> DEFINE a == {x \in Handles : d \in lists[x]}
             b == {x \in Handles : reader[x].dev = d}
             c == Alone(objs, d)
             a1 == {x \in Handles : d \in lists'[x]}
             c1 == Alone(objs', d)
  <2>1. Cardinality(a) + Cardinality(b) + Cardinality(c) <= refs[d] /\ refs[d] \in Nat
    BY <1>4 DEF RefsKept, Readers
  <2>2. c1 \subseteq c
    BY <1>3 DEF Alone, Same
  <2>3. a1 \subseteq a \cup {h} /\ (d \notin Recognised => a1 \subseteq a)
    BY <1>5
  <2>4. a \in SUBSET Handles /\ b \in SUBSET Handles /\ c \in SUBSET Handles
    BY DEF Alone
  <2>5. refs'[d] = IF d \in Recognised THEN refs[d] + 1 ELSE refs[d]
    BY <1>1
  <2> HIDE DEF a, b, c, a1, c1
  <2>6. Cardinality(a1) + Cardinality(b) + Cardinality(c1) <= refs'[d]
    BY <2>1, <2>2, <2>3, <2>4, <2>5, RefsStep
  <2> QED BY <2>6 DEF a1, b, c1
<1>8. Readers'
  <2>1. refs' \in [Devices -> Nat]
    BY <1>1, <1>4 DEF Readers
  <2> QED BY <1>1, <1>4, <1>5, <2>1 DEF Readers, ReleasedOnce
<1>9. Sound(objs)' /\ Currents(objs)' /\ Pointers(objs, lists, reader)'
  BY <1>1, <1>3, <1>6 DEF Sound, Currents, Pointers, OwnerOf, Counted, OwnedIn, ByUser
<1> QED BY <1>7, <1>8, <1>9 DEF BInv

\* libccid_device_by_address
LEMMA NewDevStep == ASSUME BInv, NEW h \in Handles, NEW d \in Devices, NewDev(h, d) PROVE BInv'
<1>1. /\ objs[h].kind = "free" /\ objs' = With(objs, h, Object("dev", None, d))
      /\ refs' = [refs EXCEPT ![d] = @ + 1]
      /\ UNCHANGED <<plugged, lists, reader, leaked, unowned>>
  BY DEF NewDev, DeviceByAddress, Fresh, Live
<1>2. Made(Object("dev", None, d), "dev", None, d)
  BY ObjectMade DEF Kinds
<1>3. /\ Sound(objs') /\ Currents(objs')
      /\ objs'[h].kind = "dev" /\ objs'[h].owner = None /\ objs'[h].at = d
      /\ \A x \in Handles \ {h} : Same(objs'[x], objs[x])
  BY <1>1, <1>2, Joined DEF Made
<1>4. Readers /\ RefsKept /\ Pointers(objs, lists, reader)
  BY DEF BInv
<1>5. Pointers(objs', lists, reader)
  BY <1>3, <1>4 DEF Pointers, Same
<1>6. RefsKept'
  <2> SUFFICES ASSUME NEW e \in Devices
               PROVE  Cardinality({x \in Handles : e \in lists[x]}) +
                      Cardinality({x \in Handles : reader[x].dev = e}) +
                      Cardinality(Alone(objs', e)) <= refs'[e]
    BY <1>1 DEF RefsKept, Alone
  <2> DEFINE a == {x \in Handles : e \in lists[x]}
             b == {x \in Handles : reader[x].dev = e}
             c == Alone(objs, e)
             c1 == Alone(objs', e)
  <2>1. Cardinality(a) + Cardinality(b) + Cardinality(c) <= refs[e] /\ refs[e] \in Nat
    BY <1>4 DEF RefsKept, Readers
  <2>2. c1 \subseteq c \cup {h} /\ (e # d => c1 \subseteq c)
    BY <1>3 DEF Alone, Same
  <2>3. a \in SUBSET Handles /\ b \in SUBSET Handles /\ c \in SUBSET Handles
    BY DEF Alone
  <2>4. refs'[e] = IF e = d THEN refs[e] + 1 ELSE refs[e]
    BY <1>1, <1>4 DEF Readers
  <2> HIDE DEF a, b, c, c1
  <2>5. Cardinality(a) + Cardinality(b) + Cardinality(c1) <= refs'[e]
    BY <2>1, <2>2, <2>3, <2>4, RefsStep
  <2> QED BY <2>5 DEF a, b, c1
<1>7. Readers'
  <2>1. refs' \in [Devices -> Nat]
    BY <1>1, <1>4 DEF Readers
  <2> QED BY <1>1, <1>4, <2>1 DEF Readers, ReleasedOnce
<1>8. Sound(objs)' /\ Currents(objs)' /\ Pointers(objs, lists, reader)'
  BY <1>1, <1>3, <1>5 DEF Sound, Currents, Pointers, OwnerOf, Counted, OwnedIn, ByUser
<1> QED BY <1>6, <1>7, <1>8 DEF BInv

\* ccid_probe
LEMMA NewCcidStep ==
  ASSUME BInv, NEW h \in Handles, NEW v \in Handles, NEW w \in Wants, NewCcid(h, v, w)
  PROVE  BInv'
<1> DEFINE d == objs[v].at
           rf == IF d.listed = "omni" THEN w \cap {"rf"} ELSE {}
           rec == [dev |-> d, held |-> Acquired(13, w) \cup {"name"} \cup rf,
                   intf |-> ProbeDescriptors(d), d_tf |-> w \cap {"trace", "stdout"},
                   d_num_slots |-> Walk(d).slots, d_num_rf |-> Cardinality(rf), pipe |-> Walk(d).pipe]
<1>1. /\ objs[h].kind = "free" /\ objs[v].kind = "dev" /\ Reaches(d, 13)
      /\ objs' = With(objs, h, Object("ccid", None, None))
      /\ reader' = [reader EXCEPT ![h] = rec] /\ refs' = [refs EXCEPT ![d] = @ + 1]
      /\ UNCHANGED <<plugged, lists, leaked, unowned>> /\ ~(Walk(d).slots > MaxSlots)
  BY DEF NewCcid, Probe, Overruns, Fresh, Live, Mine, Of
<1>2. Made(Object("ccid", None, None), "ccid", None, None)
  BY ObjectMade DEF Kinds
<1>3. /\ Sound(objs') /\ Currents(objs')
      /\ objs'[h].kind = "ccid" /\ \A x \in Handles \ {h} : Same(objs'[x], objs[x])
  BY <1>1, <1>2, Joined DEF Made
<1>4. Readers /\ RefsKept /\ Sound(objs) /\ Pointers(objs, lists, reader)
  BY DEF BInv
<1>5. d \in Devices
  BY <1>1, <1>4 DEF Pointers
<1>6. /\ rec.dev = d /\ rec.held \subseteq Resources /\ rec.d_num_slots \in Nat /\ rec.d_num_rf \in Nat
      /\ rec.d_num_slots <= MaxSlots
      /\ Closes(rec) \ {"stdout"} \subseteq rec.held
      /\ rec.held \subseteq Closes(rec) \cup {"rates", "clocks"}
  <2>1. ProbeDescriptors(d) # <<>>
    BY <1>1 DEF Reaches
  <2>2. Walk(d).slots \in Nat
    BY <1>5, <2>1, SlotsCounted
  <2>3. rf \subseteq {"rf"} /\ {"name", "rf"} \subseteq Resources
    BY DEF Resources
  <2> HIDE DEF rf
  <2>4. Cardinality(rf) \in Nat /\ (rf = {} \/ Cardinality(rf) > 0)
    <3>1. IsFiniteSet({"rf"})
      BY FS_Singleton
    <3>2. IsFiniteSet(rf)
      BY <2>3, <3>1, FS_Subset
    <3>3. Cardinality(rf) \in Nat /\ (Cardinality(rf) = 0 <=> rf = {})
      BY <3>2, FS_CardinalityType, FS_EmptySet
    <3> QED BY <3>3
  <2>5. rec.held \subseteq Resources
    BY <2>3, AcquiredResources
  <2>6. Walk(d).slots <= MaxSlots
    BY <1>1, <2>2, DeviceAssumption
  <2>7. rf = {} => Cardinality(rf) = 0
    BY FS_EmptySet
  <2>8. rec.dev # None
    BY <1>5, DeviceAssumption
  <2>9. Closes(rec) = {"ccid", "usb", "xfr", "name"} \cup (w \cap {"trace", "stdout"}) \cup rf
    <3>1. CASE rf = {}
      BY <2>7, <2>8, <3>1 DEF Closes
    <3>2. CASE rf # {}
      BY <2>3, <2>4, <2>8, <3>2 DEF Closes
    <3> QED BY <3>1, <3>2
  <2>10. /\ {"ccid", "usb", "xfr"} \subseteq Acquired(13, w)
         /\ "trace" \in w <=> "trace" \in Acquired(13, w)
         /\ Acquired(13, w) \subseteq {"ccid", "trace", "usb", "xfr", "rates", "clocks"}
    BY AcquiredAll
  <2>11. /\ Closes(rec) \ {"stdout"} \subseteq Acquired(13, w) \cup {"name"} \cup rf
         /\ Acquired(13, w) \cup {"name"} \cup rf \subseteq Closes(rec) \cup {"rates", "clocks"}
    BY <2>9, <2>10
  <2> QED BY <2>2, <2>4, <2>5, <2>6, <2>11
<1> HIDE DEF rec
<1>7. /\ reader' = [x \in Handles |-> reader'[x]] /\ reader'[h] = rec
      /\ \A x \in Handles \ {h} : reader'[x] = reader[x]
  <2>1. reader = [x \in Handles |-> reader[x]]
    BY <1>4 DEF Readers
  <2>2. reader' = [x \in Handles |-> IF x = h THEN rec ELSE reader[x]]
    BY <1>1, <2>1
  <2> QED BY <2>2
<1>8. Pointers(objs', lists, reader')
  <2> SUFFICES ASSUME NEW o \in Handles
               PROVE  /\ objs'[o].kind = "dev" =>
                           /\ objs'[o].at \in Devices
                           /\ objs'[o].owner # None => objs'[o].at \in lists[objs'[o].owner]
                      /\ objs'[o].kind = "ccid" => reader'[o].dev \in Devices
                      /\ objs'[o].kind = "cci" /\ objs'[o].owner # None =>
                           objs'[o].at \in 0 .. reader'[objs'[o].owner].d_num_slots
                                                + reader'[objs'[o].owner].d_num_rf - 1
    BY DEF Pointers
  <2>1. CASE o = h
    BY <1>3, <1>5, <1>6, <1>7, <2>1
  <2>2. CASE o # h
    <3>1. Same(objs'[o], objs[o])
      BY <1>3, <2>2
    <3>2. objs[o].kind = "cci" /\ objs[o].owner # None => objs[o].owner \in Handles \ {h}
      BY <1>1, <1>4 DEF Sound, OwnerOf, Objects
    <3>3. objs[o].kind = "cci" /\ objs[o].owner # None => reader'[objs[o].owner] = reader[objs[o].owner]
      BY <1>7, <3>2
    <3> QED BY <1>4, <1>7, <2>2, <3>1, <3>3 DEF Pointers, Same
  <2> QED BY <2>1, <2>2
<1>9. RefsKept'
  <2> SUFFICES ASSUME NEW e \in Devices
               PROVE  Cardinality({x \in Handles : e \in lists[x]}) +
                      Cardinality({x \in Handles : reader'[x].dev = e}) +
                      Cardinality(Alone(objs', e)) <= refs'[e]
    BY <1>1 DEF RefsKept, Alone
  <2> DEFINE a == {x \in Handles : e \in lists[x]}
             b == {x \in Handles : reader[x].dev = e}
             c == Alone(objs, e)
             b1 == {x \in Handles : reader'[x].dev = e}
             c1 == Alone(objs', e)
  <2>1. Cardinality(a) + Cardinality(b) + Cardinality(c) <= refs[e] /\ refs[e] \in Nat
    BY <1>4 DEF RefsKept, Readers
  <2>2. c1 \subseteq c
    BY <1>3 DEF Alone, Same
  <2>3. b1 \subseteq b \cup {h} /\ (e # d => b1 \subseteq b)
    BY <1>6, <1>7
  <2>4. a \in SUBSET Handles /\ b \in SUBSET Handles /\ c \in SUBSET Handles
    BY DEF Alone
  <2>5. refs'[e] = IF e = d THEN refs[e] + 1 ELSE refs[e]
    BY <1>1, <1>4 DEF Readers
  <2> HIDE DEF a, b, c, b1, c1, d
  <2>6. Cardinality(a) + Cardinality(b1) + Cardinality(c1) <= refs'[e]
    BY <2>1, <2>2, <2>3, <2>4, <2>5, RefsStep
  <2> QED BY <2>6 DEF a, b1, c1
<1>10. Readers'
  <2>1. refs' \in [Devices -> Nat]
    <3> HIDE DEF d, rf
    <3> QED BY <1>1, <1>4, <1>5 DEF Readers
  <2>2. \A x \in Handles :
          /\ reader'[x].dev \in Devices \cup {None} /\ reader'[x].held \subseteq Resources
          /\ reader'[x].d_num_slots \in Nat /\ reader'[x].d_num_rf \in Nat
          /\ reader'[x].d_num_slots <= MaxSlots
          /\ Closes(reader'[x]) \ {"stdout"} \subseteq reader'[x].held
          /\ reader'[x].held \subseteq Closes(reader'[x]) \cup {"rates", "clocks"}
    BY <1>4, <1>5, <1>6, <1>7 DEF Readers
  <2> QED BY <1>1, <1>4, <1>7, <2>1, <2>2 DEF Readers, ReleasedOnce
<1>11. Sound(objs)' /\ Currents(objs)' /\ Pointers(objs, lists, reader)'
  BY <1>1, <1>3, <1>8 DEF Sound, Currents, Pointers, OwnerOf, Counted, OwnedIn, ByUser
<1> QED BY <1>9, <1>10, <1>11 DEF BInv

-----------------------------------------------------------------------------
(* Dropping references.                                                    *)

\* Without the handles that are gone, a set counts as many fewer.
LEMMA Without ==
  ASSUME NEW S \in SUBSET Handles, NEW gone \in SUBSET Handles
  PROVE  /\ Cardinality(S \ gone) = Cardinality(S) - Cardinality(S \cap gone)
         /\ Cardinality(S) \in Nat /\ Cardinality(S \cap gone) \in Nat /\ Cardinality(S \ gone) \in Nat
<1>1. IsFiniteSet(S)
  BY DeviceAssumption, FS_Subset
<1>2. IsFiniteSet(S \cap gone) /\ IsFiniteSet(S \ gone)
  BY <1>1, FS_Subset
<1>3. Cardinality(S \ gone) = Cardinality(S) - Cardinality(S \cap gone)
  BY <1>1, FS_Difference
<1> QED BY <1>1, <1>2, <1>3, FS_CardinalityType

\* What a session notices is nothing another object, or a count, depends on.
LEMMA NoticeSound ==
  ASSUME NEW os, Sound(os), NEW gone
  PROVE  LET r == Notice(os, gone)
         IN /\ Sound(r)
            /\ \A o \in Handles : r[o].kind = os[o].kind /\ r[o].owner = os[o].owner
            /\ \A o \in Handles : os[o].kind # "emv" => r[o] = os[o]
            /\ \A o \in Handles : os[o].kind = "emv" =>
                 r[o].current = IF os[o].current \in gone THEN Dangling ELSE os[o].current
<1> DEFINE r == Notice(os, gone)
           New(x) == [x EXCEPT !.fresh = @ /\ x.at \notin gone,
                               !.at = IF @ \in gone THEN None ELSE @,
                               !.current = IF @ \in gone THEN Dangling ELSE @]
<1>1. os \in [Handles -> Objects]
  BY DEF Sound
<1>2. \A o \in Handles : r[o] = IF os[o].kind # "emv" THEN os[o] ELSE New(os[o])
  BY DEF Notice
<1>3. ASSUME NEW x \in Objects
      PROVE  /\ New(x) \in Objects /\ New(x).kind = x.kind /\ New(x).owner = x.owner
             /\ New(x).n = x.n /\ New(x).user = x.user
             /\ New(x).current = IF x.current \in gone THEN Dangling ELSE x.current
  <2>1. ASSUME NEW f \in BOOLEAN, NEW a \in Devices \cup Nat \cup Handles \cup {None},
               NEW c \in Handles \cup {None, Dangling}
        PROVE  LET y == [x EXCEPT !.fresh = f, !.at = a, !.current = c]
               IN /\ y \in Objects /\ y.kind = x.kind /\ y.owner = x.owner
                  /\ y.n = x.n /\ y.user = x.user /\ y.current = c
    BY DEF Objects
  <2> DEFINE f0 == x.fresh /\ x.at \notin gone
             a0 == IF x.at \in gone THEN None ELSE x.at
             c0 == IF x.current \in gone THEN Dangling ELSE x.current
  <2>2. f0 \in BOOLEAN
    OBVIOUS
  <2>3. a0 \in Devices \cup Nat \cup Handles \cup {None} /\ c0 \in Handles \cup {None, Dangling}
    BY DEF Objects
  <2>4. New(x) = [x EXCEPT !.fresh = f0, !.at = a0, !.current = c0]
    OBVIOUS
  <2>5. c0 = IF x.current \in gone THEN Dangling ELSE x.current
    OBVIOUS
  <2> HIDE DEF f0, a0, c0, New
  <2>6. LET y == [x EXCEPT !.fresh = f0, !.at = a0, !.current = c0]
        IN /\ y \in Objects /\ y.kind = x.kind /\ y.owner = x.owner
           /\ y.n = x.n /\ y.user = x.user /\ y.current = c0
    BY <2>1, <2>2, <2>3
  <2> QED BY <2>4, <2>5, <2>6
<1> HIDE DEF New
<1>4. r = [o \in Handles |-> r[o]]
  BY DEF Notice
<1> HIDE DEF r
<1>5. r \in [Handles -> Objects]
  <2>1. \A o \in Handles : r[o] \in Objects
    BY <1>1, <1>2, <1>3
  <2> QED BY <1>4, <2>1
<1>6. \A o \in Handles : /\ r[o].kind = os[o].kind /\ r[o].owner = os[o].owner
                         /\ r[o].n = os[o].n /\ r[o].user = os[o].user
  BY <1>1, <1>2, <1>3
<1>7. \A o \in Handles : /\ os[o].kind = "free" => r[o] = Blank
                         /\ Tells(r[o])
  <2> SUFFICES ASSUME NEW o \in Handles
               PROVE  (os[o].kind = "free" => r[o] = Blank) /\ Tells(r[o])
    OBVIOUS
  <2>1. CASE os[o].kind = "emv"
    BY <1>6, <2>1 DEF Tells
  <2>2. CASE os[o].kind # "emv"
    BY <1>2, <2>2 DEF Sound
  <2> QED BY <2>1, <2>2
<1>8. Sound(r)
  BY <1>5, <1>6, <1>7, Marked
<1> QED BY <1>1, <1>2, <1>3, <1>6, <1>8 DEF r

\* What is freed is given back, and what is left points at nothing that was.
LEMMA DropStep == ASSUME BInv, NEW o \in Handles, Drop(o) PROVE BInv'
<1> DEFINE os == Dropped([objs EXCEPT ![o].user = FALSE], o)
           gone == {x \in Handles : Live(x) /\ os[x].kind = "free"}
<1>1. /\ objs[o].kind # "free" /\ objs[o].user
      /\ objs' = Notice(os, gone) /\ Release(gone)
  BY DEF Drop, Live
<1>2. Sound(objs) /\ Currents(objs) /\ Pointers(objs, lists, reader) /\ RefsKept /\ Readers
  BY DEF BInv
<1>3. Sound(os) /\ \A x \in Handles : os[x] = Blank \/ Same(os[x], objs[x])
  BY <1>1, <1>2, DroppedSound
<1>4. /\ gone \in SUBSET Handles
      /\ \A x \in Handles : os[x].kind # "free" => x \notin gone /\ Same(os[x], objs[x])
      /\ \A x \in Handles : x \notin gone /\ objs[x].kind # "free" => Same(os[x], objs[x])
  <2>1. Blank.kind = "free"
    BY DEF Blank
  <2> QED BY <1>3, <2>1 DEF Live
<1> HIDE DEF os, gone
<1>5. /\ Sound(objs')
      /\ \A x \in Handles : objs'[x].kind = os[x].kind /\ objs'[x].owner = os[x].owner
      /\ \A x \in Handles : os[x].kind # "emv" => objs'[x] = os[x]
      /\ \A x \in Handles : os[x].kind = "emv" =>
           objs'[x].current = IF os[x].current \in gone THEN Dangling ELSE os[x].current
  BY <1>1, <1>3, NoticeSound
<1>6. /\ lists' = [h \in Handles |-> IF h \in gone THEN {} ELSE lists[h]]
      /\ reader' = [h \in Handles |-> IF h \in gone THEN Closed ELSE reader[h]]
      /\ leaked' = leaked \cup UNION {reader[h].held \ Closes(reader[h]) : h \in gone}
      /\ unowned' = unowned \cup UNION {Closes(reader[h]) \ reader[h].held : h \in gone}
      /\ refs' = [d \in Devices |->
           refs[d] - Cardinality({h \in gone : d \in lists[h]})
                   - Cardinality({h \in gone : reader[h].dev = d})]
      /\ UNCHANGED plugged
  BY <1>1 DEF Release
<1>7. Currents(objs')
  <2> SUFFICES ASSUME NEW e \in Handles, objs'[e].kind = "emv",
                      objs'[e].current \notin {None, Dangling}
               PROVE  objs'[objs'[e].current].kind = "cur"
    BY DEF Currents
  <2>1. os[e].kind = "emv" /\ Same(os[e], objs[e])
    BY <1>4, <1>5
  <2>2. os[e].current \notin gone /\ objs'[e].current = os[e].current
        /\ objs[e].kind = "emv" /\ objs[e].current = os[e].current
    BY <1>5, <2>1 DEF Same
  <2>3. os[e].current \in Handles /\ objs[os[e].current].kind = "cur"
    BY <1>2, <2>2 DEF Currents, Sound, Objects
  <2>4. os[os[e].current].kind = "cur"
    BY <1>4, <2>2, <2>3 DEF Same
  <2> QED BY <1>5, <2>2, <2>3, <2>4
<1>8. Pointers(objs', lists', reader')
  <2> SUFFICES ASSUME NEW x \in Handles
               PROVE  /\ objs'[x].kind = "dev" =>
                           /\ objs'[x].at \in Devices
                           /\ objs'[x].owner # None => objs'[x].at \in lists'[objs'[x].owner]
                      /\ objs'[x].kind = "ccid" => reader'[x].dev \in Devices
                      /\ objs'[x].kind = "cci" /\ objs'[x].owner # None =>
                           objs'[x].at \in 0 .. reader'[objs'[x].owner].d_num_slots
                                                + reader'[objs'[x].owner].d_num_rf - 1
    BY DEF Pointers
  <2>1. OwnerOf(os, x) /\ os[x].owner \in Handles \cup {None}
    BY <1>3 DEF Sound, Objects
  <2>2. CASE objs'[x].kind = "dev"
    <3>1. objs'[x] = os[x] /\ Same(os[x], objs[x]) /\ objs[x].kind = "dev"
      BY <1>4, <1>5, <2>2 DEF Same
    <3>2. os[x].owner # None => lists'[os[x].owner] = lists[os[x].owner]
      BY <1>4, <1>6, <2>1, <2>2, <3>1 DEF OwnerOf
    <3> QED BY <1>2, <2>2, <3>1, <3>2 DEF Pointers, Same
  <2>3. CASE objs'[x].kind = "ccid"
    <3>1. x \notin gone /\ objs[x].kind = "ccid"
      BY <1>4, <1>5, <2>3 DEF Same
    <3> QED BY <1>2, <1>6, <2>3, <3>1 DEF Pointers
  <2>4. CASE objs'[x].kind = "cci"
    <3>1. objs'[x] = os[x] /\ Same(os[x], objs[x]) /\ objs[x].kind = "cci"
      BY <1>4, <1>5, <2>4 DEF Same
    <3>2. os[x].owner # None => reader'[os[x].owner] = reader[os[x].owner]
      BY <1>4, <1>6, <2>1, <2>4, <3>1 DEF OwnerOf
    <3> QED BY <1>2, <2>4, <3>1, <3>2 DEF Pointers, Same
  <2> QED BY <2>2, <2>3, <2>4
<1>9. ASSUME NEW d \in Devices
      PROVE  /\ Cardinality({h \in Handles : d \in lists'[h]}) +
                Cardinality({h \in Handles : reader'[h].dev = d}) +
                Cardinality(Alone(objs', d)) <= refs'[d]
             /\ refs'[d] \in Nat
  <2> DEFINE a == {x \in Handles : d \in lists[x]}
             b == {x \in Handles : reader[x].dev = d}
             c == Alone(objs, d)
             c1 == Alone(objs', d)
  <2>1. Cardinality(a) + Cardinality(b) + Cardinality(c) <= refs[d] /\ refs[d] \in Nat
    BY <1>2 DEF RefsKept, Readers
  <2>2. c1 \in SUBSET c /\ c \in SUBSET Handles
    <3>1. c1 \subseteq c
      BY <1>4, <1>5 DEF Alone, Same
    <3> QED BY <3>1 DEF Alone
  <2>3. {x \in Handles : d \in lists'[x]} = a \ gone /\ {x \in Handles : reader'[x].dev = d} = b \ gone
    BY <1>6, DeviceAssumption DEF Closed
  <2>4. {x \in gone : d \in lists[x]} = a \cap gone /\ {x \in gone : reader[x].dev = d} = b \cap gone
    BY <1>4
  <2>5. a \in SUBSET Handles /\ b \in SUBSET Handles
    OBVIOUS
  <2>6. refs'[d] = refs[d] - Cardinality(a \cap gone) - Cardinality(b \cap gone)
    BY <1>6, <2>4
  <2> HIDE DEF a, b, c, c1
  <2>7. /\ Cardinality(a \ gone) = Cardinality(a) - Cardinality(a \cap gone)
        /\ Cardinality(b \ gone) = Cardinality(b) - Cardinality(b \cap gone)
        /\ Cardinality(a \ gone) \in Nat /\ Cardinality(b \ gone) \in Nat
        /\ Cardinality(a \cap gone) \in Nat /\ Cardinality(b \cap gone) \in Nat
        /\ Cardinality(a) \in Nat /\ Cardinality(b) \in Nat
    BY <1>4, <2>5, Without
  <2>8. Cardinality(c1) <= Cardinality(c) /\ Cardinality(c1) \in Nat /\ Cardinality(c) \in Nat
    BY <2>2, Smaller
  <2>9. Cardinality(a \ gone) + Cardinality(b \ gone) + Cardinality(c1) <= refs'[d] /\ refs'[d] \in Nat
    BY <2>1, <2>6, <2>7, <2>8
  <2> QED BY <2>3, <2>9 DEF c1
<1>10. RefsKept'
  BY <1>9 DEF RefsKept, Alone
<1>11. Readers'
  <2>1. refs' \in [Devices -> Nat]
    <3>1. \A d \in Devices : refs'[d] \in Nat
      BY <1>9
    <3>2. refs' = [d \in Devices |-> refs'[d]]
      BY <1>6
    <3> QED BY <3>1, <3>2
  <2>2. lists' \in [Handles -> SUBSET Devices] /\ reader' = [h \in Handles |-> reader'[h]]
    BY <1>2, <1>6 DEF Readers
  <2>3. \A h \in Handles :
          /\ reader'[h].dev \in Devices \cup {None} /\ reader'[h].held \subseteq Resources
          /\ reader'[h].d_num_slots \in Nat /\ reader'[h].d_num_rf \in Nat
          /\ reader'[h].d_num_slots <= MaxSlots
          /\ Closes(reader'[h]) \ {"stdout"} \subseteq reader'[h].held
          /\ reader'[h].held \subseteq Closes(reader'[h]) \cup {"rates", "clocks"}
    <3>1. /\ Closed.dev = None /\ Closed.held = {} /\ Closed.d_num_slots = 0 /\ Closed.d_num_rf = 0
          /\ Closes(Closed) = {}
      BY DEF Closed, Closes
    <3> QED BY <1>2, <1>6, <3>1, DeviceAssumption DEF Readers
  <2>4. leaked' \subseteq {"trace", "rates", "clocks"}
    <3>1. \A h \in gone : reader[h].held \ Closes(reader[h]) \subseteq {"rates", "clocks"}
      BY <1>2, <1>4 DEF Readers
    <3>2. leaked \subseteq {"trace", "rates", "clocks"}
      BY <1>2 DEF Readers, ReleasedOnce
    <3> QED BY <1>6, <3>1, <3>2
  <2>5. unowned' \subseteq {"stdout"} /\ plugged' \subseteq Devices
    <3>1. \A h \in gone : Closes(reader[h]) \ reader[h].held \subseteq {"stdout"}
      BY <1>2, <1>4 DEF Readers
    <3>2. unowned \subseteq {"stdout"} /\ plugged \subseteq Devices
      BY <1>2 DEF Readers, ReleasedOnce
    <3> QED BY <1>6, <3>1, <3>2
  <2> QED BY <2>1, <2>2, <2>3, <2>4, <2>5 DEF Readers, ReleasedOnce, Resources
<1>12. Sound(objs)' /\ Currents(objs)' /\ Pointers(objs, lists, reader)'
  BY <1>5, <1>7, <1>8 DEF Sound, Currents, Pointers, OwnerOf, Counted, OwnedIn, ByUser
<1> QED BY <1>10, <1>11, <1>12 DEF BInv

-----------------------------------------------------------------------------
(* The invariant, and what follows from it.                                *)

\* Every step of the program keeps the invariant.
LEMMA BStep == BInv /\ [Next]_vars => BInv'
<1> SUFFICES ASSUME BInv, [Next]_vars PROVE BInv'
  OBVIOUS
<1>1. CASE UNCHANGED vars
  <2>1. objs' = objs /\ UNCHANGED device
    BY <1>1 DEF vars
  <2> QED BY <2>1, Unmarked, QuietStep
<1>2. ASSUME NEW d \in Devices, Unplug(d), UNCHANGED objs PROVE BInv'
  BY <1>2, UnplugStep
<1>3. ASSUME NEW o \in Handles,
             \/ Drop(o) \/ NewDevlist(o) \/ BlankCci(o) \/ OwnerGet(o)
             \/ AsksClosedReader(o) \/ AppselPse(o) \/ TakeOut(o) \/ AppMethod(o)
             \/ CurrentApp(o) \/ ReadAppData(o) \/ NewCcidOverruns(o)
      PROVE  BInv'
  <2>1. /\ AsksClosedReader(o) => Stop("closed reader")
        /\ AppMethod(o) => Stop("freed application")
        /\ NewCcidOverruns(o) => Stop("slot overrun")
    BY DEF AsksClosedReader, AppMethod, NewCcidOverruns
  <2> QED BY <1>3, <2>1, DropStep, NewDevlistStep, BlankCciStep, OwnerGetStep, StopStep,
             AppselPseStep, TakeOutStep, CurrentAppStep, ReadAppDataStep
<1>4. ASSUME NEW o \in Handles, NEW d \in Devices, NewDev(o, d) PROVE BInv'
  BY <1>4, NewDevStep
<1>5. ASSUME NEW o \in Handles, NEW n \in DOMAIN ProbeSteps, NEW w \in Wants, NewCcidFails(o, n, w)
      PROVE  BInv'
  BY <1>5, NewCcidFailsStep
<1>6. ASSUME NEW o \in Handles, NEW p \in Handles,
             \/ \E d \in Devices : DevlistGet(o, p, d)
             \/ \E w \in Wants : NewCcid(o, p, w)
             \/ InterfacesGet(o, p) \/ NewEmv(o, p) \/ SelectAid(o, p) \/ DataChildren(o, p)
             \/ \E a \in Handles : SelectPse(o, p, a)
      PROVE  BInv'
  BY <1>6, DevlistGetStep, NewCcidStep, InterfacesGetStep, NewEmvStep, SelectStep, DataChildrenStep
<1> QED BY <1>1, <1>2, <1>3, <1>4, <1>5, <1>6 DEF Next

\* Every reference to an object, and to a device, has been counted, and what is
\* freed is no longer pointed into, after any sequence of methods and unpluggings
\* (py_ccid.c, py_emv.c, ccidev.c).
THEOREM BindingsInvariance == Spec => []BInv
BY BInit, BStep, PTL DEF Spec

\* The objects, the readers and libusb's counts keep their ranges.
THEOREM BindingsType == Spec => []TypeOK
<1>1. BInv => TypeOK
  <2> SUFFICES ASSUME BInv PROVE TypeOK
    OBVIOUS
  <2>1. \A o \in Handles :
          /\ objs[o].kind \in Kinds \cup {"free"} /\ objs[o].n \in Nat
          /\ objs[o].owner \in Handles \cup {None}
          /\ objs[o].current \in Handles \cup {None, Dangling}
    BY DEF BInv, Sound, Objects
  <2> QED BY <2>1 DEF BInv, Readers, ReleasedOnce, TypeOK, Resources
<1> QED BY <1>1, BindingsInvariance, PTL

\* A probe that fails, and a close, release what was acquired and nothing else
\* (ccid_probe, ccid_close).
THEOREM BindingsReleasedOnce == Spec => []ReleasedOnce
<1>1. BInv => ReleasedOnce
  BY DEF BInv, Readers
<1> QED BY <1>1, BindingsInvariance, PTL

\* libusb counts a reference for every device an object points at (get_dev).
THEOREM BindingsDeviceReferenced == Spec => []DeviceReferenced
<1>1. BInv => DeviceReferenced
  <2> SUFFICES ASSUME BInv, NEW v \in Handles, objs[v].kind = "dev"
               PROVE  refs[objs[v].at] > 0
    BY DEF DeviceReferenced, Of
  <2> DEFINE d == objs[v].at
             a == {h \in Handles : d \in lists[h]}
             b == {h \in Handles : reader[h].dev = d}
             c == Alone(objs, d)
  <2>1. d \in Devices /\ (objs[v].owner # None => d \in lists[objs[v].owner])
    BY DEF BInv, Pointers
  <2>2. Cardinality(a) + Cardinality(b) + Cardinality(c) <= refs[d] /\ refs[d] \in Nat
    BY <2>1 DEF BInv, RefsKept, Readers
  <2>3. a # {} \/ c # {}
    <3>1. objs[v].owner \in Handles \cup {None}
      BY DEF BInv, Sound, Objects
    <3> QED BY <2>1, <3>1 DEF Alone
  <2>4. a \in SUBSET Handles /\ b \in SUBSET Handles /\ c \in SUBSET Handles
    BY DEF Alone
  <2> HIDE DEF a, b, c, d
  <2>5. ASSUME NEW S \in SUBSET Handles
        PROVE  Cardinality(S) \in Nat /\ (S # {} => Cardinality(S) # 0)
    <3>1. IsFiniteSet(S)
      BY DeviceAssumption, FS_Subset
    <3> QED BY <3>1, FS_CardinalityType, FS_EmptySet
  <2>6. /\ Cardinality(a) \in Nat /\ Cardinality(b) \in Nat /\ Cardinality(c) \in Nat
        /\ Cardinality(a) # 0 \/ Cardinality(c) # 0
    BY <2>3, <2>4, <2>5
  <2>7. refs[d] > 0
    BY <2>2, <2>6
  <2> QED BY <2>7 DEF d
<1> QED BY <1>1, BindingsInvariance, PTL

\* An interface keeps the reader it points into open, and points at one of the
\* slots or fields it has (cp_cci_dealloc).
THEOREM BindingsInterfaceOpen == Spec => []InterfaceOpen
<1>1. BInv => InterfaceOpen
  <2> SUFFICES ASSUME BInv, NEW c \in Handles, objs[c].kind = "cci", objs[c].owner # None
               PROVE  /\ reader[objs[c].owner].dev # None
                      /\ reader[objs[c].owner].d_num_slots <= MaxSlots
                      /\ objs[c].at < reader[objs[c].owner].d_num_slots + reader[objs[c].owner].d_num_rf
    BY DEF InterfaceOpen, Of
  <2>1. objs[c].owner \in Handles /\ objs[objs[c].owner].kind = "ccid"
    BY DEF BInv, Sound, OwnerOf, Objects
  <2>2. reader[objs[c].owner].dev \in Devices
    BY <2>1 DEF BInv, Pointers
  <2>3. /\ reader[objs[c].owner].d_num_slots \in Nat /\ reader[objs[c].owner].d_num_rf \in Nat
        /\ reader[objs[c].owner].d_num_slots <= MaxSlots
    BY <2>1 DEF BInv, Readers
  <2>4. objs[c].at \in 0 .. reader[objs[c].owner].d_num_slots + reader[objs[c].owner].d_num_rf - 1
    BY DEF BInv, Pointers
  <2>5. objs[c].at < reader[objs[c].owner].d_num_slots + reader[objs[c].owner].d_num_rf
    BY <2>3, <2>4
  <2> QED BY <2>2, <2>3, <2>5, DeviceAssumption
<1> QED BY <1>1, BindingsInvariance, PTL

\* An application the program left in the list is marked just when its memory
\* was freed (dirty_applist, emv_appsel_pse).
THEOREM BindingsMarkTellsFreed == Spec => []MarkTellsFreed
<1>1. BInv => MarkTellsFreed
  BY DEF BInv, Sound, Tells, MarkTellsFreed, Of
<1> QED BY <1>1, BindingsInvariance, PTL

\* A session outlives the objects that point into it (cp_app_dealloc,
\* cp_data_dealloc).
THEOREM BindingsSessionOutlives == Spec => []SessionOutlives
<1>1. BInv => SessionOutlives
  BY DEF BInv, Sound, OwnerOf, SessionOutlives, Of
<1> QED BY <1>1, BindingsInvariance, PTL
=============================================================================
