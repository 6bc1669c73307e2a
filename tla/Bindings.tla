----------------------------- MODULE Bindings -----------------------------
(***************************************************************************)
(* The Python objects of py_ccid.c and py_emv.c over the readers of        *)
(* Device: who counts a reference to whom, which C memory each object      *)
(* points into, and what is left of it when the program drops the others.  *)
(* The interpreter runs one method at a time.  Of a list or dictionary it  *)
(* is given, the program keeps one element; the rest go with the list.     *)
(* It keeps at most one reference of its own to an object.                 *)
(***************************************************************************)
EXTENDS Device

CONSTANT Dangling  \* an object that was freed

ASSUME BindingsAssumption == Dangling \notin Handles \cup {None}

VARIABLES
  objs,   \* the objects: see Object
  fault   \* "none", or the freed memory the program has walked into
vars == <<device, objs, fault>>

\* n: the reference count; user: whether the program itself has a reference.
\* owner: the object it counts a reference to.  at: the device, slot or reader
\* it points at.  fresh: whether the C memory it points into is still there.
\* dirty: as in cp_app.  listed: whether it is in its session's applist.  taken:
\* history, whether the program took it out of that.  current: of an emv, its cp_app.
Kinds == {"devlist", "dev", "ccid", "cci", "emv", "app", "cur", "data"}
Blank == [kind |-> "free", n |-> 0, user |-> FALSE, owner |-> None, at |-> None,
          fresh |-> FALSE, dirty |-> FALSE, listed |-> FALSE, taken |-> FALSE,
          current |-> None]
Object(kind, owner, at) ==
  [Blank EXCEPT !.kind = kind, !.n = 1, !.user = TRUE, !.owner = owner, !.at = at,
                !.fresh = TRUE]

Live(o) == objs[o].kind # "free"
Of(kind) == {o \in Handles : objs[o].kind = kind}
Mine(kind) == {o \in Of(kind) : objs[o].user}
Owned(o) == {p \in Handles : objs[p].owner = o}

BindInit == DeviceInit /\ objs = [o \in Handles |-> Blank] /\ fault = "none"

\* h, which was free, becomes the object; Py_INCREF(its owner).
With(os, h, object) ==
  [o \in Handles |-> IF o = h THEN object
                     ELSE IF o = object.owner THEN [os[o] EXCEPT !.n = @ + 1] ELSE os[o]]
With_NoIncref(os, h, object) == [os EXCEPT ![h] = object]

Fresh(h) == ~Live(h)
Stop(what) == fault' = what /\ UNCHANGED <<device, objs>>
Go == fault = "none"

-----------------------------------------------------------------------------
(* Dropping references.  (A definition X_Y above a definition X is X with  *)
(* a plausible bug Y; no specification uses it.)                           *)

\* Py_DECREF
Decref(os, o) ==
  IF os[o].n > 1 THEN [os EXCEPT ![o].n = @ - 1] ELSE [os EXCEPT ![o] = Blank]

\* Py_DECREF, and the deallocator's own Py_DECREF of the owner: nothing that
\* owns is itself owned, so it goes no further.
Dropped(os, o) ==
  LET once == Decref(os, o) p == os[o].owner
  IN IF once[o].kind = "free" /\ p # None THEN Decref(once, p) ELSE once

\* What the sessions that stay notice: nothing keeps a session's reader, nor
\* its current application, from being freed.
Notice(os, gone) ==
  [o \in Handles |->
    IF os[o].kind # "emv" THEN os[o]
    ELSE [os[o] EXCEPT !.fresh = @ /\ os[o].at \notin gone,
                       !.at = IF @ \in gone THEN None ELSE @,
                       !.current = IF @ \in gone THEN Dangling ELSE @]]

\* The program drops its reference: cp_*_dealloc of all that comes to zero.
Drop(o) ==
  /\ Go /\ Live(o) /\ objs[o].user
  /\ LET os == Dropped([objs EXCEPT ![o].user = FALSE], o)
         gone == {x \in Handles : Live(x) /\ os[x].kind = "free"}
     IN objs' = Notice(os, gone) /\ Release(gone)
  /\ UNCHANGED fault

-----------------------------------------------------------------------------
(* py_ccid.c                                                               *)

\* cp_devlist_init
NewDevlist(h) ==
  /\ Go /\ Fresh(h)
  /\ GetDeviceList(h) /\ objs' = With(objs, h, Object("devlist", None, None))
  /\ UNCHANGED fault

\* devlist_get
DevlistGet_NoIncref(h, l, d) ==
  /\ Go /\ Fresh(h) /\ l \in Mine("devlist") /\ d \in lists[l]
  /\ objs' = With_NoIncref(objs, h, Object("dev", l, d))
  /\ UNCHANGED <<device, fault>>

DevlistGet(h, l, d) ==
  /\ Go /\ Fresh(h) /\ l \in Mine("devlist") /\ d \in lists[l]
  /\ objs' = With(objs, h, Object("dev", l, d))
  /\ UNCHANGED <<device, fault>>

\* cp_dev_init
NewDev(h, d) ==
  /\ Go /\ Fresh(h) /\ DeviceByAddress(d)
  /\ objs' = With(objs, h, Object("dev", None, d))
  /\ UNCHANGED fault

\* cp_ccid_init
NewCcid(h, v, wants) ==
  /\ Go /\ Fresh(h) /\ v \in Mine("dev")
  /\ Probe(h, objs[v].at, wants) /\ objs' = With(objs, h, Object("ccid", None, None))
  /\ UNCHANGED fault

NewCcidOverruns(v) ==
  Go /\ v \in Mine("dev") /\ Overruns(objs[v].at) /\ Stop("slot overrun")

NewCcidFails(v, n, wants) ==
  /\ Go /\ v \in Mine("dev") /\ ProbeFails(objs[v].at, n, wants)
  /\ UNCHANGED <<objs, fault>>

\* ccid_interfaces_get, Py_cci_New: slots are numbered from 0, then the fields
CciNew_NoIncref(h, r, i) ==
  /\ Go /\ Fresh(h) /\ r \in Mine("ccid")
  /\ objs' = With_NoIncref(objs, h, Object("cci", r, i))
  /\ UNCHANGED <<device, fault>>

CciNew(h, r, i) ==
  /\ Go /\ Fresh(h) /\ r \in Mine("ccid")
  /\ objs' = With(objs, h, Object("cci", r, i))
  /\ UNCHANGED <<device, fault>>

InterfacesGet(h, r) ==
  \E i \in 0 .. reader[r].d_num_slots + reader[r].d_num_rf - 1 : CciNew(h, r, i)

\* PyType_GenericNew of a cci: an object without a slot
BlankCci(h) ==
  /\ Go /\ Fresh(h) /\ objs' = With(objs, h, Object("cci", None, None))
  /\ UNCHANGED <<device, fault>>

\* cci_owner_get: increments NULL for a cci without an owner
OwnerGet(c) ==
  /\ Go /\ c \in Mine("cci")
  /\ LET r == objs[c].owner
     IN IF r = None THEN Stop("no owner")
        ELSE /\ ~objs[r].user
             /\ objs' = [objs EXCEPT ![r].n = @ + 1, ![r].user = TRUE]
             /\ UNCHANGED <<device, fault>>

-----------------------------------------------------------------------------
(* py_emv.c                                                                *)

\* cp_emv_init: reads the slot it is given without a check; keeps the slot,
\* takes no reference.  That the card is active is the card's.
NewEmv(h, c) ==
  /\ Go /\ c \in Mine("cci") /\ Fresh(h)
  /\ IF objs[c].owner = None THEN Stop("no slot")
     ELSE /\ objs' = With(objs, h, Object("emv", None, objs[c].owner))
          /\ UNCHANGED <<device, fault>>

\* A method of an emv that talks to the card.
Asks(e) == Go /\ e \in Mine("emv") /\ objs[e].fresh
AsksClosedReader(e) ==
  /\ Go /\ e \in Mine("emv") /\ ~objs[e].fresh
  /\ Stop("closed reader")

\* dirty_applist: marks what is in the list, which nobody then holds.
DirtyApplist(os, e) ==
  [o \in Handles |-> IF os[o].listed /\ os[o].owner = e
                     THEN [os[o] EXCEPT !.dirty = TRUE, !.listed = FALSE] ELSE os[o]]

\* emv_appsel_pse frees the applications before it reads the directory: their
\* objects stay, on a count nobody will drop.
ForgetApps(os, e) ==
  [o \in Handles |-> IF os[o].kind = "app" /\ os[o].owner = e
                     THEN [os[o] EXCEPT !.fresh = FALSE] ELSE os[o]]

NewApp(e) == [Object("app", e, None) EXCEPT !.user = FALSE, !.listed = TRUE]

AppselPse_MarkFirst(e) ==
  /\ Asks(e)
  /\ \/ objs' = DirtyApplist(objs, e)
     \/ \E h \in Handles :
          Fresh(h) /\ objs' = With(DirtyApplist(ForgetApps(objs, e), e), h, NewApp(e))
  /\ UNCHANGED <<device, fault>>

\* cp_appsel_pse, app_list: when selection fails the old list stays
AppselPse(e) ==
  /\ Asks(e)
  /\ LET os == DirtyApplist(ForgetApps(objs, e), e)
     IN \/ objs' = os
        \/ \E h \in Handles : Fresh(h) /\ objs' = With(os, h, NewApp(e))
  /\ UNCHANGED <<device, fault>>

\* The list is the program's too: it takes an application out.
TakeOut(a) ==
  /\ Go /\ objs[a].listed
  /\ objs' = [objs EXCEPT ![a].listed = FALSE, ![a].taken = TRUE]
  /\ UNCHANGED <<device, fault>>

\* cp_app_rid and the other methods of an application read it if it is not dirty.
AppMethod(a) ==
  /\ Go /\ a \in Of("app") /\ ~objs[a].dirty /\ ~objs[a].fresh
  /\ Stop("freed application")

SetCurrent_NoIncref(h, e) ==
  /\ Fresh(h)
  /\ IF objs[e].current = Dangling THEN Stop("freed current")
     ELSE /\ objs' = [With_NoIncref(objs, h, [Object("cur", e, None) EXCEPT !.user = FALSE])
                        EXCEPT ![e].current = h]
          /\ UNCHANGED <<device, fault>>

\* set_current: an application before it becomes dirty, and is never dropped
SetCurrent(h, e) ==
  /\ Fresh(h)
  /\ LET was == objs[e].current
         os == IF was = None THEN objs ELSE [objs EXCEPT ![was].dirty = TRUE]
     IN IF was = Dangling THEN Stop("freed current")
        ELSE /\ objs' = [With(os, h, [Object("cur", e, None) EXCEPT !.user = FALSE])
                           EXCEPT ![e].current = h]
             /\ UNCHANGED <<device, fault>>

\* cp_select_aid, cp_select_aid_next
SelectAid(h, e) == Asks(e) /\ SetCurrent(h, e)

\* cp_select_pse: takes any application object, dirty or not
SelectPse(h, e, a) ==
  /\ Asks(e) /\ a \in Of("app")
  /\ IF objs[a].fresh THEN SetCurrent(h, e) ELSE Stop("stale application")

\* cp_current_app: returns its own reference as if it were the program's
CurrentApp(e) ==
  /\ Go /\ e \in Mine("emv") /\ objs[e].current # None
  /\ LET a == objs[e].current
     IN IF a = Dangling THEN Stop("freed current")
        ELSE /\ ~objs[a].user
             /\ objs' = [objs EXCEPT ![a].user = TRUE]
             /\ UNCHANGED <<device, fault>>

\* emv_read_app_data frees the records before, whether or not it succeeds.
ForgetData(os, e) ==
  [o \in Handles |-> IF os[o].kind = "data" /\ os[o].owner = e
                     THEN [os[o] EXCEPT !.fresh = FALSE] ELSE os[o]]

\* cp_read_app_data, data_list
ReadAppData(e) ==
  /\ Asks(e)
  /\ \/ objs' = ForgetData(objs, e)
     \/ \E h \in Handles : Fresh(h) /\ objs' = With(ForgetData(objs, e), h, Object("data", e, None))
  /\ UNCHANGED <<device, fault>>

\* cp_data_children, data_dict: the count of a child is never dropped
DataChildren(h, x) ==
  /\ Go /\ x \in Mine("data") /\ Fresh(h)
  /\ IF ~objs[x].fresh THEN Stop("stale data")
     ELSE /\ objs' = With(objs, h, [Object("data", objs[x].owner, None) EXCEPT !.n = 2])
          /\ UNCHANGED <<device, fault>>

-----------------------------------------------------------------------------
Next ==
  \/ \E d \in Devices : Go /\ Unplug(d) /\ UNCHANGED <<objs, fault>>
  \/ \E o \in Handles :
       \/ Drop(o) \/ NewDevlist(o) \/ BlankCci(o) \/ OwnerGet(o)
       \/ AsksClosedReader(o) \/ AppselPse(o) \/ TakeOut(o) \/ AppMethod(o)
       \/ CurrentApp(o) \/ ReadAppData(o) \/ NewCcidOverruns(o)
       \/ \E d \in Devices : NewDev(o, d)
       \/ \E n \in DOMAIN ProbeSteps, w \in Wants : NewCcidFails(o, n, w)
       \/ \E p \in Handles :
            \/ \E d \in Devices : DevlistGet(o, p, d)
            \/ \E w \in Wants : NewCcid(o, p, w)
            \/ InterfacesGet(o, p) \/ NewEmv(o, p) \/ SelectAid(o, p) \/ DataChildren(o, p)
            \/ \E a \in Handles : SelectPse(o, p, a)

Spec == BindInit /\ [][Next]_vars

-----------------------------------------------------------------------------
TypeOK ==
  /\ plugged \subseteq Devices /\ refs \in [Devices -> Nat]
  /\ lists \in [Handles -> SUBSET Devices]
  /\ \A h \in Handles : reader[h].dev \in Devices \cup {None} /\ reader[h].held \subseteq Resources
  /\ leaked \subseteq Resources /\ unowned \subseteq Resources
  /\ \A o \in Handles :
       /\ objs[o].kind \in Kinds \cup {"free"} /\ objs[o].n \in Nat
       /\ objs[o].owner \in Handles \cup {None}
       /\ objs[o].current \in Handles \cup {None, Dangling}

\* A failing probe, at whichever of its steps, and a close give back what was
\* acquired and nothing else, but for two things: the trace file of a failed probe
\* and the tables of data rates and clocks are lost, and a reader that traces to
\* stdout closes it, which it has not opened (ccid_probe, ccid_close).
ReleasedOnce == leaked \subseteq {"trace", "rates", "clocks"} /\ unowned \subseteq {"stdout"}

\* While a device object exists, libusb has a reference for the pointer it uses,
\* directly or through its list, whatever was dropped or unplugged (get_dev).
DeviceReferenced == \A v \in Of("dev") : refs[objs[v].at] > 0

\* While the program has an interface, the reader whose slot or field it points
\* into is open, in whatever order the program lets go (cp_cci_dealloc), and has
\* that slot or field: a device that claims more slots than d_slot has never gets
\* this far, it overruns d_slot in the probe.
InterfaceOpen ==
  \A c \in Of("cci") : objs[c].owner # None =>
    LET r == reader[objs[c].owner]
    IN r.dev # None /\ r.d_num_slots <= MaxSlots /\ objs[c].at < r.d_num_slots + r.d_num_rf

\* The mark on an application of the directory tells just whether its memory was
\* freed, also when reading the directory again failed or another session's was
\* read, as long as the program leaves the list alone: dirty_applist finds the
\* applications by the list, and misses one that was taken out.
MarkTellsFreed ==
  \A a \in Of("app") : ~objs[a].taken => (objs[a].dirty <=> ~objs[a].fresh)

\* A session is never freed under the objects that point into it (cp_app_dealloc,
\* cp_data_dealloc).
SessionOutlives ==
  \A o \in Of("app") \cup Of("cur") \cup Of("data") : objs[o].owner \in Of("emv")
=============================================================================
