------------------------------ MODULE Device ------------------------------
(***************************************************************************)
(* Finding, opening and closing a reader: the device list of ccidev.c, and *)
(* ccid_probe and ccid_close of ccid.c with everything a probe acquires    *)
(* and a failing one gives back.  libusb and the devices are external.     *)
(***************************************************************************)
EXTENDS Naturals, FiniteSets, Sequences

CONSTANTS
  Devices,  \* the USB devices there are, each a Device
  Handles,  \* names for the blocks of memory the program can hold
  None,
  Wants,    \* the sets of optional resources a device and a caller can ask for
  MaxSlots, \* CCID_MAX_SLOTS: the entries of d_slot
  MaxRefs   \* bound: references to one device from ccidev_t of its own

(* An interface: the class of each alternate setting; its CCID descriptor, *)
(* "bad" if fill_ccid_desc refuses it after taking the slot count; slots;  *)
(* its endpoints.  A device: its entry in usb-ccid-devices; for each       *)
(* configuration, the interfaces.                                          *)
Pipes == {"in", "out", "intr"}
Interface == [alts : Seq({"ccid", "vendor", "other"}), desc : {"none", "good", "bad"},
              slots : 0 .. 256, pipes : SUBSET Pipes]
Listed == {"no", "plain", "omni"}
Device == [listed : Listed, configs : Seq(Seq(Interface))]

ASSUME DeviceAssumption ==
  /\ IsFiniteSet(Handles) /\ None \notin Handles /\ None \notin Devices /\ MaxRefs \in Nat
  /\ Devices \subseteq Device /\ MaxSlots \in Nat
  /\ Wants \subseteq SUBSET {"trace", "stdout", "rates", "clocks", "rf"}

Least(S) == CHOOSE x \in S : \A y \in S : x <= y
Greatest(S) == CHOOSE x \in S : \A y \in S : x >= y

VARIABLES
  plugged,  \* the devices attached
  refs,     \* libusb's count of the program's references to each device
  lists,    \* each ccidev_t list, as a set; {} when not allocated
  reader,   \* each struct _ccid
  leaked,   \* resources that nothing will release any more
  unowned   \* resources released without having been acquired
device == <<plugged, refs, lists, reader, leaked, unowned>>

\* stdout is what a trace file of that name is: nobody opens it.
Resources == {"ccid", "trace", "stdout", "usb", "rates", "clocks", "xfr", "rf", "name"}
Optional  == {"trace", "rates", "clocks", "rf"}
Closed == [dev |-> None, held |-> {}, intf |-> <<>>, d_tf |-> {}, d_num_slots |-> 0,
           d_num_rf |-> 0, pipe |-> [p \in Pipes |-> 0]]

DeviceInit ==
  /\ plugged \in SUBSET Devices
  /\ refs = [d \in Devices |-> 0] /\ lists = [h \in Handles |-> {}]
  /\ reader = [h \in Handles |-> Closed]
  /\ leaked = {} /\ unowned = {}

\* A device that comes back is another device to libusb.
Unplug(d) ==
  /\ d \in plugged /\ plugged' = plugged \ {d}
  /\ UNCHANGED <<refs, lists, reader, leaked, unowned>>

-----------------------------------------------------------------------------
(* Recognition.  (A definition X_Y above a definition X is X with a        *)
(* plausible bug Y; no specification uses it.)                             *)

\* check_interface: the alternate setting to use, 0 if the interface is not a reader's
CheckInterface(iface, generic) ==
  LET Alts(class) == {a \in DOMAIN iface.alts : iface.alts[a] = class}
  IN IF Alts("ccid") # {} THEN Least(Alts("ccid"))
     ELSE IF ~generic /\ Alts("vendor") # {} THEN Least(Alts("vendor")) ELSE 0

Suitable(d, c) ==
  {i \in DOMAIN d.configs[c] : CheckInterface(d.configs[c][i], d.listed = "no") # 0}

\* _probe_descriptors: the first suitable interface of the first configuration that has one
ProbeDescriptors(d) ==
  LET cs == {c \in DOMAIN d.configs : Suitable(d, c) # {}}
  IN IF cs = {} THEN <<>>
     ELSE LET c == Least(cs) i == Least(Suitable(d, c))
          IN <<c, i, CheckInterface(d.configs[c][i], d.listed = "no")>>

Recognised == {d \in plugged : ProbeDescriptors(d) # <<>>}

\* probe_descriptors, fill_ccid_desc, get_endpoint: every descriptor of the first
\* configuration is taken, whichever interface it belongs to; the last one stays.
Walk(d) ==
  LET ifs == d.configs[1]
      Last(S) == IF S = {} THEN 0 ELSE Greatest(S)
      counted == Last({i \in DOMAIN ifs : ifs[i].desc # "none"})
  IN [valid |-> \E i \in DOMAIN ifs : ifs[i].desc = "good",
      slots |-> IF counted = 0 THEN 0 ELSE ifs[counted].slots,
      pipe  |-> [p \in Pipes |-> Last({i \in DOMAIN ifs : p \in ifs[i].pipes})]]

-----------------------------------------------------------------------------
(* The device list.                                                        *)

GetDeviceList_NoRef(h) ==
  /\ lists' = [lists EXCEPT ![h] = Recognised]
  /\ UNCHANGED <<plugged, refs, reader, leaked, unowned>>

\* libccid_get_device_list
GetDeviceList(h) ==
  /\ lists' = [lists EXCEPT ![h] = Recognised]
  /\ refs' = [d \in Devices |-> IF d \in Recognised THEN refs[d] + 1 ELSE refs[d]]
  /\ UNCHANGED <<plugged, reader, leaked, unowned>>

\* libccid_device_by_address
DeviceByAddress(d) ==
  /\ d \in Recognised /\ refs[d] < MaxRefs
  /\ refs' = [refs EXCEPT ![d] = @ + 1]
  /\ UNCHANGED <<plugged, lists, reader, leaked, unowned>>

-----------------------------------------------------------------------------
(* Probing.                                                                *)

\* The steps of ccid_probe that can fail, what each acquires, and the label a
\* failure goes to.
Step(what, gets, label) == [what |-> what, gets |-> gets, label |-> label]
ProbeSteps ==
  << Step("describe", {}, "out"),
     Step("calloc", {"ccid"}, "out"),
     Step("fopen", {"trace"}, "out_free"),
     Step("libusb_open", {"usb"}, "out_free"),
     Step("configure", {}, "out_close"),
     Step("claim", {}, "out_close"),
     Step("alt", {}, "out_close"),
     Step("descriptors", {}, "out_close"),
     Step("rates", {"rates"}, "out_close"),
     Step("clocks", {"clocks"}, "out_close"),
     Step("xfr", {"xfr"}, "out_close"),
     Step("slots", {}, "out_freebuf") >>

Undo_NoFall(label) ==
  CASE label = "out" -> {} [] label = "out_free" -> {"ccid"}
    [] label = "out_close" -> {"usb"} [] label = "out_freebuf" -> {"xfr", "usb"}

\* What the code at a label and below it releases.
Undo(label) ==
  CASE label = "out" -> {} [] label = "out_free" -> {"ccid"}
    [] label = "out_close" -> {"ccid", "usb"} [] label = "out_freebuf" -> {"ccid", "usb", "xfr"}

\* What the steps before the n-th acquired, of what this device and caller ask for.
Acquired(n, wants) ==
  (UNION {ProbeSteps[k].gets : k \in 1 .. n - 1}) \ (Optional \ wants)

\* Whether the device and the other readers let a probe come to its n-th step.
Reaches(d, n) ==
  /\ n > 1 => ProbeDescriptors(d) # <<>>
  /\ n > 4 => d \in plugged
  /\ n > 6 => \A h \in Handles : reader[h].dev # d     \* the interface is claimed
  /\ n > 8 => Walk(d).valid
  /\ n > 12 => \A p \in {"in", "out"} : Walk(d).pipe[p] # 0

ProbeFails(d, n, wants) ==
  LET held == Acquired(n, wants) gone == Undo(ProbeSteps[n].label)
  IN /\ Reaches(d, n)
     /\ leaked' = leaked \cup (held \ gone)
     /\ unowned' = unowned \cup (gone \ held)
     /\ UNCHANGED <<plugged, refs, lists, reader>>

\* The status of slots that d_slot has no entry for is asked for and stored too.
Overruns(d) == Reaches(d, 13) /\ Walk(d).slots > MaxSlots

\* Success; the proprietary initialisation may fail without failing the probe.
Probe(h, d, wants) ==
  /\ Reaches(d, 13) /\ ~Overruns(d)
  /\ LET rf == IF d.listed = "omni" THEN wants \cap {"rf"} ELSE {}
     IN reader' = [reader EXCEPT ![h] =
          [dev |-> d, held |-> Acquired(13, wants) \cup {"name"} \cup rf,
           intf |-> ProbeDescriptors(d), d_tf |-> wants \cap {"trace", "stdout"},
           d_num_slots |-> Walk(d).slots, d_num_rf |-> Cardinality(rf), pipe |-> Walk(d).pipe]]
  /\ refs' = [refs EXCEPT ![d] = @ + 1]
  /\ UNCHANGED <<plugged, lists, leaked, unowned>>

\* What ccid_close releases of a reader (d_rf has no destructor that talks to it).
Closes(r) ==
  IF r.dev = None THEN {}
  ELSE {"ccid", "usb", "xfr", "name"} \cup r.d_tf \cup IF r.d_num_rf > 0 THEN {"rf"} ELSE {}

\* ccid_close and libccid_free_device_list, of whichever of the handles hs are
\* readers or lists
Release(hs) ==
  /\ refs' = [d \in Devices |->
       refs[d] - Cardinality({h \in hs : d \in lists[h]})
               - Cardinality({h \in hs : reader[h].dev = d})]
  /\ lists' = [h \in Handles |-> IF h \in hs THEN {} ELSE lists[h]]
  /\ reader' = [h \in Handles |-> IF h \in hs THEN Closed ELSE reader[h]]
  /\ leaked' = leaked \cup UNION {reader[h].held \ Closes(reader[h]) : h \in hs}
  /\ unowned' = unowned \cup UNION {Closes(reader[h]) \ reader[h].held : h \in hs}
  /\ UNCHANGED plugged
=============================================================================
