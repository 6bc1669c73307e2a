--------------------------- MODULE MCContactless ---------------------------
(* TLC instance of the two halves of the contactless interface: the field   *)
(* that selects a tag (Rfid) and the block protocol with a tag once it is   *)
(* selected (Tcl).  A behaviour is of the one or of the other.              *)
EXTENDS Tcl

CONSTANTS TagReset, Speeds, Waits, FieldCalls
VARIABLES half, chip, tags, d_num_rf, i_status, l3, level, op, acc, frame, f_ret,
          moved, fault, calls

F == INSTANCE Rfid WITH rf_l3 <- l3, ret <- f_ret, MaxCalls <- FieldCalls

field == <<chip, tags, d_num_rf, i_status, l3, level, op, acc, frame, f_ret, moved,
           fault, calls>>

ASSUME FieldSizes == F!RfidAssumption

BothInit == half \in {"field", "blocks"} /\ Init /\ F!Init

BothNext ==
  \/ half = "blocks" /\ Next /\ UNCHANGED <<half, chip, tags, d_num_rf, i_status, l3, level, op, acc,
                                                 frame, f_ret, moved, fault, calls>>
  \/ half = "field" /\ F!Next /\ UNCHANGED <<half, vars>>

BothSpec == BothInit /\ [][BothNext]_<<half, vars, field>>

\* The field keeps its types (see Rfid).
FieldTypeOK == F!TypeOK

\* A slot with a protocol and its tag agree on where they are (see Rfid).
FieldInStep == F!InStep

\* The answer timer runs long enough, but for the FWI above 8 (see Rfid).
TimerLasts == F!TimerLasts

\* A lone plain tag is selected, whatever went before; as the source has it,
\* powering on crashes (see Rfid).
GenuineSelected == F!GenuineSelected
=============================================================================
