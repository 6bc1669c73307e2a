------------------------------- MODULE Sim -------------------------------
(***************************************************************************)
(* The GSM SIM session (sim.c, sim_apdu.c): where the session thinks the   *)
(* card's file system stands (s_df, s_ef, s_ef_fci) beside where it does.  *)
(* A call is a script of steps, each one exchange or two with the card;    *)
(* any exchange can fail, before or after the card has acted on it, and an *)
(* answer may describe another file than the one selected.                 *)
(***************************************************************************)
EXTENDS Naturals, Sequences

CONSTANTS NumRec,   \* records in the card's EF_SMS: its size over its record length
          MaxCalls  \* bound: sim_new and sim_sms_save calls in a behaviour

\* A record number is a byte, in the command as in sim_sms_save.
ASSUME SimAssumption == NumRec \in 0 .. 255 /\ MaxCalls \in Nat

Dirs  == {"MF", "TELECOM", "GSM"}
EFs   == {"ICCID", "SMS", "IMSI"}
Files == Dirs \cup EFs

VARIABLES
  card,      \* the card: powered or not, its current directory and elementary file
  sim,       \* the session: "none", "open", or "crashed" (the program is stopped)
  s_df, s_ef,\* the session's current files
  s_ef_fci,  \* the file whose description s_ef_fci holds, "zero" if it is blank
  e_reclen,  \* the record length in it: 0, or 1 for any other
  call, at,  \* the call in progress, and its next step
  rec,       \* the next record sim_sms_save reads
  printed,   \* what was printed: label, file it was read from
  saved,     \* the records in the SMS file, with the EF each was read from
  lost,      \* history: whether the card may stand elsewhere than it last said
  found,     \* history: whether a select succeeded since sim_new last read
  calls      \* number of calls made
session == <<s_df, s_ef, s_ef_fci, e_reclen>>
output  == <<printed, saved>>
place   == <<call, at, rec>>
vars == <<card, sim, session, place, output, lost, found, calls>>

Parent(f) == CASE f = "ICCID" -> "MF" [] f = "SMS" -> "TELECOM" [] f = "IMSI" -> "GSM"
               [] OTHER -> "MF"

(* The card (external): SELECT finds the directories from anywhere, an EF  *)
(* from its own directory.                                                 *)
Reachable(f) == card.on /\ (f \in Dirs \/ card.dir = Parent(f))
CardAt(f) == IF f \in Dirs THEN [card EXCEPT !.dir = f, !.ef = "INVALID"]
             ELSE [card EXCEPT !.ef = f]

(* It may read a transparent EF, whatever length is asked for.             *)
Readable == card.on /\ card.ef \in {"ICCID", "IMSI"}

Select(f, must) == [op |-> "select", file |-> f, must |-> must]
Read(label)     == [op |-> "read", file |-> label, must |-> FALSE]
Open            == [op |-> "open", file |-> "SMS", must |-> TRUE]
Divide          == [op |-> "divide", file |-> "SMS", must |-> FALSE]
Records         == [op |-> "records", file |-> "SMS", must |-> FALSE]

(* Bug: the file is not changed where read_imsi is copied from read_iccid. *)
NewScript_Copied ==
  << Select("MF", TRUE),
     Select("MF", FALSE), Select("ICCID", FALSE), Read("ICCID"),
     Select("MF", FALSE), Select("ICCID", FALSE), Read("IMSI") >>
NewScript == << Select("MF", TRUE),
                Select("MF", FALSE), Select("ICCID", FALSE), Read("ICCID"),
                Select("MF", FALSE), Select("GSM", FALSE), Select("IMSI", FALSE), Read("IMSI") >>
SaveScript == << Select("TELECOM", TRUE), Select("SMS", TRUE), Open, Divide, Records >>
Script == IF call = "new" THEN NewScript ELSE SaveScript
Step   == Script[at]

Init ==
  /\ card = [on |-> FALSE, dir |-> "MF", ef |-> "INVALID"]
  /\ sim = "none" /\ s_df = "zero" /\ s_ef = "zero" /\ s_ef_fci = "zero" /\ e_reclen = 0
  /\ call = "none" /\ at = 1 /\ rec = 1
  /\ printed = {} /\ saved = {} /\ lost = TRUE /\ found = FALSE /\ calls = 0

Doing(op) == call # "none" /\ Step.op = op
Idle == call = "none" /\ sim # "crashed"

Begin(c) == call' = c /\ at' = 1 /\ UNCHANGED rec
Return   == call' = "none" /\ at' = 1 /\ UNCHANGED rec
Advance  == IF at < Len(Script) THEN at' = at + 1 /\ UNCHANGED <<call, rec>> ELSE Return

-----------------------------------------------------------------------------
(* sim_new up to the first select: the session is zeroed and the card      *)
(* powered on, which resets it to the MF. If that fails, all is freed.     *)
New ==
  /\ Idle /\ sim = "none" /\ calls < MaxCalls
  /\ calls' = calls + 1
  /\ card' = [on |-> TRUE, dir |-> "MF", ef |-> "INVALID"]
  /\ s_df' = "zero" /\ s_ef' = "zero" /\ s_ef_fci' = "zero" /\ e_reclen' = 0
  /\ lost' = TRUE /\ found' = FALSE
  /\ sim' = "open" /\ Begin("new") /\ printed' = {} /\ saved' = {}

NewFails ==
  /\ Idle /\ sim = "none" /\ calls < MaxCalls
  /\ calls' = calls + 1
  /\ card' = [card EXCEPT !.on = FALSE]
  /\ lost' = TRUE
  /\ UNCHANGED <<sim, session, place, output, found>>

(* sim_sms_save *)
Save ==
  /\ Idle /\ sim = "open" /\ calls < MaxCalls
  /\ calls' = calls + 1 /\ Begin("save")
  /\ UNCHANGED <<card, sim, session, output, lost, found>>

(* sim_free: the card is powered off after the buffer is gone.             *)
Free ==
  /\ Idle /\ sim = "open"
  /\ sim' = "none" /\ card' = [card EXCEPT !.on = FALSE] /\ lost' = TRUE
  /\ UNCHANGED <<session, place, output, found, calls>>

(* A step that failed: the call returns if it had to succeed. In sim_new   *)
(* the session is freed, but the card stays powered.                       *)
AfterFailure ==
  IF ~Step.must THEN Advance /\ UNCHANGED sim
  ELSE Return /\ sim' = IF call = "new" THEN "none" ELSE sim

-----------------------------------------------------------------------------
(* _apdu_select fails: the SELECT is refused, or an exchange fails. Then   *)
(* the card may have moved, and set_fci is not reached.                    *)
SelectRefused ==
  /\ Doing("select") /\ ~Reachable(Step.file)
  /\ AfterFailure
  /\ UNCHANGED <<card, session, output, lost, found, calls>>

SelectExchangeFails ==
  /\ Doing("select")
  /\ card' \in IF Reachable(Step.file) THEN {card, CardAt(Step.file)} ELSE {card}
  /\ lost' = TRUE
  /\ AfterFailure
  /\ UNCHANGED <<session, output, found, calls>>

(* An answer may describe any file, or none of a known type, and it is     *)
(* whole, lacks its optional part, lacks some of the fixed part, or has    *)
(* not even the file's id.                                                 *)
Answers == [id : Files \cup {"unknown"},
            len : {"whole", "no_option", "cut", "no_id"}, reclen : {0, 1}]

BlankFci == s_ef_fci' = "zero" /\ e_reclen' = 0

(* Bug: the EF's sizes are left when a directory is selected.              *)
SetDfFci_KeepFci(a) ==
  s_df' = a.id /\ s_ef' = "INVALID" /\ UNCHANGED <<s_ef_fci, e_reclen>>

SetDfFci(a) == s_df' = a.id /\ s_ef' = "INVALID" /\ BlankFci

SetEfFci(a) ==
  /\ s_ef' = a.id /\ UNCHANGED s_df
  /\ IF a.len \in {"whole", "no_option"} THEN s_ef_fci' = a.id /\ e_reclen' = a.reclen
     ELSE BlankFci

(* Bug: the file is taken over only when its description is complete.      *)
SetFci_WholeOnly(a) ==
  IF a.len # "whole" \/ a.id = "unknown" THEN BlankFci /\ UNCHANGED <<s_df, s_ef>>
  ELSE IF a.id \in Dirs THEN SetDfFci(a) ELSE SetEfFci(a)

(* set_fci: the file it names is taken over before it is looked at.        *)
SetFci(a) ==
  IF a.len = "no_id" \/ a.id = "unknown" THEN BlankFci /\ UNCHANGED <<s_df, s_ef>>
  ELSE IF a.id \in Dirs THEN SetDfFci(a) ELSE SetEfFci(a)

(* What set_fci returns.                                                   *)
(* Bug: it does not look whether the file is the one that was selected.    *)
AsAsked_AnyFile(a) == a.len = "whole" /\ a.id # "unknown"
AsAsked(a) == a.len = "whole" /\ a.id = Step.file

Selected ==
  /\ Doing("select") /\ Reachable(Step.file)
  /\ card' = CardAt(Step.file)
  /\ \E a \in Answers :
       /\ SetFci(a)
       /\ lost' = (a.len = "no_id" \/ a.id # Step.file)
       /\ IF AsAsked(a) THEN Advance /\ found' = TRUE /\ UNCHANGED sim
          ELSE AfterFailure /\ UNCHANGED found
  /\ UNCHANGED <<output, calls>>

-----------------------------------------------------------------------------
(* read_iccid and read_imsi print what READ BINARY returns. read_iccid     *)
(* does not look whether it returned anything: the length is then not      *)
(* initialised and the pointer NULL.                                       *)
ReadOk ==
  /\ Doing("read") /\ Readable
  /\ printed' = printed \cup {[label |-> Step.file, file |-> card.ef]}
  /\ Advance /\ found' = FALSE
  /\ UNCHANGED <<card, sim, session, saved, lost, calls>>

ReadFails ==
  /\ Doing("read")
  /\ IF Step.file = "IMSI"
     THEN Advance /\ UNCHANGED <<sim, printed>>
     ELSE \/ /\ printed' = printed \cup {[label |-> "ICCID", file |-> "none"]}
             /\ Advance /\ UNCHANGED sim
          \/ sim' = "crashed" /\ Return /\ UNCHANGED printed
  /\ found' = FALSE
  /\ UNCHANGED <<card, session, saved, lost, calls>>

(* fopen *)
OpenFile ==
  /\ Doing("open")
  /\ \/ saved' = {} /\ Advance
     \/ UNCHANGED saved /\ Return
  /\ UNCHANGED <<card, sim, session, printed, lost, found, calls>>

(* e_size / e_reclen, which the card may have given as 0.                  *)
CountRecords ==
  /\ Doing("divide")
  /\ IF e_reclen # 0 THEN at' = at + 1 /\ rec' = 1 /\ UNCHANGED <<call, sim>>
     ELSE Return /\ sim' = "crashed"
  /\ UNCHANGED <<card, session, output, lost, found, calls>>

(* One record; one that cannot be read is left out of the file.            *)
(* Bug: the loop runs to one past the number of records.                   *)
ReadRecord_OneMore ==
  /\ Doing("records") /\ rec <= NumRec + 1
  /\ saved' \in {saved, saved \cup {<<card.ef, rec>>}}
  /\ rec' = rec + 1 /\ UNCHANGED <<call, at>>
  /\ UNCHANGED <<card, sim, session, printed, lost, found, calls>>

ReadRecord ==
  /\ Doing("records") /\ rec <= NumRec
  /\ \/ /\ card.on /\ card.ef = "SMS"
        /\ saved' = saved \cup {<<card.ef, rec>>}
     \/ UNCHANGED saved
  /\ rec' = rec + 1 /\ UNCHANGED <<call, at>>
  /\ UNCHANGED <<card, sim, session, printed, lost, found, calls>>

Saved ==
  /\ Doing("records") /\ rec > NumRec
  /\ Return
  /\ UNCHANGED <<card, sim, session, output, lost, found, calls>>

(* The card is taken out, at any time, or reset by another user of the     *)
(* slot between two calls.                                                 *)
CardRemoved ==
  /\ card.on /\ card' = [card EXCEPT !.on = FALSE] /\ lost' = TRUE
  /\ UNCHANGED <<sim, session, place, output, found, calls>>

CardReset ==
  /\ Idle /\ card' = [on |-> TRUE, dir |-> "MF", ef |-> "INVALID"] /\ lost' = TRUE
  /\ UNCHANGED <<sim, session, place, output, found, calls>>

Next ==
  \/ New \/ NewFails \/ Save \/ Free
  \/ SelectRefused \/ SelectExchangeFails \/ Selected
  \/ ReadOk \/ ReadFails \/ OpenFile \/ CountRecords \/ ReadRecord \/ Saved
  \/ CardRemoved \/ CardReset

Spec == Init /\ [][Next]_vars

-----------------------------------------------------------------------------
(* The session's variables keep their types (struct _sim).                 *)
TypeOK ==
  /\ card \in [on : BOOLEAN, dir : Dirs, ef : EFs \cup {"INVALID"}]
  /\ sim \in {"none", "open", "crashed"}
  /\ s_df \in Dirs \cup {"zero"}
  /\ s_ef \in EFs \cup {"INVALID", "zero"}
  /\ s_ef_fci \in EFs \cup {"zero"} /\ e_reclen \in {0, 1}
  /\ call \in {"none", "new", "save"}
  /\ at \in 1..Len(Script) /\ rec \in 1..NumRec + 1
  /\ printed \subseteq [label : {"ICCID", "IMSI"}, file : EFs \cup {"none"}]
  /\ saved \subseteq EFs \X (1..NumRec)
  /\ lost \in BOOLEAN /\ found \in BOOLEAN /\ calls \in 0..MaxCalls

(* The sizes in s_ef_fci are those of the file s_ef names, or zero, after  *)
(* every failure in the middle of a select (set_fci clears them first) and *)
(* whatever file the answer described.                                     *)
FciOfFile == s_ef_fci \in {"zero", s_ef}

(* The card's elementary file is the one in s_ef, unless an exchange of a  *)
(* select failed after the last select that was answered, that answer did  *)
(* not describe the file selected, or the card was reset or removed: a     *)
(* refused select leaves both where they were, and an answer that is cut   *)
(* short or refused for its contents moves the session with the card.      *)
InStep == sim = "open" /\ ~lost => card.ef = s_ef

(* sim_sms_save divides by a record length, and reads records, only with   *)
(* EF_SMS selected, in the session and (as long as it is in) on the card,  *)
(* whatever failed before and whatever files the answers described: the    *)
(* length is what the card said of EF_SMS, never a blank or a stale one.   *)
(* If it said 0 the program stops there, and reads no record.              *)
RecordsKnown ==
  Doing("open") \/ Doing("divide") \/ Doing("records") =>
    /\ s_ef_fci = "SMS" /\ (card.on => card.ef = "SMS")
    /\ Doing("records") => e_reclen # 0

(* sim_new prints under a label what is in that file, although it checks   *)
(* no select before the reads, but in two cases: the ICCID is printed from *)
(* an uninitialised length when its read failed, and the ICCID may be      *)
(* printed as the IMSI, but only when not one select since has succeeded.  *)
Labelled ==
  [][\A p \in printed' \ printed :
       \/ p.file = p.label
       \/ p.label = "ICCID" /\ p.file = "none"
       \/ p.label = "IMSI" /\ p.file = "ICCID" /\ ~found]_vars
=============================================================================
