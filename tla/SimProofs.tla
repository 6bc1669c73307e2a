----------------------------- MODULE SimProofs -----------------------------
(***************************************************************************)
(* Theorems about Sim.  One invariant carries them all: the three safety   *)
(* properties, the types, and where the card can stand in sim_new.         *)
(***************************************************************************)
EXTENDS Sim, TLAPS

(* In sim_new the card never stands in EF_SMS, in the EF of the IMSI only  *)
(* at the end, and once a select after the first read has succeeded it is  *)
(* not in the EF of the ICCID any more.                                    *)
NewPath ==
  call = "new" /\ card.on =>
    /\ card.ef # "SMS"
    /\ at <= 4 => card.ef # "IMSI"
    /\ at >= 5 /\ found => card.ef # "ICCID"

IInv == TypeOK /\ FciOfFile /\ InStep /\ RecordsKnown /\ NewPath

-----------------------------------------------------------------------------
(* The two scripts, as what each step number stands for.                   *)

\* The exchanges of sim_new, one by one.
LEMMA NewSteps ==
  ASSUME call = "new"
  PROVE  /\ Len(Script) = 8
         /\ at \in {1, 2, 5} => Step.op = "select" /\ Step.file = "MF"
         /\ at = 3 => Step.op = "select" /\ Step.file = "ICCID"
         /\ at = 4 => Step.op = "read" /\ Step.file = "ICCID"
         /\ at = 6 => Step.op = "select" /\ Step.file = "GSM"
         /\ at = 7 => Step.op = "select" /\ Step.file = "IMSI"
         /\ at = 8 => Step.op = "read" /\ Step.file = "IMSI"
BY DEF Script, Step, NewScript, Select, Read

\* The exchanges of sim_sms_save, one by one.
LEMMA SaveSteps ==
  ASSUME call # "new"
  PROVE  /\ Len(Script) = 5
         /\ at = 1 => Step.op = "select" /\ Step.file = "TELECOM"
         /\ at = 2 => Step.op = "select" /\ Step.file = "SMS"
         /\ at = 3 => Step.op = "open"
         /\ at = 4 => Step.op = "divide"
         /\ at = 5 => Step.op = "records"
BY DEF Script, Step, SaveScript, Select, Open, Divide, Records

\* sim_sms_save returns when one of its selects fails.
LEMMA SaveMust ==
  ASSUME call # "new", at \in {1, 2}
  PROVE  Step.must = TRUE
BY DEF Script, Step, SaveScript, Select

(* The same of the next state.                                             *)
LEMMA StepsOfNext ==
  /\ call' = "new" => Len(Script)' = 8
  /\ call' # "new" => Len(Script)' = 5
  /\ Doing("open")' \/ Doing("divide")' \/ Doing("records")' =>
       call' \notin {"none", "new"} \/ (call' = "new" /\ at' \notin 1..8)
  /\ call' \notin {"none", "new"} /\ at' \in {1, 2} =>
       ~(Doing("open")' \/ Doing("divide")' \/ Doing("records")')
<1>1. call' = "new" => Len(Script)' = 8
  BY DEF Script, NewScript
<1>2. call' # "new" => Len(Script)' = 5
  BY DEF Script, SaveScript
<1>3. ASSUME call' = "new", at' \in 1..8
      PROVE  Step.op' \in {"select", "read"}
  BY <1>3 DEF Step, Script, NewScript, Select, Read
<1>4. ASSUME call' # "new", at' \in {1, 2}
      PROVE  Step.op' = "select"
  BY <1>4 DEF Step, Script, SaveScript, Select
<1> QED
  BY <1>1, <1>2, <1>3, <1>4 DEF Doing

(* How a step ends: the next one, or a return.                             *)
LEMMA Ending ==
  ASSUME TypeOK, Advance \/ Return
  PROVE  /\ call' \in {"none", "new", "save"}
         /\ at' \in 1..Len(Script)' /\ rec' = rec
         /\ call' = "none" \/ (call' = call /\ at' = at + 1)
<1>1. CASE Return
  BY <1>1, StepsOfNext DEF Return
<1>2. CASE Advance /\ ~Return
  <2>1. at < Len(Script) /\ at' = at + 1 /\ UNCHANGED <<call, rec>>
    BY <1>2 DEF Advance
  <2> QED
    BY <2>1, StepsOfNext, NewSteps, SaveSteps DEF TypeOK
<1> QED
  BY <1>1, <1>2

-----------------------------------------------------------------------------
(* After a step of sim_new, and after any return, no records are read.     *)
LEMMA QuietEnding ==
  ASSUME IInv, Return \/ (Advance /\ call = "new")
  PROVE  RecordsKnown' /\ (Return \/ (call' = "new" /\ at' = at + 1))
<1>1. CASE Return
  BY <1>1, StepsOfNext DEF Return, RecordsKnown, Doing
<1>2. CASE ~Return /\ Advance /\ call = "new"
  <2>1. call' = "new" /\ at' = at + 1 /\ at < 8 /\ at \in 1..8
    BY <1>2, NewSteps DEF Advance, IInv, TypeOK
  <2> QED
    BY <2>1, StepsOfNext DEF RecordsKnown
<1> QED
  BY <1>1, <1>2

-----------------------------------------------------------------------------
(* A select that was answered.                                             *)
SelectTypes == Step.file \in Files /\ call \in {"new", "save"} /\ at \in 1..8

\* What is selected where, and what hangs on it.
LEMMA SelectFiles ==
  ASSUME IInv, Doing("select")
  PROVE  /\ SelectTypes
         /\ call = "new" /\ Step.file = "IMSI" => at = 7
         /\ call = "save" => at \in {1, 2} /\ Step.must = TRUE
         /\ call = "save" /\ at = 1 => Step.file = "TELECOM"
         /\ call = "save" /\ at = 2 => Step.file = "SMS"
<1>1. call \in {"new", "save"} /\ at \in 1..Len(Script) /\ Step.op = "select"
  BY DEF IInv, TypeOK, Doing
<1>2. CASE call = "new"
  <2>1. at \in 1..8
    BY <1>1, <1>2, NewSteps
  <2>2. at \notin {4, 8}
    <3>1. at = 4 => Step.op = "read"
      BY <1>2, NewSteps
    <3>2. at = 8 => Step.op = "read"
      BY <1>2, NewSteps
    <3> QED
      BY <1>1, <3>1, <3>2
  <2>3. /\ at \in {1, 2, 5} => Step.file = "MF"
        /\ at = 3 => Step.file = "ICCID"
        /\ at = 6 => Step.file = "GSM"
        /\ at = 7 => Step.file = "IMSI"
    BY <1>2, NewSteps
  <2> QED
    BY <1>2, <2>1, <2>2, <2>3 DEF SelectTypes, Files, Dirs, EFs
<1>3. CASE call = "save"
  <2>1. at \in 1..5 /\ call # "new"
    BY <1>1, <1>3, SaveSteps
  <2>2. at \notin {3, 4, 5}
    <3>1. at = 3 => Step.op = "open"
      BY <2>1, SaveSteps
    <3>2. at = 4 => Step.op = "divide"
      BY <2>1, SaveSteps
    <3>3. at = 5 => Step.op = "records"
      BY <2>1, SaveSteps
    <3> QED
      BY <1>1, <3>1, <3>2, <3>3
  <2>3. at \in {1, 2}
    BY <2>1, <2>2
  <2>4. Step.must = TRUE
    BY <2>1, <2>3, SaveMust
  <2>5. (at = 1 => Step.file = "TELECOM") /\ (at = 2 => Step.file = "SMS")
    BY <2>1, SaveSteps
  <2> QED
    BY <1>3, <2>1, <2>3, <2>4, <2>5 DEF SelectTypes, Files, Dirs, EFs
<1> QED
  BY <1>1, <1>2, <1>3

(* What set_fci leaves, whatever the answer describes and its length.      *)
LEMMA SetFciFacts ==
  ASSUME TypeOK, NEW id \in Files, NEW a \in Answers, SetFci(a)
  PROVE  /\ s_df' \in Dirs \cup {"zero"}
         /\ s_ef' \in EFs \cup {"INVALID", "zero"}
         /\ s_ef_fci' \in EFs \cup {"zero"} /\ e_reclen' \in {0, 1}
         /\ s_ef_fci' \in {"zero", s_ef'}
         /\ a.len # "no_id" /\ a.id = id => s_ef' = CardAt(id).ef
         /\ a.len = "whole" /\ a.id \in EFs => s_ef_fci' = a.id
<1> USE DEF BlankFci
<1>0. a.id \in Files \cup {"unknown"} /\ a.reclen \in {0, 1}
  BY DEF Answers
<1>1. CASE a.len = "no_id" \/ a.id = "unknown"
  BY <1>1 DEF SetFci, TypeOK, Files, Dirs, EFs
<1>2. CASE ~(a.len = "no_id" \/ a.id = "unknown") /\ a.id \in Dirs
  BY <1>2 DEF SetFci, SetDfFci, CardAt, TypeOK, Dirs, EFs
<1>3. CASE ~(a.len = "no_id" \/ a.id = "unknown") /\ a.id \notin Dirs
  BY <1>0, <1>3 DEF SetFci, SetEfFci, CardAt, TypeOK, Files, Dirs, EFs
<1> QED
  BY <1>1, <1>2, <1>3

\* Where a card is after it has carried out a select.
LEMMA CardAtTypes ==
  ASSUME TypeOK, NEW id \in Files
  PROVE  /\ CardAt(id) \in [on : BOOLEAN, dir : Dirs, ef : EFs \cup {"INVALID"}]
         /\ id \in EFs => CardAt(id).ef = id
BY DEF CardAt, TypeOK, Files, Dirs, EFs

\* What a select in sim_new does to the card keeps its path.
LEMMA NewMoves ==
  ASSUME IInv, Doing("select"), call = "new", at' = at + 1,
         card' = CardAt(Step.file) \/ (card' = card /\ found' = found)
  PROVE  NewPath'
<1>1. TypeOK /\ SelectTypes /\ Step.op = "select"
  BY SelectFiles DEF Doing, IInv
<1>2. at \in 1..8 /\ at \notin {4, 8}
  <2>1. (at = 4 => Step.op = "read") /\ (at = 8 => Step.op = "read")
    BY NewSteps
  <2> QED
    BY <1>1, <2>1 DEF SelectTypes
<1>3. CASE card' = card /\ found' = found
  BY <1>2, <1>3 DEF IInv, NewPath
<1>4. CASE card' = CardAt(Step.file)
  <2>1. CASE at \in {1, 2, 5, 6}
    <3>1. Step.file \in Dirs
      BY <2>1, NewSteps DEF Dirs
    <3>2. card'.ef = "INVALID"
      BY <1>1, <1>4, <3>1 DEF CardAt, TypeOK
    <3> QED
      BY <3>2 DEF NewPath
  <2>2. CASE at = 3
    <3>1. card'.ef = "ICCID" /\ at' = 4
      BY <1>1, <1>4, <2>2, NewSteps, CardAtTypes DEF Files, EFs
    <3> QED
      BY <3>1 DEF NewPath
  <2>3. CASE at = 7
    <3>1. card'.ef = "IMSI" /\ at' = 8
      BY <1>1, <1>4, <2>3, NewSteps, CardAtTypes DEF Files, EFs
    <3> QED
      BY <3>1 DEF NewPath
  <2> QED
    BY <1>2, <2>1, <2>2, <2>3
<1> QED
  BY <1>3, <1>4

\* A select that succeeds takes the session and the card to the same file.
LEMMA SelectedKeeps ==
  ASSUME IInv, Selected
  PROVE  IInv'
<1>1. TypeOK /\ Doing("select")
  BY DEF IInv, Selected
<1>2. PICK a \in Answers :
        /\ SetFci(a)
        /\ lost' = (a.len = "no_id" \/ a.id # Step.file)
        /\ IF AsAsked(a) THEN Advance /\ found' = TRUE /\ UNCHANGED sim
           ELSE AfterFailure /\ UNCHANGED found
  BY DEF Selected
<1>3. card' = CardAt(Step.file) /\ UNCHANGED <<output, calls>>
  BY DEF Selected
<1>4. SelectTypes
  BY <1>1, SelectFiles
<1>5. Step.file \in Files
  BY <1>4 DEF SelectTypes
<1>6. Advance \/ Return
  BY <1>2 DEF AfterFailure
<1>7. sim' \in {"none", "open", "crashed"} /\ found' \in BOOLEAN
  BY <1>1, <1>2 DEF AfterFailure, TypeOK
<1>8. /\ s_df' \in Dirs \cup {"zero"} /\ s_ef' \in EFs \cup {"INVALID", "zero"}
      /\ s_ef_fci' \in EFs \cup {"zero"} /\ e_reclen' \in {0, 1}
      /\ s_ef_fci' \in {"zero", s_ef'}
      /\ a.len # "no_id" /\ a.id = Step.file => s_ef' = card'.ef
      /\ AsAsked(a) /\ Step.file \in EFs => s_ef_fci' = Step.file
  BY <1>1, <1>2, <1>3, <1>5, SetFciFacts DEF AsAsked
<1>9. /\ card' \in [on : BOOLEAN, dir : Dirs, ef : EFs \cup {"INVALID"}]
      /\ Step.file \in EFs => card'.ef = Step.file
  BY <1>1, <1>3, <1>5, CardAtTypes
<1>10. /\ call' \in {"none", "new", "save"} /\ at' \in 1..Len(Script)' /\ rec' = rec
       /\ call' = "none" \/ (call' = call /\ at' = at + 1)
  BY <1>1, <1>6, Ending
<1>11. TypeOK'
  BY <1>1, <1>2, <1>3, <1>7, <1>8, <1>9, <1>10 DEF TypeOK, output
<1>12. FciOfFile' /\ InStep'
  BY <1>2, <1>8 DEF FciOfFile, InStep
<1>13. RecordsKnown'
  <2>1. CASE call' = "none" \/ call = "new"
    BY <2>1, <1>10, <1>1, StepsOfNext, NewSteps DEF RecordsKnown, Doing
  <2>2. CASE call' # "none" /\ call = "save" /\ at = 1
    BY <2>2, <1>10, StepsOfNext DEF RecordsKnown
  <2>3. CASE call' # "none" /\ call = "save" /\ at = 2
    <3>1. Step.must = TRUE /\ Step.file = "SMS"
      BY <1>1, <2>3, SelectFiles
    <3>2. AsAsked(a)
      BY <1>2, <2>3, <3>1 DEF AfterFailure, Return
    <3>3. call' = "save" /\ at' = 3
      BY <1>10, <2>3
    <3>4. ~Doing("records")'
      BY <3>3 DEF Doing, Step, Script, SaveScript, Open
    <3> QED
      BY <3>1, <3>2, <3>4, <1>8, <1>9 DEF RecordsKnown, EFs
  <2> QED
    BY <2>1, <2>2, <2>3, <1>1, <1>4, SelectFiles DEF SelectTypes
<1>14. NewPath'
  <2>1. CASE call' = "new"
    BY <2>1, <1>1, <1>3, <1>10, NewMoves
  <2>2. CASE call' # "new"
    BY <2>2 DEF NewPath
  <2> QED
    BY <2>1, <2>2
<1> QED
  BY <1>11, <1>12, <1>13, <1>14 DEF IInv

-----------------------------------------------------------------------------
(* A select that fails leaves the session, and ends sim_sms_save.          *)
LEMMA SelectFails ==
  ASSUME IInv, Doing("select"), AfterFailure, card' \in {card, CardAt(Step.file)},
         lost' = TRUE \/ (card' = card /\ lost' = lost),
         UNCHANGED <<session, output, found, calls>>
  PROVE  IInv'
<1>1. TypeOK
  BY DEF IInv
<1>2. Return \/ (Advance /\ call = "new")
  <2>1. call \in {"new", "save"}
    BY DEF Doing, IInv, TypeOK
  <2>2. call = "save" => Step.must = TRUE
    BY SelectFiles
  <2> QED
    BY <2>1, <2>2 DEF AfterFailure
<1>3. sim' \in {sim, "none"}
  BY DEF AfterFailure
<1>4. /\ call' \in {"none", "new", "save"}
      /\ at' \in 1..Len(Script)' /\ rec' = rec
  BY <1>1, <1>2, Ending
<1>5. RecordsKnown' /\ NewPath'
  <2>1. RecordsKnown' /\ (Return \/ (call' = "new" /\ at' = at + 1 /\ call = "new"))
    BY <1>2, QuietEnding DEF Return
  <2>2. CASE Return
    BY <2>1, <2>2 DEF NewPath, Return
  <2>3. CASE call = "new" /\ at' = at + 1
    BY <2>1, <2>3, NewMoves
  <2> QED
    BY <2>1, <2>2, <2>3
<1>6. lost' \in BOOLEAN
  BY <1>1 DEF TypeOK
<1>9. card' \in [on : BOOLEAN, dir : Dirs, ef : EFs \cup {"INVALID"}]
  <2>1. Step.file \in Files
    BY SelectFiles DEF SelectTypes
  <2> QED
    BY <1>1, <2>1, CardAtTypes DEF TypeOK
<1>7. TypeOK'
  BY <1>1, <1>3, <1>4, <1>6, <1>9 DEF TypeOK, session, output
<1>8. FciOfFile' /\ InStep'
  BY <1>3 DEF IInv, FciOfFile, InStep, session
<1> QED
  BY <1>5, <1>7, <1>8 DEF IInv

(* Only sim_new reads without looking at the selects before.               *)
LEMMA ReadInNew ==
  ASSUME IInv, Doing("read")
  PROVE  /\ call = "new" /\ Step.file \in {"ICCID", "IMSI"}
         /\ \/ at = 4 /\ Step.file = "ICCID"
            \/ at = 8 /\ Step.file = "IMSI"
<1>1. call \in {"new", "save"} /\ at \in 1..Len(Script) /\ Step.op = "read"
  BY DEF IInv, TypeOK, Doing
<1>2. call # "save"
  <2>1. SUFFICES ASSUME call = "save" PROVE FALSE
    OBVIOUS
  <2>2. call # "new" /\ at \in 1..5
    BY <1>1, <2>1, SaveSteps
  <2>3. at = 1 \/ at = 2 \/ at = 3 \/ at = 4 \/ at = 5
    BY <2>2
  <2> QED
    BY <1>1, <2>2, <2>3, SaveSteps
<1>3. at \in 1..8
  BY <1>1, <1>2, NewSteps
<1>4. at = 1 \/ at = 2 \/ at = 3 \/ at = 4 \/ at = 5 \/ at = 6 \/ at = 7 \/ at = 8
  BY <1>3
<1>5. at = 4 \/ at = 8
  BY <1>1, <1>2, <1>4, NewSteps
<1> QED
  BY <1>1, <1>2, <1>5, NewSteps

\* A read of sim_new prints what the session has selected, or nothing.
LEMMA ReadKeeps ==
  ASSUME IInv, ReadOk \/ ReadFails
  PROVE  IInv'
<1>1. TypeOK /\ Doing("read") /\ call = "new" /\ Step.file \in {"ICCID", "IMSI"}
  BY ReadInNew DEF IInv, ReadOk, ReadFails
<1>2. UNCHANGED <<card, session, saved, lost, calls>> /\ found' = FALSE
  BY DEF ReadOk, ReadFails
<1>3. printed' \subseteq [label : {"ICCID", "IMSI"}, file : EFs \cup {"none"}]
  <2>1. CASE ReadOk
    BY <1>1, <2>1 DEF ReadOk, Readable, TypeOK, EFs
  <2>2. CASE ReadFails
    BY <1>1, <2>2 DEF ReadFails, TypeOK
  <2> QED
    BY <2>1, <2>2
<1>4. Return \/ Advance
  BY <1>1 DEF ReadOk, ReadFails
<1>5. /\ call' \in {"none", "new", "save"}
      /\ at' \in 1..Len(Script)' /\ rec' = rec
  BY <1>1, <1>4, Ending
<1>6. RecordsKnown' /\ NewPath'
  <2>1. RecordsKnown' /\ (Return \/ (call' = "new" /\ at' = at + 1))
    BY <1>1, <1>4, QuietEnding
  <2>2. at = 4 \/ at = 8
    BY <1>1, ReadInNew
  <2>3. NewPath'
    BY <1>1, <1>2, <2>1, <2>2 DEF NewPath, IInv, Return
  <2> QED
    BY <2>1, <2>3
<1>7. sim' \in {sim, "crashed"}
  BY DEF ReadOk, ReadFails
<1>8. TypeOK'
  BY <1>1, <1>2, <1>3, <1>5, <1>7 DEF TypeOK, session
<1>9. FciOfFile' /\ InStep'
  BY <1>2, <1>7 DEF IInv, FciOfFile, InStep, session
<1> QED
  BY <1>6, <1>8, <1>9 DEF IInv

-----------------------------------------------------------------------------
(* sim_sms_save past its selects: EF_SMS stays described and selected.     *)
LEMMA SaveKeeps ==
  ASSUME IInv, OpenFile \/ CountRecords \/ ReadRecord \/ Saved
  PROVE  IInv'
<1>1. /\ TypeOK /\ call = "save"
      /\ s_ef_fci = "SMS" /\ (card.on => card.ef = "SMS")
  <2>1. call # "none" /\ Step.op \in {"open", "divide", "records"}
    BY DEF OpenFile, CountRecords, ReadRecord, Saved, Doing
  <2>2. call # "new"
    <3>1. SUFFICES ASSUME call = "new" PROVE FALSE
      OBVIOUS
    <3>2. at \in 1..Len(Script) /\ Len(Script) = 8
      BY <3>1, NewSteps DEF IInv, TypeOK
    <3>3. at = 1 \/ at = 2 \/ at = 3 \/ at = 4 \/ at = 5 \/ at = 6 \/ at = 7 \/ at = 8
      BY <3>2
    <3> QED
      BY <2>1, <3>1, <3>3, NewSteps
  <2> QED
    BY <2>1, <2>2 DEF IInv, TypeOK, RecordsKnown, Doing
<1>2. UNCHANGED <<card, session, printed, lost, found, calls>>
  BY DEF OpenFile, CountRecords, ReadRecord, Saved, output
<1>3. RecordsKnown' /\ NewPath' /\ FciOfFile'
  <2>1. call' \in {"save", "none"}
    BY <1>1 DEF OpenFile, CountRecords, ReadRecord, Saved, Advance, Return
  <2>2. Doing("records")' => e_reclen' # 0
    <3>1. CASE OpenFile
      <4>1. at = 3 /\ Len(Script) = 5
        <5>1. call # "new" /\ at \in 1..Len(Script) /\ Step.op = "open"
          BY <1>1, <3>1 DEF OpenFile, Doing, TypeOK
        <5>2. at \in 1..5
          BY <5>1, SaveSteps
        <5>3. at = 1 \/ at = 2 \/ at = 3 \/ at = 4 \/ at = 5
          BY <5>2
        <5> QED
          BY <5>1, <5>3, SaveSteps
      <4>2. call' = "none" \/ (call' = "save" /\ at' = 4)
        BY <1>1, <3>1, <4>1, Ending DEF OpenFile
      <4> QED
        BY <4>2 DEF Doing, Step, Script, SaveScript, Divide
    <3>2. CASE CountRecords
      BY <1>2, <3>2 DEF CountRecords, Doing, Return, session
    <3>3. CASE ReadRecord
      <4>1. Doing("records") /\ e_reclen' = e_reclen
        BY <1>2, <3>3 DEF ReadRecord, session
      <4> QED
        BY <4>1 DEF IInv, RecordsKnown
    <3>4. CASE Saved
      BY <3>4 DEF Saved, Return, Doing
    <3> QED
      BY <3>1, <3>2, <3>3, <3>4
  <2> QED
    BY <1>1, <1>2, <2>1, <2>2 DEF RecordsKnown, NewPath, IInv, FciOfFile, session
<1>4. sim' \in {sim, "crashed"}
  BY DEF OpenFile, CountRecords, ReadRecord, Saved
<1>5. InStep'
  BY <1>2, <1>4 DEF IInv, InStep, session
<1>6. call' \in {"none", "new", "save"} /\ at' \in 1..Len(Script)' /\ rec' \in 1..NumRec + 1
  <2>1. CASE OpenFile
    BY <1>1, <2>1, Ending DEF OpenFile, TypeOK
  <2>2. CASE CountRecords
    <3>1. CASE e_reclen # 0
      <4>1. at' = at + 1 /\ rec' = 1 /\ call' = call
        BY <2>2, <3>1 DEF CountRecords
      <4>2. Step.op = "divide" /\ at \in 1..Len(Script) /\ call \in {"new", "save"}
        BY <1>1, <2>2 DEF CountRecords, Doing, TypeOK
      <4>3. at < Len(Script)
        <5>1. CASE call = "new"
          <6>1. (at = 8 => Step.op = "read") /\ Len(Script) = 8
            BY <5>1, NewSteps
          <6>2. at # 8 /\ at \in 1..8
            BY <6>1, <4>2
          <6> QED
            BY <6>1, <6>2
        <5>2. CASE call # "new"
          <6>1. (at = 5 => Step.op = "records") /\ Len(Script) = 5
            BY <5>2, SaveSteps
          <6>2. at # 5 /\ at \in 1..5
            BY <6>1, <4>2
          <6> QED
            BY <6>1, <6>2
        <5> QED
          BY <5>1, <5>2
      <4>4. Len(Script)' = Len(Script) /\ Len(Script) \in Nat
        BY <4>1, NewSteps, SaveSteps, StepsOfNext
      <4>5. 1 \in 1..NumRec + 1
        BY SimAssumption
      <4> QED
        BY <4>1, <4>2, <4>3, <4>4, <4>5
    <3>2. CASE ~(e_reclen # 0)
      BY <1>1, <2>2, <3>2, Ending DEF CountRecords, TypeOK
    <3> QED
      BY <3>1, <3>2
  <2>3. CASE ReadRecord
    <3>1. UNCHANGED <<call, at>> /\ rec' = rec + 1 /\ rec <= NumRec
      BY <2>3 DEF ReadRecord
    <3>2. Len(Script)' = Len(Script)
      BY <3>1 DEF Script, NewScript, SaveScript
    <3> QED
      BY <1>1, <3>1, <3>2, SimAssumption DEF TypeOK
  <2>4. CASE Saved
    BY <1>1, <2>4, Ending DEF Saved, TypeOK
  <2> QED
    BY <2>1, <2>2, <2>3, <2>4
<1>7. saved' \subseteq EFs \X (1..NumRec)
  <2>1. CASE OpenFile
    BY <1>1, <2>1 DEF OpenFile, TypeOK
  <2>2. CASE CountRecords \/ Saved
    BY <1>1, <2>2 DEF CountRecords, Saved, output, TypeOK
  <2>3. CASE ReadRecord
    <3>1. rec \in 1..NumRec
      BY <1>1, <2>3, SimAssumption DEF ReadRecord, TypeOK
    <3>2. saved' = saved \/ (card.ef = "SMS" /\ saved' = saved \cup {<<card.ef, rec>>})
      BY <2>3 DEF ReadRecord
    <3> QED
      BY <1>1, <3>1, <3>2 DEF TypeOK, EFs
  <2> QED
    BY <2>1, <2>2, <2>3
<1>8. TypeOK'
  BY <1>1, <1>2, <1>4, <1>6, <1>7 DEF TypeOK, session
<1> QED
  BY <1>3, <1>5, <1>8 DEF IInv

-----------------------------------------------------------------------------
(* The calls' ends and the card's own steps.                               *)
LEMMA BetweenKeeps ==
  ASSUME IInv, New \/ NewFails \/ Save \/ Free \/ CardReset
  PROVE  IInv'
<1>1. TypeOK /\ call = "none"
  BY DEF IInv, New, NewFails, Save, Free, CardReset, Idle
<1>2. calls' \in 0..MaxCalls
  BY <1>1, SimAssumption DEF New, NewFails, Save, Free, CardReset, TypeOK
<1>3. card' \in [on : BOOLEAN, dir : Dirs, ef : EFs \cup {"INVALID"}]
  <2>1. \/ card' \in {card, [card EXCEPT !.on = FALSE]}
        \/ card' = [on |-> TRUE, dir |-> "MF", ef |-> "INVALID"]
    BY DEF New, NewFails, Save, Free, CardReset
  <2>2. [card EXCEPT !.on = FALSE] \in [on : BOOLEAN, dir : Dirs, ef : EFs \cup {"INVALID"}]
    BY <1>1 DEF TypeOK
  <2>3. [on |-> TRUE, dir |-> "MF", ef |-> "INVALID"]
          \in [on : BOOLEAN, dir : Dirs, ef : EFs \cup {"INVALID"}]
    BY DEF Dirs
  <2>4. card \in [on : BOOLEAN, dir : Dirs, ef : EFs \cup {"INVALID"}]
    BY <1>1 DEF TypeOK
  <2> QED
    BY <2>1, <2>2, <2>3, <2>4
<1>4. /\ s_df' \in Dirs \cup {"zero"} /\ s_ef' \in EFs \cup {"INVALID", "zero"}
      /\ s_ef_fci' \in EFs \cup {"zero"} /\ e_reclen' \in {0, 1} /\ FciOfFile'
  BY <1>1 DEF IInv, FciOfFile, New, NewFails, Save, Free, CardReset, session, TypeOK
<1>5. call' \in {"none", "new", "save"} /\ at' \in {1, at} /\ rec' = rec
      /\ (call' = "none" => at' = at) /\ (call' # "none" => at' = 1)
  BY <1>1 DEF New, NewFails, Save, Free, CardReset, place, Begin
<1>6. at' \in 1..Len(Script)'
  <2>1. at \in 1..5
    BY <1>1, SaveSteps DEF TypeOK
  <2>2. CASE call' = "none"
    BY <2>1, <2>2, <1>5, StepsOfNext
  <2>3. CASE call' # "none"
    <3>1. at' = 1
      BY <2>3, <1>5
    <3>2. CASE call' = "new"
      BY <3>1, <3>2, StepsOfNext
    <3>3. CASE call' # "new"
      BY <3>1, <3>3, StepsOfNext
    <3> QED
      BY <3>2, <3>3
  <2> QED
    BY <2>2, <2>3
<1>7. RecordsKnown'
  BY <1>5, StepsOfNext DEF RecordsKnown, Doing
<1>8. NewPath'
  <2>1. CASE New
    <3>1. card'.ef = "INVALID"
      BY <2>1 DEF New
    <3> QED
      BY <3>1 DEF NewPath
  <2>2. CASE NewFails \/ Save \/ Free \/ CardReset
    BY <1>1, <2>2 DEF NewPath, NewFails, Save, Free, CardReset, place, Begin
  <2> QED
    BY <2>1, <2>2
<1>9. InStep'
  BY DEF IInv, InStep, New, NewFails, Save, Free, CardReset, session
<1>10. /\ sim' \in {"none", "open", "crashed"} /\ lost' \in BOOLEAN /\ found' \in BOOLEAN
       /\ printed' \subseteq [label : {"ICCID", "IMSI"}, file : EFs \cup {"none"}]
       /\ saved' \subseteq EFs \X (1..NumRec)
  <2>1. sim' \in {sim, "open", "none"} /\ lost' \in {lost, TRUE}
    BY DEF New, NewFails, Save, Free, CardReset
  <2>2. printed' \in {printed, {}} /\ saved' \in {saved, {}}
    BY DEF New, NewFails, Save, Free, CardReset, output
  <2>3. lost' \in BOOLEAN /\ found' \in BOOLEAN
    BY <1>1, <2>1 DEF TypeOK, New, NewFails, Save, Free, CardReset
  <2>4. sim' \in {"none", "open", "crashed"}
    BY <1>1, <2>1 DEF TypeOK
  <2> QED
    BY <1>1, <2>2, <2>3, <2>4 DEF TypeOK
<1>11. TypeOK'
  BY <1>1, <1>2, <1>3, <1>4, <1>5, <1>6, <1>10 DEF TypeOK
<1> QED
  BY <1>4, <1>7, <1>8, <1>9, <1>11 DEF IInv

\* Taking the card out leaves the session with what it had.
LEMMA RemovalKeeps ==
  ASSUME IInv, CardRemoved
  PROVE  IInv'
<1>1. card' = [card EXCEPT !.on = FALSE] /\ lost' = TRUE
  BY DEF CardRemoved
<1>2. UNCHANGED <<call, at, rec, sim, s_df, s_ef, s_ef_fci, e_reclen, printed, saved, found, calls>>
  BY DEF CardRemoved, session, place, output
<1>3. Script' = Script /\ Step' = Step
  BY <1>2 DEF Step, Script, NewScript, SaveScript
<1>4. card' \in [on : BOOLEAN, dir : Dirs, ef : EFs \cup {"INVALID"}] /\ ~card'.on
  BY <1>1 DEF IInv, TypeOK
<1>5. TypeOK'
  BY <1>1, <1>2, <1>3, <1>4 DEF IInv, TypeOK
<1>6. RecordsKnown'
  BY <1>2, <1>3, <1>4 DEF IInv, RecordsKnown, Doing
<1>7. FciOfFile' /\ InStep' /\ NewPath'
  BY <1>1, <1>2, <1>4 DEF IInv, FciOfFile, InStep, NewPath
<1> QED
  BY <1>5, <1>6, <1>7 DEF IInv

\* A step that changes nothing keeps the invariant.
LEMMA StutterKeeps ==
  ASSUME IInv, UNCHANGED vars
  PROVE  IInv'
<1>1. Script' = Script /\ Step' = Step
  BY DEF vars, place, Step, Script, NewScript, SaveScript
<1> QED
  BY <1>1 DEF vars, session, place, output, IInv, TypeOK, FciOfFile, InStep, RecordsKnown, NewPath, Doing

-----------------------------------------------------------------------------
\* The invariant holds before the first session.
LEMMA InitHolds == Init => IInv
<1> SUFFICES ASSUME Init PROVE IInv
  OBVIOUS
<1>1. call # "new" /\ Len(Script) = 5
  BY SaveSteps DEF Init
<1>2. TypeOK
  <2>1. 1 \in 1..NumRec + 1 /\ 0 \in 0..MaxCalls
    BY SimAssumption
  <2> QED
    <3>1. /\ card \in [on : BOOLEAN, dir : Dirs, ef : EFs \cup {"INVALID"}]
          /\ s_df \in Dirs \cup {"zero"} /\ s_ef \in EFs \cup {"INVALID", "zero"}
          /\ s_ef_fci \in EFs \cup {"zero"} /\ e_reclen \in {0, 1}
      BY DEF Init, Dirs, EFs
    <3>2. at \in 1..Len(Script) /\ rec \in 1..NumRec + 1 /\ calls \in 0..MaxCalls
      BY <1>1, <2>1 DEF Init
    <3>3. /\ sim \in {"none", "open", "crashed"} /\ call \in {"none", "new", "save"}
          /\ lost \in BOOLEAN /\ found \in BOOLEAN /\ printed = {} /\ saved = {}
      BY DEF Init
    <3> QED
      BY <3>1, <3>2, <3>3 DEF TypeOK
<1>3. FciOfFile /\ InStep /\ RecordsKnown /\ NewPath
  BY DEF Init, FciOfFile, InStep, RecordsKnown, NewPath, Doing
<1> QED
  BY <1>2, <1>3 DEF IInv

\* Every step keeps the invariant.
LEMMA NextKeeps == IInv /\ [Next]_vars => IInv'
<1> SUFFICES ASSUME IInv, [Next]_vars PROVE IInv'
  OBVIOUS
<1>1. CASE New \/ NewFails \/ Save \/ Free \/ CardReset
  BY <1>1, BetweenKeeps
<1>2. CASE SelectRefused
  <2>1. /\ Doing("select") /\ AfterFailure /\ card' = card /\ lost' = lost
        /\ UNCHANGED <<session, output, found, calls>>
    BY <1>2 DEF SelectRefused
  <2> QED
    BY <2>1, SelectFails
<1>3. CASE SelectExchangeFails
  <2>1. /\ Doing("select") /\ AfterFailure /\ lost' = TRUE
        /\ UNCHANGED <<session, output, found, calls>> /\ card' \in {card, CardAt(Step.file)}
    BY <1>3 DEF SelectExchangeFails
  <2> QED
    BY <2>1, SelectFails
<1>4. CASE Selected
  BY <1>4, SelectedKeeps
<1>5. CASE ReadOk \/ ReadFails
  BY <1>5, ReadKeeps
<1>6. CASE OpenFile \/ CountRecords \/ ReadRecord \/ Saved
  BY <1>6, SaveKeeps
<1>7. CASE CardRemoved
  BY <1>7, RemovalKeeps
<1>8. CASE UNCHANGED vars
  BY <1>8, StutterKeeps
<1> QED
  BY <1>1, <1>2, <1>3, <1>4, <1>5, <1>6, <1>7, <1>8 DEF Next

(* Invariance: sim.c, every call and every failure of it.                  *)
LEMMA Invariance == Spec => []IInv
BY InitHolds, NextKeeps, PTL DEF Spec

(* The session's variables (struct _sim) keep their types.                 *)
THEOREM SimType == Spec => []TypeOK
<1>1. IInv => TypeOK
  BY DEF IInv
<1> QED
  BY <1>1, Invariance, PTL

(* set_fci: the description held is that of the session's file, or blank,  *)
(* for any number of calls and records, whatever the answers describe.     *)
THEOREM SimFci == Spec => []FciOfFile
<1>1. IInv => FciOfFile
  BY DEF IInv
<1> QED
  BY <1>1, Invariance, PTL

(* _sim_select: the card stands in the session's file until an exchange is *)
(* lost, an answer describes another file or the card is reset: neither a  *)
(* refused select nor an answer refused for its contents sets them apart.  *)
THEOREM SimInStep == Spec => []InStep
<1>1. IInv => InStep
  BY DEF IInv
<1> QED
  BY <1>1, Invariance, PTL

(* sim_sms_save: it divides by the record length, and reads records, with  *)
(* EF_SMS selected on both sides, because both its selects are checked for *)
(* the file they were answered with.                                       *)
THEOREM SimRecords == Spec => []RecordsKnown
<1>1. IInv => RecordsKnown
  BY DEF IInv
<1> QED
  BY <1>1, Invariance, PTL

(* read_iccid, read_imsi: what stands under a label is from that file, but *)
(* for the ICCID printed from nothing and the ICCID printed as the IMSI    *)
(* when every select after its read has failed.                            *)
THEOREM SimLabelled == Spec => Labelled
<1> DEFINE Right(p) == \/ p.file = p.label
                       \/ p.label = "ICCID" /\ p.file = "none"
                       \/ p.label = "IMSI" /\ p.file = "ICCID" /\ ~found
<1>1. IInv /\ [Next]_vars => [\A p \in printed' \ printed : Right(p)]_vars
  <2> SUFFICES ASSUME IInv, [Next]_vars, NEW p \in printed' \ printed
               PROVE  Right(p)
    OBVIOUS
  <2>1. CASE ReadOk
    <3>1. p = [label |-> Step.file, file |-> card.ef] /\ card.on /\ card.ef \in {"ICCID", "IMSI"}
      BY <2>1 DEF ReadOk, Readable
    <3>2. /\ call = "new"
          /\ (at = 4 /\ Step.file = "ICCID") \/ (at = 8 /\ Step.file = "IMSI")
      BY <2>1, ReadInNew DEF ReadOk
    <3>3. (at = 4 => card.ef = "ICCID") /\ (at = 8 /\ found => card.ef = "IMSI")
      BY <3>1, <3>2 DEF IInv, NewPath
    <3> QED
      BY <3>1, <3>2, <3>3
  <2>2. CASE ReadFails
    BY <2>2 DEF ReadFails
  <2>3. printed' \in {printed, {}} \/ ReadOk \/ ReadFails
    BY DEF Next, New, NewFails, Save, Free, SelectRefused, SelectExchangeFails, Selected,
           OpenFile, CountRecords, ReadRecord, Saved, CardRemoved, CardReset, output, vars
  <2> QED
    BY <2>1, <2>2, <2>3
<1> QED
  BY <1>1, Invariance, PTL DEF Spec, Labelled

=============================================================================
