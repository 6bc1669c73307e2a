----------------------------- MODULE CcidProofs -----------------------------
(***************************************************************************)
(* Proofs about Ccid for every number of slots, every sequence modulus and *)
(* every bound: type correctness, and that an answer is never taken for    *)
(* the answer to a later command until d_seq has gone all the way round.   *)
(***************************************************************************)
EXTENDS Ccid, Integers, SequenceTheorems, TLAPS

-----------------------------------------------------------------------------
(* Arithmetic modulo S.                                                    *)

\* Division with remainder.
LEMMA ModDef ==
  ASSUME NEW S \in Nat \ {0}, NEW a \in Nat
  PROVE  /\ a % S \in 0 .. S - 1 /\ a \div S \in Nat
         /\ a = S * (a \div S) + (a % S)
  OBVIOUS

\* The remainder is the only one.
LEMMA ModUnique ==
  ASSUME NEW S \in Nat \ {0}, NEW q \in Nat, NEW r \in 0 .. S - 1
  PROVE  (S * q + r) % S = r
  OBVIOUS

\* Multiples of S are at least S apart.
LEMMA MultiplesApart ==
  ASSUME NEW S \in Nat \ {0}, NEW p \in Nat, NEW q \in Nat, p < q
  PROVE  S * p + S <= S * q
<1>1. PICK d \in Nat : q = p + 1 + d
  <2>1. q - p - 1 \in Nat /\ q = p + 1 + (q - p - 1)
    OBVIOUS
  <2> QED BY <2>1
<1>2. S * q = S * p + S + S * d
  BY <1>1
<1>3. S * d >= 0
  OBVIOUS
<1> QED BY <1>2, <1>3

\* Equal remainders: the same number, or S apart.
LEMMA EqualMod ==
  ASSUME NEW S \in Nat \ {0}, NEW a \in Nat, NEW b \in Nat, a % S = b % S, a <= b
  PROVE  a = b \/ a + S <= b
<1>1. a = S * (a \div S) + (a % S) /\ a \div S \in Nat
  BY ModDef
<1>2. b = S * (b \div S) + (b % S) /\ b \div S \in Nat
  BY ModDef
<1> DEFINE p == a \div S
           q == b \div S
<1>3. p = q => a = b
  BY <1>1, <1>2
<1>4. p < q => a + S <= b
  BY <1>1, <1>2, MultiplesApart
<1>5. q < p => b + S <= a
  BY <1>1, <1>2, MultiplesApart
<1> QED BY <1>1, <1>2, <1>3, <1>4, <1>5

\* A wrapped counter counts modulo S.
LEMMA ModSucc ==
  ASSUME NEW S \in Nat \ {0}, NEW a \in Nat
  PROVE  ((a % S) + 1) % S = (a + 1) % S
<1>1. a = S * (a \div S) + (a % S) /\ a \div S \in Nat /\ a % S \in 0 .. S - 1
  BY ModDef
<1>2. CASE (a % S) + 1 < S
  <2> DEFINE q == a \div S
             r == (a % S) + 1
  <2>1. q \in Nat /\ r \in 0 .. S - 1 /\ a + 1 = S * q + r /\ r = S * 0 + r
    BY <1>1, <1>2
  <2> HIDE DEF q, r
  <2>2. (S * q + r) % S = r
    BY <2>1, ModUnique
  <2>3. (S * 0 + r) % S = r
    BY <2>1, ModUnique
  <2>4. (a + 1) % S = r % S
    BY <2>1, <2>2, <2>3
  <2> QED BY <2>4 DEF r
<1>3. CASE (a % S) + 1 = S
  <2>1. (S * (a \div S + 1) + 0) % S = 0
    BY <1>1, ModUnique
  <2>2. (S * 1 + 0) % S = 0
    BY ModUnique
  <2>3. a + 1 = S * (a \div S + 1) + 0
    BY <1>1, <1>3
  <2> QED BY <1>3, <2>1, <2>2, <2>3
<1> QED BY <1>1, <1>2, <1>3

-----------------------------------------------------------------------------
(* Type correctness.                                                       *)

\* The oldest message of a pipe.
LEMMA HeadTail ==
  ASSUME NEW M, NEW q \in Seq(M), q # <<>>
  PROVE  /\ Head(q) \in M /\ Tail(q) \in Seq(M) /\ Len(q) \in Nat \ {0}
         /\ Head(q) = q[1] /\ Len(Tail(q)) = Len(q) - 1
         /\ \A i \in 1 .. Len(Tail(q)) : Tail(q)[i] = q[i + 1] /\ i + 1 \in 1 .. Len(q)
  BY HeadTailProperties

\* d_seq stays a sequence number.
LEMMA NextSeqType ==
  ASSUME NEW n \in Nat
  PROVE  NextSeq(n) \in 0 .. SeqMod - 1
  BY SeqModAssumption, ModDef DEF NextSeq

\* The end of an exchange leaves the control state well typed.
LEMMA ConcludeType ==
  ASSUME TypeOK, NEW res \in {"ok", "clock_err", "fail"},
         NEW st \in [Slots -> Statuses], Conclude(res, st)
  PROVE  /\ outcome' \in {"none", "ok", "clock_err", "fail"}
         /\ pc' \in {"idle", "write", "recv", "intr", "closed", "aborted", "stopped"}
         /\ op' \in Ops /\ slot' \in Slots /\ try' \in 1 .. MaxTry
<1>1. pc' \in {"idle", "write", "intr", "closed"}
  BY DEF Conclude, AfterExchange, AfterProbe
<1>2. slot' \in Slots
  <2>1. NumSlots \in Nat /\ slot \in 0 .. NumSlots - 1
    BY NumSlotsAssumption DEF TypeOK, Slots
  <2>2. slot' = slot \/ (slot' = slot + 1 /\ slot + 1 < NumSlots)
    BY DEF Conclude, AfterExchange, AfterProbe
  <2> QED BY <2>1, <2>2 DEF Slots
<1> QED BY <1>1, <1>2 DEF Conclude, TypeOK

\* The command about to be sent.
LEMMA ThisCommandType ==
  ASSUME TypeOK
  PROVE  ThisCommand \in CommandMsgs
<1>1. CommandOf(op) \in Commands
  BY DEF CommandOf, Commands
<1> QED BY <1>1 DEF TypeOK, CommandMsgs, ThisCommand

\* Every step keeps the types.
THEOREM TypeStep == TypeOK /\ [Next]_vars => TypeOK'
<1> SUFFICES ASSUME TypeOK, [Next]_vars PROVE TypeOK'
  OBVIOUS
<1> USE NumSlotsAssumption, SeqModAssumption, MaxTryAssumption, BoundsAssumption, ErrorsAssumption
<1>1. ASSUME NEW o \in Calls, NEW s \in Slots, Call(o, s)
      PROVE  TypeOK'
  BY <1>1 DEF Call, TypeOK, reader, Ops
<1>2. CASE PC_to_RDR
  <2>1. NextSeq(d_seq) \in 0 .. SeqMod - 1
    <3>1. d_seq \in Nat
      BY DEF TypeOK
    <3> QED BY <3>1, NextSeqType
  <2>3. cmds' \in Seq(CommandMsgs)
    BY <1>2, ThisCommandType DEF PC_to_RDR, TypeOK
  <2> QED BY <1>2, <2>1, <2>3 DEF PC_to_RDR, TypeOK
<1>3. ASSUME NEW e \in UsbErrors, NEW taken \in BOOLEAN, PC_to_RDR_Fails(e, taken)
      PROVE  TypeOK'
  <2>0. cmds' \in Seq(CommandMsgs)
    BY <1>3, ThisCommandType DEF PC_to_RDR_Fails, WriteFails, TypeOK
  <2>1. NextSeq(d_seq) \in 0 .. SeqMod - 1
    <3>1. d_seq \in Nat
      BY DEF TypeOK
    <3> QED BY <3>1, NextSeqType
  <2>2. /\ outcome' \in {"none", "ok", "clock_err", "fail"}
        /\ pc' \in {"idle", "write", "recv", "intr", "closed", "aborted", "stopped"}
        /\ op' \in Ops /\ slot' \in Slots /\ try' \in 1 .. MaxTry
    <3>1. CASE op = "wait"
      BY <1>3, <3>1 DEF PC_to_RDR_Fails, TypeOK
    <3>2. CASE op # "wait"
      BY <1>3, <3>2, ConcludeType DEF PC_to_RDR_Fails, TypeOK
    <3> QED BY <3>1, <3>2
  <2> QED BY <1>3, <2>0, <2>1, <2>2 DEF PC_to_RDR_Fails, WriteFails, TypeOK, Worse
<1>4. ASSUME NEW e \in UsbErrors, NEW lost \in BOOLEAN, RecvFails(e, lost)
      PROVE  TypeOK'
  <2>1. resp' \in Seq(AnswerMsgs)
    BY <1>4, HeadTail DEF RecvFails, TypeOK
  <2> QED BY <1>4, <2>1, ConcludeType DEF RecvFails, TypeOK
<1>5. CASE RDR_to_PC_Stray
  <2>1. resp' \in Seq(AnswerMsgs)
    BY <1>5, HeadTail DEF RDR_to_PC_Stray, TypeOK
  <2> QED BY <1>5, <2>1, ConcludeType DEF RDR_to_PC_Stray, TypeOK
<1>6. ASSUME Accept(Head(resp))
      PROVE  /\ Head(resp) \in AnswerMsgs /\ resp' \in Seq(AnswerMsgs)
             /\ i_status' \in [Slots -> Statuses] /\ accepted' \in [id : Nat, cmd : Nat]
  <2>1. Head(resp) \in AnswerMsgs /\ Tail(resp) \in Seq(AnswerMsgs)
    BY <1>6, HeadTail DEF Accept, TypeOK
  <2>2. i_status' = StatusAfter(Head(resp))
    BY <1>6 DEF Accept
  <2>3. i_status' \in [Slots -> Statuses]
    <3> DEFINE m == Head(resp)
    <3>1. m.slot \in Slots /\ m.status \in Statuses \union {"RFU"}
      BY <2>1 DEF AnswerMsgs, StatusBits
    <3> HIDE DEF m
    <3> QED BY <2>2, <3>1 DEF m, StatusAfter, TypeOK
  <2> QED BY <1>6, <2>1, <2>3 DEF Accept, TypeOK, AnswerMsgs
<1>7. CASE RDR_to_PC_Extension
  BY <1>6, <1>7 DEF RDR_to_PC_Extension, Accept, TypeOK
<1>8. CASE RDR_to_PC_GiveUp
  BY <1>6, <1>8, ConcludeType DEF RDR_to_PC_GiveUp, Accept, TypeOK, CardErrors
<1>9. CASE RDR_to_PC_Error
  <2>1. d_error' \in CardErrors
    BY <1>9 DEF RDR_to_PC_Error, ErrorOf, CardErrors
  <2> QED BY <1>6, <1>9, <2>1, ConcludeType DEF RDR_to_PC_Error, Accept, TypeOK
<1>10. CASE RDR_to_PC_Success
  <2>1. CASE Head(resp).type \notin Expected(op)
    BY <1>6, <1>10, <2>1 DEF RDR_to_PC_Success, Accept, TypeOK
  <2>2. CASE Head(resp).type \in Expected(op)
    BY <1>6, <1>10, <2>2, ConcludeType DEF RDR_to_PC_Success, Accept, TypeOK
  <2> QED BY <2>1, <2>2
<1>11. CASE Interrupt
  BY <1>11, HeadTail DEF Interrupt, LoopWait, TypeOK, Statuses, Slots, Bases
<1>12. ASSUME NEW e \in UsbErrors \union {"NONE"}, NoInterrupt(e)
       PROVE  TypeOK'
  BY <1>12 DEF NoInterrupt, LoopWait, TypeOK
<1>18. CASE StrangeNotice
  BY <1>18 DEF StrangeNotice, TypeOK, reader, history
<1>13. CASE ReaderAnswers
  <2>1. Head(cmds) \in CommandMsgs /\ Tail(cmds) \in Seq(CommandMsgs)
    BY <1>13, HeadTail DEF ReaderAnswers, TypeOK
  <2>2. PICK result \in Possible(Head(cmds)) :
        \E bits \in Told(Head(cmds), CardAfter(Head(cmds), result)) :
           /\ card' = [card EXCEPT ![Head(cmds).slot] = CardAfter(Head(cmds), result)]
           /\ resp' = Append(resp, Answer(Head(cmds), result, bits))
           /\ executed' = executed \union {Head(cmds).id}
           /\ basis' = [basis EXCEPT ![Head(cmds).slot] =
                  BasisAfter(Head(cmds).slot, CardAfter(Head(cmds), result), bits)]
    BY <1>13 DEF ReaderAnswers
  <2>10. PICK said \in Told(Head(cmds), CardAfter(Head(cmds), result)) :
           /\ card' = [card EXCEPT ![Head(cmds).slot] = CardAfter(Head(cmds), result)]
           /\ executed' = executed \union {Head(cmds).id}
           /\ basis' = [basis EXCEPT ![Head(cmds).slot] =
                  BasisAfter(Head(cmds).slot, CardAfter(Head(cmds), result), said)]
    BY <2>2
  <2>3. CardAfter(Head(cmds), result) \in Statuses
    BY <2>1 DEF CardAfter, Statuses, TypeOK, CommandMsgs
  <2>4. result \in Results
    BY <2>2 DEF Possible, Results
  <2>9. Told(Head(cmds), CardAfter(Head(cmds), result)) \subseteq StatusBits
    BY <2>3 DEF Told, StatusBits
  <2>5. \A bits \in StatusBits : Answer(Head(cmds), result, bits) \in AnswerMsgs
    BY <2>1, <2>4 DEF Answer, AnswerMsgs, CommandMsgs, AnswerTo, Answers
  <2>6. resp' \in Seq(AnswerMsgs)
    BY <2>2, <2>5, <2>9 DEF TypeOK
  <2>7. card' \in [Slots -> Statuses] /\ executed' \subseteq Nat
    BY <2>1, <2>3, <2>10 DEF TypeOK, CommandMsgs
  <2>8. basis' \in [Slots -> Bases]
    <3>1. \A s, st, b : BasisAfter(s, st, b) \in Bases
      BY DEF BasisAfter, Bases
    <3> QED BY <2>10, <3>1 DEF TypeOK
  <2> QED BY <1>13, <2>1, <2>6, <2>7, <2>8 DEF ReaderAnswers, TypeOK, driver
<1>14. CASE ReaderExtends
  <2>1. Head(cmds) \in CommandMsgs
    BY <1>14, HeadTail DEF ReaderExtends, TypeOK
  <2>2. \A bits \in StatusBits : Answer(Head(cmds), "extension", bits) \in AnswerMsgs
    BY <2>1 DEF Answer, AnswerMsgs, CommandMsgs, AnswerTo, Answers, Results
  <2>3. card[Head(cmds).slot] \in Statuses
    BY <2>1 DEF TypeOK, CommandMsgs
  <2>4. Told(Head(cmds), card[Head(cmds).slot]) \subseteq StatusBits
    BY <2>3 DEF Told, StatusBits
  <2> QED BY <1>14, <2>2, <2>4 DEF ReaderExtends, TypeOK, driver, history
<1>15. ASSUME NEW s \in Slots, MoveCard(s)
       PROVE  TypeOK'
  <2>1. PICK now \in {"PRESENT", "NOT_PRESENT"} :
           /\ card' = [card EXCEPT ![s] = now]
           /\ notices' = IF s # 0 THEN notices
                         ELSE IF Len(notices) < IntrCap THEN Append(notices, now)
                         ELSE [notices EXCEPT ![IntrCap] = now]
           /\ seen' = (seen \/ (op = "wait" /\ s = slot /\ now = "PRESENT"))
    BY <1>15 DEF MoveCard
  <2>2. notices' \in Seq({"PRESENT", "NOT_PRESENT"})
    <3> DEFINE N == {"PRESENT", "NOT_PRESENT"}
    <3>1. notices \in Seq(N) /\ Len(notices) \in Nat
      BY LenProperties DEF TypeOK
    <3>2. CASE s # 0
      BY <2>1, <3>1, <3>2
    <3>3. CASE s = 0 /\ Len(notices) < IntrCap
      BY <2>1, <3>1, <3>3
    <3>4. CASE s = 0 /\ ~(Len(notices) < IntrCap)
      <4>1. IntrCap \in 1 .. Len(notices)
        BY <3>1, <3>4
      <4>2. [notices EXCEPT ![IntrCap] = now] \in Seq(N)
        BY <3>1, <4>1, ExceptSeq
      <4> QED BY <2>1, <3>4, <4>2
    <3> QED BY <3>2, <3>3, <3>4
  <2>3. card' \in [Slots -> Statuses] /\ seen' \in BOOLEAN
    BY <2>1 DEF TypeOK, Statuses
  <2>4. basis' \in [Slots -> Bases]
    BY <1>15 DEF MoveCard, TypeOK, Bases
  <2> QED BY <1>15, <2>2, <2>3, <2>4 DEF MoveCard, TypeOK, driver
<1>16. CASE Unplug
  BY <1>16 DEF Unplug, TypeOK, driver
<1>17. CASE UNCHANGED vars
  BY <1>17 DEF vars, driver, reader, history, TypeOK
<1> QED BY <1>1, <1>2, <1>3, <1>4, <1>5, <1>7, <1>8, <1>9, <1>10, <1>11, <1>12,
           <1>13, <1>14, <1>15, <1>16, <1>17, <1>18 DEF Next, Host, Reader

\* The types hold before the probe.
LEMMA TypeCorrectInit == Init => TypeOK
<1> SUFFICES ASSUME Init PROVE TypeOK
  OBVIOUS
<1>1. 0 \in Slots /\ 0 \in 0 .. SeqMod - 1 /\ MaxTry \in 1 .. MaxTry
  BY NumSlotsAssumption, SeqModAssumption, MaxTryAssumption DEF Slots
<1>2. card \in [Slots -> Statuses] /\ i_status \in [Slots -> Statuses]
  BY DEF Init, Statuses
<1>3. basis \in [Slots -> Bases]
  BY DEF Init, Bases
<1>4. cmds \in Seq(CommandMsgs) /\ resp \in Seq(AnswerMsgs)
      /\ notices \in Seq({"PRESENT", "NOT_PRESENT"})
  BY DEF Init
<1>5. accepted \in [id : Nat, cmd : Nat] /\ executed \subseteq Nat
  BY DEF Init
<1> QED BY <1>1, <1>2, <1>3, <1>4, <1>5 DEF Init, TypeOK, Ops

\* Every behaviour of the transport stays well typed.
THEOREM TypeCorrect == Spec => []TypeOK
  BY TypeCorrectInit, TypeStep, PTL DEF Spec

-----------------------------------------------------------------------------
(* Sequence numbers.                                                       *)

\* A step that leaves the pipes, the counters and what was accepted alone,
\* and does not start to receive.
LEMMA QuietStep ==
  ASSUME IInv, TypeOK', UNCHANGED <<d_seq, sent, cmds, resp, executed, accepted>>,
         pc' = "recv" => pc = "recv" /\ op' = op,
         pc' = "aborted" => pc = "aborted"
  PROVE  IInv'
<1>1. Numbering' /\ Ordering'
  BY DEF IInv, Numbering, Ordering, Numbered
<1>2. Typing'
  BY DEF IInv, Typing
<1>3. WindowSafe' /\ (accepted.id <= accepted.cmd)' /\ AbortOnlyAfterWrap'
  BY DEF IInv, WindowSafe, AbortOnlyAfterWrap
<1> QED BY <1>1, <1>2, <1>3 DEF IInv

\* A step that at most takes the oldest answer off its pipe.
LEMMA TakeStep ==
  ASSUME IInv, TypeOK', UNCHANGED <<d_seq, sent, cmds, executed>>,
         \/ resp' = resp
         \/ resp # <<>> /\ resp' = Tail(resp),
         pc' = "recv" => pc = "recv" /\ op' = op
  PROVE  Numbering' /\ Ordering' /\ Typing'
<1>1. \A i \in 1 .. Len(resp') : \E k \in 1 .. Len(resp) : resp'[i] = resp[k]
  <2>1. CASE resp' = resp
    BY <2>1
  <2>2. CASE resp # <<>> /\ resp' = Tail(resp)
    BY <2>2, HeadTail DEF IInv, TypeOK
  <2> QED BY <2>1, <2>2
<1>2. Numbering'
  BY <1>1 DEF IInv, Numbering, Numbered
<1>3. Ordering'
  BY <1>1 DEF IInv, Ordering
<1>4. Typing'
  BY <1>1 DEF IInv, Typing
<1> QED BY <1>2, <1>3, <1>4

\* The two checks of _RDR_to_PC: a message that passes them answers the
\* current command or one at least SeqMod commands old.
LEMMA AcceptedWindow ==
  ASSUME IInv, pc = "recv", resp # <<>>, ForUs(Head(resp))
  PROVE  /\ Head(resp).id \in 1 .. sent
         /\ Head(resp).id = sent \/ Head(resp).id + SeqMod <= sent
<1>1. Head(resp) = resp[1] /\ 1 \in 1 .. Len(resp)
  BY HeadTail DEF IInv, TypeOK
<1>2. Head(resp).id \in 1 .. sent /\ NextSeq(Head(resp).seq) = Head(resp).id % SeqMod
  BY <1>1 DEF IInv, Numbering, Numbered
<1>3. Head(resp).id % SeqMod = sent % SeqMod
  BY <1>2 DEF IInv, Numbering, ForUs
<1>4. sent \in Nat
  BY DEF IInv, TypeOK
<1> DEFINE k == Head(resp).id
<1>5. k \in Nat /\ k <= sent /\ k % SeqMod = sent % SeqMod
  BY <1>2, <1>3, <1>4
<1> HIDE DEF k
<1>6. k = sent \/ k + SeqMod <= sent
  BY <1>4, <1>5, EqualMod, SeqModAssumption
<1> QED BY <1>2, <1>6 DEF k

\* Accepting a message keeps WindowSafe.
LEMMA AcceptStep ==
  ASSUME IInv, Accept(Head(resp))
  PROVE  /\ WindowSafe' /\ (accepted.id <= accepted.cmd)'
         /\ UNCHANGED <<d_seq, sent, cmds, executed>>
         /\ resp # <<>> /\ resp' = Tail(resp) /\ pc = "recv"
         /\ accepted' = [id |-> Head(resp).id, cmd |-> sent]
<1>1. /\ pc = "recv" /\ resp # <<>> /\ ForUs(Head(resp))
      /\ accepted' = [id |-> Head(resp).id, cmd |-> sent]
  BY DEF Accept
<1>2. Head(resp).id \in 1 .. sent /\ (Head(resp).id = sent \/ Head(resp).id + SeqMod <= sent)
  BY <1>1, AcceptedWindow
<1>3. sent \in Nat
  BY DEF IInv, TypeOK
<1>4. WindowSafe' /\ (accepted.id <= accepted.cmd)'
  BY <1>1, <1>2, <1>3 DEF WindowSafe
<1> QED BY <1>1, <1>4 DEF Accept

\* A conclusion neither receives nor aborts.
LEMMA ConcludePc ==
  ASSUME NEW res, NEW st, Conclude(res, st)
  PROVE  pc' \in {"idle", "write", "intr", "closed"} /\ op' = op
  BY DEF Conclude, AfterExchange, AfterProbe

\* Every step keeps the invariant of any link.
LEMMA IInvStep == IInv /\ [Next]_vars => IInv'
<1> SUFFICES ASSUME IInv, [Next]_vars PROVE IInv'
  OBVIOUS
<1> USE SeqModAssumption
<1>t. TypeOK /\ TypeOK' /\ sent \in Nat
  BY TypeStep DEF IInv, TypeOK
<1>1. ASSUME NEW o \in Calls, NEW s \in Slots, Call(o, s)
      PROVE  IInv'
  BY <1>1, <1>t, QuietStep DEF Call, reader
<1>c. ASSUME cmds' = Append(cmds, ThisCommand), d_seq' = NextSeq(d_seq), sent' = sent + 1,
             UNCHANGED <<resp, executed>>, pc' = "recv" => op' = op
      PROVE  Numbering' /\ Ordering' /\ Typing'
  <2> DEFINE m == ThisCommand
  <2>1. cmds' = Append(cmds, m) /\ resp' = resp /\ executed' = executed
    BY <1>c
  <2>2. NextSeq(d_seq) = (sent + 1) % SeqMod
    BY <1>t, ModSucc DEF IInv, Numbering, NextSeq
  <2>4. m.id = sent + 1 /\ m.seq = d_seq /\ m.type = CommandOf(op)
    BY DEF ThisCommand
  <2> HIDE DEF m
  <2>3. /\ Len(cmds) \in Nat /\ Len(cmds') = Len(cmds) + 1
        /\ \A i \in 1 .. Len(cmds) : cmds'[i] = cmds[i]
        /\ cmds'[Len(cmds) + 1] = m
    BY <1>t, <2>1 DEF TypeOK
  <2>5. Numbering'
    <3>1. \A i \in 1 .. Len(cmds) : Numbered(cmds[i], sent + 1)
      BY <1>t DEF IInv, Numbering, Numbered
    <3>2. Numbered(m, sent + 1)
      BY <1>t, <2>2, <2>4 DEF Numbered
    <3>3. \A i \in 1 .. Len(cmds') : Numbered(cmds'[i], sent')
      BY <1>c, <1>t, <2>3, <3>1, <3>2
    <3>4. \A i \in 1 .. Len(resp') : Numbered(resp'[i], sent')
      BY <1>c, <1>t DEF IInv, Numbering, Numbered
    <3> QED BY <1>c, <2>2, <3>3, <3>4 DEF Numbering
  <2>6. Ordering'
    <3>1. \A i \in 1 .. Len(cmds) : cmds[i].id \in 1 .. sent
      BY DEF IInv, Numbering, Numbered
    <3> QED BY <1>c, <1>t, <2>3, <2>4, <3>1 DEF IInv, Ordering
  <2>7. Typing'
    <3>1. \A i \in 1 .. Len(cmds) : cmds[i].id \in 1 .. sent
      BY DEF IInv, Numbering, Numbered
    <3>2. \A i \in 1 .. Len(resp) : resp[i].id \in 1 .. sent
      BY DEF IInv, Numbering, Numbered
    <3>3. \A i \in 1 .. Len(cmds') : cmds'[i].id = sent' => cmds'[i].type = CommandOf(op)
      BY <1>c, <1>t, <2>3, <2>4, <3>1
    <3> QED BY <1>c, <1>t, <3>2, <3>3 DEF Typing
  <2> QED BY <2>5, <2>6, <2>7
<1>2. CASE PC_to_RDR
  <2>1. Numbering' /\ Ordering' /\ Typing'
    BY <1>2, <1>c DEF PC_to_RDR
  <2>2. accepted' = accepted /\ pc' = "recv"
    BY <1>2 DEF PC_to_RDR
  <2> QED BY <1>t, <2>1, <2>2 DEF IInv, WindowSafe, AbortOnlyAfterWrap
<1>3. ASSUME NEW e \in UsbErrors, NEW taken \in BOOLEAN, PC_to_RDR_Fails(e, taken)
      PROVE  IInv'
  <2>1. /\ d_seq' = NextSeq(d_seq) /\ sent' = sent + 1 /\ UNCHANGED <<resp, executed, accepted>>
        /\ cmds' = IF taken THEN Append(cmds, ThisCommand) ELSE cmds
    BY <1>3 DEF PC_to_RDR_Fails, WriteFails
  <2>2. NextSeq(d_seq) = (sent + 1) % SeqMod
    BY <1>t, ModSucc DEF IInv, Numbering, NextSeq
  <2>6. pc' # "aborted" /\ (pc' = "recv" => op' = op)
    <3>1. CASE op = "wait"
      BY <1>3, <3>1 DEF PC_to_RDR_Fails
    <3>2. CASE op # "wait"
      BY <1>3, <3>2, ConcludePc DEF PC_to_RDR_Fails
    <3> QED BY <3>1, <3>2
  <2>3. Numbering' /\ Ordering' /\ Typing'
    <3>1. CASE taken
      BY <1>c, <2>1, <2>6, <3>1
    <3>2. CASE ~taken
      <4>1. cmds' = cmds
        BY <2>1, <3>2
      <4>2. Numbering'
        <5>1. d_seq' = sent' % SeqMod /\ sent' = sent + 1 /\ resp' = resp
          BY <2>1, <2>2
        <5> QED BY <1>t, <4>1, <5>1 DEF IInv, Numbering, Numbered
      <4>3. Ordering'
        BY <1>t, <2>1, <4>1 DEF IInv, Ordering
      <4>4. Typing'
        BY <1>t, <2>1, <4>1 DEF IInv, Numbering, Numbered, Typing
      <4> QED BY <4>2, <4>3, <4>4
    <3> QED BY <3>1, <3>2
  <2> QED BY <1>t, <2>1, <2>3, <2>6 DEF IInv, WindowSafe, AbortOnlyAfterWrap
<1>4. ASSUME NEW e \in UsbErrors, NEW lost \in BOOLEAN, RecvFails(e, lost)
      PROVE  IInv'
  <2>1. /\ UNCHANGED <<d_seq, sent, cmds, executed, accepted>>
        /\ resp' = resp \/ (resp # <<>> /\ resp' = Tail(resp))
        /\ pc' \in {"idle", "write", "intr", "closed"}
    BY <1>4, ConcludePc DEF RecvFails
  <2>2. Numbering' /\ Ordering' /\ Typing'
    BY <1>t, <2>1, TakeStep
  <2> QED BY <1>t, <2>1, <2>2 DEF IInv, WindowSafe, AbortOnlyAfterWrap
<1>5. CASE RDR_to_PC_Stray
  <2>1. /\ UNCHANGED <<d_seq, sent, cmds, executed, accepted>>
        /\ resp # <<>> /\ resp' = Tail(resp)
        /\ pc' \in {"idle", "write", "intr", "closed"}
    BY <1>5, ConcludePc DEF RDR_to_PC_Stray
  <2>2. Numbering' /\ Ordering' /\ Typing'
    BY <1>t, <2>1, TakeStep
  <2> QED BY <1>t, <2>1, <2>2 DEF IInv, WindowSafe, AbortOnlyAfterWrap
<1>6. ASSUME Accept(Head(resp)), pc' = "recv" => op' = op, pc' # "aborted"
      PROVE  IInv'
  <2>1. Numbering' /\ Ordering' /\ Typing'
    BY <1>t, <1>6, AcceptStep, TakeStep
  <2> QED BY <1>t, <1>6, <2>1, AcceptStep DEF IInv, AbortOnlyAfterWrap
<1>7. CASE RDR_to_PC_Extension
  <2>1. Accept(Head(resp)) /\ pc' = pc /\ op' = op
    BY <1>7 DEF RDR_to_PC_Extension
  <2> QED BY <1>6, <2>1, AcceptStep
<1>8. CASE RDR_to_PC_GiveUp
  <2>1. Accept(Head(resp)) /\ pc' \in {"idle", "write", "intr", "closed"}
    BY <1>8, ConcludePc DEF RDR_to_PC_GiveUp
  <2> QED BY <1>6, <2>1
<1>9. CASE RDR_to_PC_Error
  <2>1. Accept(Head(resp)) /\ pc' \in {"idle", "write", "intr", "closed"}
    BY <1>9, ConcludePc DEF RDR_to_PC_Error
  <2> QED BY <1>6, <2>1
<1>10. CASE RDR_to_PC_Success
  <2>1. CASE Head(resp).type \in Expected(op)
    <3>1. Accept(Head(resp)) /\ pc' \in {"idle", "write", "intr", "closed"}
      BY <1>10, <2>1, ConcludePc DEF RDR_to_PC_Success
    <3> QED BY <1>6, <3>1
  <2>2. CASE Head(resp).type \notin Expected(op)
    <3>1. Accept(Head(resp)) /\ pc' = "aborted"
      BY <1>10, <2>2 DEF RDR_to_PC_Success
    <3>2. Numbering' /\ Ordering' /\ Typing'
      BY <1>t, <3>1, AcceptStep, TakeStep
    <3>3. accepted'.id # accepted'.cmd
      <4>1. SUFFICES ASSUME Head(resp).id = sent PROVE FALSE
        BY <3>1, AcceptStep
      <4>2. Head(resp) = resp[1] /\ 1 \in 1 .. Len(resp) /\ pc = "recv"
        BY <1>t, <3>1, AcceptStep, HeadTail DEF TypeOK
      <4>3. Head(resp).type = AnswerTo(CommandOf(op))
        BY <4>1, <4>2 DEF IInv, Typing
      <4>4. AnswerTo(CommandOf(op)) \in Expected(op)
        BY <1>t DEF TypeOK, Ops, Calls, AnswerTo, CommandOf, Expected, Answers
      <4> QED BY <2>2, <4>3, <4>4
    <3> QED BY <1>t, <3>1, <3>2, <3>3, AcceptStep DEF IInv, AbortOnlyAfterWrap
  <2> QED BY <2>1, <2>2
<1>11. CASE Interrupt
  BY <1>11, <1>t, QuietStep DEF Interrupt, LoopWait
<1>12. ASSUME NEW e \in UsbErrors \union {"NONE"}, NoInterrupt(e)
       PROVE  IInv'
  BY <1>12, <1>t, QuietStep DEF NoInterrupt, LoopWait
<1>18. CASE StrangeNotice
  BY <1>18, <1>t, QuietStep DEF StrangeNotice, reader, history
<1>13. CASE ReaderAnswers
  <2> DEFINE c == Head(cmds)
  <2>1. /\ cmds # <<>> /\ cmds' = Tail(cmds) /\ executed' = executed \union {c.id}
        /\ UNCHANGED <<d_seq, sent, accepted, pc, op>>
    BY <1>13 DEF ReaderAnswers, driver
  <2>2. PICK result, bits : resp' = Append(resp, Answer(c, result, bits))
    BY <1>13 DEF ReaderAnswers
  <2>3. /\ c \in CommandMsgs /\ c = cmds[1] /\ Len(cmds) \in Nat \ {0} /\ Len(cmds') = Len(cmds) - 1
        /\ \A i \in 1 .. Len(cmds') : cmds'[i] = cmds[i + 1] /\ i + 1 \in 1 .. Len(cmds)
    BY <1>t, <2>1, HeadTail DEF TypeOK
  <2> DEFINE a == Answer(c, result, bits)
  <2>4. a.id = c.id /\ a.seq = c.seq /\ a.type = AnswerTo(c.type)
    BY DEF Answer
  <2> HIDE DEF a, c
  <2>5. /\ Len(resp) \in Nat /\ Len(resp') = Len(resp) + 1
        /\ \A i \in 1 .. Len(resp) : resp'[i] = resp[i]
        /\ resp'[Len(resp) + 1] = a
    BY <1>t, <2>2 DEF TypeOK, a
  <2>6. Numbered(c, sent) /\ c.id \in 1 .. sent
    BY <2>3 DEF IInv, Numbering, Numbered
  <2>7. Numbering'
    <3>1. Numbered(a, sent)
      BY <2>4, <2>6 DEF Numbered
    <3> QED BY <1>t, <2>1, <2>3, <2>5, <3>1 DEF IInv, Numbering
  <2>8. Ordering'
    <3>1. \A i \in 1 .. Len(cmds') : c.id < cmds'[i].id
      BY <2>3 DEF IInv, Ordering
    <3>2. \A e \in executed' : e \in 1 .. sent'
      BY <2>1, <2>6 DEF IInv, Ordering
    <3>3. \A i \in 1 .. Len(cmds') : \A e \in executed' : e < cmds'[i].id
      BY <2>1, <2>3, <3>1 DEF IInv, Ordering
    <3>4. \A i, j \in 1 .. Len(cmds') : i < j => cmds'[i].id < cmds'[j].id
      BY <2>3 DEF IInv, Ordering
    <3>5. \A i \in 1 .. Len(resp') : resp'[i].result # "extension" => resp'[i].id \in executed'
      BY <2>1, <2>4, <2>5 DEF IInv, Ordering
    <3> QED BY <3>2, <3>3, <3>4, <3>5 DEF Ordering
  <2>9. Typing'
    <3>1. pc = "recv" /\ c.id = sent => c.type = CommandOf(op)
      BY <2>3 DEF IInv, Typing
    <3>2. SUFFICES ASSUME pc' = "recv" PROVE Typing'
      BY DEF Typing
    <3>3. \A i \in 1 .. Len(cmds') : cmds'[i].id = sent' => cmds'[i].type = CommandOf(op)
      BY <2>1, <2>3, <3>2 DEF IInv, Typing
    <3>4. \A i \in 1 .. Len(resp') : resp'[i].id = sent' => resp'[i].type = AnswerTo(CommandOf(op))
      BY <2>1, <2>4, <2>5, <3>1, <3>2 DEF IInv, Typing
    <3> QED BY <2>1, <3>3, <3>4 DEF Typing
  <2> QED BY <1>t, <2>1, <2>7, <2>8, <2>9 DEF IInv, WindowSafe, AbortOnlyAfterWrap
<1>14. CASE ReaderExtends
  <2> DEFINE c == Head(cmds)
  <2>0. PICK bits : resp' = Append(resp, Answer(c, "extension", bits))
    BY <1>14 DEF ReaderExtends
  <2> DEFINE a == Answer(c, "extension", bits)
  <2>1. /\ cmds # <<>> /\ resp' = Append(resp, a)
        /\ UNCHANGED <<d_seq, sent, accepted, pc, op, cmds, executed>>
    BY <1>14, <2>0 DEF ReaderExtends, driver, history
  <2>2. c = cmds[1] /\ 1 \in 1 .. Len(cmds)
    BY <1>t, <2>1, HeadTail DEF TypeOK
  <2>3. a.id = c.id /\ a.seq = c.seq /\ a.type = AnswerTo(c.type) /\ a.result = "extension"
    BY DEF Answer
  <2> HIDE DEF a, c
  <2>4. /\ Len(resp) \in Nat /\ Len(resp') = Len(resp) + 1
        /\ \A i \in 1 .. Len(resp) : resp'[i] = resp[i]
        /\ resp'[Len(resp) + 1] = a
    BY <1>t, <2>1 DEF TypeOK
  <2>5. Numbered(c, sent)
    BY <2>2 DEF IInv, Numbering
  <2>6. Numbering'
    <3>1. Numbered(a, sent)
      BY <2>3, <2>5 DEF Numbered
    <3> QED BY <1>t, <2>1, <2>4, <3>1 DEF IInv, Numbering
  <2>7. Ordering'
    BY <2>1, <2>3, <2>4 DEF IInv, Ordering
  <2>8. Typing'
    <3>1. pc = "recv" /\ c.id = sent => c.type = CommandOf(op)
      BY <2>2 DEF IInv, Typing
    <3> QED BY <2>1, <2>3, <2>4, <3>1 DEF IInv, Typing
  <2> QED BY <1>t, <2>1, <2>6, <2>7, <2>8 DEF IInv, WindowSafe, AbortOnlyAfterWrap
<1>15. ASSUME NEW s \in Slots, MoveCard(s)
       PROVE  IInv'
  BY <1>15, <1>t, QuietStep DEF MoveCard, driver
<1>16. CASE Unplug
  <2>1. /\ cmds' = <<>> /\ resp' = <<>>
        /\ UNCHANGED <<d_seq, sent, accepted, executed, pc, op>>
    BY <1>16 DEF Unplug, driver
  <2>2. Len(cmds') = 0 /\ Len(resp') = 0
    BY <2>1
  <2>3. Numbering' /\ Ordering' /\ Typing'
    BY <2>1, <2>2 DEF IInv, Numbering, Ordering, Typing
  <2> QED BY <1>t, <2>1, <2>3 DEF IInv, WindowSafe, AbortOnlyAfterWrap
<1>17. CASE UNCHANGED vars
  BY <1>17, <1>t, QuietStep DEF vars, driver, reader, history
<1> QED BY <1>1, <1>2, <1>3, <1>4, <1>5, <1>7, <1>8, <1>9, <1>10, <1>11, <1>12,
           <1>13, <1>14, <1>15, <1>16, <1>17, <1>18 DEF Next, Host, Reader

\* The inductive invariant holds when the link comes up.
LEMMA InvarianceInit == Init => IInv
<1> SUFFICES ASSUME Init PROVE IInv
  OBVIOUS
<1>t. TypeOK
  BY TypeCorrectInit
<1>1. /\ cmds = <<>> /\ resp = <<>> /\ sent = 0 /\ d_seq = 0 /\ executed = {}
      /\ accepted = [id |-> 0, cmd |-> 0] /\ pc = "write"
  BY DEF Init
<1>2. 0 % SeqMod = 0
  <2>1. (SeqMod * 0 + 0) % SeqMod = 0
    BY ModUnique, SeqModAssumption
  <2> QED BY <2>1, SeqModAssumption
<1>3. Numbering /\ Ordering /\ Typing
  BY <1>1, <1>2 DEF Numbering, Ordering, Typing
<1> QED BY <1>t, <1>1, <1>3 DEF IInv, WindowSafe, AbortOnlyAfterWrap

\* The inductive invariant holds in every behaviour.
THEOREM Invariance == Spec => []IInv
BY InvarianceInit, IInvStep, PTL DEF Spec

\* _RDR_to_PC never takes an answer for the answer to another command until
\* d_seq has gone all the way round.
THEOREM Matching == Spec => []WindowSafe
<1>1. IInv => WindowSafe
  BY DEF IInv
<1> QED BY <1>1, Invariance, PTL

\* The assertions on the message type fail only after such a mistake.
THEOREM Assertions == Spec => []AbortOnlyAfterWrap
<1>1. IInv => AbortOnlyAfterWrap
  BY DEF IInv
<1> QED BY <1>1, Invariance, PTL

-----------------------------------------------------------------------------
(* Refinement.                                                             *)

\* Every step of the transport is a step of the command channel or none.
LEMMA ChannelStep ==
  ASSUME IInv, [Next]_vars
  PROVE  [Channel!Next]_(Channel!vars)
<1> DEFINE told == IF outcome \in {"ok", "clock_err"} THEN "ok" ELSE outcome
<1>s. ASSUME UNCHANGED <<sent, executed, outcome>>, (pc' = "recv") = (pc = "recv")
      PROVE  UNCHANGED Channel!vars
  BY <1>s DEF Channel!vars
<1>f. ASSUME pc = "recv", pc' # "recv", outcome' = "fail", UNCHANGED <<sent, executed>>
      PROVE  Channel!Next
  BY <1>f DEF Channel!Next, Channel!Fail
<1>1. ASSUME NEW o \in Calls, NEW s \in Slots, Call(o, s)
      PROVE  UNCHANGED Channel!vars
  BY <1>1, <1>s DEF Call
<1>2. CASE PC_to_RDR
  BY <1>2 DEF PC_to_RDR, Channel!Next, Channel!Issue
<1>3. ASSUME NEW e \in UsbErrors, NEW taken \in BOOLEAN, PC_to_RDR_Fails(e, taken)
      PROVE  Channel!Next
  <2>0. pc = "write" /\ sent' = sent + 1 /\ executed' = executed
    BY <1>3 DEF PC_to_RDR_Fails, WriteFails
  <2>1. CASE op = "wait"
    BY <1>3, <2>0, <2>1 DEF PC_to_RDR_Fails, Channel!Next, Channel!Issue
  <2>2. CASE op # "wait"
    <3>1. outcome' = "fail" /\ pc' # "recv" /\ pc # "recv"
      BY <1>3, <2>0, <2>2, ConcludePc DEF PC_to_RDR_Fails, Conclude
    <3> QED BY <2>0, <3>1 DEF Channel!Next, Channel!Reject
  <2> QED BY <2>1, <2>2
<1>4. ASSUME NEW e \in UsbErrors, NEW lost \in BOOLEAN, RecvFails(e, lost)
      PROVE  Channel!Next
  BY <1>4, <1>f, ConcludePc DEF RecvFails, Conclude
<1>5. CASE RDR_to_PC_Stray
  BY <1>5, <1>f, ConcludePc DEF RDR_to_PC_Stray, Conclude
<1>7. CASE RDR_to_PC_Extension
  BY <1>7, <1>s DEF RDR_to_PC_Extension, Accept
<1>8. CASE RDR_to_PC_GiveUp
  BY <1>8, <1>f, ConcludePc DEF RDR_to_PC_GiveUp, Conclude, Accept
<1>9. CASE RDR_to_PC_Error
  BY <1>9, <1>f, ConcludePc DEF RDR_to_PC_Error, Conclude, Accept
<1>10. CASE RDR_to_PC_Success
  <2> DEFINE k == Head(resp).id
  <2>1. Accept(Head(resp)) /\ Succeeded(Head(resp)) /\ pc = "recv" /\ resp # <<>>
        /\ ForUs(Head(resp)) /\ UNCHANGED <<sent, executed>>
    BY <1>10 DEF RDR_to_PC_Success, Accept
  <2>2. k = sent \/ k + SeqMod <= sent
    BY <2>1, AcceptedWindow
  <2>3. k \in executed
    <3>1. Head(resp) = resp[1] /\ 1 \in 1 .. Len(resp)
      BY <2>1, HeadTail DEF IInv, TypeOK
    <3> QED BY <2>1, <3>1 DEF IInv, Ordering, Succeeded
  <2>4. CASE Head(resp).type \notin Expected(op)
    BY <1>10, <1>f, <2>1, <2>4 DEF RDR_to_PC_Success
  <2>5. CASE Head(resp).type \in Expected(op)
    <3>1. outcome' \in {"ok", "clock_err"} /\ pc' # "recv"
      BY <1>10, <2>5, ConcludePc DEF RDR_to_PC_Success, Conclude
    <3> HIDE DEF k
    <3> QED BY <2>1, <2>2, <2>3, <3>1 DEF Channel!Next, Channel!Succeed
  <2> QED BY <2>4, <2>5
<1>11. CASE Interrupt
  BY <1>11, <1>s DEF Interrupt, LoopWait
<1>12. ASSUME NEW e \in UsbErrors \union {"NONE"}, NoInterrupt(e)
       PROVE  UNCHANGED Channel!vars
  BY <1>12, <1>s DEF NoInterrupt, LoopWait
<1>18. CASE StrangeNotice
  BY <1>18, <1>s DEF StrangeNotice, reader, history
<1>13. CASE ReaderAnswers
  <2> DEFINE k == Head(cmds).id
  <2>1. cmds # <<>> /\ executed' = executed \union {k} /\ UNCHANGED <<sent, pc, outcome>>
    BY <1>13 DEF ReaderAnswers, driver
  <2>2. Head(cmds) = cmds[1] /\ 1 \in 1 .. Len(cmds)
    BY <2>1, HeadTail DEF IInv, TypeOK
  <2>3. k \in 1 .. sent /\ \A e \in executed : e < k
    BY <2>2 DEF IInv, Numbering, Numbered, Ordering
  <2> HIDE DEF k
  <2> QED BY <2>1, <2>3 DEF Channel!Next, Channel!Execute
<1>14. CASE ReaderExtends
  BY <1>14, <1>s DEF ReaderExtends, driver, history
<1>15. ASSUME NEW s \in Slots, MoveCard(s)
       PROVE  UNCHANGED Channel!vars
  BY <1>15, <1>s DEF MoveCard, driver
<1>16. CASE Unplug
  BY <1>16, <1>s DEF Unplug, driver
<1>17. CASE UNCHANGED vars
  BY <1>17, <1>s DEF vars, driver, reader, history
<1> QED BY <1>1, <1>2, <1>3, <1>4, <1>5, <1>7, <1>8, <1>9, <1>10, <1>11, <1>12,
           <1>13, <1>14, <1>15, <1>16, <1>17, <1>18 DEF Next, Host, Reader

\* The exchanges implement a synchronous command channel: "ok" is said of a
\* command the reader has executed, commands are executed in order and at
\* most once, and the only mistake is one of a whole turn of d_seq.
THEOREM Refinement == Spec => ImplementsChannel
<1>1. Init => Channel!Init
  BY DEF Init, Channel!Init
<1>2. IInv /\ [Next]_vars => [Channel!Next]_(Channel!vars)
  BY ChannelStep
<1> QED BY <1>1, <1>2, Invariance, PTL DEF Spec, ImplementsChannel, Channel!Spec

-----------------------------------------------------------------------------
(***************************************************************************)
(* One exchange at a time.  While the link is not broken everything in the *)
(* bulk pipes belongs to the command the host waits for; from this follow  *)
(* the exactness of the cached slot status and the absence of bus errors   *)
(* on a clean link.                                                        *)
(***************************************************************************)
(* The pipes hold at most the current command, or the time extensions      *)
(* asked for it and then its final answer; and nothing between exchanges.  *)
Single ==
  link # "broken" =>
    /\ pc # "recv" => cmds = <<>> /\ resp = <<>>
    /\ Len(cmds) <= 1
    /\ \A i \in 1 .. Len(cmds) : cmds[i].id = sent /\ cmds[i].slot = slot
    /\ \A i \in 1 .. Len(resp) : resp[i].id = sent /\ resp[i].slot = slot
    /\ \A i \in 1 .. Len(resp) :
         resp[i].result # "extension" => i = Len(resp) /\ cmds = <<>>

(* The cache of a slot is exact, or the final answer that will make it so  *)
(* is on its way; the extensions before it would not make it wrong.        *)
FinalPending == resp # <<>> /\ resp[Len(resp)].result # "extension"

Exact(s) ==
  IF s = slot /\ FinalPending THEN resp[Len(resp)].status = card[s]
  ELSE /\ i_status[s] = card[s]
       /\ s = slot => \A i \in 1 .. Len(resp) : resp[i].status \in {card[s], "RFU"}

Cached == link # "broken" => \A s \in Slots : basis[s] = "answer" => Exact(s)

(* A final answer is of a slot that was asked.                             *)
Asked == \A i \in 1 .. Len(resp) :
           resp[i].result # "extension" => basis[resp[i].slot] # "never"

(* ccid_probe has asked every slot below the one it is at.                 *)
Probed ==
  /\ op # "probe" \/ pc = "idle" => \A s \in Slots : basis[s] # "never"
  /\ op = "probe" => pc # "intr"
  /\ op = "probe" /\ pc \in {"write", "recv"} => \A s \in 0 .. slot - 1 : basis[s] # "never"

(* Only cci_wait_for_card waits for an interrupt.                          *)
Polls == pc = "intr" => op = "wait"

(* While ccid_probe runs no card is active and no answer says so: only what *)
(* calloc left does, until an answer that tells the state is accepted.      *)
Fresh ==
  op = "probe" /\ pc \in {"write", "recv", "idle"} =>
    /\ link # "broken" \/ (gone /\ cmds = <<>> /\ resp = <<>>)
    /\ \A s \in Slots : card[s] # "ACTIVE"
    /\ \A i \in 1 .. Len(cmds) : cmds[i].type = "GetSlotStatus"
    /\ \A i \in 1 .. Len(resp) : resp[i].result # "extension" /\ resp[i].status # "ACTIVE"
    /\ \A s \in Slots : i_status[s] = "ACTIVE" /\ basis[s] \notin {"never", "rfu"} =>
         /\ s = slot /\ pc = "recv" /\ cmds = <<>>
         /\ resp # <<>> => resp[1].status # "RFU"

SInv ==
  /\ IInv /\ Single /\ Cached /\ Asked /\ Probed /\ Fresh /\ Polls
  /\ NoFalseBusError

-----------------------------------------------------------------------------
(* The pipes.                                                              *)

\* Pipes that are empty hold nothing but the current command.
LEMMA SingleEmpty ==
  ASSUME link' # "broken" => cmds' = <<>> /\ resp' = <<>>
  PROVE  Single'
BY DEF Single

(* Between exchanges nothing is under way.                                 *)
LEMMA Between ==
  ASSUME SInv, link # "broken", pc # "recv"
  PROVE  /\ cmds = <<>> /\ resp = <<>>
         /\ \A s \in Slots : basis[s] = "answer" => i_status[s] = card[s]
BY DEF SInv, Single, Cached, Exact, FinalPending

(* What is on the pipe passes the two checks of _RDR_to_PC.                *)
LEMMA Matched ==
  ASSUME SInv, link # "broken", resp # <<>>
  PROVE  /\ pc = "recv" /\ ForUs(Head(resp)) /\ Head(resp) = resp[1]
         /\ 1 \in 1 .. Len(resp) /\ Head(resp).slot = slot
<1>1. Head(resp) = resp[1] /\ 1 \in 1 .. Len(resp)
  BY HeadTail DEF SInv, IInv, TypeOK
<1>2. resp[1].id = sent /\ resp[1].slot = slot /\ pc = "recv"
  BY <1>1 DEF SInv, Single
<1>3. NextSeq(resp[1].seq) = sent % SeqMod
  BY <1>1, <1>2 DEF SInv, IInv, Numbering, Numbered
<1>4. d_seq = sent % SeqMod
  BY DEF SInv, IInv, Numbering
<1> QED
  BY <1>1, <1>2, <1>3, <1>4 DEF ForUs

(* A final answer at the head is all there is.                             *)
LEMMA FinalAlone ==
  ASSUME SInv, link # "broken", resp # <<>>, Head(resp).result # "extension"
  PROVE  cmds = <<>> /\ Tail(resp) = <<>> /\ Len(resp) = 1
<1>1. Head(resp) = resp[1] /\ 1 \in 1 .. Len(resp)
  BY Matched
<1>2. Len(resp) = 1 /\ cmds = <<>>
  BY <1>1 DEF SInv, Single
<1>3. Tail(resp) \in Seq(AnswerMsgs) /\ Len(Tail(resp)) = 0
  BY <1>2, HeadTail DEF SInv, IInv, TypeOK
<1>4. Tail(resp) = <<>>
  BY <1>3, EmptySeq
<1> QED
  BY <1>2, <1>4

\* A message that ends an exchange is not a time extension.
LEMMA NotExtension ==
  ASSUME NEW m, m.result \in BErrors \/ Succeeded(m)
  PROVE  m.result # "extension"
BY ErrorsAssumption DEF Succeeded

(* What every action of the host leaves of a link that is not broken.      *)
LEMMA BrokenStays == [Next]_vars => (link' # "broken" => link # "broken")
<1> SUFFICES ASSUME [Next]_vars PROVE link' # "broken" => link # "broken"
  OBVIOUS
<1>1. CASE Host
  BY <1>1 DEF Host, PC_to_RDR, PC_to_RDR_Fails, Worse, RecvFails, RDR_to_PC_Stray,
     RDR_to_PC_Extension, RDR_to_PC_GiveUp, RDR_to_PC_Error, RDR_to_PC_Success,
     Interrupt, NoInterrupt, LoopWait, StrangeNotice, history
<1>2. CASE Reader \/ Unplug \/ \E s \in Slots : MoveCard(s)
  BY <1>2 DEF Reader, ReaderAnswers, ReaderExtends, Unplug, MoveCard, history
<1>3. CASE (\E o \in Calls, s \in Slots : Call(o, s)) \/ UNCHANGED vars
  BY <1>3 DEF Call, vars, history
<1> QED
  BY <1>1, <1>2, <1>3 DEF Next

\* Every step keeps to the one command in the pipes.
LEMMA SingleStep == SInv /\ [Next]_vars => Single'
<1> SUFFICES ASSUME SInv, [Next]_vars, link' # "broken" PROVE Single'
  BY DEF Single
<1>t. TypeOK /\ TypeOK' /\ link # "broken"
  BY TypeStep, BrokenStays DEF SInv, IInv
<1>e. ASSUME pc # "recv", UNCHANGED <<cmds, resp>>
      PROVE  Single'
  BY <1>e, <1>t, Between, SingleEmpty
<1>1. CASE \E o \in Calls, s \in Slots : Call(o, s)
  BY <1>1, <1>e DEF Call, reader
<1>c. ASSUME pc = "write", sent' = sent + 1, slot' = slot, pc' = "recv", resp' = resp,
             cmds' = Append(cmds, ThisCommand)
      PROVE  Single'
  <2> DEFINE m == ThisCommand
  <2>1. cmds = <<>> /\ resp = <<>>
    BY <1>c, <1>t, Between
  <2>2. m.id = sent + 1 /\ m.slot = slot
    BY DEF ThisCommand
  <2> HIDE DEF m
  <2>3. Len(cmds') = 1 /\ cmds'[1] = m /\ Len(resp') = 0
    BY <1>c, <2>1 DEF m
  <2> QED
    BY <1>c, <2>2, <2>3 DEF Single
<1>2. CASE PC_to_RDR
  BY <1>2, <1>c DEF PC_to_RDR
<1>3. ASSUME NEW e \in UsbErrors, NEW taken \in BOOLEAN, PC_to_RDR_Fails(e, taken)
      PROVE  Single'
  <2>1. /\ pc = "write" /\ sent' = sent + 1 /\ resp' = resp
        /\ cmds' = IF taken THEN Append(cmds, ThisCommand) ELSE cmds
    BY <1>3 DEF PC_to_RDR_Fails, WriteFails
  <2>2. CASE ~taken
    BY <2>1, <2>2, <1>e
  <2>3. CASE taken
    <3>1. op = "wait"
      BY <1>3, <2>3 DEF PC_to_RDR_Fails
    <3> QED
      BY <1>3, <2>1, <2>3, <3>1, <1>c DEF PC_to_RDR_Fails
  <2> QED
    BY <2>2, <2>3
<1>4. CASE \E e \in UsbErrors, lost \in BOOLEAN : RecvFails(e, lost)
  BY <1>4, <1>t DEF RecvFails
<1>5. CASE RDR_to_PC_Stray
  BY <1>5, <1>t, Matched DEF RDR_to_PC_Stray
<1>6. CASE RDR_to_PC_Extension
  <2>1. /\ resp # <<>> /\ resp' = Tail(resp)
        /\ UNCHANGED <<cmds, sent, slot, pc>>
    BY <1>6 DEF RDR_to_PC_Extension, Accept
  <2>2. /\ Len(resp') = Len(resp) - 1 /\ Len(resp) \in Nat
        /\ \A i \in 1 .. Len(resp') : resp'[i] = resp[i + 1] /\ i + 1 \in 1 .. Len(resp)
    BY <2>1, <1>t, HeadTail DEF TypeOK
  <2>3. pc = "recv"
    BY <2>1, <1>t, Matched
  <2>4. \A i \in 1 .. Len(resp') :
          /\ resp'[i].id = sent /\ resp'[i].slot = slot
          /\ resp'[i].result # "extension" => i = Len(resp') /\ cmds = <<>>
    BY <2>2, <1>t DEF SInv, Single
  <2> QED
    BY <2>1, <2>3, <2>4, <1>t DEF SInv, Single
<1>7. CASE RDR_to_PC_GiveUp
  BY <1>7, <1>t DEF RDR_to_PC_GiveUp
<1>8. CASE RDR_to_PC_Error \/ RDR_to_PC_Success
  <2>1. /\ resp # <<>> /\ resp' = Tail(resp) /\ cmds' = cmds
        /\ Head(resp).result # "extension"
    BY <1>8, NotExtension DEF RDR_to_PC_Error, RDR_to_PC_Success, Accept
  <2> QED
    BY <2>1, <1>t, FinalAlone, SingleEmpty
<1>9. CASE Interrupt \/ \E e \in UsbErrors \union {"NONE"} : NoInterrupt(e)
  BY <1>9, <1>e DEF Interrupt, NoInterrupt, LoopWait
<1>14. CASE StrangeNotice
  BY <1>14, <1>e DEF StrangeNotice, reader
<1>10. CASE ReaderAnswers \/ ReaderExtends
  <2> DEFINE c == Head(cmds)
  <2>1. PICK result, status :
           result \in Results /\ resp' = Append(resp, Answer(c, result, status))
    <3>1. CASE ReaderAnswers
      <4>1. PICK result \in Possible(c) : \E bits : resp' = Append(resp, Answer(c, result, bits))
        BY <3>1 DEF ReaderAnswers
      <4>2. result \in Results
        BY <4>1 DEF Possible, Results
      <4> QED
        BY <4>1, <4>2
    <3>2. CASE ReaderExtends
      <4>1. \E bits : resp' = Append(resp, Answer(c, "extension", bits))
        BY <3>2 DEF ReaderExtends
      <4> QED
        BY <4>1 DEF Results
    <3> QED
      BY <1>10, <3>1, <3>2
  <2> DEFINE a == Answer(c, result, status)
  <2>2. a.id = c.id /\ a.slot = c.slot /\ a.result = result
    BY DEF Answer
  <2>3. cmds # <<>> /\ UNCHANGED <<sent, slot, pc>>
    BY <1>10 DEF ReaderAnswers, ReaderExtends, driver, history
  <2>4. /\ c = cmds[1] /\ 1 \in 1 .. Len(cmds) /\ Len(cmds) \in Nat /\ Len(Tail(cmds)) = Len(cmds) - 1
        /\ Tail(cmds) \in Seq(CommandMsgs)
    BY <2>3, <1>t, HeadTail DEF TypeOK
  <2>5. pc = "recv" /\ Len(cmds) = 1 /\ c.id = sent /\ c.slot = slot
    BY <2>3, <2>4, <1>t DEF SInv, Single
  <2> HIDE DEF a, c
  <2>6. /\ Len(resp) \in Nat /\ Len(resp') = Len(resp) + 1
        /\ \A i \in 1 .. Len(resp) : resp'[i] = resp[i]
        /\ resp'[Len(resp) + 1] = a
    BY <1>t, <2>1 DEF TypeOK, a
  <2>7. \A i \in 1 .. Len(resp) : resp[i].result = "extension"
    BY <2>3, <1>t DEF SInv, Single
  <2>8. \A i \in 1 .. Len(resp') : resp'[i].id = sent /\ resp'[i].slot = slot
    BY <2>2, <2>5, <2>6, <1>t DEF SInv, Single
  <2>9. \A i \in 1 .. Len(resp') : resp'[i].result # "extension" => i = Len(resp')
    BY <2>6, <2>7
  <2>10. CASE ReaderAnswers
    <3>1. cmds' = Tail(cmds) /\ Len(cmds') = 0
      BY <2>10, <2>4, <2>5 DEF ReaderAnswers
    <3>2. cmds' = <<>>
      BY <3>1, <2>4, EmptySeq
    <3>3. Len(cmds') <= 1 /\ pc' = "recv" /\ sent' = sent /\ slot' = slot
      BY <2>3, <2>5, <3>1
    <3>4. \A i \in 1 .. Len(cmds') : FALSE
      BY <3>1
    <3> QED
      BY <2>8, <2>9, <3>2, <3>3, <3>4 DEF Single
  <2>11. CASE ReaderExtends
    <3>1. PICK bits : cmds' = cmds /\ resp' = Append(resp, Answer(c, "extension", bits))
      BY <2>11 DEF ReaderExtends, c
    <3>2. Answer(c, "extension", bits).result = "extension"
      BY DEF Answer
    <3>3. resp'[Len(resp) + 1] = Answer(c, "extension", bits)
      BY <3>1, <1>t DEF TypeOK
    <3>4. \A i \in 1 .. Len(resp') : resp'[i].result = "extension"
      BY <2>6, <2>7, <3>2, <3>3
    <3> QED
      BY <2>3, <2>5, <2>8, <3>1, <3>4, <1>t DEF SInv, Single
  <2> QED
    BY <1>10, <2>10, <2>11
<1>11. CASE \E s \in Slots : MoveCard(s)
  <2>1. UNCHANGED <<cmds, resp, sent, slot, pc>>
    BY <1>11 DEF MoveCard, driver
  <2> QED
    BY <2>1, <1>t DEF SInv, Single
<1>12. CASE Unplug
  BY <1>12, <1>t DEF Unplug
<1>13. CASE UNCHANGED vars
  BY <1>13, <1>t DEF vars, driver, reader, history, SInv, Single
<1> QED
  BY <1>1, <1>2, <1>3, <1>4, <1>5, <1>6, <1>7, <1>8, <1>9, <1>10, <1>11, <1>12, <1>13,
     <1>14 DEF Next, Host, Reader

-----------------------------------------------------------------------------
(* The cache.                                                              *)

\* With nothing on its way the cache is what the last answer said.
LEMMA CachedEmpty ==
  ASSUME resp' = <<>>,
         \A s \in Slots : basis'[s] = "answer" => i_status'[s] = card'[s]
  PROVE  Cached'
BY DEF Cached, Exact, FinalPending

(* The oldest message comes off the pipe and its status into the cache.    *)
LEMMA AcceptExact ==
  ASSUME SInv, TypeOK', link # "broken", Accept(Head(resp)), card' = card, slot' = slot,
         Head(resp).status # "RFU"
  PROVE  Cached'
<1>1. /\ resp # <<>> /\ resp' = Tail(resp) /\ basis' = basis
      /\ i_status' = [i_status EXCEPT ![Head(resp).slot] = Head(resp).status]
  BY DEF Accept, StatusAfter
<1>2. /\ TypeOK /\ Head(resp) = resp[1] /\ 1 \in 1 .. Len(resp) /\ Head(resp).slot = slot
  BY <1>1, Matched DEF SInv, IInv
<1>3. /\ Len(resp') = Len(resp) - 1 /\ Len(resp) \in Nat
      /\ \A i \in 1 .. Len(resp') : resp'[i] = resp[i + 1] /\ i + 1 \in 1 .. Len(resp)
  BY <1>1, <1>2, HeadTail DEF TypeOK
<1>4. /\ i_status'[slot] = resp[1].status
      /\ \A s \in Slots : s # slot => i_status'[s] = i_status[s]
  BY <1>1, <1>2 DEF TypeOK
<1>5. resp' # <<>> => Len(resp') \in 1 .. Len(resp') /\ resp'[Len(resp')] = resp[Len(resp)]
  <2>1. SUFFICES ASSUME resp' # <<>>
                 PROVE  Len(resp') \in 1 .. Len(resp') /\ resp'[Len(resp')] = resp[Len(resp)]
    OBVIOUS
  <2>2. Len(resp') \in Nat \ {0}
    BY <2>1, EmptySeq DEF TypeOK
  <2>3. Len(resp') \in 1 .. Len(resp')
    BY <2>2
  <2>4. resp'[Len(resp')] = resp[Len(resp') + 1]
    BY <1>3, <2>3
  <2>5. Len(resp') + 1 = Len(resp)
    BY <1>3
  <2> QED
    BY <2>3, <2>4, <2>5
<1>6. SUFFICES ASSUME NEW s \in Slots, basis[s] = "answer" PROVE Exact(s)'
  BY <1>1 DEF Cached
<1>7. Exact(s)
  BY <1>6 DEF SInv, Cached
<1>8. CASE s # slot
  BY <1>4, <1>7, <1>8 DEF Exact
<1>9. CASE s = slot /\ FinalPending
  <2>1. resp[Len(resp)].status = card[s] /\ resp[Len(resp)].result # "extension"
    BY <1>7, <1>9 DEF Exact, FinalPending
  <2>2. CASE resp' = <<>>
    <3>1. Len(resp') = 0
      BY <2>2, EmptySeq
    <3>2. Len(resp) = 1
      BY <1>3, <3>1
    <3> QED
      BY <1>4, <1>9, <2>1, <2>2, <3>1, <3>2 DEF Exact, FinalPending
  <2>3. CASE resp' # <<>>
    BY <1>5, <1>9, <2>1, <2>3 DEF Exact, FinalPending
  <2> QED
    BY <2>2, <2>3
<1>10. CASE s = slot /\ ~FinalPending
  <2>1. \A i \in 1 .. Len(resp) : resp[i].status \in {card[s], "RFU"}
    BY <1>7, <1>10 DEF Exact
  <2>2. ~FinalPending'
    BY <1>1, <1>5, <1>10 DEF FinalPending
  <2>3. \A i \in 1 .. Len(resp') : resp'[i].status \in {card[s], "RFU"}
    BY <1>3, <2>1
  <2>4. i_status'[s] = card[s]
    BY <1>2, <1>4, <1>10, <2>1
  <2> QED
    BY <2>2, <2>3, <2>4 DEF Exact
<1> QED
  BY <1>8, <1>9, <1>10

\* Every step keeps what the cached status of a slot rests on.
LEMMA CachedStep == SInv /\ [Next]_vars => Cached'
<1> SUFFICES ASSUME SInv, [Next]_vars, link' # "broken" PROVE Cached'
  BY DEF Cached
<1>t. TypeOK /\ TypeOK' /\ link # "broken"
  BY TypeStep, BrokenStays DEF SInv, IInv
<1>e. ASSUME pc # "recv", UNCHANGED <<resp, card, i_status, basis>>
      PROVE  Cached'
  BY <1>e, <1>t, Between, CachedEmpty
<1>1. CASE \E o \in Calls, s \in Slots : Call(o, s)
  BY <1>1, <1>e DEF Call, reader
<1>2. CASE PC_to_RDR
  BY <1>2, <1>e DEF PC_to_RDR
<1>3. CASE \E e \in UsbErrors, taken \in BOOLEAN : PC_to_RDR_Fails(e, taken)
  BY <1>3, <1>e DEF PC_to_RDR_Fails, WriteFails
<1>4. CASE \E e \in UsbErrors, lost \in BOOLEAN : RecvFails(e, lost)
  BY <1>4, <1>t DEF RecvFails
<1>5. CASE RDR_to_PC_Stray
  BY <1>5, <1>t, Matched DEF RDR_to_PC_Stray
<1>6. CASE RDR_to_PC_Extension
  <2>1. Accept(Head(resp)) /\ slot' = slot /\ card' = card /\ Head(resp).status # "RFU"
    BY <1>6 DEF RDR_to_PC_Extension, Accept, AsksToWait
  <2> QED
    BY <2>1, <1>t, AcceptExact
<1>7. CASE RDR_to_PC_GiveUp
  BY <1>7, <1>t DEF RDR_to_PC_GiveUp
<1>8. CASE RDR_to_PC_Error \/ RDR_to_PC_Success
  <2>1. /\ resp # <<>> /\ resp' = Tail(resp) /\ UNCHANGED <<card, basis>>
        /\ Head(resp).result # "extension"
        /\ i_status' = StatusAfter(Head(resp))
    BY <1>8, NotExtension DEF RDR_to_PC_Error, RDR_to_PC_Success, Accept
  <2>2. resp' = <<>> /\ Head(resp) = resp[Len(resp)] /\ Head(resp).slot = slot
    BY <2>1, <1>t, FinalAlone, Matched
  <2>3. FinalPending
    BY <2>1, <2>2 DEF FinalPending
  <2>4. ASSUME NEW s \in Slots, basis[s] = "answer"
        PROVE  i_status'[s] = card[s]
    <3>1. Exact(s)
      BY <2>4, <1>t DEF SInv, Cached
    <3>2. CASE s = slot
      <4>1. Head(resp).status = card[s] /\ card[s] # "RFU"
        BY <2>2, <2>3, <3>1, <3>2, <1>t DEF Exact, TypeOK, Statuses
      <4> QED
        BY <2>1, <2>2, <3>2, <4>1, <1>t DEF StatusAfter, TypeOK
    <3>3. CASE s # slot
      BY <2>1, <2>2, <3>1, <3>3, <1>t DEF Exact, TypeOK, StatusAfter
    <3> QED
      BY <3>2, <3>3
  <2> QED
    BY <2>1, <2>2, <2>4, CachedEmpty
<1>9. CASE Interrupt
  <2>1. /\ pc = "intr" /\ resp' = resp /\ card' = card
        /\ i_status' = [i_status EXCEPT ![0] = Head(notices)]
        /\ basis' = [basis EXCEPT ![0] = "notice"]
    BY <1>9 DEF Interrupt, LoopWait
  <2>2. resp' = <<>> /\ \A s \in Slots : basis[s] = "answer" => i_status[s] = card[s]
    BY <2>1, <1>t, Between
  <2>3. \A s \in Slots : basis'[s] = "answer" => i_status'[s] = card'[s]
    BY <2>1, <2>2, <1>t DEF TypeOK
  <2> QED
    BY <2>2, <2>3, CachedEmpty
<1>10. CASE \E e \in UsbErrors \union {"NONE"} : NoInterrupt(e)
  BY <1>10, <1>e DEF NoInterrupt, LoopWait
<1>15. CASE StrangeNotice
  BY <1>15, <1>e DEF StrangeNotice, reader, history
<1>11. CASE ReaderAnswers \/ ReaderExtends
  <2> DEFINE c == Head(cmds)
  <2>1. cmds # <<>> /\ UNCHANGED <<slot, i_status>>
    BY <1>11 DEF ReaderAnswers, ReaderExtends, driver
  <2>2. c = cmds[1] /\ 1 \in 1 .. Len(cmds)
    BY <2>1, <1>t, HeadTail DEF TypeOK
  <2>3. c.slot = slot
    BY <2>2, <1>t DEF SInv, Single
  <2>4. ~FinalPending
    <3>1. SUFFICES ASSUME resp # <<>> PROVE resp[Len(resp)].result = "extension"
      BY DEF FinalPending
    <3>2. Len(resp) \in 1 .. Len(resp)
      BY <3>1, <1>t, EmptySeq DEF TypeOK
    <3> QED
      BY <3>2, <2>1, <1>t DEF SInv, Single
  <2> HIDE DEF c
  <2>5. CASE ReaderAnswers
    <3>1. PICK result \in Possible(c) : \E bits :
            /\ card' = [card EXCEPT ![c.slot] = CardAfter(c, result)]
            /\ resp' = Append(resp, Answer(c, result, bits))
            /\ basis' = [basis EXCEPT ![c.slot] = BasisAfter(c.slot, CardAfter(c, result), bits)]
      BY <2>5 DEF ReaderAnswers, c
    <3>6. PICK bits :
            /\ resp' = Append(resp, Answer(c, result, bits))
            /\ basis' = [basis EXCEPT ![c.slot] = BasisAfter(c.slot, CardAfter(c, result), bits)]
      BY <3>1
    <3>2. /\ resp'[Len(resp')] = Answer(c, result, bits) /\ resp' # <<>>
      BY <3>6, <1>t DEF TypeOK
    <3>3. result # "extension"
      BY ErrorsAssumption DEF Possible
    <3>4. FinalPending' /\ resp'[Len(resp')].status = bits
      BY <3>2, <3>3 DEF FinalPending, Answer
    <3>7. basis'[slot] = "answer" => bits = CardAfter(c, result)
      BY <2>3, <3>6, <1>t DEF TypeOK, BasisAfter
    <3>5. ASSUME NEW s \in Slots, basis'[s] = "answer"
          PROVE  Exact(s)'
      <4>1. CASE s = slot
        <5>1. card'[s] = CardAfter(c, result)
          BY <2>3, <3>1, <4>1, <1>t DEF TypeOK
        <5> QED
          BY <5>1, <2>1, <3>4, <3>5, <3>7, <4>1 DEF Exact
      <4>2. CASE s # slot
        <5>1. card'[s] = card[s] /\ basis[s] = "answer"
          BY <2>3, <3>1, <3>5, <3>6, <4>2, <1>t DEF TypeOK
        <5>2. i_status[s] = card[s]
          BY <5>1, <4>2, <1>t DEF SInv, Cached, Exact
        <5> QED
          BY <5>1, <5>2, <2>1, <4>2 DEF Exact
      <4> QED
        BY <4>1, <4>2
    <3> QED
      BY <3>5 DEF Cached
  <2>6. CASE ReaderExtends
    <3>1. PICK bits \in Told(c, card[c.slot]) :
            resp' = Append(resp, Answer(c, "extension", bits)) /\ UNCHANGED <<card, basis>>
      BY <2>6 DEF ReaderExtends, c, history
    <3>6. bits \in {card[slot], "RFU"}
      <4>1. c.type # "Escape"
        BY <2>6 DEF ReaderExtends, c
      <4> QED
        BY <2>3, <3>1, <4>1 DEF Told
    <3>2. /\ Len(resp') = Len(resp) + 1 /\ Len(resp) \in Nat /\ resp' # <<>>
          /\ \A i \in 1 .. Len(resp) : resp'[i] = resp[i]
          /\ resp'[Len(resp')] = Answer(c, "extension", bits)
      <4> DEFINE a == Answer(c, "extension", bits)
      <4>1. resp' = Append(resp, a)
        BY <3>1
      <4> HIDE DEF a
      <4>2. /\ Len(resp) \in Nat /\ Len(resp') = Len(resp) + 1
            /\ \A i \in 1 .. Len(resp) : resp'[i] = resp[i]
            /\ resp'[Len(resp) + 1] = a
        BY <4>1, <1>t DEF TypeOK
      <4>3. resp' # <<>>
        BY <4>1, <1>t, AppendProperties DEF TypeOK
      <4> QED
        BY <4>2, <4>3 DEF a
    <3>3. /\ resp'[Len(resp')].result = "extension"
          /\ resp'[Len(resp')].status \in {card[slot], "RFU"}
      BY <3>2, <3>6 DEF Answer
    <3>4. ~FinalPending'
      BY <3>3 DEF FinalPending
    <3>5. ASSUME NEW s \in Slots, basis'[s] = "answer"
          PROVE  Exact(s)'
      <4>1. Exact(s)
        BY <3>1, <3>5, <1>t DEF SInv, Cached
      <4>2. i_status[s] = card[s] /\ (s = slot => \A i \in 1 .. Len(resp) : resp[i].status \in {card[s], "RFU"})
        BY <4>1, <2>4 DEF Exact
      <4>3. s = slot => \A i \in 1 .. Len(resp') : resp'[i].status \in {card[s], "RFU"}
        BY <4>2, <3>2, <3>3
      <4> QED
        BY <2>1, <3>1, <3>4, <4>2, <4>3 DEF Exact
    <3> QED
      BY <3>5 DEF Cached
  <2> QED
    BY <1>11, <2>5, <2>6
<1>12. ASSUME NEW r \in Slots, MoveCard(r)
       PROVE  Cached'
  <2>1. /\ UNCHANGED <<resp, slot, i_status>>
        /\ \E now : card' = [card EXCEPT ![r] = now]
        /\ basis' = [basis EXCEPT ![r] = IF @ \in {"never", "rfu"} THEN @ ELSE "moved"]
    BY <1>12 DEF MoveCard, driver
  <2>2. ASSUME NEW s \in Slots, basis'[s] = "answer"
        PROVE  Exact(s)'
    <3>1. s # r /\ basis[s] = "answer" /\ card'[s] = card[s]
      BY <2>1, <2>2, <1>t DEF TypeOK
    <3>2. Exact(s)
      BY <3>1, <1>t DEF SInv, Cached
    <3> QED
      BY <2>1, <3>1, <3>2 DEF Exact, FinalPending
  <2> QED
    BY <2>2 DEF Cached
<1>13. CASE Unplug
  BY <1>13, <1>t DEF Unplug
<1>14. CASE UNCHANGED vars
  BY <1>14, <1>t DEF vars, driver, reader, history, SInv, Cached, Exact, FinalPending
<1> QED
  BY <1>1, <1>2, <1>3, <1>4, <1>5, <1>6, <1>7, <1>8, <1>9, <1>10, <1>11, <1>12, <1>13, <1>14,
     <1>15 DEF Next, Host, Reader

-----------------------------------------------------------------------------
(* The probe.                                                              *)

(* A slot once asked stays so.                                             *)
LEMMA BasisKept ==
  ASSUME TypeOK, [Next]_vars
  PROVE  \A s \in Slots : basis[s] # "never" => basis'[s] # "never"
<1>1. CASE Host
  BY <1>1 DEF TypeOK, Host, PC_to_RDR, PC_to_RDR_Fails, RecvFails, RDR_to_PC_Stray,
     RDR_to_PC_Extension, RDR_to_PC_GiveUp, RDR_to_PC_Error, RDR_to_PC_Success,
     Accept, Interrupt, NoInterrupt, LoopWait, WriteFails, StrangeNotice, history
<1>2. CASE Reader \/ Unplug
  BY <1>2 DEF TypeOK, Reader, ReaderAnswers, ReaderExtends, Unplug, history, BasisAfter
<1>3. CASE \E s \in Slots : MoveCard(s)
  BY <1>3 DEF TypeOK, MoveCard
<1>4. CASE (\E o \in Calls, s \in Slots : Call(o, s)) \/ UNCHANGED vars
  BY <1>4 DEF Call, vars, history
<1> QED
  BY <1>1, <1>2, <1>3, <1>4 DEF Next

\* Every final answer on its way is of a slot that was asked.
LEMMA AskedStep == TypeOK /\ Asked /\ [Next]_vars => Asked'
<1> SUFFICES ASSUME TypeOK, Asked, [Next]_vars PROVE Asked'
  OBVIOUS
<1>t. /\ \A i \in 1 .. Len(resp) : resp[i].slot \in Slots
      /\ \A s \in Slots : basis[s] # "never" => basis'[s] # "never"
  <2>1. resp \in Seq(AnswerMsgs)
    BY DEF TypeOK
  <2>2. \A i \in 1 .. Len(resp) : resp[i] \in AnswerMsgs
    BY <2>1, ElementOfSeq
  <2> QED
    BY <2>2, BasisKept DEF AnswerMsgs
<1>e. ASSUME \A i \in 1 .. Len(resp') : \E k \in 1 .. Len(resp) : resp'[i] = resp[k]
      PROVE  Asked'
  BY <1>e, <1>t DEF Asked
<1>1. CASE resp' = resp
  BY <1>1, <1>e
<1>2. CASE resp # <<>> /\ resp' = Tail(resp)
  BY <1>2, <1>e, HeadTail DEF TypeOK
<1>3. CASE resp' = <<>>
  <2>1. Len(resp') = 0
    BY <1>3, EmptySeq
  <2> QED
    BY <2>1, <1>e
<1>4. CASE ReaderAnswers
  <2> DEFINE c == Head(cmds)
  <2>1. PICK result, bits :
          /\ resp' = Append(resp, Answer(c, result, bits))
          /\ basis' = [basis EXCEPT ![c.slot] = BasisAfter(c.slot, CardAfter(c, result), bits)]
    BY <1>4 DEF ReaderAnswers
  <2> DEFINE a == Answer(c, result, bits)
  <2>2. a.slot = c.slot /\ c.slot \in Slots
    <3>1. c \in CommandMsgs
      BY <1>4, HeadTail DEF ReaderAnswers, TypeOK
    <3> QED
      BY <3>1 DEF Answer, CommandMsgs
  <2> HIDE DEF c
  <2>3. basis'[c.slot] # "never"
    BY <2>1, <2>2 DEF TypeOK, BasisAfter
  <2> HIDE DEF a
  <2>4. /\ Len(resp) \in Nat /\ Len(resp') = Len(resp) + 1
        /\ \A i \in 1 .. Len(resp) : resp'[i] = resp[i]
        /\ resp'[Len(resp) + 1] = a
    BY <2>1 DEF TypeOK, a
  <2>5. \A i \in 1 .. Len(resp) : resp'[i].result # "extension" => basis'[resp'[i].slot] # "never"
    BY <2>4, <1>t DEF Asked
  <2> QED
    BY <2>2, <2>3, <2>4, <2>5 DEF Asked
<1>5. CASE ReaderExtends
  <2>0. PICK bits : resp' = Append(resp, Answer(Head(cmds), "extension", bits))
    BY <1>5 DEF ReaderExtends
  <2> DEFINE a == Answer(Head(cmds), "extension", bits)
  <2>1. resp' = Append(resp, a)
    BY <2>0
  <2>2. a.result = "extension"
    BY DEF Answer
  <2> HIDE DEF a
  <2>3. /\ Len(resp) \in Nat /\ Len(resp') = Len(resp) + 1
        /\ \A i \in 1 .. Len(resp) : resp'[i] = resp[i]
        /\ resp'[Len(resp) + 1] = a
    BY <2>1 DEF TypeOK
  <2>4. \A i \in 1 .. Len(resp) : resp'[i].result # "extension" => basis'[resp'[i].slot] # "never"
    BY <2>3, <1>t DEF Asked
  <2> QED
    BY <2>2, <2>3, <2>4 DEF Asked
<1>6. resp' = resp \/ (resp # <<>> /\ resp' = Tail(resp)) \/ resp' = <<>>
      \/ ReaderAnswers \/ ReaderExtends
  BY DEF Next, Host, Reader, Call, PC_to_RDR, PC_to_RDR_Fails, RecvFails, RDR_to_PC_Stray,
     RDR_to_PC_Extension, RDR_to_PC_GiveUp, RDR_to_PC_Error, RDR_to_PC_Success,
     Accept, Interrupt, NoInterrupt, LoopWait, MoveCard, Unplug, vars, reader,
     WriteFails, StrangeNotice
<1> QED
  BY <1>1, <1>2, <1>3, <1>4, <1>5, <1>6

(* The probe's loop goes on to the next slot only with this one answered.  *)
LEMMA ProbeConclude ==
  ASSUME SInv, NEW res, NEW st, Conclude(res, st), pc \in {"write", "recv"},
         res = "ok" => basis[slot] # "never",
         \A s \in Slots : basis[s] # "never" => basis'[s] # "never"
  PROVE  Probed'
<1>1. TypeOK /\ Probed /\ op' = op
  BY ConcludePc DEF SInv, IInv
<1>2. CASE op # "probe"
  BY <1>1, <1>2 DEF Probed
<1>3. CASE op = "probe" /\ res # "ok"
  <2>1. pc' = "closed"
    BY <1>3 DEF Conclude, AfterExchange, AfterProbe
  <2> QED
    BY <1>1, <1>3, <2>1 DEF Probed
<1>4. CASE op = "probe" /\ res = "ok"
  <2>1. \/ slot + 1 < NumSlots /\ pc' = "write" /\ slot' = slot + 1
        \/ ~(slot + 1 < NumSlots) /\ pc' = "idle"
    BY <1>4 DEF Conclude, AfterExchange, AfterProbe
  <2>2. slot \in Slots /\ slot \in Nat
    BY <1>1, NumSlotsAssumption DEF TypeOK, Slots
  <2>3. \A s \in 0 .. slot - 1 : basis[s] # "never"
    BY <1>1, <1>4 DEF Probed
  <2>4. \A s \in 0 .. slot : s \in Slots
    BY <2>2, NumSlotsAssumption DEF Slots
  <2>5. \A s \in 0 .. slot : basis[s] # "never"
    <3>1. \A s \in 0 .. slot : s = slot \/ s \in 0 .. slot - 1
      BY <2>2
    <3> QED
      BY <1>4, <2>3, <3>1
  <2>6. \A s \in 0 .. slot : basis'[s] # "never"
    BY <2>4, <2>5
  <2>7. CASE pc' = "write"
    <3>1. slot' = slot + 1
      BY <2>1, <2>7
    <3>2. \A s \in 0 .. slot' - 1 : s \in 0 .. slot
      BY <2>2, <3>1
    <3> QED
      BY <1>1, <1>4, <2>6, <2>7, <3>2 DEF Probed
  <2>8. CASE pc' = "idle"
    <3>1. ~(slot + 1 < NumSlots)
      BY <2>1, <2>8
    <3>2. \A s \in Slots : s \in 0 .. slot
      BY <2>2, <3>1, NumSlotsAssumption DEF Slots
    <3> QED
      BY <1>1, <1>4, <2>6, <2>8, <3>2 DEF Probed
  <2> QED
    BY <2>1, <2>7, <2>8
<1> QED
  BY <1>2, <1>3, <1>4

\* A probe that succeeds has been answered for every slot.
LEMMA ProbedStep == SInv /\ [Next]_vars => Probed'
<1> SUFFICES ASSUME SInv, [Next]_vars PROVE Probed'
  OBVIOUS
<1>t. /\ TypeOK /\ Probed /\ Polls
      /\ \A s \in Slots : basis[s] # "never" => basis'[s] # "never"
  BY BasisKept DEF SInv, IInv
<1>s. slot \in Slots /\ \A s \in 0 .. slot - 1 : s \in Slots
  BY <1>t, NumSlotsAssumption DEF TypeOK, Slots
<1>e. ASSUME pc' = pc, op' = op, slot' = slot
      PROVE  Probed'
  BY <1>e, <1>t, <1>s DEF Probed
<1>w. ASSUME op # "probe", op' = op
      PROVE  Probed'
  BY <1>w, <1>t DEF Probed
<1>1. CASE \E o \in Calls, s \in Slots : Call(o, s)
  <2>1. pc = "idle" /\ op' \in Calls
    BY <1>1 DEF Call
  <2>2. op' # "probe"
    BY <2>1 DEF Calls
  <2> QED
    BY <2>1, <2>2, <1>t DEF Probed
<1>2. CASE PC_to_RDR
  BY <1>2, <1>t, <1>s DEF PC_to_RDR, Probed
<1>3. CASE \E e \in UsbErrors, taken \in BOOLEAN : PC_to_RDR_Fails(e, taken)
  <2>1. CASE op = "wait"
    BY <1>3, <2>1, <1>w DEF PC_to_RDR_Fails
  <2>2. CASE op # "wait"
    BY <1>3, <2>2, <1>t, ProbeConclude DEF PC_to_RDR_Fails, WriteFails
  <2> QED
    BY <2>1, <2>2
<1>4. CASE \E e \in UsbErrors, lost \in BOOLEAN : RecvFails(e, lost)
  BY <1>4, <1>t, ProbeConclude DEF RecvFails
<1>5. CASE RDR_to_PC_Stray \/ RDR_to_PC_GiveUp \/ RDR_to_PC_Error
  BY <1>5, <1>t, ProbeConclude
     DEF RDR_to_PC_Stray, RDR_to_PC_GiveUp, RDR_to_PC_Error, Accept
<1>6. CASE RDR_to_PC_Extension
  BY <1>6, <1>e DEF RDR_to_PC_Extension
<1>7. CASE RDR_to_PC_Success
  <2>1. pc = "recv" /\ resp # <<>> /\ ForUs(Head(resp)) /\ Succeeded(Head(resp))
    BY <1>7 DEF RDR_to_PC_Success, Accept
  <2>2. basis[slot] # "never"
    <3>1. Head(resp) = resp[1] /\ 1 \in 1 .. Len(resp)
      BY <2>1, <1>t, HeadTail DEF TypeOK
    <3>2. resp[1].slot = slot /\ resp[1].result # "extension"
      BY <2>1, <3>1, NotExtension DEF ForUs
    <3> QED
      BY <3>1, <3>2 DEF SInv, Asked
  <2>3. CASE Head(resp).type \notin Expected(op)
    <3>1. pc' = "aborted" /\ op' = op
      BY <1>7, <2>3 DEF RDR_to_PC_Success
    <3> QED
      BY <3>1, <1>t DEF Probed
  <2>4. CASE Head(resp).type \in Expected(op)
    BY <1>7, <2>1, <2>2, <2>4, <1>t, ProbeConclude DEF RDR_to_PC_Success
  <2> QED
    BY <2>3, <2>4
<1>8. CASE Interrupt \/ (\E e \in UsbErrors \union {"NONE"} : NoInterrupt(e)) \/ StrangeNotice
  <2>1. pc = "intr" /\ op' = op
    BY <1>8 DEF Interrupt, NoInterrupt, LoopWait, StrangeNotice
  <2>2. op # "probe"
    BY <2>1, <1>t DEF Polls
  <2> QED
    BY <2>1, <2>2, <1>w
<1>9. CASE Reader \/ Unplug \/ (\E s \in Slots : MoveCard(s)) \/ UNCHANGED vars
  BY <1>9, <1>e DEF Reader, ReaderAnswers, ReaderExtends, Unplug, MoveCard, vars, driver
<1> QED
  BY <1>1, <1>2, <1>3, <1>4, <1>5, <1>6, <1>7, <1>8, <1>9 DEF Next, Host

\* ccid_probe shows no card active of which it was told something else.
LEMMA FreshStep == SInv /\ [Next]_vars => Fresh'
<1> SUFFICES ASSUME SInv, [Next]_vars, op' = "probe", pc' \in {"write", "recv", "idle"}
             PROVE  Fresh'
  BY DEF Fresh
<1>t. TypeOK /\ Fresh /\ Polls /\ Single
  BY DEF SInv, IInv
<1>h. op = "probe" => AfterExchange("fail", i_status) = "closed" /\ AfterExchange("fail", i_status') = "closed"
  BY DEF AfterExchange, AfterProbe
<1>1. CASE \E o \in Calls, s \in Slots : Call(o, s)
  BY <1>1 DEF Call, Calls
<1>2. CASE PC_to_RDR
  <2>1. /\ pc = "write" /\ op = "probe" /\ ~gone /\ cmds' = Append(cmds, ThisCommand)
        /\ pc' = "recv" /\ slot' = slot
        /\ UNCHANGED <<i_status, resp, card, link, basis>>
    BY <1>2 DEF PC_to_RDR
  <2>2. link # "broken" /\ cmds = <<>> /\ resp = <<>>
    BY <2>1, <1>t DEF Fresh, Single
  <2>3. ThisCommand.type = "GetSlotStatus"
    BY <2>1 DEF ThisCommand, CommandOf
  <2>4. Len(cmds') = 1 /\ cmds'[1] = ThisCommand /\ Len(resp') = 0
    BY <2>1, <2>2
  <2>5. \A i \in 1 .. Len(cmds') : cmds'[i].type = "GetSlotStatus"
    BY <2>3, <2>4
  <2>6. \A s \in Slots : ~(i_status[s] = "ACTIVE" /\ basis[s] \notin {"never", "rfu"})
    BY <2>1, <1>t DEF Fresh
  <2>7. \A s \in Slots : card[s] # "ACTIVE"
    BY <2>1, <1>t DEF Fresh
  <2> QED
    BY <2>1, <2>2, <2>4, <2>5, <2>6, <2>7 DEF Fresh
<1>3. CASE \E e \in UsbErrors, taken \in BOOLEAN : PC_to_RDR_Fails(e, taken)
  <2>1. op = "probe"
    BY <1>3, ConcludePc DEF PC_to_RDR_Fails
  <2> QED
    BY <1>3, <2>1, <1>h DEF PC_to_RDR_Fails, Conclude
<1>4. CASE \/ \E e \in UsbErrors, lost \in BOOLEAN : RecvFails(e, lost)
           \/ RDR_to_PC_Stray \/ RDR_to_PC_GiveUp \/ RDR_to_PC_Error
  <2>1. (\E st \in {i_status, i_status'} : Conclude("fail", st))
    BY <1>4 DEF RecvFails, RDR_to_PC_Stray, RDR_to_PC_GiveUp, RDR_to_PC_Error
  <2> QED
    BY <2>1, <1>h DEF Conclude
<1>5. CASE RDR_to_PC_Extension
  <2>1. /\ op = "probe" /\ pc = "recv" /\ resp # <<>> /\ Head(resp).result = "extension"
    BY <1>5 DEF RDR_to_PC_Extension, Accept, AsksToWait
  <2>2. Head(resp) = resp[1] /\ 1 \in 1 .. Len(resp)
    BY <2>1, <1>t, HeadTail DEF TypeOK
  <2> QED
    BY <2>1, <2>2, <1>t DEF Fresh
<1>6. CASE RDR_to_PC_Success
  <2>1. /\ pc = "recv" /\ resp # <<>> /\ resp' = Tail(resp) /\ i_status' = StatusAfter(Head(resp))
        /\ UNCHANGED <<cmds, card, gone, basis, link>> /\ Succeeded(Head(resp))
    BY <1>6 DEF RDR_to_PC_Success, Accept
  <2>2. PICK res, st : Conclude(res, st)
    BY <1>6 DEF RDR_to_PC_Success
  <2>3. op = "probe" /\ pc' \in {"write", "idle"}
    BY <2>2 DEF Conclude, AfterExchange, AfterProbe
  <2>4. link # "broken"
    BY <2>1, <2>3, <1>t DEF Fresh
  <2>5. cmds = <<>> /\ resp' = <<>> /\ Head(resp) = resp[1] /\ Head(resp).slot = slot /\ 1 \in 1 .. Len(resp)
    BY <2>1, <2>4, FinalAlone, Matched, NotExtension
  <2>6. resp[1].status # "ACTIVE"
    BY <2>1, <2>3, <2>5, <1>t DEF Fresh
  <2>7. slot \in Slots
    BY <1>t DEF TypeOK
  <2>8. ASSUME NEW s \in Slots, i_status'[s] = "ACTIVE"
        PROVE  basis[s] \in {"never", "rfu"}
    <3>1. CASE s = slot
      <4>1. resp[1].status = "RFU" /\ i_status[s] = "ACTIVE"
        BY <2>1, <2>5, <2>6, <2>8, <3>1, <1>t DEF StatusAfter, TypeOK
      <4> QED
        BY <4>1, <2>1, <2>3, <1>t DEF Fresh
    <3>2. CASE s # slot
      <4>1. i_status[s] = "ACTIVE"
        BY <2>1, <2>5, <2>8, <3>2, <1>t DEF StatusAfter, TypeOK
      <4> QED
        BY <4>1, <3>2, <2>1, <2>3, <1>t DEF Fresh
    <3> QED
      BY <3>1, <3>2
  <2>9. Len(cmds') = 0 /\ Len(resp') = 0
    BY <2>1, <2>5
  <2>10. \A s \in Slots : card[s] # "ACTIVE"
    BY <2>1, <2>3, <1>t DEF Fresh
  <2>11. \A i \in 1 .. Len(cmds') : FALSE
    BY <2>9
  <2>12. \A i \in 1 .. Len(resp') : FALSE
    BY <2>9
  <2> QED
    BY <2>1, <2>4, <2>8, <2>10, <2>11, <2>12 DEF Fresh
<1>7. CASE Interrupt \/ (\E e \in UsbErrors \union {"NONE"} : NoInterrupt(e)) \/ StrangeNotice
  <2>1. pc = "intr" /\ op' = op
    BY <1>7 DEF Interrupt, NoInterrupt, LoopWait, StrangeNotice
  <2> QED
    BY <2>1, <1>t DEF Polls
<1>8. CASE Reader
  <2>1. /\ cmds # <<>> /\ ~gone /\ UNCHANGED <<op, pc, slot, i_status, link, gone>>
        /\ op = "probe" /\ pc \in {"write", "recv", "idle"}
    BY <1>8 DEF Reader, ReaderAnswers, ReaderExtends, driver, history
  <2>2. link # "broken"
    BY <2>1, <1>t DEF Fresh
  <2> DEFINE c == Head(cmds)
  <2>3. /\ c = cmds[1] /\ 1 \in 1 .. Len(cmds) /\ Len(cmds) \in Nat /\ Len(Tail(cmds)) = Len(cmds) - 1
        /\ Tail(cmds) \in Seq(CommandMsgs) /\ c \in CommandMsgs
    BY <2>1, <1>t, HeadTail DEF TypeOK
  <2>4. pc = "recv" /\ Len(cmds) = 1 /\ c.slot = slot /\ c.type = "GetSlotStatus"
    BY <2>1, <2>2, <2>3, <1>t DEF Single, Fresh
  <2>5. resp = <<>>
    <3>1. \A i \in 1 .. Len(resp) : FALSE
      BY <2>1, <2>2, <1>t DEF Single, Fresh
    <3>2. resp \in Seq(AnswerMsgs) /\ Len(resp) \in Nat
      BY <1>t, LenProperties DEF TypeOK
    <3>3. Len(resp) = 0
      BY <3>1, <3>2
    <3> QED
      BY <3>2, <3>3, EmptySeq
  <2>6. ReaderAnswers
    BY <1>8, <2>4 DEF Reader, ReaderExtends
  <2> HIDE DEF c
  <2>7. PICK result \in Possible(c) : \E bits \in Told(c, CardAfter(c, result)) :
          /\ card' = [card EXCEPT ![c.slot] = CardAfter(c, result)]
          /\ resp' = Append(resp, Answer(c, result, bits))
          /\ basis' = [basis EXCEPT ![c.slot] = BasisAfter(c.slot, CardAfter(c, result), bits)]
    BY <2>6 DEF ReaderAnswers, c
  <2>17. PICK bits \in Told(c, CardAfter(c, result)) :
          /\ resp' = Append(resp, Answer(c, result, bits))
          /\ basis' = [basis EXCEPT ![c.slot] = BasisAfter(c.slot, CardAfter(c, result), bits)]
    BY <2>7
  <2>8. cmds' = <<>>
    <3>1. cmds' = Tail(cmds) /\ Len(Tail(cmds)) = 0
      BY <2>6, <2>3, <2>4 DEF ReaderAnswers
    <3> QED
      BY <3>1, <2>3, EmptySeq
  <2>9. slot \in Slots /\ \A s \in Slots : card[s] # "ACTIVE"
    BY <2>1, <1>t DEF Fresh, TypeOK
  <2>10. CardAfter(c, result) \in Statuses \ {"ACTIVE"} /\ result # "extension"
    <3>1. card[c.slot] \in Statuses \ {"ACTIVE"}
      BY <2>4, <2>9, <1>t DEF TypeOK
    <3> QED
      BY <3>1, <2>4, <2>7, ErrorsAssumption DEF CardAfter, Possible, Statuses
  <2>11. bits \in {CardAfter(c, result), "RFU"}
    BY <2>4, <2>17 DEF Told
  <2>12. /\ Len(resp') = 1 /\ resp'[1] = Answer(c, result, bits)
         /\ resp'[1].status = bits /\ resp'[1].result = result
    BY <2>5, <2>17 DEF Answer
  <2>13. \A i \in 1 .. Len(resp') : resp'[i].result # "extension" /\ resp'[i].status # "ACTIVE"
    BY <2>10, <2>11, <2>12 DEF Statuses
  <2>14. \A s \in Slots : card'[s] # "ACTIVE"
    BY <2>4, <2>7, <2>9, <2>10, <1>t DEF TypeOK
  <2>15. ASSUME NEW s \in Slots, i_status[s] = "ACTIVE", basis'[s] \notin {"never", "rfu"}
         PROVE  s = slot /\ resp'[1].status # "RFU"
    <3>1. basis[s] \in {"never", "rfu"}
      BY <2>1, <2>15, <1>t DEF Fresh
    <3>2. s = slot
      BY <2>4, <2>17, <2>15, <3>1, <1>t DEF TypeOK
    <3>3. BasisAfter(slot, CardAfter(c, result), bits) \notin {"never", "rfu"}
      BY <2>4, <2>17, <2>9, <2>15, <3>2, <1>t DEF TypeOK
    <3>4. bits # "RFU"
      BY <3>1, <3>2, <3>3, <2>10, <2>11 DEF BasisAfter, Statuses
    <3> QED
      BY <3>2, <3>4, <2>12
  <2>16. Len(cmds') = 0
    BY <2>8
  <2> QED
    BY <2>1, <2>2, <2>4, <2>8, <2>13, <2>14, <2>15, <2>16 DEF Fresh
<1>9. CASE \E s \in Slots : MoveCard(s)
  <2>1. PICK r \in Slots : MoveCard(r)
    BY <1>9
  <2>2. /\ UNCHANGED <<op, pc, slot, i_status, link, gone, cmds, resp>>
        /\ basis' = [basis EXCEPT ![r] = IF @ \in {"never", "rfu"} THEN @ ELSE "moved"]
        /\ \E now \in {"PRESENT", "NOT_PRESENT"} : card' = [card EXCEPT ![r] = now]
    BY <2>1 DEF MoveCard, driver
  <2>3. \A s \in Slots : basis'[s] \notin {"never", "rfu"} => basis[s] \notin {"never", "rfu"}
    BY <2>2, <1>t DEF TypeOK
  <2>4. \A s \in Slots : card[s] # "ACTIVE" => card'[s] # "ACTIVE"
    BY <2>2, <1>t DEF TypeOK
  <2> QED
    BY <2>2, <2>3, <2>4, <1>t DEF Fresh
<1>10. CASE Unplug
  <2>1. /\ cmds' = <<>> /\ resp' = <<>> /\ gone' = TRUE
        /\ UNCHANGED <<op, pc, slot, i_status, card, basis>>
    BY <1>10 DEF Unplug, driver
  <2>2. Len(cmds') = 0 /\ Len(resp') = 0
    BY <2>1
  <2> QED
    BY <2>1, <2>2, <1>t DEF Fresh
<1>11. CASE UNCHANGED vars
  BY <1>11, <1>t DEF vars, driver, reader, history, Fresh
<1> QED
  BY <1>1, <1>2, <1>3, <1>4, <1>5, <1>6, <1>7, <1>8, <1>9, <1>10, <1>11 DEF Next, Host

\* Nothing but cci_wait_for_card comes to wait for an interrupt.
LEMMA PollsStep == SInv /\ [Next]_vars => Polls'
<1> SUFFICES ASSUME SInv, [Next]_vars, pc' = "intr" PROVE op' = "wait"
  BY DEF Polls
<1>t. Polls
  BY DEF SInv
<1>1. ASSUME NEW res, NEW st, Conclude(res, st)
      PROVE  op' = "wait"
  BY <1>1 DEF Conclude, AfterExchange, AfterProbe
<1>2. CASE pc = "intr" /\ op' = op
  BY <1>2, <1>t DEF Polls
<1>3. \/ \E res, st : Conclude(res, st)
      \/ pc = "intr" /\ op' = op
  BY DEF Next, Host, Reader, Call, PC_to_RDR, PC_to_RDR_Fails, RecvFails, RDR_to_PC_Stray,
     RDR_to_PC_Extension, RDR_to_PC_GiveUp, RDR_to_PC_Error, RDR_to_PC_Success,
     Accept, Interrupt, NoInterrupt, LoopWait, MoveCard, ReaderAnswers, ReaderExtends,
     Unplug, vars, driver, StrangeNotice
<1> QED
  BY <1>1, <1>2, <1>3

-----------------------------------------------------------------------------
(* Bus errors.                                                             *)

\* No step of a link that is in step ends in a false bus error.
LEMMA ErrorsStep == SInv /\ [Next]_vars => NoFalseBusError'
<1> SUFFICES ASSUME SInv, [Next]_vars, link' = "clean", outcome' = "fail",
                    pc' \in {"idle", "closed"}, op' # "wait"
             PROVE  d_error' \in CardErrors
  BY DEF NoFalseBusError
<1>t. link # "broken" /\ NoFalseBusError /\ Polls
  BY BrokenStays DEF SInv
<1>1. CASE (\E o \in Calls, s \in Slots : Call(o, s)) \/ PC_to_RDR
  BY <1>1 DEF Call, PC_to_RDR
<1>2. CASE \E e \in UsbErrors, taken \in BOOLEAN : PC_to_RDR_Fails(e, taken)
  BY <1>2 DEF PC_to_RDR_Fails, Worse
<1>3. CASE (\E e \in UsbErrors, lost \in BOOLEAN : RecvFails(e, lost)) \/ RDR_to_PC_GiveUp
  BY <1>3 DEF RecvFails, RDR_to_PC_GiveUp
<1>4. CASE RDR_to_PC_Stray
  BY <1>4, <1>t, Matched DEF RDR_to_PC_Stray
<1>5. CASE RDR_to_PC_Extension
  BY <1>5 DEF RDR_to_PC_Extension, Accept
<1>6. CASE RDR_to_PC_Error
  BY <1>6 DEF RDR_to_PC_Error, ErrorOf, CardErrors
<1>7. CASE RDR_to_PC_Success
  <2>1. pc' # "aborted"
    OBVIOUS
  <2>2. Head(resp).type \in Expected(op)
    BY <1>7, <2>1 DEF RDR_to_PC_Success
  <2>3. outcome' \in {"clock_err", "ok"}
    BY <1>7, <2>2 DEF RDR_to_PC_Success, Conclude
  <2> QED
    BY <2>3
<1>8. CASE Interrupt \/ (\E e \in UsbErrors \union {"NONE"} : NoInterrupt(e)) \/ StrangeNotice
  BY <1>8, <1>t DEF Interrupt, NoInterrupt, LoopWait, Polls, StrangeNotice
<1>9. CASE Reader \/ Unplug \/ (\E s \in Slots : MoveCard(s)) \/ UNCHANGED vars
  <2>1. UNCHANGED <<d_error, outcome, pc, op>> /\ (link' = link \/ link' = "broken")
    BY <1>9 DEF Reader, ReaderAnswers, ReaderExtends, Unplug, MoveCard, vars, driver, history
  <2> QED
    BY <2>1, <1>t DEF NoFalseBusError
<1> QED
  BY <1>1, <1>2, <1>3, <1>4, <1>5, <1>6, <1>7, <1>8, <1>9 DEF Next, Host

-----------------------------------------------------------------------------
\* The invariant of a sound link holds before the probe.
LEMMA SyncInit == Init => SInv
<1> SUFFICES ASSUME Init PROVE SInv
  OBVIOUS
<1>1. IInv
  BY InvarianceInit
<1>2. Len(cmds) = 0 /\ Len(resp) = 0 /\ cmds = <<>> /\ resp = <<>>
  BY DEF Init
<1>3. Single /\ Asked
  BY <1>2 DEF Single, Asked
<1>4. Cached
  BY DEF Init, Cached
<1>5. Probed /\ Polls /\ NoFalseBusError
  BY DEF Init, Probed, Polls, NoFalseBusError
<1>6. Fresh
  BY <1>2 DEF Init, Fresh
<1> QED
  BY <1>1, <1>3, <1>4, <1>5, <1>6 DEF SInv

\* Every step keeps the invariant of a sound link.
LEMMA SyncStep == SInv /\ [Next]_vars => SInv'
<1> SUFFICES ASSUME SInv, [Next]_vars PROVE SInv'
  OBVIOUS
<1>1. IInv'
  BY IInvStep DEF SInv
<1>2. Asked'
  BY AskedStep DEF SInv, IInv
<1> QED
  BY <1>1, <1>2, SingleStep, CachedStep, ProbedStep, FreshStep, PollsStep, ErrorsStep DEF SInv

(* One command at a time: the invariant behind the four below.             *)
THEOREM Synchrony == Spec => []SInv
BY SyncInit, SyncStep, PTL DEF Spec

(* _PC_to_RDR and _RDR_to_PC leave nothing behind in the bulk pipes unless *)
(* a receive failed, a time extension was not waited for or a command was  *)
(* taken although its transfer failed, for every number of extensions and  *)
(* every capacity of the pipes.                                            *)
THEOREM PipesInSync == Spec => []InSync
<1>1. SInv => InSync
  BY DEF SInv, Single, InSync
<1> QED
  BY <1>1, Synchrony, PTL

(* _chipcard_set_status: between calls the cache of a slot is the state    *)
(* its card was in at the last answer, if that told it, although error     *)
(* answers and time extensions write it too.                               *)
THEOREM CacheIsCurrent == Spec => []CacheCurrent
<1>1. SInv => CacheCurrent
  BY Between DEF CacheCurrent
<1> QED
  BY <1>1, Synchrony, PTL

(* ccid_probe: every slot was answered for when the device is handed out,  *)
(* and the ACTIVE that calloc left is shown only where the reader said     *)
(* nothing but the reserved status, whatever fails during the probe.       *)
THEOREM StatusKnown == Spec => []KnownStatus
<1>1. SInv => KnownStatus
  BY DEF SInv, Probed, Fresh, KnownStatus
<1> QED
  BY <1>1, Synchrony, PTL

(* _RDR_to_PC: on a clean link a call fails only for what card or reader   *)
(* said of its command.                                                    *)
THEOREM NoBusErrors == Spec => []NoFalseBusError
<1>1. SInv => NoFalseBusError
  BY DEF SInv
<1> QED
  BY <1>1, Synchrony, PTL

=============================================================================
