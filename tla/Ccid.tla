-------------------------------- MODULE Ccid --------------------------------
(***************************************************************************)
(* The CCID transport of src/src/ccid.c and the contact-slot operations of *)
(* src/src/cci_contact.c that run on it.                                   *)
(*                                                                         *)
(* One host thread issues one command at a time on the bulk-out pipe       *)
(* (_PC_to_RDR) and waits on the bulk-in pipe for an answer (_RDR_to_PC).  *)
(* A message is matched to the command by its slot and by an 8-bit         *)
(* sequence number.  The reader answers commands in order and may first    *)
(* ask for more time any number of times.  The reader, its two pipes, the  *)
(* interrupt pipe and the cards are not under src/: they are modelled from *)
(* what ccid.c expects of them.                                            *)
(*                                                                         *)
(* The model gives every command a number (sent, counted from 1) that the  *)
(* code does not have; an answer carries the number of the command it      *)
(* answers, which the driver never looks at.                               *)
(***************************************************************************)
EXTENDS Naturals, Sequences

CONSTANTS
  NumSlots,   \* d_num_slots, at most CCID_MAX_SLOTS: see Device for more
  SeqMod,     \* number of sequence numbers: 256 in the code (uint8_t d_seq)
  MaxTry,     \* initial value of "try" in _RDR_to_PC: 10 in the code
  MaxExt,     \* bound: time extensions a reader asks for per command
  OutCap,     \* commands the reader's bulk-out side holds before it NAKs
  InCap,      \* answers the reader's bulk-in side holds before it blocks
  IntrCap,    \* notifications the interrupt endpoint holds
  BErrors,    \* the bError classes the reader uses
  UsbErrors,  \* the transfer errors that occur, as usb_xfr_error has them
  MaxCmds     \* bound: commands sent in a session

ASSUME NumSlotsAssumption == NumSlots \in 1 .. 16
ASSUME SeqModAssumption == SeqMod \in Nat \ {0}
ASSUME MaxTryAssumption == MaxTry \in Nat \ {0}
ASSUME BoundsAssumption ==
  /\ MaxExt \in Nat /\ MaxCmds \in Nat
  /\ OutCap \in Nat \ {0} /\ InCap \in Nat \ {0} /\ IntrCap \in Nat \ {0}
ASSUME ErrorsAssumption ==
  /\ BErrors \subseteq {"ABORT", "PROTOCOL", "PIN_TIMEOUT", "OTHER"}
  /\ UsbErrors \subseteq {"BUS", "NO_MEM", "DEVICE_REMOVED"}

VARIABLES
  d_seq, i_status, d_error,        \* struct _ccid and its struct _cci slots
  pc, op, slot, try, outcome,      \* the call the host thread is in
  cmds, resp, notices, ext,        \* the reader and its pipes
  card, gone,                      \* the cards; the reader unplugged
  sent, accepted, executed,        \* history: see the top comment
  link, basis, seen                \* history: what went wrong, what is known

driver == <<d_seq, i_status, d_error, pc, op, slot, try, outcome>>
reader == <<cmds, resp, notices, ext, card, gone>>
history == <<sent, accepted, executed, link, basis, seen>>
vars == <<driver, reader, history>>

Slots == 0 .. NumSlots - 1
Statuses == {"ACTIVE", "PRESENT", "NOT_PRESENT"}

\* The two slot status bits of an answer: a status, or the reserved value 3.
StatusBits == Statuses \union {"RFU"}

\* The calls of the public interface; "probe" is the loop of ccid_probe.
Calls == {"power_on", "power_off", "transact", "clock_status", "wait", "escape"}
Ops == Calls \union {"probe"}

\* bMessageType of the command an operation sends.
CommandOf(o) ==
  CASE o = "power_on"  -> "IccPowerOn"
    [] o = "power_off" -> "IccPowerOff"
    [] o = "transact"  -> "XfrBlock"
    [] o = "escape"    -> "Escape"
    [] OTHER           -> "GetSlotStatus"

Commands == {"IccPowerOn", "IccPowerOff", "XfrBlock", "Escape", "GetSlotStatus"}

\* bMessageType a reader answers a command with.
AnswerTo(c) ==
  CASE c \in {"IccPowerOn", "XfrBlock"} -> "DataBlock"
    [] c = "Escape"                     -> "Escape"
    [] OTHER                            -> "SlotStatus"

Answers == {"DataBlock", "Escape", "SlotStatus"}

\* The message types an operation accepts: the others meet an assert().
Expected_PowerOff(o) ==
  IF o \in {"power_on", "transact", "power_off"} THEN {"DataBlock"}
  ELSE IF o \in {"clock_status", "probe"} THEN {"SlotStatus"} ELSE Answers

Expected(o) ==
  CASE o \in {"power_on", "transact"}               -> {"DataBlock"}
    [] o \in {"power_off", "clock_status", "probe"} -> {"SlotStatus"}
    [] OTHER                                        -> Answers

\* What an answer says of the command: done, done with a bApp outside the
\* four clock states, more time wanted, or failed with a bError.
Results == {"ok", "rfu_clock", "extension"} \union BErrors

CardErrors == {"CARD_IO", "NO_CARD", "CARD_PROTO", "PIN_TIMEOUT", "CARD_TIMEOUT"}

\* _cmd_result: the d_error for a bError.
ErrorOf(b) ==
  CASE b = "ABORT"       -> "NO_CARD"
    [] b = "PROTOCOL"    -> "CARD_PROTO"
    [] b = "PIN_TIMEOUT" -> "PIN_TIMEOUT"
    [] OTHER             -> "CARD_IO"

CommandMsgs == [type : Commands, slot : Slots, seq : 0 .. SeqMod - 1, id : Nat]
AnswerMsgs == [type : Answers, slot : Slots, seq : 0 .. SeqMod - 1, id : Nat,
               status : StatusBits, result : Results]

\* d_seq and bSeq are uint8_t.
NextSeq_NoWrap(n) == n + 1
NextSeq(n) == (n + 1) % SeqMod

-----------------------------------------------------------------------------
(* The host.  (A definition X_Y above a definition X is X with a plausible  *)
(* bug Y: no specification uses it; it shows that a property below can be   *)
(* broken by the code.)                                                     *)

Init ==
  /\ d_seq = 0 /\ d_error = "NONE"
  /\ i_status = [s \in Slots |-> "ACTIVE"]        \* calloc: CHIPCARD_ACTIVE = 0
  /\ pc = "write" /\ op = "probe" /\ slot = 0
  /\ try = MaxTry /\ outcome = "none"
  /\ cmds = <<>> /\ resp = <<>> /\ notices = <<>> /\ ext = 0
  /\ card \in [Slots -> {"PRESENT", "NOT_PRESENT"}] /\ gone = FALSE
  /\ sent = 0 /\ accepted = [id |-> 0, cmd |-> 0] /\ executed = {}
  /\ link = "clean" /\ basis = [s \in Slots |-> "never"] /\ seen = FALSE

\* A call of the interface.  escape goes to RFID_SLOT, which is 0.
Call(o, s) ==
  /\ pc = "idle" /\ sent < MaxCmds
  /\ o = "escape" => s = 0
  /\ pc' = "write" /\ op' = o /\ slot' = s
  /\ seen' = (o = "wait" /\ card[s] # "NOT_PRESENT")
  /\ UNCHANGED <<d_seq, i_status, d_error, try, outcome, reader,
                 sent, accepted, executed, link, basis>>

AfterProbe_LastSlot(res) ==
  IF res # "ok" THEN "closed" ELSE IF slot + 2 < NumSlots THEN "write" ELSE "idle"

\* ccid_probe goes on to the next slot, or gives the device up.
AfterProbe(res) ==
  IF res # "ok" THEN "closed" ELSE IF slot + 1 < NumSlots THEN "write" ELSE "idle"

\* Where the host goes when an exchange ends with res and the cache is st:
\* cci_wait_for_card looks only at the cache.
AfterExchange(res, st) ==
  CASE op = "wait"  -> IF st[slot] = "NOT_PRESENT" THEN "intr" ELSE "idle"
    [] op = "probe" -> AfterProbe(res)
    [] OTHER        -> "idle"

Conclude(res, st) ==
  /\ outcome' = res
  /\ pc' = AfterExchange(res, st)
  /\ slot' = IF op = "probe" /\ pc' = "write" THEN slot + 1 ELSE slot
  /\ UNCHANGED <<op, try>>

\* A fault on the link; a broken link stays broken.
Worse(l) == IF link = "broken" THEN "broken" ELSE l

ThisCommand ==
  [type |-> CommandOf(op), slot |-> slot, seq |-> d_seq, id |-> sent + 1]

\* _PC_to_RDR when the whole message is taken by the reader.  The transfer
\* has no timeout: the host stays in "write" while the reader does not take it.
PC_to_RDR ==
  /\ pc = "write" /\ ~gone /\ Len(cmds) < OutCap
  /\ cmds' = Append(cmds, ThisCommand)
  /\ d_seq' = NextSeq(d_seq)
  /\ sent' = sent + 1
  /\ pc' = "recv" /\ try' = MaxTry
  /\ UNCHANGED <<i_status, d_error, op, slot, outcome, resp, notices, ext, card,
                 gone, accepted, executed, link, basis, seen>>

\* The transfer of a command fails or is short.  The sequence number is used
\* up.  The reader may have taken the command all the same, whole or cut (a
\* cut one it answers with an error, as it may any).
WriteFails(e, taken) ==
  /\ pc = "write" /\ (gone <=> e = "DEVICE_REMOVED")
  /\ taken => ~gone /\ Len(cmds) < OutCap
  /\ cmds' = IF taken THEN Append(cmds, ThisCommand) ELSE cmds
  /\ d_seq' = NextSeq(d_seq)
  /\ sent' = sent + 1
  /\ d_error' = e
  /\ UNCHANGED <<i_status, resp, notices, ext, card, gone, accepted, executed,
                 basis, seen>>

PC_to_RDR_Fails_Unchecked(e, taken) ==
  /\ WriteFails(e, taken)
  /\ link' = Worse("write_fault")
  /\ pc' = "recv" /\ try' = MaxTry
  /\ UNCHANGED <<op, slot, outcome>>

\* _PC_to_RDR when it fails.  Every caller returns, and leaves the answer to
\* a command that was taken behind; cci_wait_for_card goes on to receive.
PC_to_RDR_Fails(e, taken) ==
  /\ WriteFails(e, taken)
  /\ IF op = "wait"
       THEN /\ link' = Worse("write_fault")
            /\ pc' = "recv" /\ try' = MaxTry /\ UNCHANGED <<op, slot, outcome>>
       ELSE /\ link' = IF taken THEN "broken" ELSE Worse("write_fault")
            /\ Conclude("fail", i_status)

\* do_recv fails: the transfer fails, or what arrived is truncated and lost.
RecvFails(e, lost) ==
  /\ pc = "recv" /\ (gone <=> e = "DEVICE_REMOVED")
  /\ lost => resp # <<>>
  /\ resp' = IF lost THEN Tail(resp) ELSE resp
  /\ d_error' = e
  /\ link' = "broken"
  /\ Conclude("fail", i_status)
  /\ UNCHANGED <<d_seq, i_status, cmds, notices, ext, card, gone, sent, accepted,
                 executed, basis, seen>>

\* The two checks of _RDR_to_PC on a received message.
ForUs_NoSeq(m) == m.slot = slot
ForUs_OffByOne(m) == m.slot = slot /\ m.seq = d_seq
ForUs(m) == m.slot = slot /\ NextSeq(m.seq) = d_seq

\* A message for another slot or with another sequence number is read off the
\* pipe and the exchange fails.
RDR_to_PC_Stray ==
  /\ pc = "recv" /\ resp # <<>> /\ ~ForUs(Head(resp))
  /\ resp' = Tail(resp)
  /\ d_error' = "BUS"
  /\ Conclude("fail", i_status)
  /\ UNCHANGED <<d_seq, i_status, cmds, notices, ext, card, gone, sent, accepted,
                 executed, link, basis, seen>>

\* _chipcard_set_status: the reserved value leaves the cache as it is.
StatusAfter(m) ==
  [i_status EXCEPT ![m.slot] = IF m.status = "RFU" THEN @ ELSE m.status]

Accept_StatusOnSuccess(m) ==
  /\ pc = "recv" /\ resp # <<>> /\ ForUs(m)
  /\ resp' = Tail(resp)
  /\ i_status' = IF m.result \in BErrors THEN i_status ELSE StatusAfter(m)
  /\ accepted' = [id |-> m.id, cmd |-> sent]
  /\ UNCHANGED <<d_seq, cmds, notices, ext, card, gone, sent, executed, basis, seen>>

\* A message that passes the checks updates the cache, whatever it says of
\* its command.
Accept(m) ==
  /\ pc = "recv" /\ resp # <<>> /\ ForUs(m)
  /\ resp' = Tail(resp)
  /\ i_status' = StatusAfter(m)
  /\ accepted' = [id |-> m.id, cmd |-> sent]
  /\ UNCHANGED <<d_seq, cmds, notices, ext, card, gone, sent, executed, basis, seen>>

\* bStatus is exactly CCID_RESULT_TIMEOUT: a time extension whose two slot
\* status bits are 0, the card active.
AsksToWait(m) == m.result = "extension" /\ m.status = "ACTIVE"

\* A time extension: receive again.
RDR_to_PC_Extension ==
  LET m == Head(resp) IN
    /\ Accept(m) /\ AsksToWait(m) /\ try > 1
    /\ try' = try - 1
    /\ UNCHANGED <<d_error, pc, op, slot, outcome, link>>

\* A time extension the driver does not wait for.
RDR_to_PC_GiveUp ==
  LET m == Head(resp) IN
    /\ Accept(m) /\ m.result = "extension" /\ (AsksToWait(m) => try = 1)
    /\ d_error' = "CARD_TIMEOUT"
    /\ link' = "broken"
    /\ Conclude("fail", i_status')

\* The command failed.
RDR_to_PC_Error ==
  LET m == Head(resp) IN
    /\ Accept(m) /\ m.result \in BErrors
    /\ d_error' = ErrorOf(m.result)
    /\ Conclude("fail", i_status')
    /\ UNCHANGED link

\* CCID_RESULT_SUCCESS after masking.
Succeeded_WrongMask(m) == m.result \in {"ok", "rfu_clock", "extension"}
Succeeded(m) == m.result \in {"ok", "rfu_clock"}

\* The command succeeded.  The callers then assert the message type, and
\* those that decode a clock state report one they do not know as 0, which
\* is failure, without an error code.
RDR_to_PC_Success ==
  LET m == Head(resp) IN
    /\ Accept(m) /\ Succeeded(m)
    /\ IF m.type \notin Expected(op)
         THEN pc' = "aborted" /\ outcome' = "fail" /\ UNCHANGED <<op, slot, try>>
         ELSE Conclude(IF /\ m.result = "rfu_clock"
                          /\ op \in {"power_off", "clock_status", "probe"}
                         THEN "clock_err" ELSE "ok", i_status')
    /\ UNCHANGED <<d_error, link>>

\* Bound: past MaxCmds commands cci_wait_for_card polls on only for a card.
MayPoll == sent < MaxCmds \/ (link = "clean" /\ card[slot] # "NOT_PRESENT")

LoopWait_NoRepoll(st) ==
  /\ pc = "intr" /\ MayPoll
  /\ pc' = IF st[slot] = "NOT_PRESENT" THEN "intr" ELSE "idle"
  /\ UNCHANGED <<d_seq, op, slot, try, outcome, cmds, resp, ext, card, gone, sent,
                 accepted, executed, link, seen>>

\* The loop condition of cci_wait_for_card after an interrupt.
LoopWait(st) ==
  /\ pc = "intr" /\ MayPoll
  /\ pc' = IF st[slot] = "NOT_PRESENT" THEN "write" ELSE "idle"
  /\ UNCHANGED <<d_seq, op, slot, try, outcome, cmds, resp, ext, card, gone, sent,
                 accepted, executed, link, seen>>

\* _cci_wait_for_interrupt gets a NotifySlotChange with the change bit of slot 0.
Interrupt ==
  /\ notices # <<>>
  /\ notices' = Tail(notices)
  /\ i_status' = [i_status EXCEPT ![0] = Head(notices)]
  /\ basis' = [basis EXCEPT ![0] = "notice"]
  /\ LoopWait(i_status')
  /\ UNCHANGED d_error

\* Nothing arrives in 250 ms, the transfer fails, or what arrives is no
\* notification about slot 0 ("NONE": no error).
NoInterrupt(e) ==
  /\ gone <=> e = "DEVICE_REMOVED"
  /\ d_error' = IF e = "NONE" THEN d_error ELSE e
  /\ LoopWait(i_status)
  /\ UNCHANGED <<i_status, notices, basis>>

\* A NotifySlotChange whose length is not 2, as a reader with more than four
\* slots has to send: the assertion stops the process.
StrangeNotice ==
  /\ pc = "intr" /\ ~gone
  /\ pc' = "stopped"
  /\ UNCHANGED <<d_seq, i_status, d_error, op, slot, try, outcome, reader, history>>

Host ==
  \/ PC_to_RDR
  \/ \E e \in UsbErrors, taken \in BOOLEAN : PC_to_RDR_Fails(e, taken)
  \/ \E e \in UsbErrors, lost \in BOOLEAN : RecvFails(e, lost)
  \/ RDR_to_PC_Stray \/ RDR_to_PC_Extension \/ RDR_to_PC_GiveUp
  \/ RDR_to_PC_Error \/ RDR_to_PC_Success
  \/ Interrupt
  \/ \E e \in UsbErrors \union {"NONE"} : NoInterrupt(e)
  \/ StrangeNotice

-----------------------------------------------------------------------------
(* The reader and the cards: external.                                     *)

Answer(c, result, status) ==
  [type |-> AnswerTo(c.type), slot |-> c.slot, seq |-> c.seq, id |-> c.id,
   status |-> status, result |-> result]

\* The results a reader can give a command, from the state of the card.
Possible(c) ==
  CASE c.type = "GetSlotStatus" -> {"ok", "rfu_clock"} \union BErrors
    [] c.type = "IccPowerOff"   -> {"ok", "rfu_clock"} \union BErrors
    [] c.type = "Escape"        -> {"ok"} \union BErrors
    [] c.type = "IccPowerOn"    -> IF card[c.slot] = "NOT_PRESENT" THEN BErrors
                                   ELSE {"ok"} \union BErrors
    [] OTHER                    -> IF card[c.slot] = "ACTIVE" THEN {"ok"} \union BErrors
                                   ELSE BErrors

\* The card after a command: power on activates it or leaves it off.
CardAfter(c, result) ==
  IF card[c.slot] = "NOT_PRESENT" THEN "NOT_PRESENT"
  ELSE CASE c.type = "IccPowerOn"  -> IF result = "ok" THEN "ACTIVE" ELSE "PRESENT"
         [] c.type = "IccPowerOff" -> IF result \in BErrors THEN card[c.slot] ELSE "PRESENT"
         [] OTHER                  -> card[c.slot]

\* What the status bits of an answer to c may say when the card is in state
\* st: st, or the reserved value; an Escape is the vendor's and its answer may
\* say anything.  Bound: something other than st only before MaxCmds commands.
Told(c, st) ==
  {st} \union IF sent >= MaxCmds THEN {}
              ELSE IF c.type = "Escape" THEN StatusBits ELSE {"RFU"}

\* What the cache of a slot rests on after an answer that said bits.
BasisAfter(s, st, bits) ==
  IF bits = st THEN "answer"
  ELSE IF bits = "RFU" /\ basis[s] \in {"never", "rfu"} THEN "rfu" ELSE "untold"

\* The reader carries out the oldest command and queues its answer.
ReaderAnswers ==
  /\ ~gone /\ cmds # <<>> /\ Len(resp) < InCap
  /\ LET c == Head(cmds) IN
       \E result \in Possible(c) : \E bits \in Told(c, CardAfter(c, result)) :
         /\ card' = [card EXCEPT ![c.slot] = CardAfter(c, result)]
         /\ resp' = Append(resp, Answer(c, result, bits))
         /\ executed' = executed \union {c.id}
         /\ basis' = [basis EXCEPT ![c.slot] =
                        BasisAfter(c.slot, CardAfter(c, result), bits)]
  /\ cmds' = Tail(cmds) /\ ext' = 0
  /\ UNCHANGED <<driver, notices, gone, sent, accepted, link, seen>>

\* The reader asks for more time on the oldest command.
ReaderExtends ==
  /\ ~gone /\ cmds # <<>> /\ Len(resp) < InCap /\ ext < MaxExt
  /\ Head(cmds).type \in {"IccPowerOn", "XfrBlock"}
  /\ \E bits \in Told(Head(cmds), card[Head(cmds).slot]) :
       resp' = Append(resp, Answer(Head(cmds), "extension", bits))
  /\ ext' = ext + 1
  /\ UNCHANGED <<driver, cmds, notices, card, gone, history>>

\* A card is put in or taken out.  A change in slot 0 is notified; a full
\* interrupt endpoint keeps its oldest packet and renews its newest.  Bound:
\* cards are put in only before MaxCmds commands.
MoveCard(s) ==
  /\ ~gone
  /\ \E now \in {"NOT_PRESENT"} \union IF sent < MaxCmds THEN {"PRESENT"} ELSE {} :
       /\ (now = "PRESENT") = (card[s] = "NOT_PRESENT")
       /\ card' = [card EXCEPT ![s] = now]
       /\ notices' = IF s # 0 THEN notices
                     ELSE IF Len(notices) < IntrCap THEN Append(notices, now)
                     ELSE [notices EXCEPT ![IntrCap] = now]
       /\ seen' = (seen \/ (op = "wait" /\ s = slot /\ now = "PRESENT"))
  /\ basis' = [basis EXCEPT ![s] = IF @ \in {"never", "rfu"} THEN @ ELSE "moved"]
  /\ UNCHANGED <<driver, cmds, resp, ext, gone, sent, accepted, executed, link>>

\* The reader is unplugged.
Unplug ==
  /\ ~gone
  /\ gone' = TRUE
  /\ cmds' = <<>> /\ resp' = <<>> /\ notices' = <<>>
  /\ link' = "broken"
  /\ UNCHANGED <<driver, ext, card, sent, accepted, executed, basis, seen>>

Reader == ReaderAnswers \/ ReaderExtends

Next ==
  \/ \E o \in Calls, s \in Slots : Call(o, s)
  \/ Host
  \/ Reader
  \/ \E s \in Slots : MoveCard(s)
  \/ Unplug

Spec == Init /\ [][Next]_vars

\* What must happen: the host goes on whenever it can without a fault of the
\* link (an unplugged reader fails every transfer), and the reader carries
\* out its commands.  Nobody need call, fault, move a card or unplug.
HostProgress ==
  \/ PC_to_RDR
  \/ PC_to_RDR_Fails("DEVICE_REMOVED", FALSE) \/ RecvFails("DEVICE_REMOVED", FALSE)
  \/ RDR_to_PC_Stray \/ RDR_to_PC_Extension \/ RDR_to_PC_GiveUp
  \/ RDR_to_PC_Error \/ RDR_to_PC_Success
  \/ Interrupt \/ NoInterrupt("BUS") \/ NoInterrupt("DEVICE_REMOVED")

FairSpec == Spec /\ WF_vars(HostProgress) /\ WF_vars(ReaderAnswers)

-----------------------------------------------------------------------------
(* Properties.                                                             *)

\* What the cache of a slot rests on: nothing, answers that had the reserved
\* bits, an answer that told the card's state, one that did not; or an answer
\* since which the card was moved or a notification came.
Bases == {"never", "rfu", "answer", "untold", "moved", "notice"}

TypeOK ==
  /\ d_seq \in 0 .. SeqMod - 1
  /\ i_status \in [Slots -> Statuses]
  /\ d_error \in UsbErrors \union CardErrors \union {"NONE", "BUS"}
  /\ pc \in {"idle", "write", "recv", "intr", "closed", "aborted", "stopped"}
  /\ op \in Ops /\ slot \in Slots /\ try \in 1 .. MaxTry
  /\ outcome \in {"none", "ok", "clock_err", "fail"}
  /\ cmds \in Seq(CommandMsgs) /\ resp \in Seq(AnswerMsgs)
  /\ notices \in Seq({"PRESENT", "NOT_PRESENT"})
  /\ ext \in Nat /\ card \in [Slots -> Statuses] /\ gone \in BOOLEAN
  /\ sent \in Nat /\ accepted \in [id : Nat, cmd : Nat] /\ executed \subseteq Nat
  /\ link \in {"clean", "write_fault", "broken"}
  /\ basis \in [Slots -> Bases]
  /\ seen \in BOOLEAN

\* A message the driver accepts (_RDR_to_PC past its two checks) answers the
\* command the driver is waiting on, or one sent at least SeqMod commands
\* before: an answer left over on the pipe is told apart until d_seq wraps.
WindowSafe ==
  accepted.id = accepted.cmd \/ accepted.id + SeqMod <= accepted.cmd

\* The assert() on the message type in _RDR_to_PC_DataBlock and _SlotStatus
\* fails only on such a wrapped message.
AbortOnlyAfterWrap == pc = "aborted" => accepted.id # accepted.cmd

\* One transaction at a time: unless a receive failed, a time extension was
\* not waited for or the reader took a command whose transfer failed, nothing
\* of an earlier exchange is left in either bulk pipe when a call begins.
InSync == pc = "idle" /\ link # "broken" => cmds = <<>> /\ resp = <<>>

\* On a link without faults a call other than cci_wait_for_card (which
\* polls) never fails for a reason other than what the card or reader said.
NoFalseBusError ==
  /\ link = "clean" /\ outcome = "fail" /\ pc \in {"idle", "closed"} /\ op # "wait"
  => d_error \in CardErrors

\* cci_slot_status is the state of the card as of the last answer for that
\* slot, whatever the answer said of its command: it is exact when that answer
\* told the state, and nothing moved the card and no notification came since.
CacheCurrent ==
  pc = "idle" /\ link # "broken" =>
    \A s \in Slots : basis[s] = "answer" => i_status[s] = card[s]

\* ccid_probe hands out a device only after every slot was answered for, and
\* then shows the ACTIVE that calloc leaves in every slot only for a slot of
\* which the reader said nothing but the reserved status.
KnownStatus ==
  /\ op # "probe" => \A s \in Slots : basis[s] # "never"
  /\ op = "probe" /\ pc = "idle" =>
       \A s \in Slots : i_status[s] = "ACTIVE" => basis[s] = "rfu"

\* cci_wait_for_card: "Wait for insertion of a chip card in to the slot."  It
\* returns only if a card was in the slot at some moment of the call.
WaitMeansPresent == pc = "idle" /\ op = "wait" => seen

\* A call other than cci_wait_for_card returns, as long as no answer is left
\* behind on the pipes, and also once the reader is unplugged.  (With an
\* answer left behind the bulk transfers, which have no timeout, may wait for
\* each other: the reader for its answer to be read, the host for its command
\* to be taken.)
Returned == pc \in {"idle", "closed", "aborted", "stopped"}

CallReturns ==
  (~Returned /\ op # "wait" /\ (link # "broken" \/ gone))
    ~> (Returned \/ (link = "broken" /\ ~gone))

\* cci_wait_for_card returns once a card stays in its slot, notified or not,
\* however often it has to poll: the reader may keep the card from it with
\* reserved status bits, and notifications may be stale or missing, but a
\* bounded number of times (see Told and MoveCard).
WaitReturns ==
  (~Returned /\ op = "wait" /\ card[slot] # "NOT_PRESENT" /\ link = "clean")
    ~> (Returned \/ card[slot] = "NOT_PRESENT" \/ link # "clean")

\* The exchanges implement a synchronous command channel.
Channel == INSTANCE CommandChannel WITH
  Window  <- SeqMod,
  issued  <- sent,
  done    <- executed,
  pending <- (pc = "recv"),
  verdict <- IF outcome \in {"ok", "clock_err"} THEN "ok" ELSE outcome

ImplementsChannel == Channel!Spec

\* The inductive invariant behind WindowSafe, AbortOnlyAfterWrap and
\* ImplementsChannel.  A message on a pipe has the sequence number its
\* command was given; d_seq is the number of commands modulo SeqMod; only the
\* command the host waits for has the number sent; the commands not yet
\* executed are younger than all that are; a final answer is to an executed
\* command.
Numbered(m, n) == m.id \in 1 .. n /\ NextSeq(m.seq) = m.id % SeqMod

Numbering ==
  /\ d_seq = sent % SeqMod
  /\ \A i \in 1 .. Len(cmds) : Numbered(cmds[i], sent)
  /\ \A i \in 1 .. Len(resp) : Numbered(resp[i], sent)

Ordering ==
  /\ \A e \in executed : e \in 1 .. sent
  /\ \A i \in 1 .. Len(cmds) : \A e \in executed : e < cmds[i].id
  /\ \A i, j \in 1 .. Len(cmds) : i < j => cmds[i].id < cmds[j].id
  /\ \A i \in 1 .. Len(resp) : resp[i].result # "extension" => resp[i].id \in executed

Typing ==
  pc = "recv" =>
    /\ \A i \in 1 .. Len(cmds) : cmds[i].id = sent => cmds[i].type = CommandOf(op)
    /\ \A i \in 1 .. Len(resp) :
         resp[i].id = sent => resp[i].type = AnswerTo(CommandOf(op))

IInv ==
  /\ TypeOK /\ Numbering /\ Ordering /\ Typing
  /\ WindowSafe /\ accepted.id <= accepted.cmd /\ AbortOnlyAfterWrap

=============================================================================
