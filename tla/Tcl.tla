-------------------------------- MODULE Tcl --------------------------------
(***************************************************************************)
(* The block protocol of src/src/proto_tcl.c with a contactless card: the  *)
(* reader sends a command in numbered blocks, the card acknowledges each,  *)
(* and the answer comes back the same way.  There are no retransmissions:  *)
(* a lost frame ends the call, and so does a card that takes too long: its *)
(* frame may then arrive in a later call.  The card is external and keeps  *)
(* to ISO 14443-4, except that it may ask for a reserved time extension.   *)
(***************************************************************************)
EXTENDS Integers, Sequences

CONSTANTS
  Payload,    \* max_net_tx_framesize: bytes of a command in one frame
  MaxTx,      \* bound: the longest command
  MaxAnswer,  \* bound: the longest answer
  MaxCalls,   \* bound: commands
  MaxWtx      \* bound: extensions a card asks for in one call

ASSUME TclAssumption ==
  /\ Payload \in Nat \ {0} /\ MaxAnswer \in Nat \ {0}
  /\ MaxTx \in Nat /\ MaxCalls \in Nat /\ MaxWtx \in Nat

VARIABLES
  rf_l3,      \* whether there is a layer 3, that is whether T=CL was set up
  toggle,     \* number of the last numbered block sent
  tx_len,     \* length of the command
  next_tx,    \* how much of it has been sent
  rx,         \* what has been received of the answer
  ret,        \* what the last call returned
  air,        \* the frame on the air, or NoFrame between calls
  c_on,       \* whether the card is in the field and set up
  c_num,      \* the card's block number
  c_in,       \* what it has of a chained command
  c_out,      \* the answer it is sending: whose, how long, how much was sent
  c_last,     \* the frame it sent last
  c_wtx,      \* how many extensions it has asked for in this call
  late,       \* the frame it is still busy with although the reader gave up
  call,       \* history: how many commands were given
  ran,        \* history: in which call the card last carried one out
  done,       \* history: what it carried out then
  start,      \* history: how the call found the two ends
  stale,      \* history: whether such a frame has arrived in this call
  lost        \* history: whether the number of numbered blocks lost is odd

readerVars == <<rf_l3, toggle, tx_len, next_tx, rx, ret>>
cardVars == <<c_on, c_num, c_in, c_out, c_last, c_wtx, late, ran, done>>
history == <<call, start, stale, lost>>
vars == <<readerVars, air, cardVars, history>>

\* Bytes of a command or an answer are named by their call and their place.
Units(k, from, n) == [i \in 1 .. n |-> <<k, from + i>>]

NoFrame == [by |-> "nobody", kind |-> "none", num |-> 0, more |-> FALSE, data |-> <<>>]
IBlock(by, n, more, data) == [by |-> by, kind |-> "I", num |-> n, more |-> more, data |-> data]
RBlock(by, n) == [by |-> by, kind |-> "R", num |-> n, more |-> FALSE, data |-> <<>>]
SBlock(by, kind) == [by |-> by, kind |-> kind, num |-> 0, more |-> FALSE, data |-> <<>>]

NoAnswer == [of |-> 0, len |-> 0, sent |-> 0]

Init ==
  /\ rf_l3 = FALSE /\ toggle = 0 /\ tx_len = 0 /\ next_tx = 0 /\ rx = <<>> /\ ret = 0
  /\ air = NoFrame
  /\ c_on = FALSE /\ c_num = 1 /\ c_in = <<>> /\ c_out = NoAnswer /\ c_last = NoFrame /\ c_wtx = 0
  /\ late = NoFrame /\ stale = FALSE
  /\ call = 0 /\ ran = 0 /\ done = <<>>
  /\ start = [clean |-> TRUE, instep |-> FALSE] /\ lost = 0

-----------------------------------------------------------------------------
(* Setting up.  (A definition X_Y above a definition X is X with a          *)
(* plausible bug Y; no specification uses it.)                              *)

\* _tcl_get_ats
FirstToggle_Cleared == 0
FirstToggle == 1

\* rfid_power_on: the card is selected again and starts afresh.
PowerOn ==
  /\ air = NoFrame
  /\ rf_l3' = TRUE /\ toggle' = FirstToggle
  /\ c_on' = TRUE /\ c_num' = 1 /\ c_in' = <<>>
  /\ late' = NoFrame /\ lost' = 0
  /\ UNCHANGED <<tx_len, next_tx, rx, ret, air, c_out, c_last, c_wtx, ran, done, call, start, stale>>

\* A register of the front end cannot be written, perhaps once the field has
\* been switched: do_select is not reached.
FieldFails ==
  /\ air = NoFrame
  /\ c_on' \in {c_on, FALSE} /\ late' = IF c_on' THEN late ELSE NoFrame
  /\ UNCHANGED <<readerVars, air, c_num, c_in, c_out, c_last, c_wtx, ran, done, history>>

\* do_select fails, wherever that leaves the card.
SelectFails ==
  /\ air = NoFrame
  /\ rf_l3' = FALSE /\ toggle' \in {0, FirstToggle} /\ c_on' \in BOOLEAN
  /\ late' = NoFrame
  /\ UNCHANGED <<tx_len, next_tx, rx, ret, air, c_num, c_in, c_out, c_last, c_wtx, ran, done, history>>

-----------------------------------------------------------------------------
(* _tcl_transact                                                           *)

\* tcl_build_prologue2 for an I- or R-block: the other number.
Flip(n) == 1 - n

\* tcl_refill_xcvb, of a command of which so much has been sent.
Fits_Whole(len, next) == Payload
Fits(len, next) == IF len - next > Payload THEN Payload ELSE len - next

Chained_OffByOne(len, next) == next + Fits(len, next) + 1 < len
Chained(len, next) == next + Fits(len, next) < len

Refill(k, len, next) ==
  /\ toggle' = Flip(toggle)
  /\ air' = IBlock("reader", Flip(toggle), Chained(len, next), Units(k, next, Fits(len, next)))
  /\ next_tx' = next + Fits(len, next)

Return(r) == ret' = r /\ air' = NoFrame

\* rfid_transact without a layer 3.
Unsupported ==
  /\ air = NoFrame /\ ~rf_l3
  /\ Return(0)
  /\ UNCHANGED <<rf_l3, toggle, tx_len, next_tx, rx, cardVars, history>>

\* A command, which the caller's buffer for the answer can hold.
Transact(len) ==
  /\ air = NoFrame /\ rf_l3 /\ call < MaxCalls
  /\ call' = call + 1 /\ tx_len' = len /\ rx' = <<>> /\ c_wtx' = 0
  /\ start' = [clean |-> c_in = <<>>, instep |-> toggle = c_num] /\ stale' = FALSE
  /\ IF len = 0 THEN Return(0) /\ next_tx' = 0 /\ UNCHANGED toggle
     ELSE Refill(call + 1, len, 0) /\ UNCHANGED ret
  /\ UNCHANGED <<rf_l3, c_on, c_num, c_in, c_out, c_last, late, ran, done, lost>>

\* The parity of lost blocks when the card does not hear the frame.
Unheard == IF air.by = "reader" /\ air.kind \in {"I", "R"} THEN Flip(lost) ELSE lost

\* _iso14443ab_transceive fails: the frame or the answer to it was lost.
Lost ==
  /\ air # NoFrame
  /\ Return(0)
  /\ lost' = Unheard
  /\ UNCHANGED <<rf_l3, toggle, tx_len, next_tx, rx, cardVars, call, start, stale>>

\* The card is not done when the timer expires: it asked for an extension
\* that the timer cannot make, or announced an FWI that it cannot.
TooLate ==
  /\ air.by = "card"
  /\ Return(0)
  /\ late' = air
  /\ UNCHANGED <<rf_l3, toggle, tx_len, next_tx, rx, c_on, c_num, c_in, c_out, c_last, c_wtx,
                 ran, done, history>>

\* A block with the other number: the call ends, with what transceive returned.
WrongToggle ==
  /\ air.by = "card" /\ air.kind \in {"I", "R"} /\ air.num # toggle
  /\ Return(1)
  /\ UNCHANGED <<rf_l3, toggle, tx_len, next_tx, rx, cardVars, history>>

\* The card acknowledges a block of a chain.
Acknowledged ==
  /\ air.by = "card" /\ air.kind = "R" /\ air.num = toggle
  /\ IF next_tx < tx_len THEN Refill(call, tx_len, next_tx) /\ UNCHANGED ret
     ELSE Return(0) /\ UNCHANGED <<toggle, next_tx>>
  /\ UNCHANGED <<rf_l3, tx_len, rx, cardVars, history>>

\* fill_xcvb_wtxm: the card may have more time.
Extend ==
  /\ air.by = "card" /\ air.kind = "wtx"
  /\ air' = SBlock("reader", "wtx")
  /\ UNCHANGED <<readerVars, cardVars, history>>

\* An S-block that is no time extension, or a reserved one.
BadExtension ==
  /\ air.by = "card" /\ air.kind = "rfu"
  /\ Return(0)
  /\ UNCHANGED <<rf_l3, toggle, tx_len, next_tx, rx, cardVars, history>>

\* tcl_build_prologue_r: the number of an acknowledgement.
AckNumber_Same(n) == n
AckNumber(n) == Flip(n)

More_Ignored(f) == FALSE
More(f) == f.more

\* A part of the answer, or the last of it.
Received ==
  /\ air.by = "card" /\ air.kind = "I" /\ air.num = toggle
  /\ rx' = rx \o air.data
  /\ IF More(air)
     THEN /\ toggle' = AckNumber(toggle)
          /\ air' = RBlock("reader", AckNumber(toggle))
          /\ UNCHANGED ret
     ELSE Return(1) /\ UNCHANGED toggle
  /\ UNCHANGED <<rf_l3, tx_len, next_tx, cardVars, history>>

-----------------------------------------------------------------------------
(* The card.                                                               *)

\* It sends the next part of an answer, or asks for more time.
Reply(num, out) ==
  \/ \E n \in 1 .. out.len - out.sent :
       /\ air' = IBlock("card", num, out.sent + n < out.len, Units(out.of, out.sent, n))
       /\ c_out' = [out EXCEPT !.sent = @ + n]
       /\ c_last' = air' /\ UNCHANGED c_wtx
  \/ \E kind \in {"wtx", "rfu"} :
       /\ c_wtx < MaxWtx /\ c_wtx' = c_wtx + 1
       /\ air' = SBlock("card", kind) /\ c_out' = out
       /\ UNCHANGED c_last

CardTurn(kind) == c_on /\ late = NoFrame /\ air.by = "reader" /\ air.kind = kind

\* A block of a command that goes on, whatever its number.
CardChains ==
  /\ CardTurn("I") /\ air.more
  /\ c_num' = Flip(c_num) /\ c_in' = c_in \o air.data
  /\ air' = RBlock("card", Flip(c_num)) /\ c_last' = air'
  /\ UNCHANGED <<readerVars, c_on, c_out, c_wtx, late, ran, done, history>>

\* The last block of a command.
CardExecutes ==
  /\ CardTurn("I") /\ ~air.more
  /\ c_num' = Flip(c_num) /\ c_in' = <<>>
  /\ done' = c_in \o air.data /\ ran' = call
  /\ \E n \in 1 .. MaxAnswer : Reply(Flip(c_num), [of |-> call, len |-> n, sent |-> 0])
  /\ UNCHANGED <<readerVars, c_on, late, history>>

\* An acknowledgement with the card's own number asks for its last block again.
CardAcknowledged ==
  /\ CardTurn("R")
  /\ IF air.num = c_num
     THEN air' = c_last /\ UNCHANGED <<c_num, c_out, c_last, c_wtx>>
     ELSE c_num' = Flip(c_num) /\ Reply(Flip(c_num), c_out)
  /\ UNCHANGED <<readerVars, c_on, c_in, late, ran, done, history>>

CardExtended ==
  /\ CardTurn("wtx") /\ Reply(c_num, c_out)
  /\ UNCHANGED <<readerVars, c_on, c_num, c_in, late, ran, done, history>>

\* The frame it was busy with arrives as the answer to one it never heard.
LateArrives ==
  /\ late # NoFrame /\ air.by = "reader"
  /\ air' = late /\ late' = NoFrame
  /\ lost' = Unheard /\ stale' = TRUE
  /\ UNCHANGED <<readerVars, c_on, c_num, c_in, c_out, c_last, c_wtx, ran, done, call, start>>

\* It sends it while the reader does not listen.
LateUnheard ==
  /\ late # NoFrame /\ late' = NoFrame
  /\ UNCHANGED <<readerVars, air, c_on, c_num, c_in, c_out, c_last, c_wtx, ran, done, history>>

\* The card leaves the field, and what it is sending with it.
CardLeaves ==
  /\ c_on /\ c_on' = FALSE /\ air.by # "card" /\ late' = NoFrame
  /\ UNCHANGED <<readerVars, air, c_num, c_in, c_out, c_last, c_wtx, ran, done, history>>

-----------------------------------------------------------------------------

Next ==
  \/ PowerOn \/ FieldFails \/ SelectFails
  \/ Unsupported \/ (\E len \in 0 .. MaxTx : Transact(len))
  \/ Lost \/ TooLate \/ WrongToggle \/ Acknowledged \/ Extend \/ BadExtension \/ Received
  \/ CardChains \/ CardExecutes \/ CardAcknowledged \/ CardExtended
  \/ LateArrives \/ LateUnheard \/ CardLeaves

Spec == Init /\ [][Next]_vars

-----------------------------------------------------------------------------
(* Properties.                                                             *)

Byte == Nat \X Nat

Frame ==
  [by : {"nobody", "reader", "card"}, kind : {"none", "I", "R", "wtx", "rfu"},
   num : {0, 1}, more : BOOLEAN, data : Seq(Byte)]

TypeOK ==
  /\ rf_l3 \in BOOLEAN /\ toggle \in {0, 1} /\ ret \in {0, 1}
  /\ tx_len \in 0 .. MaxTx /\ next_tx \in 0 .. tx_len /\ rx \in Seq(Byte)
  /\ air \in Frame /\ c_last \in Frame /\ late \in Frame /\ stale \in BOOLEAN
  /\ c_on \in BOOLEAN /\ c_num \in {0, 1} /\ c_in \in Seq(Byte) /\ c_wtx \in 0 .. MaxWtx
  /\ c_out \in [of : Nat, len : Nat, sent : Nat] /\ c_out.sent <= c_out.len
  /\ call \in 0 .. MaxCalls /\ ran \in 0 .. call /\ done \in Seq(Byte)
  /\ start \in [clean : BOOLEAN, instep : BOOLEAN] /\ lost \in {0, 1}

\* Between calls the two block numbers agree just when an even number of
\* blocks got lost on the way to the card since it was powered on: the
\* reader counts a block as sent that the card never saw.
InStep ==
  air = NoFrame /\ rf_l3 /\ c_on => (toggle = c_num <=> lost = 0)

\* What a call has received is the answer to its own command from the first
\* byte on, without a gap or a repetition, also after earlier calls failed.
\* An answer to an earlier call that arrives late is told by its number if the
\* call found the two ends in step; else it is taken for its own.
FreshAnswer == start.instep \/ ~stale => rx = Units(call, 0, Len(rx))

\* What the card carried out in this call is the whole command and no more,
\* unless an earlier call failed in the middle of a chain.
WholeCommand == ran = call /\ start.clean => done = Units(call, 0, tx_len)

\* A call that found the two ends in step, in which no frame of an earlier call
\* arrives, and that succeeds has the whole answer, and the card has carried
\* the command out.
WholeAnswer ==
  air = NoFrame /\ ret = 1 /\ start.instep /\ ~stale
    => ran = call /\ Len(rx) = c_out.len /\ c_out.of = call
=============================================================================
