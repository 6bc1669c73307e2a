----------------------------- MODULE TclProofs -----------------------------
(***************************************************************************)
(* Proofs about Tcl for every payload size, every length of commands and   *)
(* answers, and every pattern of losses.                                   *)
(***************************************************************************)
EXTENDS Tcl, SequenceTheorems, TLAPS

Sends(by, kinds) == air.by = by /\ air.kind \in kinds

\* A numbered block is on its way to the card, which has not counted it.
OnWay == Sends("reader", {"I", "R"})

\* The card has carried a command out and the answer is under way: of this
\* call, unless it is stale.
Answering == Sends("card", {"I", "wtx", "rfu"}) \/ Sends("reader", {"R", "wtx"})

Calling ==
  /\ air.by = "nobody" => air = NoFrame
  /\ air # NoFrame => rf_l3
  /\ air.by = "card" => c_on

Numbers ==
  /\ Sends("card", {"I", "R"}) => air.num = c_num
  /\ OnWay => air.num = toggle
  /\ rf_l3 /\ c_on => (toggle = c_num <=> IF OnWay THEN lost # 0 ELSE lost = 0)
  /\ Sends("reader", {"R"}) /\ c_on => lost = 0
  /\ start.instep /\ air # NoFrame /\ c_on => (lost = 0 <=> ~stale)

Answers ==
  /\ FreshAnswer
  /\ Answering /\ ~stale => c_out.of = call /\ ran = call /\ Len(rx) <= c_out.sent
  /\ Answering /\ ~stale /\ ~Sends("card", {"I"}) => Len(rx) = c_out.sent
  /\ Sends("card", {"I"}) /\ ~stale =>
       /\ air.data = Units(call, Len(rx), c_out.sent - Len(rx))
       /\ (air.more <=> c_out.sent < c_out.len)

Commands ==
  /\ Sends("reader", {"I"}) => (air.more <=> next_tx < tx_len) /\ rx = <<>> /\ air.data # <<>>
  /\ Sends("reader", {"I"}) /\ start.clean =>
       /\ c_in = Units(call, 0, Len(c_in)) /\ Len(c_in) <= next_tx
       /\ air.data = Units(call, Len(c_in), next_tx - Len(c_in))
  /\ Sends("card", {"R"}) => rx = <<>> /\ c_in # <<>>
  /\ Sends("card", {"R"}) /\ start.clean => c_in = Units(call, 0, next_tx)

\* What the card is still busy with: it is to be met by the first frame of a
\* call, whose number is the next after the one the call found.
Busy ==
  late # NoFrame =>
    /\ c_on /\ late.by = "card"
    /\ late.kind \in {"I", "R"} => late.num = c_num
    /\ late.kind = "R" => c_in # <<>>
    /\ air # NoFrame =>
         /\ Sends("reader", {"I"}) /\ ~stale
         /\ start.clean => c_in = <<>>

\* Where a stale frame came into a call that found the ends in step, or with
\* nothing of a command left: it takes that call no further.
Stale ==
  stale /\ air # NoFrame =>
    /\ start.instep => rx = <<>> /\ ~OnWay
    /\ start.clean => ~Sends("reader", {"I"}) /\ ~Sends("card", {"R"})

TInv ==
  TypeOK /\ Calling /\ Numbers /\ Answers /\ Commands /\ Busy /\ Stale
  /\ WholeCommand /\ WholeAnswer

-----------------------------------------------------------------------------
(* Bytes.                                                                  *)

\* A run of bytes of a command or answer is a sequence of that length.
LEMMA UnitsType ==
  ASSUME NEW k \in Nat, NEW a \in Nat, NEW n \in Nat
  PROVE  Units(k, a, n) \in Seq(Byte) /\ Len(Units(k, a, n)) = n
BY DEF Units, Byte

\* A run of no bytes is empty.
LEMMA UnitsNone == ASSUME NEW k, NEW a PROVE Units(k, a, 0) = <<>>
BY DEF Units

\* What follows what is there makes a longer run from the same start.
LEMMA UnitsConcat ==
  ASSUME NEW k \in Nat, NEW a \in Nat, NEW n \in Nat
  PROVE  Units(k, 0, a) \o Units(k, a, n) = Units(k, 0, a + n)
<1> DEFINE s == Units(k, 0, a)
           t == Units(k, a, n)
           u == Units(k, 0, a + n)
<1>1. s \in Seq(Byte) /\ Len(s) = a /\ t \in Seq(Byte) /\ Len(t) = n
      /\ u \in Seq(Byte) /\ Len(u) = a + n
  <2>1. 0 \in Nat /\ a + n \in Nat
    OBVIOUS
  <2> QED BY <2>1, UnitsType
<1>2. /\ \A i \in 1 .. a : s[i] = <<k, i>> /\ u[i] = <<k, i>>
      /\ \A i \in 1 .. n : t[i] = <<k, a + i>>
      /\ \A i \in 1 .. a + n : u[i] = <<k, i>>
  BY DEF Units
<1> HIDE DEF s, t, u
<1>3. s \o t \in Seq(Byte) /\ Len(s \o t) = a + n
      /\ \A i \in 1 .. a + n : (s \o t)[i] = IF i <= a THEN s[i] ELSE t[i - a]
  BY <1>1
<1>4. \A i \in 1 .. a + n : (s \o t)[i] = u[i]
  <2> SUFFICES ASSUME NEW i \in 1 .. a + n PROVE (s \o t)[i] = u[i]
    OBVIOUS
  <2>1. CASE i <= a
    BY <1>2, <1>3, <2>1, i \in 1 .. a
  <2>2. CASE ~(i <= a)
    <3>1. i - a \in 1 .. n /\ a + (i - a) = i
      BY <2>2
    <3> QED BY <1>2, <1>3, <2>2, <3>1
  <2> QED BY <2>1, <2>2
<1>5. s \o t = u
  BY <1>1, <1>3, <1>4, SeqEqual
<1> QED BY <1>5 DEF s, t, u

\* A run of bytes and the run after it are one run.
LEMMA UnitsAppend ==
  ASSUME NEW k \in Nat, NEW a \in Nat, NEW b \in Nat, a <= b
  PROVE  Units(k, 0, a) \o Units(k, a, b - a) = Units(k, 0, b)
<1>1. b - a \in Nat /\ a + (b - a) = b
  OBVIOUS
<1>2. Units(k, 0, a) \o Units(k, a, b - a) = Units(k, 0, a + (b - a))
  BY <1>1, UnitsConcat
<1> QED BY <1>1, <1>2

\* A frame takes some of what is left, and a frame that ends the chain all.
LEMMA FitsLeft ==
  ASSUME NEW len \in Nat, NEW next \in 0 .. len
  PROVE  /\ Fits(len, next) \in Nat /\ next + Fits(len, next) \in 0 .. len
         /\ (Chained(len, next) <=> next + Fits(len, next) < len)
BY TclAssumption DEF Fits, Chained

\* A frame takes something if something is left.
LEMMA FitsSome ==
  ASSUME NEW len \in Nat, NEW next \in 0 .. len, next # len
  PROVE  Fits(len, next) \in Nat /\ Fits(len, next) # 0
BY TclAssumption DEF Fits

\* The frames that are built are frames.
LEMMA Frames ==
  /\ NoFrame \in Frame
  /\ \A by \in {"reader", "card"}, kind \in {"wtx", "rfu"} : SBlock(by, kind) \in Frame
  /\ \A by \in {"reader", "card"}, n \in {0, 1} : RBlock(by, n) \in Frame
  /\ \A by \in {"reader", "card"}, n \in {0, 1}, more \in BOOLEAN, data \in Seq(Byte) :
       IBlock(by, n, more, data) \in Frame
BY DEF NoFrame, SBlock, RBlock, IBlock, Frame

\* With the block on its way the card has all that was sent of a clean chain.
LEMMA ChainSoFar ==
  ASSUME TInv, Sends("reader", {"I"}), start.clean
  PROVE  c_in \o air.data = Units(call, 0, next_tx)
<1> DEFINE a == Len(c_in)
<1>1. /\ call \in Nat /\ a \in Nat /\ next_tx \in Nat /\ a <= next_tx
      /\ c_in = Units(call, 0, a) /\ air.data = Units(call, a, next_tx - a)
  BY TclAssumption DEF TInv, TypeOK, Commands
<1> HIDE DEF a
<1>2. Units(call, 0, a) \o Units(call, a, next_tx - a) = Units(call, 0, next_tx)
  BY <1>1, UnitsAppend
<1> QED BY <1>1, <1>2

\* The other block number is one, and its other is the first again.
LEMMA Flips == ASSUME NEW n \in {0, 1} PROVE Flip(n) \in {0, 1} /\ Flip(n) # n /\ Flip(Flip(n)) = n
BY DEF Flip

-----------------------------------------------------------------------------
(* Every action keeps the invariant.                                       *)

\* The two ends start afresh.
LEMMA PowerOnStep == ASSUME TInv, PowerOn PROVE TInv'
BY DEF PowerOn, FirstToggle, readerVars, cardVars, history, NoFrame, SBlock, TInv,
   TypeOK, Calling, Numbers, Answers, Commands, Busy, Stale, FreshAnswer, WholeCommand, WholeAnswer, Sends, OnWay, Answering

\* Without the card nothing is claimed of it, nor of what it was busy with.
LEMMA CardGone ==
  ASSUME TInv, c_on' \in {c_on, FALSE}, air.by # "card",
         late' \in {late, NoFrame}, c_on' = FALSE => late' = NoFrame,
         UNCHANGED <<readerVars, air, c_num, c_in, c_out, c_last, c_wtx, ran, done, history>>
  PROVE  TInv'
<1>1. TypeOK' /\ Calling'
  BY Frames DEF readerVars, history, TInv, TypeOK, Calling
<1>2. Numbers'
  <2>1. CASE c_on' = c_on
    BY <2>1 DEF readerVars, history, TInv, Numbers, Sends, OnWay
  <2>2. CASE c_on' = FALSE
    BY <2>2 DEF readerVars, history, TInv, Numbers, Sends, OnWay
  <2> QED BY <2>1, <2>2
<1>3. Answers' /\ Commands'
  BY DEF readerVars, history, TInv, Answers, FreshAnswer, Commands, Sends, Answering
<1>4. WholeCommand' /\ WholeAnswer'
  BY DEF readerVars, history, TInv, WholeCommand, WholeAnswer
<1>5. Busy'
  <2>1. CASE late' = NoFrame
    BY <2>1 DEF Busy
  <2>2. CASE late' # NoFrame
    <3>1. late' = late /\ c_on' = c_on /\ UNCHANGED <<air, c_num, c_in, rx, start, stale>>
      BY <2>2 DEF readerVars, history
    <3> QED BY <3>1 DEF TInv, Busy, Sends
  <2> QED BY <2>1, <2>2
<1>6. Stale'
  BY DEF readerVars, history, TInv, Stale, Sends, OnWay
<1> QED BY <1>1, <1>2, <1>3, <1>4, <1>5, <1>6 DEF TInv

\* There is no layer 3, so no more calls.
LEMMA SelectFailsStep == ASSUME TInv, SelectFails PROVE TInv'
BY DEF SelectFails, FirstToggle, readerVars, cardVars, history, NoFrame, SBlock, TInv,
   TypeOK, Calling, Numbers, Answers, Commands, Busy, Stale, FreshAnswer, WholeCommand, WholeAnswer, Sends, OnWay, Answering

\* Nothing is sent.
LEMMA UnsupportedStep == ASSUME TInv, Unsupported PROVE TInv'
BY Frames DEF Unsupported, Return, readerVars, cardVars, history, NoFrame, SBlock, TInv,
   TypeOK, Calling, Numbers, Answers, Commands, Busy, Stale, FreshAnswer, WholeCommand, WholeAnswer, Sends, OnWay, Answering

\* A numbered block that is lost changes the parity, and nothing else does.
LEMMA LostStep == ASSUME TInv, Lost PROVE TInv'
BY Frames DEF Lost, Unheard, Return, Flip, readerVars, cardVars, history, NoFrame, SBlock, TInv,
   TypeOK, Calling, Numbers, Answers, Commands, Busy, Stale, FreshAnswer, WholeCommand, WholeAnswer, Sends, OnWay, Answering

\* The reader gives up, and the card goes on.
LEMMA TooLateStep == ASSUME TInv, TooLate PROVE TInv'
BY Frames DEF TooLate, Return, readerVars, cardVars, history, NoFrame, SBlock, TInv,
   TypeOK, Calling, Numbers, Answers, Commands, Busy, Stale, FreshAnswer, WholeCommand, WholeAnswer, Sends, OnWay, Answering

\* What it sends is not heard.
LEMMA LateUnheardStep == ASSUME TInv, LateUnheard PROVE TInv'
<1>1. air.by # "card"
  BY DEF LateUnheard, TInv, Busy, Sends, Calling, NoFrame
<1>2. late' = NoFrame /\ c_on' = c_on
  BY DEF LateUnheard
<1>3. UNCHANGED <<readerVars, air, c_num, c_in, c_out, c_last, c_wtx, ran, done, history>>
  BY DEF LateUnheard
<1>4. c_on \in BOOLEAN /\ (c_on' = FALSE => late' = NoFrame)
  BY <1>2 DEF TInv, TypeOK
<1> QED BY <1>1, <1>2, <1>3, <1>4, CardGone

\* What it sends meets the first frame of a call: it has not the number that
\* the call waits for, if the call found the two ends in step.
LEMMA LateArrivesStep == ASSUME TInv, LateArrives PROVE TInv'
<1> USE DEF Sends, OnWay, Answering
<1>1. /\ air' = late /\ late' = NoFrame /\ stale' = TRUE /\ lost' = Unheard
      /\ UNCHANGED <<readerVars, c_on, c_num, c_in, c_out, c_last, c_wtx, ran, done, call, start>>
      /\ late # NoFrame /\ air.by = "reader"
  BY DEF LateArrives
<1>2. /\ air # NoFrame /\ air.kind = "I" /\ c_on /\ late.by = "card" /\ ~stale
      /\ start.clean => c_in = <<>>
      /\ late.kind \in {"I", "R"} => late.num = c_num
      /\ late.kind = "R" => c_in # <<>>
  BY <1>1 DEF TInv, Busy, NoFrame
<1>3. rx = <<>> /\ rx' = <<>> /\ call' = call
  BY <1>1, <1>2 DEF TInv, Commands, readerVars
<1>4. lost \in {0, 1} /\ lost' = Flip(lost) /\ lost' \in {0, 1} /\ lost' # lost
  BY <1>1, <1>2, Flips DEF Unheard, TInv, TypeOK
<1>5. TypeOK' /\ Calling'
  BY <1>1, <1>2, <1>4, Frames DEF TInv, TypeOK, Calling, readerVars
<1>6. Numbers'
  BY <1>1, <1>2, <1>4 DEF TInv, Numbers, Calling, readerVars
<1>7. Answers'
  <2>1. rx' = Units(call', 0, Len(rx'))
    BY <1>3, UnitsNone
  <2> QED BY <1>1, <2>1 DEF Answers, FreshAnswer
<1>8. Commands'
  BY <1>1, <1>2, <1>3 DEF Commands
<1>9. Busy' /\ Stale'
  BY <1>1, <1>2, <1>3 DEF Busy, Stale
<1>10. WholeCommand' /\ WholeAnswer'
  BY <1>1 DEF TInv, WholeCommand, WholeAnswer, readerVars
<1> QED BY <1>5, <1>6, <1>7, <1>8, <1>9, <1>10 DEF TInv

\* The card's block has the other number only if the two are not in step.
LEMMA WrongToggleStep == ASSUME TInv, WrongToggle PROVE TInv'
BY Frames DEF WrongToggle, Return, readerVars, cardVars, history, NoFrame, SBlock, TInv,
   TypeOK, Calling, Numbers, Answers, Commands, Busy, Stale, FreshAnswer, WholeCommand, WholeAnswer, Sends, OnWay, Answering

\* The card's place in the answer stays.
LEMMA ExtendStep == ASSUME TInv, Extend PROVE TInv'
BY Frames DEF Extend, readerVars, cardVars, history, NoFrame, SBlock, TInv,
   TypeOK, Calling, Numbers, Answers, Commands, Busy, Stale, FreshAnswer, WholeCommand, WholeAnswer, Sends, OnWay, Answering

\* The call fails.
LEMMA BadExtensionStep == ASSUME TInv, BadExtension PROVE TInv'
BY Frames DEF BadExtension, Return, readerVars, cardVars, history, NoFrame, SBlock, TInv,
   TypeOK, Calling, Numbers, Answers, Commands, Busy, Stale, FreshAnswer, WholeCommand, WholeAnswer, Sends, OnWay, Answering

\* A command starts a new chain with the next number.
LEMMA TransactStep == ASSUME TInv, NEW len \in 0 .. MaxTx, Transact(len) PROVE TInv'
<1> USE DEF Sends, OnWay, Answering
<1>1. /\ air = NoFrame /\ rf_l3 /\ call < MaxCalls
      /\ call' = call + 1 /\ tx_len' = len /\ rx' = <<>> /\ c_wtx' = 0
      /\ start' = [clean |-> c_in = <<>>, instep |-> toggle = c_num] /\ stale' = FALSE
      /\ UNCHANGED <<rf_l3, c_on, c_num, c_in, c_out, c_last, late, ran, done, lost>>
  BY DEF Transact
<1>2. /\ call \in Nat /\ call' \in 0 .. MaxCalls /\ ran \in 0 .. call /\ ran < call'
      /\ len \in Nat
  BY <1>1, TclAssumption DEF TInv, TypeOK
<1>3. Units(call', 0, Len(rx')) = rx' /\ Len(rx') = 0
  BY <1>1, UnitsNone
<1>4. CASE len = 0
  <2>1. air' = NoFrame /\ ret' = 0 /\ next_tx' = 0 /\ toggle' = toggle
    BY <1>4 DEF Transact, Return
  <2>2. TypeOK' /\ Calling'
    <3>1. start' \in [clean : BOOLEAN, instep : BOOLEAN] /\ stale' \in BOOLEAN /\ air' \in Frame
      BY <1>1, <2>1, Frames
    <3>2. rx' \in Seq(Byte) /\ call' \in 0 .. MaxCalls /\ tx_len' \in 0 .. MaxTx
      BY <1>1, <1>2
    <3>3. next_tx' \in 0 .. tx_len' /\ c_wtx' \in 0 .. MaxWtx /\ ran' \in 0 .. call' /\ ret' \in {0, 1}
      BY <1>1, <1>2, <2>1, TclAssumption
    <3> QED BY <1>1, <2>1, <3>1, <3>2, <3>3 DEF TInv, TypeOK, Calling, NoFrame
  <2>3. Numbers' /\ Answers' /\ Commands'
    BY <1>1, <1>3, <2>1 DEF TInv, Numbers, Answers, FreshAnswer, Commands, NoFrame
  <2>4. WholeCommand' /\ WholeAnswer'
    BY <1>1, <1>2, <2>1 DEF WholeCommand, WholeAnswer
  <2>5. Busy' /\ Stale'
    BY <1>1, <2>1 DEF TInv, Busy, Stale
  <2> QED BY <2>2, <2>3, <2>4, <2>5 DEF TInv
<1>5. CASE len # 0
  <2> DEFINE n == Fits(len, 0)
  <2>1. /\ toggle' = Flip(toggle) /\ next_tx' = 0 + n /\ ret' = ret
        /\ air' = IBlock("reader", Flip(toggle), Chained(len, 0), Units(call + 1, 0, n))
    BY <1>5 DEF Transact, Refill
  <2>2. n \in Nat /\ 0 + n \in 0 .. len /\ (Chained(len, 0) <=> 0 + n < len)
    BY <1>2, FitsLeft
  <2> HIDE DEF n
  <2>3. /\ toggle \in {0, 1} /\ Flip(toggle) \in {0, 1} /\ Flip(toggle) # toggle
        /\ c_num \in {0, 1} /\ lost \in {0, 1}
    BY Flips DEF TInv, TypeOK
  <2>4. /\ air'.by = "reader" /\ air'.kind = "I" /\ air'.num = Flip(toggle)
        /\ (air'.more <=> 0 + n < len) /\ air'.data = Units(call', 0, n)
        /\ air' \in Frame
    <3>1. Units(call + 1, 0, n) \in Seq(Byte)
      BY <1>2, <2>2, UnitsType, call + 1 \in Nat, 0 \in Nat
    <3>2. Chained(len, 0) \in BOOLEAN
      BY DEF Chained
    <3>3. air' \in Frame
      BY <2>1, <2>3, <3>1, <3>2, Frames
    <3> QED BY <1>1, <2>1, <2>2, <3>3 DEF IBlock
  <2>5. TypeOK' /\ Calling'
    <3>1. start' \in [clean : BOOLEAN, instep : BOOLEAN] /\ stale' \in BOOLEAN
      BY <1>1
    <3>2. rx' \in Seq(Byte) /\ call' \in 0 .. MaxCalls /\ tx_len' \in 0 .. MaxTx
      BY <1>1, <1>2
    <3>3. next_tx' \in 0 .. tx_len' /\ c_wtx' \in 0 .. MaxWtx /\ ran' \in 0 .. call'
      BY <1>1, <1>2, <2>1, <2>2, TclAssumption
    <3> QED BY <1>1, <2>1, <2>3, <2>4, <3>1, <3>2, <3>3 DEF TInv, TypeOK, Calling
  <2>6. Numbers'
    BY <1>1, <2>1, <2>3, <2>4 DEF TInv, Numbers, NoFrame
  <2>7. Answers'
    BY <1>1, <1>3, <2>4 DEF Answers, FreshAnswer
  <2>8. Commands'
    <3>1. start'.clean => c_in' = <<>>
      BY <1>1
    <3>2. c_in' = <<>> => Len(c_in') = 0 /\ c_in' = Units(call', 0, Len(c_in'))
      BY UnitsNone
    <3>3. air'.data # <<>>
      <4>1. n \in Nat /\ n # 0
        BY <1>2, <1>5, FitsSome DEF n
      <4>2. Len(air'.data) = n
        BY <1>2, <2>4, <4>1, UnitsType, 0 \in Nat, call' \in Nat
      <4> QED BY <4>1, <4>2
    <3> QED BY <1>1, <2>1, <2>2, <2>4, <3>1, <3>2, <3>3 DEF Commands
  <2>10. Busy' /\ Stale'
    BY <1>1, <2>4 DEF TInv, Busy, Stale
  <2>9. WholeCommand' /\ WholeAnswer'
    BY <1>1, <1>2, <2>4 DEF WholeCommand, WholeAnswer, NoFrame
  <2> QED BY <2>5, <2>6, <2>7, <2>8, <2>9, <2>10 DEF TInv
<1> QED BY <1>4, <1>5

\* An acknowledgement fetches the next block, which goes on where the card is.
LEMMA AcknowledgedStep == ASSUME TInv, Acknowledged PROVE TInv'
<1> USE DEF Sends, OnWay, Answering
<1>1. /\ air.by = "card" /\ air.kind = "R" /\ air.num = toggle
      /\ UNCHANGED <<rf_l3, tx_len, rx, cardVars, history>>
  BY DEF Acknowledged
<1>2. /\ call \in Nat /\ tx_len \in Nat /\ next_tx \in 0 .. tx_len
      /\ toggle \in {0, 1} /\ c_num \in {0, 1} /\ lost \in {0, 1}
  BY TclAssumption DEF TInv, TypeOK
<1>3. rf_l3 /\ c_on /\ toggle = c_num /\ lost = 0
  BY <1>1 DEF TInv, Calling, Numbers, NoFrame
<1>6. late = NoFrame /\ (stale => ~start.instep /\ ~start.clean)
  BY <1>1, <1>3 DEF TInv, Busy, Stale, Numbers, NoFrame
<1>4. CASE ~(next_tx < tx_len)
  <2>1. air' = NoFrame /\ ret' = 0 /\ UNCHANGED <<toggle, next_tx>>
    BY <1>4 DEF Acknowledged, Return
  <2>2. TypeOK' /\ Calling' /\ Numbers'
    BY <1>1, <1>3, <2>1, Frames DEF TInv, TypeOK, Calling, Numbers, NoFrame, cardVars, history
  <2>3. Answers' /\ Commands' /\ WholeCommand' /\ WholeAnswer'
    BY <1>1, <2>1
    DEF TInv, Answers, FreshAnswer, Commands, WholeCommand, WholeAnswer, NoFrame, cardVars, history
  <2>4. Busy' /\ Stale'
    BY <1>1, <1>6, <2>1 DEF Busy, Stale, cardVars
  <2> QED BY <2>2, <2>3, <2>4 DEF TInv
<1>5. CASE next_tx < tx_len
  <2> DEFINE n == Fits(tx_len, next_tx)
  <2>1. /\ toggle' = Flip(toggle) /\ next_tx' = next_tx + n /\ ret' = ret
        /\ air' = IBlock("reader", Flip(toggle), Chained(tx_len, next_tx), Units(call, next_tx, n))
    BY <1>5 DEF Acknowledged, Refill
  <2>2. /\ n \in Nat /\ next_tx + n \in 0 .. tx_len
        /\ (Chained(tx_len, next_tx) <=> next_tx + n < tx_len)
    BY <1>2, FitsLeft
  <2> HIDE DEF n
  <2>3. Flip(toggle) \in {0, 1} /\ Flip(toggle) # toggle
    BY <1>2, Flips
  <2>4. /\ air'.by = "reader" /\ air'.kind = "I" /\ air'.num = Flip(toggle)
        /\ (air'.more <=> next_tx + n < tx_len) /\ air'.data = Units(call, next_tx, n)
        /\ air' \in Frame
    <3>1. Units(call, next_tx, n) \in Seq(Byte)
      BY <1>2, <2>2, UnitsType, next_tx \in Nat
    <3>2. Chained(tx_len, next_tx) \in BOOLEAN
      BY DEF Chained
    <3>3. air' \in Frame
      BY <2>1, <2>3, <3>1, <3>2, Frames
    <3> QED BY <2>1, <2>2, <3>3 DEF IBlock
  <2>5. TypeOK' /\ Calling'
    BY <1>1, <1>3, <2>1, <2>2, <2>3, <2>4 DEF TInv, TypeOK, Calling, cardVars, history
  <2>6. Numbers'
    BY <1>1, <1>2, <1>3, <1>6, <2>1, <2>3, <2>4 DEF Numbers, cardVars, history
  <2>7. Answers'
    BY <1>1, <2>4 DEF TInv, Answers, FreshAnswer, cardVars, history
  <2>8. Commands'
    <3>1. start.clean => c_in = Units(call, 0, next_tx) /\ Len(c_in) = next_tx
      BY <1>1, <1>2, UnitsType, next_tx \in Nat, 0 \in Nat DEF TInv, Commands
    <3>2. next_tx' - next_tx = n /\ next_tx <= next_tx'
      BY <1>2, <2>1, <2>2
    <3>3. UNCHANGED <<tx_len, c_in, call, start>>
      BY <1>1 DEF cardVars, history
    <3>4. air'.data = Units(call, next_tx, next_tx' - next_tx)
      BY <2>4, <3>2
    <3>5. (air'.more <=> next_tx' < tx_len') /\ rx' = <<>>
      BY <1>1, <2>1, <2>4, <3>3 DEF TInv, Commands
    <3>6. air'.data # <<>>
      <4>1. n \in Nat /\ n # 0
        BY <1>2, <1>5, FitsSome DEF n
      <4>2. Len(air'.data) = n
        BY <1>2, <2>4, <4>1, UnitsType, next_tx \in Nat
      <4> QED BY <4>1, <4>2
    <3> QED BY <2>4, <3>1, <3>2, <3>3, <3>4, <3>5, <3>6 DEF Commands
  <2>10. Busy' /\ Stale'
    BY <1>1, <1>6 DEF Busy, Stale, cardVars, history
  <2>9. WholeCommand' /\ WholeAnswer'
    BY <1>1, <2>1, <2>4 DEF TInv, WholeCommand, WholeAnswer, cardVars, history, NoFrame
  <2> QED BY <2>5, <2>6, <2>7, <2>8, <2>9, <2>10 DEF TInv
<1> QED BY <1>4, <1>5

\* What is received goes on where the answer so far ends.
LEMMA ReceivedStep == ASSUME TInv, Received PROVE TInv'
<1> USE DEF Sends, OnWay, Answering
<1>1. /\ air.by = "card" /\ air.kind = "I" /\ air.num = toggle
      /\ rx' = rx \o air.data
      /\ UNCHANGED <<rf_l3, tx_len, next_tx, cardVars, history>>
  BY DEF Received
<1>2. /\ call \in Nat /\ toggle \in {0, 1} /\ c_num \in {0, 1} /\ lost \in {0, 1}
      /\ rx \in Seq(Byte) /\ Len(rx) \in Nat /\ c_out.sent \in Nat /\ c_out.len \in Nat
      /\ c_out.sent <= c_out.len
  BY TclAssumption DEF TInv, TypeOK
<1>3. rf_l3 /\ c_on /\ toggle = c_num /\ lost = 0
  BY <1>1 DEF TInv, Calling, Numbers, NoFrame
<1>8. late = NoFrame /\ (stale => ~start.instep)
  BY <1>1, <1>3 DEF TInv, Busy, Numbers, NoFrame
<1>9. rx' \in Seq(Byte) /\ UNCHANGED <<tx_len, c_out, c_in, late, call, ran, done, start, stale>>
  BY <1>1, <1>2 DEF TInv, TypeOK, Frame, cardVars, history
<1>4. ASSUME ~stale
      PROVE  /\ c_out.of = call /\ ran = call /\ Len(rx) <= c_out.sent
             /\ rx = Units(call, 0, Len(rx))
             /\ air.data = Units(call, Len(rx), c_out.sent - Len(rx))
             /\ (air.more <=> c_out.sent < c_out.len)
  BY <1>1, <1>4 DEF TInv, Answers, FreshAnswer
<1>5. ASSUME ~stale PROVE rx' = Units(call, 0, c_out.sent) /\ Len(rx') = c_out.sent
  <2> DEFINE a == Len(rx)
             b == c_out.sent
  <2>1. a \in Nat /\ b \in Nat /\ a <= b /\ rx = Units(call, 0, a) /\ air.data = Units(call, a, b - a)
    BY <1>2, <1>4, <1>5
  <2> HIDE DEF a, b
  <2>2. Units(call, 0, a) \o Units(call, a, b - a) = Units(call, 0, b)
    BY <1>2, <2>1, UnitsAppend
  <2>3. rx' = Units(call, 0, b)
    BY <1>1, <2>1, <2>2
  <2>4. rx' \in Seq(Byte) /\ Len(rx') = b
    BY <1>2, <2>1, <2>3, UnitsType, 0 \in Nat
  <2> QED BY <2>3, <2>4 DEF b
<1>6. CASE air.more
  <2>1. /\ toggle' = Flip(toggle) /\ air' = RBlock("reader", Flip(toggle)) /\ ret' = ret
    BY <1>6 DEF Received, More, AckNumber
  <2>2. /\ Flip(toggle) \in {0, 1} /\ Flip(toggle) # toggle
        /\ air'.by = "reader" /\ air'.kind = "R" /\ air'.num = toggle' /\ air' \in Frame
    BY <1>2, <2>1, Flips, Frames DEF RBlock
  <2>3. TypeOK' /\ Calling'
    BY <1>1, <1>3, <1>9, <2>1, <2>2 DEF TInv, TypeOK, Calling, cardVars, history
  <2>4. Numbers'
    BY <1>1, <1>2, <1>3, <2>1, <2>2 DEF TInv, Numbers, cardVars, history, NoFrame
  <2>5. Answers' /\ Commands'
    BY <1>2, <1>4, <1>5, <1>8, <1>9, <2>2 DEF Answers, FreshAnswer, Commands
  <2>7. Busy' /\ Stale'
    BY <1>8, <1>9, <2>2 DEF Busy, Stale
  <2>6. WholeCommand' /\ WholeAnswer'
    BY <1>1, <2>2 DEF TInv, WholeCommand, WholeAnswer, cardVars, history, NoFrame
  <2> QED BY <2>3, <2>4, <2>5, <2>6, <2>7 DEF TInv
<1>7. CASE ~air.more
  <2>1. air' = NoFrame /\ ret' = 1 /\ toggle' = toggle
    BY <1>7 DEF Received, More, Return
  <2>2. TypeOK' /\ Calling'
    BY <1>1, <1>9, <2>1, Frames DEF TInv, TypeOK, Calling, cardVars, history
  <2>3. Numbers'
    BY <1>1, <1>3, <2>1 DEF TInv, Numbers, NoFrame, cardVars, history
  <2>4. Answers' /\ Commands'
    BY <1>5, <1>8, <1>9, <2>1 DEF Answers, FreshAnswer, Commands, NoFrame
  <2>5. ~stale => c_out.sent = c_out.len
    BY <1>2, <1>4, <1>7
  <2>6. WholeCommand' /\ WholeAnswer'
    BY <1>4, <1>5, <1>9, <2>5 DEF TInv, WholeCommand, WholeAnswer
  <2>7. Busy' /\ Stale'
    BY <1>8, <1>9, <2>1 DEF Busy, Stale
  <2> QED BY <2>2, <2>3, <2>4, <2>6, <2>7 DEF TInv
<1> QED BY <1>6, <1>7

\* The frame the card answers with.
Goes(num) ==
  /\ air'.by = "card" /\ air'.kind \in {"I", "wtx", "rfu"}
  /\ air'.kind = "I" => air'.num = num
  /\ ~stale =>
       /\ air'.kind = "I" => /\ air'.data = Units(call, Len(rx), c_out'.sent - Len(rx))
                             /\ (air'.more <=> c_out'.sent < c_out'.len)
       /\ air'.kind # "I" => c_out'.sent = Len(rx)
       /\ c_out'.of = call /\ Len(rx) <= c_out'.sent

\* What the card sends of its answer goes on where the reader is.
LEMMA ReplyStep ==
  ASSUME TInv, NEW num \in {0, 1}, NEW out \in [of : Nat, len : Nat, sent : Nat],
         ~stale => out.of = call /\ out.sent = Len(rx), out.sent <= out.len, Reply(num, out)
  PROVE  /\ Goes(num) /\ air' \in Frame
         /\ c_out' \in [of : Nat, len : Nat, sent : Nat] /\ c_out'.sent <= c_out'.len
         /\ c_last' \in Frame /\ c_wtx' \in 0 .. MaxWtx
<1> USE DEF Goes
<1>1. /\ call \in Nat /\ Len(rx) \in Nat /\ c_last \in Frame /\ c_wtx \in 0 .. MaxWtx
      /\ MaxWtx \in Nat
  BY TclAssumption DEF TInv, TypeOK
<1>2. ASSUME NEW n \in 1 .. out.len - out.sent,
             air' = IBlock("card", num, out.sent + n < out.len, Units(out.of, out.sent, n)),
             c_out' = [out EXCEPT !.sent = @ + n], c_last' = air', UNCHANGED c_wtx
      PROVE  /\ air'.by = "card" /\ air'.kind = "I" /\ air' \in Frame /\ c_last' \in Frame
             /\ air'.num = num /\ (air'.more <=> c_out'.sent < c_out'.len)
             /\ c_out' \in [of : Nat, len : Nat, sent : Nat] /\ c_out'.sent <= c_out'.len
             /\ n \in Nat /\ c_wtx' \in 0 .. MaxWtx
             /\ ~stale => /\ air'.data = Units(call, Len(rx), n)
                          /\ c_out'.of = call /\ c_out'.sent = Len(rx) + n
  <2>1. n \in Nat /\ out.sent + n \in Nat /\ out.sent + n <= out.len
    BY <1>1
  <2>2. Units(out.of, out.sent, n) \in Seq(Byte)
    BY <2>1, UnitsType
  <2>3. air' \in Frame
    <3>1. (out.sent + n < out.len) \in BOOLEAN
      OBVIOUS
    <3> QED BY <1>2, <2>2, <3>1, Frames
  <2>4. c_out' = [of |-> out.of, len |-> out.len, sent |-> out.sent + n]
    BY <1>2
  <2>5. /\ air'.by = "card" /\ air'.kind = "I" /\ air'.num = num
        /\ air'.data = Units(out.of, out.sent, n) /\ (air'.more <=> out.sent + n < out.len)
    BY <1>2 DEF IBlock
  <2> QED BY <1>1, <1>2, <2>1, <2>3, <2>4, <2>5
<1>3. ASSUME NEW kind \in {"wtx", "rfu"}, c_wtx < MaxWtx, c_wtx' = c_wtx + 1,
             air' = SBlock("card", kind), c_out' = out, UNCHANGED c_last
      PROVE  /\ air'.by = "card" /\ air'.kind = kind /\ air' \in Frame /\ c_last' \in Frame
             /\ c_wtx' \in 0 .. MaxWtx
  <2>1. air' \in Frame
    BY <1>3, Frames
  <2>2. c_wtx' \in 0 .. MaxWtx
    BY <1>1, <1>3
  <2> QED BY <1>1, <1>3, <2>1, <2>2 DEF SBlock
<1>4. CASE \E n \in 1 .. out.len - out.sent :
             /\ air' = IBlock("card", num, out.sent + n < out.len, Units(out.of, out.sent, n))
             /\ c_out' = [out EXCEPT !.sent = @ + n]
             /\ c_last' = air' /\ UNCHANGED c_wtx
  <2>1. PICK n \in 1 .. out.len - out.sent :
             /\ air' = IBlock("card", num, out.sent + n < out.len, Units(out.of, out.sent, n))
             /\ c_out' = [out EXCEPT !.sent = @ + n]
             /\ c_last' = air' /\ UNCHANGED c_wtx
    BY <1>4
  <2>2. ~stale => n = c_out'.sent - Len(rx) /\ Len(rx) <= c_out'.sent
    BY <1>1, <1>2, <2>1
  <2> QED BY <1>2, <2>1, <2>2
<1>5. CASE \E kind \in {"wtx", "rfu"} :
             /\ c_wtx < MaxWtx /\ c_wtx' = c_wtx + 1
             /\ air' = SBlock("card", kind) /\ c_out' = out
             /\ UNCHANGED c_last
  BY <1>1, <1>3, <1>5
<1> QED BY <1>4, <1>5 DEF Reply

\* The card keeps what it has of a chain and counts the block.
LEMMA CardChainsStep == ASSUME TInv, CardChains PROVE TInv'
<1> USE DEF Sends, OnWay, Answering
<1>1. /\ c_on /\ air.by = "reader" /\ air.kind = "I" /\ air.more
      /\ c_num' = Flip(c_num) /\ c_in' = c_in \o air.data
      /\ air' = RBlock("card", Flip(c_num)) /\ c_last' = air'
      /\ late = NoFrame
      /\ UNCHANGED <<readerVars, c_on, c_out, c_wtx, late, ran, done, history>>
  BY DEF CardChains, CardTurn
<1>2. /\ toggle \in {0, 1} /\ c_num \in {0, 1} /\ lost \in {0, 1}
      /\ Flip(c_num) \in {0, 1} /\ Flip(c_num) # c_num
      /\ call \in Nat /\ next_tx \in Nat /\ c_in \in Seq(Byte) /\ Len(c_in) \in Nat
      /\ air.data \in Seq(Byte)
  BY Flips DEF TInv, TypeOK, Frame
<1>3. air'.by = "card" /\ air'.kind = "R" /\ air'.num = Flip(c_num) /\ air' \in Frame
  BY <1>1, <1>2, Frames DEF RBlock
<1>4. TypeOK' /\ Calling'
  <2>1. c_in' \in Seq(Byte)
    BY <1>1, <1>2
  <2> QED BY <1>1, <1>2, <1>3, <2>1 DEF TInv, TypeOK, Calling, readerVars, history, NoFrame
<1>5. Numbers'
  BY <1>1, <1>2, <1>3 DEF TInv, Calling, Numbers, readerVars, history, NoFrame
<1>6. Answers' /\ WholeCommand' /\ WholeAnswer'
  BY <1>1, <1>3 DEF TInv, Answers, FreshAnswer, WholeCommand, WholeAnswer, readerVars, history, NoFrame
<1>8. Busy' /\ Stale'
  BY <1>1, <1>3 DEF TInv, Busy, Stale, history, NoFrame
<1>7. Commands'
  <2>1. ASSUME start.clean PROVE c_in' = Units(call, 0, next_tx)
    BY <1>1, <1>2, <2>1, ChainSoFar
  <2>2. rx = <<>>
    BY <1>1 DEF TInv, Commands
  <2>3. c_in' # <<>>
    <3>1. air.data # <<>>
      BY <1>1 DEF TInv, Commands
    <3> QED BY <1>1, <1>2, <3>1
  <2> QED BY <1>1, <1>3, <2>1, <2>2, <2>3 DEF Commands, readerVars, history
<1> QED BY <1>4, <1>5, <1>6, <1>7, <1>8 DEF TInv

\* Once the card has answered, the reader's place in the answer is its own.
LEMMA Replied ==
  ASSUME Goes(c_num'), UNCHANGED <<rx, call, toggle, lost, start, stale>>, late' = NoFrame,
         ~stale => ran' = call, FreshAnswer, toggle = c_num' <=> lost = 0,
         start.instep => (lost = 0 <=> ~stale), stale /\ start.instep => rx = <<>>
  PROVE  Numbers' /\ Answers' /\ Commands' /\ WholeAnswer' /\ Busy' /\ Stale'
<1> USE DEF Sends, OnWay, Answering
<1>1. air'.by = "card" /\ air'.kind # "R" /\ air'.kind \in {"I", "wtx", "rfu"} /\ air' # NoFrame
  BY DEF Goes, NoFrame
<1>2. Numbers'
  BY <1>1 DEF Numbers, Goes
<1>3. Answers'
  BY <1>1 DEF Answers, FreshAnswer, Goes
<1>4. Commands'
  BY <1>1 DEF Commands
<1>5. WholeAnswer'
  BY <1>1 DEF WholeAnswer
<1>6. Busy' /\ Stale'
  BY <1>1 DEF Busy, Stale
<1> QED BY <1>2, <1>3, <1>4, <1>5, <1>6

\* The card has the whole command and starts on its answer.
LEMMA CardExecutesStep == ASSUME TInv, CardExecutes PROVE TInv'
<1> USE DEF Sends, OnWay, Answering
<1>1. PICK m \in 1 .. MaxAnswer :
        /\ c_on /\ air.by = "reader" /\ air.kind = "I" /\ ~air.more
        /\ c_num' = Flip(c_num) /\ c_in' = <<>>
        /\ done' = c_in \o air.data /\ ran' = call
        /\ Reply(Flip(c_num), [of |-> call, len |-> m, sent |-> 0])
        /\ late = NoFrame /\ UNCHANGED <<readerVars, c_on, late, history>>
  BY DEF CardExecutes, CardTurn
<1>2. /\ toggle \in {0, 1} /\ c_num \in {0, 1} /\ lost \in {0, 1}
      /\ Flip(c_num) \in {0, 1} /\ Flip(c_num) # c_num /\ m \in Nat
      /\ call \in Nat /\ tx_len \in Nat /\ next_tx \in 0 .. tx_len
      /\ c_in \in Seq(Byte) /\ Len(c_in) \in Nat /\ air.data \in Seq(Byte)
  BY Flips, TclAssumption DEF TInv, TypeOK, Frame
<1> DEFINE out == [of |-> call, len |-> m, sent |-> 0]
<1>3. rx = <<>> /\ Len(rx) = 0
  BY <1>1 DEF TInv, Commands
<1>4. out \in [of : Nat, len : Nat, sent : Nat] /\ out.of = call /\ out.sent = Len(rx)
      /\ out.sent <= out.len
  BY <1>2, <1>3
<1> HIDE DEF out
<1>5. /\ Goes(c_num') /\ air' \in Frame
      /\ c_out' \in [of : Nat, len : Nat, sent : Nat] /\ c_out'.sent <= c_out'.len
      /\ c_last' \in Frame /\ c_wtx' \in 0 .. MaxWtx
  BY <1>1, <1>2, <1>4, ReplyStep DEF out
<1>6. TypeOK' /\ Calling'
  <2>1. done' \in Seq(Byte) /\ c_in' \in Seq(Byte)
    BY <1>1, <1>2
  <2>2. ran' \in 0 .. call
    BY <1>1, <1>2
  <2> QED BY <1>1, <1>2, <1>5, <2>1, <2>2
         DEF TInv, TypeOK, Calling, Goes, readerVars, history, NoFrame
<1>7. Numbers' /\ Answers' /\ Commands' /\ WholeAnswer' /\ Busy' /\ Stale'
  <2>1. /\ rf_l3 /\ air # NoFrame /\ (toggle = c_num <=> lost # 0)
        /\ start.instep => (lost = 0 <=> ~stale)
    BY <1>1 DEF TInv, Calling, Numbers, NoFrame
  <2>2. toggle = c_num' <=> lost = 0
    BY <1>1, <1>2, <2>1
  <2>3. UNCHANGED <<rx, call, toggle, lost, start, stale>> /\ ran' = call /\ late' = NoFrame
    BY <1>1 DEF readerVars, history
  <2>4. FreshAnswer
    BY DEF TInv, Answers
  <2> QED BY <1>3, <1>5, <2>1, <2>2, <2>3, <2>4, Replied
<1>8. WholeCommand'
  <2>1. next_tx = tx_len
    BY <1>1, <1>2 DEF TInv, Commands
  <2>2. ASSUME start.clean PROVE done' = Units(call, 0, next_tx)
    BY <1>1, <1>2, <2>2, ChainSoFar
  <2> QED BY <1>1, <2>1, <2>2 DEF WholeCommand, readerVars, history
<1> QED BY <1>6, <1>7, <1>8 DEF TInv

\* A card that is acknowledged, or given more time, goes on with its answer.
LEMMA GoesOn ==
  ASSUME TInv, air.by = "reader", air.kind \in {"R", "wtx"}, c_on,
         c_num' = IF air.kind = "R" THEN Flip(c_num) ELSE c_num,
         Reply(c_num', c_out), UNCHANGED <<readerVars, c_on, c_in, late, ran, done, history>>
  PROVE  TInv'
<1> USE DEF Sends, OnWay, Answering
<1>1. /\ toggle \in {0, 1} /\ c_num \in {0, 1} /\ lost \in {0, 1} /\ c_num' \in {0, 1}
      /\ Flip(c_num) # c_num /\ Flip(c_num) \in {0, 1}
      /\ c_out \in [of : Nat, len : Nat, sent : Nat] /\ c_out.sent <= c_out.len
  BY Flips DEF TInv, TypeOK
<1>2. ~stale => c_out.of = call /\ ran = call /\ c_out.sent = Len(rx)
  BY DEF TInv, Answers
<1>3. /\ Goes(c_num') /\ air' \in Frame
      /\ c_out' \in [of : Nat, len : Nat, sent : Nat] /\ c_out'.sent <= c_out'.len
      /\ c_last' \in Frame /\ c_wtx' \in 0 .. MaxWtx
  BY <1>1, <1>2, ReplyStep
<1>4. TypeOK' /\ Calling'
  BY <1>1, <1>3 DEF TInv, TypeOK, Calling, Goes, readerVars, history, NoFrame
<1>5. Numbers' /\ Answers' /\ Commands' /\ WholeAnswer' /\ Busy' /\ Stale'
  <2>1. /\ rf_l3 /\ air # NoFrame
        /\ toggle = c_num <=> IF air.kind = "R" THEN lost # 0 ELSE lost = 0
        /\ start.instep => (lost = 0 <=> ~stale)
    BY DEF TInv, Calling, Numbers, NoFrame
  <2>2. toggle = c_num' <=> lost = 0
    BY <1>1, <2>1
  <2>3. UNCHANGED <<rx, call, toggle, lost, start, stale>> /\ (~stale => ran' = call)
    BY <1>2 DEF readerVars, history
  <2>4. FreshAnswer
    BY DEF TInv, Answers
  <2>5. late' = NoFrame
    BY <2>1 DEF TInv, Busy
  <2>6. stale /\ start.instep => rx = <<>>
    BY <2>1 DEF TInv, Stale
  <2> QED BY <1>3, <2>1, <2>2, <2>3, <2>4, <2>5, <2>6, Replied
<1>6. WholeCommand'
  BY DEF TInv, WholeCommand, readerVars, history
<1> QED BY <1>4, <1>5, <1>6 DEF TInv

\* An acknowledgement never has the card's own number.
LEMMA CardAcknowledgedStep == ASSUME TInv, CardAcknowledged PROVE TInv'
<1>1. c_on /\ air.by = "reader" /\ air.kind = "R"
  BY DEF CardAcknowledged, CardTurn
<1>2. air.num # c_num
  BY <1>1 DEF TInv, Calling, Numbers, Sends, OnWay, NoFrame
<1>3. c_num' = Flip(c_num) /\ Reply(c_num', c_out)
  BY <1>2 DEF CardAcknowledged
<1> QED BY <1>1, <1>3, GoesOn DEF CardAcknowledged

\* The card was given the time it asked for, and goes on as it would have.
LEMMA CardExtendedStep == ASSUME TInv, CardExtended PROVE TInv'
BY GoesOn DEF CardExtended, CardTurn

-----------------------------------------------------------------------------
(* The theorems.                                                           *)

\* The invariant holds before the card is powered on.
LEMMA TStart == Init => TInv
<1> SUFFICES ASSUME Init PROVE TInv
  OBVIOUS
<1>1. Units(0, 0, 0) = <<>> /\ <<>> \in Seq(Byte) /\ Len(<<>>) = 0
  BY UnitsNone
<1>2. rx = Units(call, 0, Len(rx))
  BY <1>1 DEF Init
<1>3. done = Units(call, 0, tx_len)
  BY <1>1 DEF Init
<1>4. TypeOK
  <2>1. NoAnswer \in [of : Nat, len : Nat, sent : Nat] /\ NoAnswer.sent <= NoAnswer.len
    BY DEF NoAnswer
  <2>2. /\ toggle = 0 /\ ret = 0 /\ tx_len = 0 /\ next_tx = 0
        /\ c_num = 1 /\ c_wtx = 0 /\ call = 0 /\ ran = 0 /\ lost = 0
    BY DEF Init
  <2>3. MaxTx \in Nat /\ MaxWtx \in Nat /\ MaxCalls \in Nat
    BY TclAssumption
  <2>4. /\ toggle \in {0, 1} /\ ret \in {0, 1}
        /\ tx_len \in 0 .. MaxTx /\ next_tx \in 0 .. tx_len /\ c_num \in {0, 1}
        /\ c_wtx \in 0 .. MaxWtx /\ call \in 0 .. MaxCalls /\ ran \in 0 .. call /\ lost \in {0, 1}
    BY <2>2, <2>3
  <2>5. rx \in Seq(Byte) /\ c_in \in Seq(Byte) /\ done \in Seq(Byte)
    BY <1>1 DEF Init
  <2>6. /\ air \in Frame /\ c_last \in Frame /\ late \in Frame /\ stale \in BOOLEAN /\ c_on \in BOOLEAN /\ rf_l3 \in BOOLEAN
        /\ start \in [clean : BOOLEAN, instep : BOOLEAN]
    BY Frames DEF Init
  <2>7. c_out \in [of : Nat, len : Nat, sent : Nat] /\ c_out.sent <= c_out.len
    BY <2>1 DEF Init
  <2> QED BY <2>4, <2>5, <2>6, <2>7 DEF TypeOK
<1>5. Calling /\ Numbers /\ Commands
  BY DEF Init, NoFrame, Calling, Numbers, Commands, Sends, OnWay
<1>6. Answers
  BY <1>2 DEF Init, NoFrame, Answers, FreshAnswer, Sends, Answering
<1>8. Busy /\ Stale
  BY DEF Init, Busy, Stale
<1>7. WholeCommand /\ WholeAnswer
  BY <1>3 DEF Init, WholeCommand, WholeAnswer
<1> QED BY <1>4, <1>5, <1>6, <1>7, <1>8 DEF TInv

\* Every step of either end keeps the invariant.
LEMMA TStep == TInv /\ [Next]_vars => TInv'
<1> SUFFICES ASSUME TInv, [Next]_vars PROVE TInv'
  OBVIOUS
<1>1. ASSUME FieldFails PROVE TInv'
  BY <1>1, CardGone DEF FieldFails, NoFrame
<1>2. ASSUME CardLeaves PROVE TInv'
  BY <1>2, CardGone DEF CardLeaves
<1>3. ASSUME UNCHANGED vars PROVE TInv'
  BY <1>3 DEF vars, readerVars, cardVars, history, TInv, TypeOK, Calling, Numbers, Answers,
     Commands, Busy, Stale, FreshAnswer, WholeCommand, WholeAnswer, Sends, OnWay, Answering
<1> QED BY <1>1, <1>2, <1>3, PowerOnStep, SelectFailsStep, UnsupportedStep, TransactStep,
     LostStep, TooLateStep, LateArrivesStep, LateUnheardStep, WrongToggleStep, AcknowledgedStep, ExtendStep, BadExtensionStep, ReceivedStep,
     CardChainsStep, CardExecutesStep, CardAcknowledgedStep, CardExtendedStep DEF Next

\* The invariant holds whatever is lost, and whatever the card asks for.
THEOREM TclInvariance == Spec => []TInv
BY TStart, TStep, PTL DEF Spec

\* The state the block protocol of proto_tcl.c works on keeps its type.
THEOREM TclType == Spec => []TypeOK
<1>1. TInv => TypeOK
  BY DEF TInv
<1> QED BY <1>1, TclInvariance, PTL

\* Between calls the two block numbers differ just after an odd number of
\* blocks to the card was lost (the toggle of proto_tcl.c 320-333).
THEOREM TclInStep == Spec => []InStep
<1>1. TInv => InStep
  BY DEF TInv, Numbers, InStep, OnWay, Sends, NoFrame
<1> QED BY <1>1, TclInvariance, PTL

\* No call returns a byte of an answer to an earlier command, nor one twice,
\* unless that answer came late into a call that found the ends out of step.
THEOREM TclFreshAnswer == Spec => []FreshAnswer
<1>1. TInv => FreshAnswer
  BY DEF TInv, Answers, FreshAnswer
<1> QED BY <1>1, TclInvariance, PTL

\* A card that had no part of an earlier chain carries out the command whole.
THEOREM TclWholeCommand == Spec => []WholeCommand
<1>1. TInv => WholeCommand
  BY DEF TInv
<1> QED BY <1>1, TclInvariance, PTL

\* In step, success means the whole answer.
THEOREM TclWholeAnswer == Spec => []WholeAnswer
<1>1. TInv => WholeAnswer
  BY DEF TInv
<1> QED BY <1>1, TclInvariance, PTL

=============================================================================
