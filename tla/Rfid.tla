------------------------------- MODULE Rfid -------------------------------
(***************************************************************************)
(* The RFID field of an Omnikey reader as a chip card slot (cci_rfid.c,    *)
(* iso14443a.c, clrc632.c, omnikey.c): register accesses to the CLRC632    *)
(* chip, frames to the tag, and the slot's own state. Every access is an   *)
(* exchange over USB that may fail, with or without having taken effect.   *)
(* The chip and the tags are external.                                     *)
(***************************************************************************)
EXTENDS Sequences, Timer

CONSTANTS
  TagReset,   \* what the memset of _iso14443a_anticol zeroes.  "pointer": its own
              \* argument, as the source has it, through which it writes next;
              \* "tag": what the argument points to, for all that lies behind
  Speeds,     \* the speeds beside 106K that a tag may take
  Waits,      \* the FWI of the tags, NoTb for one that does not say
  MaxCalls    \* bound: calls in a behaviour

NoTb == 16

RfidAssumption ==
  /\ TagReset \in {"pointer", "tag"} /\ 106 \notin Speeds
  /\ Waits \subseteq 0..NoTb /\ 4 \in Waits /\ MaxCalls \in Nat

VARIABLES
  chip,       \* powered down or not, RF_EN bits, FIFO clean or not, speed
  tags,       \* number of tags in the field, and the state of the one that is
              \* (or will be) selected, with what kind it is
  d_num_rf,   \* 1 once the field is set up
  i_status, rf_l3,  \* the slot's status; whether it has a protocol
  level,      \* the cascade level of the selection in progress
  op,         \* the call in progress
  acc, frame, \* its next register access, or its next frame
  ret,        \* what the last call returned, "crash" if it never did
  moved,      \* history: the tag that was selected was taken away or reset
  fault,      \* history: an access or a frame of this call failed, or a tag came or went
  calls       \* number of calls made
slot == <<d_num_rf, i_status, rf_l3, level>>
place == <<op, acc, frame>>
vars == <<chip, tags, slot, place, ret, moved, fault, calls>>

Kinds == [uid : 1..3, tcl : BOOLEAN, bitframe : BOOLEAN, fwi : Waits]
NoTag == [n |-> 0, st |-> "off", cl |-> 0, speed |-> 106,
          kind |-> [uid |-> 1, tcl |-> TRUE, bitframe |-> TRUE, fwi |-> 4]]

Field(c) == ~c.down /\ c.rf
(* A tag without a field forgets everything.                               *)
Powered(c, t) == IF t.n = 0 THEN NoTag
                 ELSE IF ~Field(c) THEN [t EXCEPT !.st = "off", !.cl = 0, !.speed = 106]
                 ELSE IF t.st = "off" THEN [t EXCEPT !.st = "idle"] ELSE t

Init ==
  /\ chip = [down |-> FALSE, rf |-> FALSE, fifo |-> "clean", speed |-> 106]
  /\ tags = NoTag
  /\ d_num_rf = 0 /\ i_status = "ACTIVE" /\ rf_l3 = FALSE /\ level = 0
  /\ op = "init" /\ acc = 1 /\ frame = "none" /\ ret = "none"
  /\ moved = TRUE /\ fault = FALSE /\ calls = 0

-----------------------------------------------------------------------------
(* Register accesses. rf_power clears the RF_EN bits to switch the field   *)
(* on and sets them to switch it off; iso14443a_init sets them again.      *)
(* Bug (or the fix of one): the bits are set to switch the field on.       *)
RfPower_SetToTurnOn(c, on) == [c EXCEPT !.rf = on]
RfPower(c, on) == [c EXCEPT !.rf = ~on]
AsicPower(c, on) == [c EXCEPT !.down = ~on]
FlushFifo(c) == [c EXCEPT !.fifo = "clean", !.down = FALSE]
InitTxControl(c) == [c EXCEPT !.rf = TRUE]
(* Bug: the rate that PPS agreed on is left.                               *)
InitRate_Kept(c) == c
InitRate(c) == [c EXCEPT !.speed = 106]

Accesses == [init |-> <<"enable", "power_off", "power_on", "page0", "tx_control", "rf_off">>,
             on   |-> <<"rf_on", "flush", "tx_control", "rate">>,
             off  |-> <<"rf_off">>]

Effect(a, c) ==
  CASE a = "power_off"  -> AsicPower(c, FALSE)
    [] a = "power_on"   -> AsicPower(c, TRUE)
    [] a = "tx_control" -> InitTxControl(c)
    [] a = "rf_off"     -> RfPower(c, FALSE)
    [] a = "rf_on"      -> RfPower(c, TRUE)
    [] a = "flush"      -> FlushFifo(c)
    [] a = "rate"       -> InitRate(c)
    [] OTHER            -> c

InAccesses == acc > 0
Access == Accesses[op][acc]

SetChip(c) == chip' = c /\ tags' = Powered(c, tags)
Finish(r) == op' = "none" /\ acc' = 0 /\ frame' = "none" /\ ret' = r
NextFrame(f) == frame' = f /\ acc' = 0 /\ UNCHANGED <<op, ret>>

-----------------------------------------------------------------------------
(* cci_power_on, cci_power_off and cci_transact of the field's slot.       *)
Call ==
  /\ op = "none" /\ ret # "crash" /\ d_num_rf = 1 /\ calls < MaxCalls
  /\ calls' = calls + 1 /\ fault' = FALSE

PowerOn ==
  /\ Call /\ op' = "on" /\ acc' = 1
  /\ moved' = TRUE
  /\ UNCHANGED <<chip, tags, slot, frame, ret>>

PowerOff ==
  /\ Call /\ op' = "off" /\ acc' = 1
  /\ i_status' = "NOT_PRESENT"
  /\ UNCHANGED <<chip, tags, d_num_rf, rf_l3, level, frame, ret, moved>>

Transact ==
  /\ Call /\ rf_l3
  /\ op' = "transact" /\ frame' = "block"
  /\ UNCHANGED <<chip, tags, slot, acc, ret, moved>>

TransactRefused ==
  /\ Call /\ ~rf_l3
  /\ ret' = "fail"
  /\ UNCHANGED <<chip, tags, slot, place, moved>>

(* Bug: the select code is not set to that of the first cascade level.     *)
DoSelect_NoCode ==
  /\ rf_l3' = FALSE /\ level' = 0
  /\ UNCHANGED <<d_num_rf, i_status, fault>>
  /\ IF TagReset = "tag" THEN NextFrame("reqa") ELSE Finish("crash")

(* do_select up to the first frame                                         *)
DoSelect ==
  /\ rf_l3' = FALSE /\ level' = 1
  /\ UNCHANGED <<d_num_rf, i_status, fault>>
  /\ IF TagReset = "tag" THEN NextFrame("reqa") ELSE Finish("crash")

AccessOk ==
  /\ InAccesses /\ SetChip(Effect(Access, chip))
  /\ IF acc < Len(Accesses[op]) THEN acc' = acc + 1 /\ UNCHANGED <<slot, op, frame, ret, fault>>
     ELSE \/ op = "on" /\ DoSelect
          \/ op = "off" /\ Finish("ok") /\ UNCHANGED <<slot, fault>>
          \/ /\ op = "init" /\ Finish("none")
             /\ d_num_rf' = 1 /\ i_status' = "NOT_PRESENT"
             /\ UNCHANGED <<rf_l3, level, fault>>
  /\ UNCHANGED <<moved, calls>>

(* It fails, and the call with it; a field that is not set up is not used. *)
AccessFails ==
  /\ InAccesses
  /\ \E c \in {chip, Effect(Access, chip)} : SetChip(c)
  /\ Finish(IF op = "init" THEN "none" ELSE "fail") /\ fault' = TRUE
  /\ UNCHANGED <<slot, moved, calls>>

-----------------------------------------------------------------------------
(* Frames. The code sent for the cascade levels, and those the standard    *)
(* has the tags answer to (external).                                      *)
SelCode == <<147, 146, 151>>
IsoCode == <<147, 149, 151>>

(* The answer's time-out: from the ATS for T=CL (parse_ats, which leaves 0 *)
(* if the ATS has other parameters but not TB), else fixed.                *)
Timeout(f) ==
  CASE f = "reqa" -> 92
    [] f \in {"acf", "acf_again"} -> 50
    [] f = "select" -> 1236
    [] f = "rats" -> 4833
    [] OTHER -> IF tags.kind.fwi = NoTb THEN 0 ELSE FwiToFwt(tags.kind.fwi)
(* What the tag may take (external): by default its FWI is 4.              *)
AnswerTime(f) ==
  IF f \in {"pps", "block"} THEN FwiToFwt(IF tags.kind.fwi = NoTb THEN 4 ELSE tags.kind.fwi)
  ELSE Timeout(f)
InTime(f) == LongEnough(Timeout(f), AnswerTime(f))

Hears(f) ==
  /\ Field(chip) /\ tags.n > 0 /\ chip.fifo = "clean" /\ chip.speed = tags.speed
  /\ CASE f = "reqa" -> tags.st = "idle"
       [] f \in {"acf", "acf_again", "select"} ->
            tags.st = "ready" /\ tags.cl = level - 1 /\ SelCode[level] = IsoCode[level]
       [] f = "rats" -> tags.st = "active" /\ tags.kind.tcl
       [] f \in {"pps", "block"} -> tags.st = "proto"

(* What the tag does when it hears it: the states it may go to.            *)
Heard(f) ==
  CASE f = "reqa"   -> {[tags EXCEPT !.st = "ready"]}
    [] f = "select" -> {[tags EXCEPT !.cl = level,
                                     !.st = IF level = tags.kind.uid THEN "active" ELSE "ready"]}
    [] f = "rats"   -> {[tags EXCEPT !.st = "proto"]}
    [] f = "pps"    -> {[tags EXCEPT !.speed = s] : s \in Speeds \cup {106}}
    [] OTHER        -> {tags}

InFrame == frame \notin {"none", "set_speed"}

(* A frame that is not sent, not answered, or whose answer is damaged,     *)
(* collides or is lost: anticollision ends with the slot empty, later      *)
(* steps of the selection leave it ACTIVE. The FIFO is emptied by no one.  *)
FrameFails ==
  /\ InFrame
  /\ tags' \in IF Hears(frame) THEN {tags} \cup Heard(frame) ELSE {tags}
  /\ \E f \in {"clean", "dirty"} : chip' = [chip EXCEPT !.fifo = f]
  /\ fault' = (fault \/ (Hears(frame) /\ InTime(frame)))
  /\ i_status' = IF frame \in {"reqa", "acf", "acf_again", "select"} THEN "NOT_PRESENT" ELSE i_status
  /\ Finish("fail")
  /\ UNCHANGED <<d_num_rf, rf_l3, level, moved, calls>>

(* REQA: a tag without bit frame anticollision makes _iso14443a_anticol    *)
(* return -1, which do_select takes for a selected tag without T=CL.       *)
Requested ==
  /\ InFrame /\ frame = "reqa" /\ Hears(frame) /\ InTime(frame) /\ tags' \in Heard(frame)
  /\ IF tags.kind.bitframe THEN NextFrame("acf") /\ UNCHANGED i_status
     ELSE i_status' = "ACTIVE" /\ Finish("fail")
  /\ UNCHANGED <<chip, d_num_rf, rf_l3, level, moved, fault, calls>>

(* An anticollision frame; with two tags the collision is an error to      *)
(* wait_idle_timer, unless it is flagged only after its last look.         *)
Anticollision ==
  /\ InFrame /\ frame \in {"acf", "acf_again"} /\ Hears(frame) /\ InTime(frame)
  /\ NextFrame(IF frame = "acf" /\ tags.n > 1 THEN "acf_again" ELSE "select")
  /\ UNCHANGED <<chip, tags, slot, moved, fault, calls>>

Selected ==
  /\ InFrame /\ frame = "select" /\ Hears(frame) /\ InTime(frame) /\ tags' \in Heard(frame)
  /\ IF level < tags.kind.uid
     THEN level' = level + 1 /\ NextFrame("acf") /\ UNCHANGED i_status
     ELSE /\ i_status' = "ACTIVE" /\ UNCHANGED level
          /\ IF tags.kind.tcl THEN NextFrame("rats") ELSE Finish("fail")
  /\ UNCHANGED <<chip, d_num_rf, rf_l3, moved, fault, calls>>

(* RATS, then PPS, after which the reader takes the speed it asked for.    *)
GotAts ==
  /\ InFrame /\ frame = "rats" /\ Hears(frame) /\ InTime(frame) /\ tags' \in Heard(frame)
  /\ NextFrame("pps") /\ moved' = FALSE
  /\ UNCHANGED <<chip, slot, fault, calls>>

GotPps ==
  /\ InFrame /\ frame = "pps" /\ Hears(frame) /\ InTime(frame) /\ tags' \in Heard(frame)
  /\ NextFrame("set_speed")
  /\ UNCHANGED <<chip, slot, moved, fault, calls>>

SetSpeed ==
  /\ frame = "set_speed"
  /\ \E s \in Speeds \cup {106} :
       /\ tags.st = "proto" => s = tags.speed
       /\ chip' = [chip EXCEPT !.speed = s]
  /\ rf_l3' = TRUE
  /\ Finish("ok")
  /\ UNCHANGED <<tags, d_num_rf, i_status, level, moved, fault, calls>>

SetSpeedFails ==
  /\ frame = "set_speed"
  /\ chip' \in {[chip EXCEPT !.speed = s] : s \in {chip.speed, 0} \cup Speeds}
  /\ Finish("fail") /\ fault' = TRUE
  /\ UNCHANGED <<tags, slot, moved, calls>>

(* A block of the protocol (module Tcl has the exchange itself).           *)
Answered ==
  /\ InFrame /\ frame = "block" /\ Hears(frame) /\ InTime(frame)
  /\ Finish("ok")
  /\ UNCHANGED <<chip, tags, slot, moved, fault, calls>>

-----------------------------------------------------------------------------
(* Tags come and go.                                                       *)
TagArrives ==
  /\ tags.n < 2
  /\ IF tags.n = 0 THEN \E k \in Kinds : tags' = Powered(chip, [NoTag EXCEPT !.n = 1, !.kind = k])
     ELSE tags' = [tags EXCEPT !.n = 2]
  /\ fault' = TRUE
  /\ UNCHANGED <<chip, slot, place, ret, moved, calls>>

TagsLeave ==
  /\ tags.n > 0 /\ tags' = NoTag
  /\ fault' = TRUE /\ moved' = TRUE
  /\ UNCHANGED <<chip, slot, place, ret, calls>>

Next ==
  \/ PowerOn \/ PowerOff \/ Transact \/ TransactRefused
  \/ AccessOk \/ AccessFails
  \/ FrameFails \/ Requested \/ Anticollision \/ Selected \/ GotAts \/ GotPps
  \/ SetSpeed \/ SetSpeedFails \/ Answered
  \/ TagArrives \/ TagsLeave

Spec == Init /\ [][Next]_vars

-----------------------------------------------------------------------------
(* The variables keep their types (struct _cci, struct _rfid), and no tag  *)
(* is asked for its UID without the select code of one of the three        *)
(* cascade levels.                                                         *)
TypeOK ==
  /\ chip \in [down : BOOLEAN, rf : BOOLEAN, fifo : {"clean", "dirty"}, speed : {0, 106} \cup Speeds]
  /\ tags \in [n : 0..2, st : {"off", "idle", "ready", "active", "proto"}, cl : 0..3,
               speed : {106} \cup Speeds, kind : Kinds]
  /\ d_num_rf \in 0..1 /\ i_status \in {"ACTIVE", "NOT_PRESENT"}
  /\ rf_l3 \in BOOLEAN /\ level \in 0..3
  /\ op \in {"none", "transact"} \cup DOMAIN Accesses
  /\ acc \in 0..(IF op \in DOMAIN Accesses THEN Len(Accesses[op]) ELSE 0)
  /\ frame \in {"none", "set_speed", "reqa", "acf", "acf_again", "select", "rats", "pps", "block"}
  /\ frame \in {"reqa", "acf", "acf_again", "select"} => level \in 1..3
  /\ ret \in {"none", "ok", "fail", "crash"}
  /\ moved \in BOOLEAN /\ fault \in BOOLEAN /\ calls \in 0..MaxCalls

(* Powering the field on returns, whatever the field holds (cci_power_on).  *)
PowerOnReturns == ret # "crash"

(* While the slot has a protocol and its tag has stayed, the tag waits for *)
(* blocks, in a field that is on, at the speed the reader sends: also      *)
(* after lost frames, failed calls and cci_power_off.                      *)
InStep ==
  rf_l3 /\ ~moved => tags.st = "proto" /\ Field(chip) /\ (op # "on" => chip.speed = tags.speed)

(* A cci_power_on in which nothing is lost selects a lone T=CL tag with a  *)
(* single-size UID that announces an FWI of at most 8, whatever earlier    *)
(* calls have left in the FIFO, the rate registers, the field and the tag: *)
(* if the memset is the one it must mean to be. As the source has it such  *)
(* a call, tag or no tag, is just the one that never returns.              *)
Plain(t) == /\ t.n = 1 /\ t.kind.uid = 1 /\ t.kind.tcl /\ t.kind.bitframe
            /\ t.kind.fwi <= 8
GenuineSelected ==
  [][op = "on" /\ op' = "none" /\ ~fault' /\ Plain(tags)
       => ret' = (IF TagReset = "tag" THEN "ok" ELSE "crash")]_vars

(* The timer runs long enough for the answer to every frame the tag hears, *)
(* except just when its ATS gives an FWI above 8, or others of its         *)
(* parameters but no FWI: then it expires at once.                         *)
TimerLasts ==
  InFrame /\ tags.n > 0 =>
    (InTime(frame) <=> ~(frame \in {"pps", "block"} /\ tags.kind.fwi > 8))
=============================================================================
