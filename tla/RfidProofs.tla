----------------------------- MODULE RfidProofs -----------------------------
(***************************************************************************)
(* Proofs about the field of Rfid and its answer timer (Timer), as they    *)
(* run in MCContactless, for every set of speeds and waiting times of the  *)
(* tags and any number of calls.                                           *)
(***************************************************************************)
EXTENDS MCContactless, WellFoundedInduction, TLAPS

-----------------------------------------------------------------------------
(* The timer's arithmetic.                                                 *)

\* The powers of two the prescalers divide by.
LEMMA Powers ==
  /\ 2^0 = 1 /\ 2^1 = 2 /\ 2^2 = 4 /\ 2^3 = 8 /\ 2^4 = 16 /\ 2^5 = 32 /\ 2^6 = 64
  /\ 2^7 = 128 /\ 2^8 = 256 /\ 2^9 = 512 /\ 2^10 = 1024 /\ 2^11 = 2048 /\ 2^12 = 4096 /\ 2^13 = 8192
  /\ 2^14 = 16384 /\ 2^15 = 32768 /\ 2^16 = 65536 /\ 2^17 = 131072 /\ 2^18 = 262144 /\ 2^19 = 524288 /\ 2^20 = 1048576
BY SMT

\* What dividing the carrier by two, and again, comes to.
LEMMA Prescaled ==
  ASSUME NEW i \in F!Prescalers
  PROVE  /\ 2^i \in Nat /\ 2^i >= 1 /\ F!Clk(i) \in Nat /\ F!Clk(i) >= 12
         /\ i # 20 => F!Clk(i) * 2^i >= 12600000
         /\ i = 20 => F!Clk(i) = 12 /\ 2^i = 1048576
         /\ F!Clk(i) >= 1000000 => 2^i <= 8
         /\ i = 0 => F!Clk(i) = 13560000 /\ 2^i = 1
<1>1. CASE i = 0
  BY <1>1, Powers, SMT DEF F!Clk, F!Carrier
<1>2. CASE i = 1
  BY <1>2, Powers, SMT DEF F!Clk, F!Carrier
<1>3. CASE i = 2
  BY <1>3, Powers, SMT DEF F!Clk, F!Carrier
<1>4. CASE i = 3
  BY <1>4, Powers, SMT DEF F!Clk, F!Carrier
<1>5. CASE i = 4
  BY <1>5, Powers, SMT DEF F!Clk, F!Carrier
<1>6. CASE i = 5
  BY <1>6, Powers, SMT DEF F!Clk, F!Carrier
<1>7. CASE i = 6
  BY <1>7, Powers, SMT DEF F!Clk, F!Carrier
<1>8. CASE i = 7
  BY <1>8, Powers, SMT DEF F!Clk, F!Carrier
<1>9. CASE i = 8
  BY <1>9, Powers, SMT DEF F!Clk, F!Carrier
<1>10. CASE i = 9
  BY <1>10, Powers, SMT DEF F!Clk, F!Carrier
<1>11. CASE i = 10
  BY <1>11, Powers, SMT DEF F!Clk, F!Carrier
<1>12. CASE i = 11
  BY <1>12, Powers, SMT DEF F!Clk, F!Carrier
<1>13. CASE i = 12
  BY <1>13, Powers, SMT DEF F!Clk, F!Carrier
<1>14. CASE i = 13
  BY <1>14, Powers, SMT DEF F!Clk, F!Carrier
<1>15. CASE i = 14
  BY <1>15, Powers, SMT DEF F!Clk, F!Carrier
<1>16. CASE i = 15
  BY <1>16, Powers, SMT DEF F!Clk, F!Carrier
<1>17. CASE i = 16
  BY <1>17, Powers, SMT DEF F!Clk, F!Carrier
<1>18. CASE i = 17
  BY <1>18, Powers, SMT DEF F!Clk, F!Carrier
<1>19. CASE i = 18
  BY <1>19, Powers, SMT DEF F!Clk, F!Carrier
<1>20. CASE i = 19
  BY <1>20, Powers, SMT DEF F!Clk, F!Carrier
<1>21. CASE i = 20
  BY <1>21, Powers, SMT DEF F!Clk, F!Carrier
<1> QED BY <1>1, <1>2, <1>3, <1>4, <1>5, <1>6, <1>7, <1>8, <1>9, <1>10, <1>11, <1>12,
           <1>13, <1>14, <1>15, <1>16, <1>17, <1>18, <1>19, <1>20, <1>21,
           SMT DEF F!Prescalers

\* fwi_to_fwt
LEMMA WaitingTimes ==
  ASSUME NEW fwi \in 0 .. 16
  PROVE  /\ F!FwiToFwt(fwi) \in Nat
         /\ fwi <= 8 => F!FwiToFwt(fwi) \in {302, 604, 1208, 2416, 4832, 9664, 19328, 38656, 77312}
         /\ fwi > 8 => F!FwiToFwt(fwi) >= 154624
         /\ fwi = 4 => F!FwiToFwt(fwi) = 4832
<1>1. 4096000 \div (13560000 \div 1000) = 302
  BY SMT
<1>2. CASE fwi = 0
  BY <1>1, <1>2, Powers, SMT DEF F!FwiToFwt, F!Carrier
<1>3. CASE fwi = 1
  BY <1>1, <1>3, Powers, SMT DEF F!FwiToFwt, F!Carrier
<1>4. CASE fwi = 2
  BY <1>1, <1>4, Powers, SMT DEF F!FwiToFwt, F!Carrier
<1>5. CASE fwi = 3
  BY <1>1, <1>5, Powers, SMT DEF F!FwiToFwt, F!Carrier
<1>6. CASE fwi = 4
  BY <1>1, <1>6, Powers, SMT DEF F!FwiToFwt, F!Carrier
<1>7. CASE fwi = 5
  BY <1>1, <1>7, Powers, SMT DEF F!FwiToFwt, F!Carrier
<1>8. CASE fwi = 6
  BY <1>1, <1>8, Powers, SMT DEF F!FwiToFwt, F!Carrier
<1>9. CASE fwi = 7
  BY <1>1, <1>9, Powers, SMT DEF F!FwiToFwt, F!Carrier
<1>10. CASE fwi = 8
  BY <1>1, <1>10, Powers, SMT DEF F!FwiToFwt, F!Carrier
<1>11. CASE fwi = 9
  BY <1>1, <1>11, Powers, SMT DEF F!FwiToFwt, F!Carrier
<1>12. CASE fwi = 10
  BY <1>1, <1>12, Powers, SMT DEF F!FwiToFwt, F!Carrier
<1>13. CASE fwi = 11
  BY <1>1, <1>13, Powers, SMT DEF F!FwiToFwt, F!Carrier
<1>14. CASE fwi = 12
  BY <1>1, <1>14, Powers, SMT DEF F!FwiToFwt, F!Carrier
<1>15. CASE fwi = 13
  BY <1>1, <1>15, Powers, SMT DEF F!FwiToFwt, F!Carrier
<1>16. CASE fwi = 14
  BY <1>1, <1>16, Powers, SMT DEF F!FwiToFwt, F!Carrier
<1>17. CASE fwi = 15
  BY <1>1, <1>17, Powers, SMT DEF F!FwiToFwt, F!Carrier
<1>18. CASE fwi = 16
  BY <1>1, <1>18, Powers, SMT DEF F!FwiToFwt, F!Carrier
<1> QED BY <1>2, <1>3, <1>4, <1>5, <1>6, <1>7, <1>8, <1>9, <1>10, <1>11, <1>12, <1>13,
           <1>14, <1>15, <1>16, <1>17, <1>18, SMT

\* The time-outs asked for of frames whose answer will be waited for.
Times == {50, 92, 1236, 4833, 302, 604, 1208, 2416, 4832, 9664, 19328, 38656, 77312}

\* A set of numbers that is not empty has a least element.
LEMMA LeastExists ==
  ASSUME NEW S, S \subseteq Nat, S # {}
  PROVE  \E x \in S : \A y \in S : x <= y
<1> DEFINE Below == OpToRel(<, Nat)
<1>1. IsWellFoundedOn(Below, Nat)
  BY NatLessThanWellFounded
<1>2. \A x, y \in Nat : y < x => <<y, x>> \in Below
  BY DEF OpToRel
<1> HIDE DEF Below
<1>3. PICK x \in S : \A y \in S : <<y, x>> \notin Below
  BY <1>1, WFMin
<1>4. ASSUME NEW y \in S PROVE x <= y
  <2>1. x \in Nat /\ y \in Nat /\ ~(y < x)
    BY <1>2, <1>3
  <2> QED BY <2>1
<1> QED BY <1>4

\* A prescaler best_prescaler considers: its divisor is not too small.
LEMMA Divided ==
  ASSUME NEW t \in Nat, NEW i \in F!Accepted(t)
  PROVE  /\ i \in F!Prescalers /\ F!Res(i, t) \in Nat
         /\ F!Divisor(i, t) \in 1 .. 255 /\ F!Divisor(i, t) * 100000 > F!Clk(i) * t
         /\ F!Divisor(i, t) = (F!Clk(i) * t) \div 100000 + 1
<1> DEFINE c == F!Clk(i)
           d == F!Divisor(i, t)
<1>1. i \in F!Prescalers /\ d <= 255 /\ d <= c
  BY DEF F!Accepted, F!Fits
<1>2. c \in Nat /\ c >= 12
  BY <1>1, Prescaled
<1>3. d = (c * t) \div 100000 + 1
  <2>1. d = IF t > 0 /\ c > (256 * 100000) \div t THEN 256 ELSE (c * t) \div 100000 + 1
    BY DEF F!Divisor, F!Second
  <2> HIDE DEF c, d
  <2> QED BY <1>1, <2>1, SMT
<1> HIDE DEF c, d
<1>4. c * t \in Nat
  BY <1>2
<1>5. d \in 1 .. 255 /\ d * 100000 > c * t
  BY <1>1, <1>3, <1>4, SMT
<1>6. F!Res(i, t) \in Nat
  <2>1. c \div d \in Nat /\ c \div d >= 1
    BY <1>1, <1>2, <1>5, SMT
  <2>2. (10 * 100000) \div (c \div d) \in Nat
    BY <2>1, SMT
  <2> QED BY <2>2 DEF F!Res, F!Second, c, d
<1> QED BY <1>1, <1>3, <1>5, <1>6 DEF c, d

\* best_prescaler's loop ends with one of them, and with none that is closer.
LEMMA BestOf ==
  ASSUME NEW t \in Nat, F!Accepted(t) # {}
  PROVE  /\ F!Best(t) \in F!Accepted(t)
         /\ \A j \in F!Accepted(t) : F!Res(F!Best(t), t) <= F!Res(j, t)
<1> DEFINE A == F!Accepted(t)
           R(i) == F!Res(i, t)
           S == {R(i) : i \in A}
<1>1. \A i \in A : i \in Nat /\ R(i) \in Nat
  BY Divided DEF F!Prescalers
<1> HIDE DEF A, R
<1>2. PICK r \in S : \A y \in S : r <= y
  <2>1. S \subseteq Nat /\ S # {}
    BY <1>1 DEF A
  <2> QED BY <2>1, LeastExists
<1> DEFINE T == {i \in A : R(i) = r}
<1>3. PICK x \in T : \A y \in T : x <= y
  <2>1. T \subseteq Nat /\ T # {}
    BY <1>1, <1>2
  <2> QED BY <2>1, LeastExists
<1>4. x \in A /\ \A j \in A : R(x) < R(j) \/ (R(x) = R(j) /\ x <= j)
  <2> SUFFICES ASSUME NEW j \in A PROVE R(x) < R(j) \/ (R(x) = R(j) /\ x <= j)
    BY <1>3
  <2>1. R(x) = r /\ r <= R(j) /\ R(x) \in Nat /\ R(j) \in Nat /\ (R(j) = r => x <= j)
    BY <1>1, <1>2, <1>3
  <2> QED BY <2>1
<1>5. F!Best(t) \in A /\ \A j \in A : R(F!Best(t)) < R(j) \/ (R(F!Best(t)) = R(j) /\ F!Best(t) <= j)
  BY <1>4 DEF F!Best, A, R
<1>6. \A j \in A : R(F!Best(t)) <= R(j)
  <2> SUFFICES ASSUME NEW j \in A PROVE R(F!Best(t)) <= R(j)
    OBVIOUS
  <2>1. R(j) \in Nat /\ R(F!Best(t)) \in Nat
    BY <1>1, <1>5
  <2> QED BY <1>5, <2>1
<1> QED BY <1>5, <1>6 DEF A, R

\* The slowest clock is always one of them.
LEMMA SlowestFits == ASSUME NEW t \in Times PROVE 20 \in F!Accepted(t)
<1>1. F!Clk(20) = 12 /\ 20 \in F!Prescalers
  BY Prescaled, SMT DEF F!Prescalers
<1>2. F!Divisor(20, t) = (12 * t) \div 100000 + 1
  <2>1. ~(12 > (256 * 100000) \div t)
    BY SMT DEF Times
  <2> QED BY <1>1, <2>1, SMT DEF F!Divisor, F!Second
<1>3. F!Divisor(20, t) \in 1 .. 12
  BY <1>2, SMT DEF Times
<1>4. F!Res(20, t) >= 10 * t
  <2>1. F!Res(20, t) = (10 * 100000) \div (12 \div ((12 * t) \div 100000 + 1))
    BY <1>1, <1>2 DEF F!Res, F!Second
  <2>2. CASE t <= 4833
    <3>1. t \in Nat /\ (12 * t) \div 100000 + 1 = 1
      BY <2>2, SMT DEF Times
    <3>2. F!Res(20, t) = 83333
      BY <2>1, <3>1, SMT
    <3> QED BY <2>2, <3>1, <3>2, SMT
  <2>3. CASE t = 9664
    BY <2>1, <2>3, SMT
  <2>4. CASE t = 19328
    BY <2>1, <2>4, SMT
  <2>5. CASE t = 38656
    BY <2>1, <2>5, SMT
  <2>6. CASE t = 77312
    BY <2>1, <2>6, SMT
  <2> QED BY <2>2, <2>3, <2>4, <2>5, <2>6, SMT DEF Times
<1> QED BY <1>1, <1>3, <1>4, SMT DEF F!Accepted, F!Fits

\* timer_set: nearly ten times as long as it is asked for.
LEMMA LongTimer == ASSUME NEW t \in Times PROVE F!Periods(t) >= 126 * t /\ t \in Nat
<1>0. t \in Nat
  BY SMT DEF Times
<1>1. F!Accepted(t) # {}
  BY SlowestFits
<1> DEFINE b == F!Best(t)
           d == F!Divisor(b, t)
           c == F!Clk(b)
           p == 2^b
<1>2. b \in F!Accepted(t)
  BY <1>0, <1>1, BestOf
<1>3. b \in F!Prescalers /\ d \in 1 .. 255 /\ d * 100000 > c * t /\ d = (c * t) \div 100000 + 1
  BY <1>0, <1>2, Divided
<1>4. /\ p \in Nat /\ p >= 1 /\ c \in Nat
      /\ b # 20 => c * p >= 12600000
      /\ b = 20 => c = 12 /\ p = 1048576
  BY <1>3, Prescaled
<1>5. F!Periods(t) = (d % 256) * p
  BY <1>1 DEF F!Periods, F!BestPrescaler
<1> HIDE DEF c, d, p
<1>6. d % 256 = d
  BY <1>3, SMT
<1>7. CASE b # 20
  <2>1. d * p >= 126 * t
    <3>1. ASSUME NEW x \in Nat, NEW y \in Nat, NEW z \in Nat, z > 0, x * 100000 > y * t, y * z >= 12600000
          PROVE  x * z >= 126 * t
      BY <1>0, <3>1, SMT
    <3> QED BY <1>3, <1>4, <1>7, <3>1
  <2> QED BY <1>0, <1>5, <1>6, <2>1
<1>8. CASE b = 20
  <2>1. d = (12 * t) \div 100000 + 1 /\ p = 1048576
    BY <1>3, <1>4, <1>8
  <2>2. d * 1048576 >= 126 * t
    BY <2>1, SMT DEF Times
  <2> QED BY <1>0, <1>5, <1>6, <2>1, <2>2, SMT
<1> QED BY <1>0, <1>7, <1>8

\* No divisor fits a time-out above the FWI of 8: the timer expires at once.
LEMMA ShortTimer == ASSUME NEW t \in Nat, t >= 154624 PROVE F!Periods(t) = 1
<1>1. ASSUME NEW i \in F!Accepted(t) PROVE FALSE
  <2> DEFINE c == F!Clk(i)
             d == F!Divisor(i, t)
  <2>1. i \in F!Prescalers /\ d <= c /\ d \in 1 .. 255 /\ d * 100000 > c * t
    BY Divided DEF F!Accepted, F!Fits
  <2>2. c \in Nat
    BY <2>1, Prescaled
  <2> HIDE DEF c, d
  <2>3. ASSUME NEW x \in Nat, NEW y \in Nat, x <= y, x * 100000 > y * t PROVE FALSE
    BY <2>3, SMT
  <2> QED BY <2>1, <2>2, <2>3
<1>2. F!Accepted(t) = {}
  BY <1>1
<1> QED BY <1>2, Powers, SMT DEF F!Periods, F!BestPrescaler

\* Nor is a time-out of nothing one that lasts.
LEMMA NoTimer == F!Periods(0) <= 8 /\ F!Periods(0) \in Nat
<1>1. \A i \in F!Prescalers : F!Divisor(i, 0) = 1
  <2> SUFFICES ASSUME NEW i \in F!Prescalers PROVE F!Divisor(i, 0) = 1
    OBVIOUS
  <2>1. F!Clk(i) \in Nat
    BY Prescaled
  <2> QED BY <2>1, SMT DEF F!Divisor, F!Second
<1>2. \A i \in F!Prescalers : F!Res(i, 0) = 1000000 \div F!Clk(i)
  <2> SUFFICES ASSUME NEW i \in F!Prescalers PROVE F!Res(i, 0) = 1000000 \div F!Clk(i)
    OBVIOUS
  <2>1. F!Clk(i) \in Nat /\ F!Divisor(i, 0) = 1
    BY <1>1, Prescaled
  <2> QED BY <2>1, SMT DEF F!Res, F!Second
<1>3. 0 \in F!Accepted(0) /\ F!Res(0, 0) = 0
  <2>1. 0 \in F!Prescalers /\ F!Clk(0) = 13560000
    BY Prescaled, SMT DEF F!Prescalers
  <2>2. F!Divisor(0, 0) = 1 /\ F!Res(0, 0) = 0
    BY <1>1, <1>2, <2>1, SMT
  <2> QED BY <2>1, <2>2, SMT DEF F!Accepted, F!Fits
<1> DEFINE b == F!Best(0)
<1>4. b \in F!Accepted(0) /\ F!Res(b, 0) <= 0
  BY <1>3, BestOf
<1>5. b \in F!Prescalers /\ F!Res(b, 0) \in Nat
  BY <1>4, Divided
<1>6. F!Clk(b) >= 1000000
  <2>1. 1000000 \div F!Clk(b) = 0 /\ F!Clk(b) \in Nat /\ F!Clk(b) >= 12
    BY <1>2, <1>4, <1>5, Prescaled
  <2> QED BY <2>1, SMT
<1>7. 2^b <= 8 /\ 2^b \in Nat /\ F!Divisor(b, 0) = 1
  BY <1>1, <1>5, <1>6, Prescaled
<1>8. F!Periods(0) = (1 % 256) * 2^b
  BY <1>3, <1>7 DEF F!Periods, F!BestPrescaler
<1> QED BY <1>7, <1>8, SMT

\* Which frames' answers the timer waits for.
LEMMA TimerFits ==
  ASSUME F!TypeOK, F!InFrame
  PROVE  F!InTime(frame) <=> ~(frame \in {"pps", "block"} /\ tags.kind.fwi > 8)
<1> DEFINE fwi == tags.kind.fwi
<1>1. fwi \in 0 .. 16
  BY FieldSizes DEF F!TypeOK, F!Kinds, F!RfidAssumption, F!NoTb
<1>2. F!InTime(frame) <=> F!Periods(F!Timeout(frame)) >= 126 * F!AnswerTime(frame)
  BY SMT DEF F!InTime, F!LongEnough
<1>3. frame \in {"reqa", "acf", "acf_again", "select", "rats", "pps", "block"}
  BY DEF F!TypeOK, F!InFrame
<1>4. CASE frame \notin {"pps", "block"}
  <2>1. F!AnswerTime(frame) = F!Timeout(frame)
    BY <1>4 DEF F!AnswerTime
  <2>2. F!Timeout(frame) \in Times
    BY <1>3, <1>4, SMT DEF F!Timeout, Times
  <2> QED BY <1>2, <1>4, <2>1, <2>2, LongTimer
<1>5. CASE frame \in {"pps", "block"}
  <2>1. /\ F!Timeout(frame) = IF fwi = 16 THEN 0 ELSE F!FwiToFwt(fwi)
        /\ F!AnswerTime(frame) = F!FwiToFwt(IF fwi = 16 THEN 4 ELSE fwi)
    BY <1>5 DEF F!Timeout, F!AnswerTime, F!NoTb
  <2> HIDE DEF fwi
  <2>2. CASE fwi <= 8
    <3>1. F!FwiToFwt(fwi) \in Times /\ fwi # 16
      BY <1>1, <2>2, WaitingTimes, SMT DEF Times
    <3>2. F!InTime(frame)
      BY <1>2, <2>1, <3>1, LongTimer
    <3> QED BY <1>1, <1>5, <2>2, <3>2 DEF fwi
  <2>3. CASE fwi > 8 /\ fwi # 16
    <3>1. F!FwiToFwt(fwi) \in Nat /\ F!FwiToFwt(fwi) >= 154624
      BY <1>1, <2>3, WaitingTimes
    <3>2. F!Periods(F!FwiToFwt(fwi)) = 1
      BY <3>1, ShortTimer
    <3>3. ~F!InTime(frame)
      BY <1>2, <2>1, <2>3, <3>1, <3>2, SMT
    <3> QED BY <1>5, <2>3, <3>3 DEF fwi
  <2>4. CASE fwi = 16
    <3>1. F!FwiToFwt(4) = 4832
      BY WaitingTimes
    <3>2. ~F!InTime(frame)
      BY <1>2, <2>1, <2>4, <3>1, NoTimer, SMT
    <3> QED BY <1>5, <2>4, <3>2 DEF fwi
  <2> QED BY <1>1, <2>2, <2>3, <2>4
<1> QED BY <1>4, <1>5

-----------------------------------------------------------------------------
(* The field's inductive invariant.                                        *)

Chips == [down : BOOLEAN, rf : BOOLEAN, fifo : {"clean", "dirty"}, speed : {0, 106} \cup Speeds]
Tags == [n : 0..2, st : {"off", "idle", "ready", "active", "proto"}, cl : 0..3,
         speed : {106} \cup Speeds, kind : F!Kinds]

\* Where a call can be: at an access or at a frame, and what it has undone or
\* set up by then.
Places ==
  /\ frame # "none" => acc = 0 /\ op \in {"on", "transact"}
  /\ op = "none" => acc = 0 /\ frame = "none"
  /\ op = "transact" <=> frame = "block"
  /\ op \in {"init", "off"} => acc > 0
  /\ op = "on" /\ frame = "none" => acc > 0 /\ moved
  /\ op = "on" /\ frame # "none" => ~l3
  /\ op = "init" => ~l3
  /\ tags.n = 0 => tags.st = "off"
  /\ op = "on" /\ ~moved =>
       frame \in {"pps", "set_speed"} /\ tags.st = "proto" /\ F!Field(chip)

\* A tag that has lost its field.
Forgotten == tags.n = 0 \/ (tags.cl = 0 /\ tags.speed = 106)

\* While nothing is lost, cci_power_on leaves nothing of what was before: the
\* field goes off and on again, the chip is ready, and the tag follows.
Afresh ==
  op = "on" /\ ~fault =>
    /\ acc = 2 => ~chip.rf /\ tags.st = "off" /\ Forgotten
    /\ acc = 3 => ~chip.rf /\ tags.st = "off" /\ Forgotten /\ ~chip.down /\ chip.fifo = "clean"
    /\ acc = 4 => Forgotten /\ (tags.n > 0 => tags.st = "idle")
    /\ acc = 4 \/ frame # "none" => F!Field(chip) /\ chip.fifo = "clean"
    /\ frame \notin {"none", "set_speed"} /\ F!Plain(tags) =>
         /\ level = 1 /\ chip.speed = 106 /\ tags.speed = 106
         /\ frame = "reqa" => tags.st = "idle" /\ tags.cl = 0
         /\ frame \in {"acf", "select"} => tags.st = "ready" /\ tags.cl = 0
         /\ frame = "rats" => tags.st = "active"
         /\ frame = "pps" => tags.st = "proto"
         /\ frame # "acf_again"

FieldInv == F!TypeOK /\ F!InStep /\ Places /\ Afresh

\* How many register accesses each call makes.
LEMMA AccessCounts ==
  /\ DOMAIN F!Accesses = {"init", "on", "off"}
  /\ Len(F!Accesses["init"]) = 6 /\ Len(F!Accesses["on"]) = 4 /\ Len(F!Accesses["off"]) = 1
  /\ F!Accesses["on"][1] = "rf_on" /\ F!Accesses["on"][2] = "flush"
  /\ F!Accesses["on"][3] = "tx_control" /\ F!Accesses["on"][4] = "rate"
  /\ F!Accesses["off"][1] = "rf_off"
BY DEF F!Accesses

\* A tag that changes is a tag, and changes in nothing else.
Becomes(p, t, st, cl, speed) ==
  p \in Tags /\ p.n = t.n /\ p.kind = t.kind /\ p.st = st /\ p.cl = cl /\ p.speed = speed

\* A tag that changes its state is a tag, and changes in nothing else.
LEMMA TagSt ==
  ASSUME NEW t \in Tags, NEW st \in {"off", "idle", "ready", "active", "proto"}
  PROVE  Becomes([t EXCEPT !.st = st], t, st, t.cl, t.speed)
BY DEF Tags, Becomes

\* The same for a tag that answers a select.
LEMMA TagCl ==
  ASSUME NEW t \in Tags, NEW st \in {"off", "idle", "ready", "active", "proto"}, NEW cl \in 0 .. 3
  PROVE  Becomes([t EXCEPT !.cl = cl, !.st = st], t, st, cl, t.speed)
BY DEF Tags, Becomes

\* The same for a tag that agrees on a speed.
LEMMA TagSpeed ==
  ASSUME NEW t \in Tags, NEW speed \in {106} \cup Speeds
  PROVE  Becomes([t EXCEPT !.speed = speed], t, t.st, t.cl, speed)
BY DEF Tags, Becomes

\* The same for a tag that comes into the field.
LEMMA TagNew ==
  ASSUME NEW t \in Tags, NEW n \in 0 .. 2, NEW k \in F!Kinds
  PROVE  LET d == [t EXCEPT !.n = n, !.kind = k] IN d \in Tags /\ d.n = n
BY DEF Tags

\* The same for a tag that loses its field.
LEMMA TagOff ==
  ASSUME NEW t \in Tags, NEW st \in {"off"}, NEW cl \in 0 .. 3, NEW speed \in {106} \cup Speeds
  PROVE  Becomes([t EXCEPT !.st = st, !.cl = cl, !.speed = speed], t, st, cl, speed)
BY DEF Tags, Becomes

\* What a tag makes of a field that is on, or off.
LEMMA PoweredTag ==
  ASSUME NEW c \in Chips, NEW t \in Tags
  PROVE  LET p == F!Powered(c, t)
         IN /\ p \in Tags /\ p.n = t.n /\ (t.n = 0 => p.st = "off")
            /\ t.n > 0 => p.kind = t.kind
            /\ t.n > 0 /\ ~F!Field(c) => p.st = "off" /\ p.cl = 0 /\ p.speed = 106
            /\ t.n > 0 /\ F!Field(c) /\ t.st = "off" =>
                 p.st = "idle" /\ p.cl = t.cl /\ p.speed = t.speed
            /\ t.n > 0 /\ F!Field(c) /\ t.st # "off" => p = t
<1>1. F!NoTag \in Tags /\ F!NoTag.n = 0 /\ F!NoTag.st = "off"
  BY FieldSizes DEF F!NoTag, Tags, F!Kinds, F!RfidAssumption
<1>2. CASE t.n = 0
  BY <1>1, <1>2 DEF F!Powered
<1>3. CASE t.n # 0 /\ ~F!Field(c)
  <2> DEFINE st == "off"  cl == 0  speed == 106
  <2>1. F!Powered(c, t) = [t EXCEPT !.st = st, !.cl = cl, !.speed = speed]
    BY <1>3 DEF F!Powered
  <2>2. st \in {"off"} /\ cl \in 0 .. 3 /\ speed \in {106} \cup Speeds
    OBVIOUS
  <2> HIDE DEF st, cl, speed
  <2>3. Becomes([t EXCEPT !.st = st, !.cl = cl, !.speed = speed], t, st, cl, speed)
    BY <2>2, TagOff
  <2>4. Becomes(F!Powered(c, t), t, st, cl, speed)
    BY <2>1, <2>3
  <2> QED BY <1>3, <2>4 DEF Becomes, st, cl, speed
<1>4. CASE t.n # 0 /\ F!Field(c) /\ t.st = "off"
  <2>1. F!Powered(c, t) = [t EXCEPT !.st = "idle"]
    BY <1>4 DEF F!Powered
  <2>2. Becomes(F!Powered(c, t), t, "idle", t.cl, t.speed)
    BY <2>1, TagSt
  <2> QED BY <1>4, <2>2 DEF Becomes
<1>5. CASE t.n # 0 /\ F!Field(c) /\ t.st # "off"
  <2>1. F!Powered(c, t) = t
    BY <1>5 DEF F!Powered
  <2> QED BY <1>5, <2>1
<1> QED BY <1>2, <1>3, <1>4, <1>5

\* The register accesses, as changes to the chip.
LEMMA Effects ==
  ASSUME NEW c \in Chips
  PROVE  /\ \A a : F!Effect(a, c) \in Chips
         /\ LET e == F!Effect("rf_on", c) IN ~e.rf
         /\ LET e == F!Effect("flush", c)
            IN e.fifo = "clean" /\ ~e.down /\ e.rf = c.rf
         /\ LET e == F!Effect("tx_control", c)
            IN e.rf /\ e.fifo = c.fifo /\ e.down = c.down
         /\ LET e == F!Effect("rate", c)
            IN e.speed = 106 /\ e.rf = c.rf /\ e.fifo = c.fifo /\ e.down = c.down
         /\ LET e == F!Effect("rf_off", c)
            IN e.rf /\ e.fifo = c.fifo /\ e.down = c.down /\ e.speed = c.speed
<1> USE DEF Chips, F!Effect, F!AsicPower, F!InitTxControl, F!RfPower, F!FlushFifo, F!InitRate
<1>1. \A a : F!Effect(a, c) \in Chips
  OBVIOUS
<1>2. LET e == F!Effect("rf_on", c) IN ~e.rf
  OBVIOUS
<1>3. LET e == F!Effect("flush", c) IN e.fifo = "clean" /\ ~e.down /\ e.rf = c.rf
  OBVIOUS
<1>4. LET e == F!Effect("tx_control", c) IN e.rf /\ e.fifo = c.fifo /\ e.down = c.down
  OBVIOUS
<1>5. LET e == F!Effect("rate", c)
      IN e.speed = 106 /\ e.rf = c.rf /\ e.fifo = c.fifo /\ e.down = c.down
  OBVIOUS
<1>6. LET e == F!Effect("rf_off", c)
      IN e.rf /\ e.fifo = c.fifo /\ e.down = c.down /\ e.speed = c.speed
  OBVIOUS
<1> QED BY <1>1, <1>2, <1>3, <1>4, <1>5, <1>6

\* The type invariant, with the number of a call's accesses spelled out.
Limit(o) == IF o = "init" THEN 6 ELSE IF o = "on" THEN 4 ELSE IF o = "off" THEN 1 ELSE 0

Ranges ==
  /\ d_num_rf \in 0..1 /\ i_status \in {"ACTIVE", "NOT_PRESENT"}
  /\ l3 \in BOOLEAN /\ level \in 0..3
  /\ op \in {"none", "transact", "init", "on", "off"} /\ acc \in 0 .. Limit(op)
  /\ frame \in {"none", "set_speed", "reqa", "acf", "acf_again", "select", "rats", "pps", "block"}
  /\ frame \in {"reqa", "acf", "acf_again", "select"} => level \in 1..3
  /\ f_ret \in {"none", "ok", "fail", "crash"}
  /\ moved \in BOOLEAN /\ fault \in BOOLEAN /\ calls \in 0..FieldCalls

\* The number of accesses of each call.
LEMMA Limits ==
  /\ Limit("none") = 0 /\ Limit("transact") = 0
  /\ Limit("init") = 6 /\ Limit("on") = 4 /\ Limit("off") = 1
BY DEF Limit

\* The types, before and after a step, in these words.
LEMMA Typed ==
  /\ F!TypeOK <=> chip \in Chips /\ tags \in Tags /\ Ranges
  /\ F!TypeOK' <=> chip' \in Chips /\ tags' \in Tags /\ Ranges'
<1>1. ASSUME NEW o PROVE Limit(o) = IF o \in DOMAIN F!Accesses THEN Len(F!Accesses[o]) ELSE 0
  BY AccessCounts DEF Limit
<1>2. {"none", "transact"} \cup DOMAIN F!Accesses = {"none", "transact", "init", "on", "off"}
  BY AccessCounts
<1>3. F!TypeOK <=> chip \in Chips /\ tags \in Tags /\ Ranges
  BY <1>1, <1>2 DEF F!TypeOK, Chips, Tags, Ranges
<1>4. F!TypeOK' <=> chip' \in Chips /\ tags' \in Tags /\ Ranges'
  BY <1>1, <1>2 DEF F!TypeOK, Chips, Tags, Ranges
<1> QED BY <1>3, <1>4

-----------------------------------------------------------------------------
(* The calls, and their register accesses.                                 *)

\* The invariant holds before the field is set up.
LEMMA FieldStart == F!Init => FieldInv
<1> SUFFICES ASSUME F!Init PROVE FieldInv
  OBVIOUS
<1>1. F!NoTag \in Tags /\ F!NoTag.n = 0 /\ F!NoTag.st = "off"
  BY FieldSizes DEF F!NoTag, Tags, F!Kinds, F!RfidAssumption
<1>2. chip \in Chips
  BY DEF F!Init, Chips
<1>3. Ranges
  <2>1. acc \in 0 .. Limit(op)
    BY Limits, SMT DEF F!Init
  <2>2. calls \in 0 .. FieldCalls
    BY FieldSizes DEF F!Init, F!RfidAssumption
  <2>3. d_num_rf \in 0 .. 1 /\ level \in 0 .. 3
    BY SMT DEF F!Init
  <2>4. l3 \in BOOLEAN /\ moved \in BOOLEAN /\ fault \in BOOLEAN
    BY Zenon DEF F!Init
  <2> QED BY <2>1, <2>2, <2>3, <2>4, Zenon DEF F!Init, Ranges
<1>4. F!InStep /\ Places /\ Afresh
  BY <1>1 DEF F!Init, F!InStep, Places, Afresh
<1> QED BY <1>1, <1>2, <1>3, <1>4, Typed DEF F!Init, FieldInv

\* A call begins: the field and the tag are as they were.
LEMMA CallStep ==
  ASSUME FieldInv, F!PowerOn \/ F!PowerOff \/ F!Transact \/ F!TransactRefused
  PROVE  FieldInv'
<1>1. chip \in Chips /\ tags \in Tags /\ Ranges /\ F!InStep /\ Places
  BY Typed DEF FieldInv
<1>2. /\ op = "none" /\ frame = "none" /\ acc = 0 /\ calls' \in 0..FieldCalls /\ fault' = FALSE
      /\ chip' = chip /\ tags' = tags /\ d_num_rf' = d_num_rf /\ l3' = l3 /\ level' = level
  BY <1>1, FieldSizes DEF F!PowerOn, F!PowerOff, F!Transact, F!TransactRefused, F!Call,
     F!slot, F!place, Places, Ranges, F!RfidAssumption
<1>3. CASE F!PowerOn
  <2>1. /\ op' = "on" /\ acc' = 1 /\ moved' = TRUE
        /\ i_status' = i_status /\ frame' = frame /\ f_ret' = f_ret
    BY <1>3 DEF F!PowerOn, F!slot
  <2>2. Ranges'
    <3>1. acc' \in 0 .. Limit(op')
      BY <2>1, Limits, SMT
    <3> QED BY <1>1, <1>2, <2>1, <3>1 DEF Ranges
  <2>3. F!InStep' /\ Places' /\ Afresh'
    BY <1>1, <1>2, <2>1 DEF F!InStep, Places, Afresh
  <2> QED BY <1>1, <1>2, <2>2, <2>3, Typed DEF FieldInv
<1>4. CASE F!PowerOff
  <2>1. /\ op' = "off" /\ acc' = 1 /\ moved' = moved
        /\ i_status' = "NOT_PRESENT" /\ frame' = frame /\ f_ret' = f_ret
    BY <1>4 DEF F!PowerOff
  <2>2. Ranges'
    <3>1. acc' \in 0 .. Limit(op')
      BY <2>1, Limits, SMT
    <3> QED BY <1>1, <1>2, <2>1, <3>1 DEF Ranges
  <2>3. F!InStep' /\ Places' /\ Afresh'
    BY <1>1, <1>2, <2>1 DEF F!InStep, F!Field, Places, Afresh
  <2> QED BY <1>1, <1>2, <2>2, <2>3, Typed DEF FieldInv
<1>5. CASE F!Transact
  <2>1. /\ op' = "transact" /\ acc' = acc /\ moved' = moved
        /\ i_status' = i_status /\ frame' = "block" /\ f_ret' = f_ret
    BY <1>5 DEF F!Transact, F!slot
  <2>2. Ranges'
    BY <1>1, <1>2, <2>1 DEF Ranges, Limit
  <2>3. F!InStep' /\ Places' /\ Afresh'
    BY <1>1, <1>2, <2>1 DEF F!InStep, F!Field, Places, Afresh
  <2> QED BY <1>1, <1>2, <2>2, <2>3, Typed DEF FieldInv
<1>6. CASE F!TransactRefused
  <2>1. /\ op' = op /\ acc' = acc /\ moved' = moved
        /\ i_status' = i_status /\ frame' = frame /\ f_ret' = "fail"
    BY <1>6 DEF F!TransactRefused, F!slot, F!place
  <2>2. Ranges'
    BY <1>1, <1>2, <2>1 DEF Ranges
  <2>3. F!InStep' /\ Places' /\ Afresh'
    BY <1>1, <1>2, <2>1 DEF F!InStep, F!Field, Places, Afresh
  <2> QED BY <1>1, <1>2, <2>2, <2>3, Typed DEF FieldInv
<1> QED BY <1>3, <1>4, <1>5, <1>6

\* Where an access finds the call, and what it makes of the chip and the tag.
LEMMA AccessMeets ==
  ASSUME FieldInv, F!InAccesses, NEW e \in Chips, chip' = e, tags' = F!Powered(e, tags)
  PROVE  /\ chip' \in Chips /\ tags' \in Tags /\ tags'.n = tags.n
         /\ tags.n = 0 => tags'.st = "off"
         /\ op \in {"init", "on", "off"} /\ acc \in 1 .. Limit(op) /\ frame = "none"
<1>1. chip \in Chips /\ tags \in Tags /\ Ranges /\ Places
  BY Typed DEF FieldInv
<1>2. acc \in 0 .. Limit(op) /\ acc > 0 /\ op \in {"none", "transact", "init", "on", "off"}
  BY <1>1 DEF Ranges, F!InAccesses
<1>3. acc \in 1 .. Limit(op) /\ op \notin {"none", "transact"}
  BY <1>2, Limits, SMT
<1>4. frame = "none"
  BY <1>1, <1>2, SMT DEF Places
<1> QED BY <1>1, <1>2, <1>3, <1>4, PoweredTag

\* The set-up of the field goes on, or ends.
LEMMA SetUpStep ==
  ASSUME FieldInv, F!AccessOk, op = "init"
  PROVE  FieldInv'
<1> DEFINE e == F!Effect(F!Access, chip)
<1>1. chip \in Chips /\ Ranges /\ Places /\ e \in Chips /\ F!InAccesses
  BY Typed, Effects DEF FieldInv, F!AccessOk
<1>2. chip' = e /\ tags' = F!Powered(e, tags)
  BY DEF F!AccessOk, F!SetChip
<1> HIDE DEF e
<1>3. /\ chip' \in Chips /\ tags' \in Tags /\ (tags'.n = 0 => tags'.st = "off")
      /\ acc \in 1 .. 6 /\ frame = "none" /\ ~l3
  BY <1>1, <1>2, AccessMeets, Limits DEF Places
<1>4. /\ l3' = l3 /\ level' = level /\ fault' = fault /\ moved' = moved /\ calls' = calls
      /\ frame' = "none" /\ d_num_rf' \in {d_num_rf, 1} /\ i_status' \in {i_status, "NOT_PRESENT"}
      /\ \/ op' = "init" /\ acc' = acc + 1 /\ acc < 6 /\ f_ret' = f_ret
         \/ op' = "none" /\ acc' = 0 /\ f_ret' = "none"
  BY <1>3, AccessCounts DEF F!AccessOk, F!Finish, F!slot
<1>5. Ranges'
  <2>1. acc' \in 0 .. Limit(op')
    BY <1>3, <1>4, Limits, SMT
  <2>2. d_num_rf' \in 0 .. 1
    BY <1>1, <1>4, SMT DEF Ranges
  <2> QED BY <1>1, <1>4, <2>1, <2>2 DEF Ranges
<1>6. F!InStep' /\ Afresh'
  BY <1>3, <1>4 DEF F!InStep, Afresh
<1>7. Places'
  BY <1>3, <1>4, SMT DEF Places
<1> QED BY <1>3, <1>5, <1>6, <1>7, Typed DEF FieldInv

\* The one access of cci_power_off leaves the field on.
LEMMA OffStep ==
  ASSUME FieldInv, F!AccessOk, op = "off"
  PROVE  FieldInv'
<1> DEFINE e == F!Effect("rf_off", chip)
<1>1. /\ chip \in Chips /\ tags \in Tags /\ Ranges /\ Places /\ F!InStep
      /\ F!InAccesses
  BY Typed DEF FieldInv, F!AccessOk
<1>2. e \in Chips /\ e.rf /\ e.down = chip.down /\ e.speed = chip.speed
  BY <1>1, Effects
<1>3. acc = 1
  <2>1. F!Effect(F!Access, chip) \in Chips
    BY <1>1, Effects
  <2>2. acc \in 1 .. Limit(op)
    BY <2>1, AccessMeets DEF F!AccessOk, F!SetChip
  <2> QED BY <2>2, Limits, SMT
<1>4. chip' = e /\ tags' = F!Powered(e, tags)
  BY <1>3, AccessCounts DEF F!AccessOk, F!SetChip, F!Access
<1> HIDE DEF e
<1>5. chip' \in Chips /\ tags' \in Tags /\ tags'.n = tags.n /\ (tags.n = 0 => tags'.st = "off")
  BY <1>1, <1>2, <1>4, AccessMeets
<1>6. /\ d_num_rf' = d_num_rf /\ i_status' = i_status /\ l3' = l3 /\ level' = level
      /\ fault' = fault /\ moved' = moved /\ calls' = calls
      /\ op' = "none" /\ acc' = 0 /\ frame' = "none" /\ f_ret' = "ok"
  BY <1>3, AccessCounts DEF F!AccessOk, F!Finish, F!slot
<1>7. Ranges'
  BY <1>1, <1>6, Limits DEF Ranges
<1>8. F!InStep'
  <2> SUFFICES ASSUME l3, ~moved
               PROVE  tags'.st = "proto" /\ F!Field(chip') /\ chip'.speed = tags'.speed
    BY <1>6 DEF F!InStep, F!Field
  <2>1. tags.st = "proto" /\ F!Field(chip) /\ chip.speed = tags.speed
    BY <1>1 DEF F!InStep
  <2>2. F!Field(e)
    BY <2>1, <1>2 DEF F!Field
  <2>3. tags.n > 0
    BY <1>1, <2>1, SMT DEF Places, Tags
  <2>4. tags' = tags
    BY <1>1, <1>2, <1>4, <2>1, <2>2, <2>3, PoweredTag
  <2> QED BY <1>2, <1>4, <2>1, <2>2, <2>4
<1>9. Places' /\ Afresh'
  BY <1>5, <1>6 DEF Places, Afresh
<1> QED BY <1>5, <1>7, <1>8, <1>9, Typed DEF FieldInv

\* The accesses of cci_power_on, one by one, up to the first frame.
LEMMA OnStep ==
  ASSUME FieldInv, F!AccessOk, op = "on"
  PROVE  FieldInv'
<1> DEFINE e == F!Effect(F!Access, chip)
<1>1. /\ chip \in Chips /\ tags \in Tags /\ Ranges /\ Places /\ Afresh
      /\ F!InAccesses /\ e \in Chips
  BY Typed, Effects DEF FieldInv, F!AccessOk
<1>2. chip' = e /\ tags' = F!Powered(e, tags)
  BY DEF F!AccessOk, F!SetChip
<1>3. /\ chip' \in Chips /\ tags' \in Tags /\ tags'.n = tags.n /\ (tags.n = 0 => tags'.st = "off")
      /\ acc \in 1 .. Limit(op) /\ frame = "none"
  BY <1>1, <1>2, AccessMeets
<1>4. acc \in {1, 2, 3, 4} /\ moved
  <2>1. acc \in 1 .. 4
    BY <1>3, Limits
  <2> QED BY <1>1, <1>3, <2>1, SMT DEF Places
<1>5. moved' = moved /\ calls' = calls /\ d_num_rf' = d_num_rf /\ i_status' = i_status /\ fault' = fault
  BY AccessCounts DEF F!AccessOk, F!DoSelect, F!slot
<1>6. CASE acc \in {1, 2, 3}
  <2>1. /\ op' = "on" /\ acc' = acc + 1 /\ frame' = "none" /\ f_ret' = f_ret
        /\ l3' = l3 /\ level' = level
    BY <1>3, <1>6, AccessCounts DEF F!AccessOk, F!slot
  <2>2. Ranges'
    <3>1. acc' \in 0 .. Limit(op')
      BY <1>6, <2>1, Limits, SMT
    <3> QED BY <1>1, <1>5, <2>1, <3>1 DEF Ranges
  <2>3. F!InStep'
    BY <1>4, <1>5, <2>1 DEF F!InStep
  <2>4. Places'
    <3>1. acc' > 0
      BY <1>6, <2>1, SMT
    <3> QED BY <1>3, <1>4, <1>5, <2>1, <3>1 DEF Places
  <2>5. Afresh'
    <3>1. CASE acc = 1
      <4>1. e = F!Effect("rf_on", chip)
        BY <3>1, AccessCounts DEF F!Access
      <4>2. ~e.rf /\ ~F!Field(e)
        BY <1>1, <4>1, Effects DEF F!Field
      <4>3. tags'.st = "off" /\ (tags'.n = 0 \/ (tags'.cl = 0 /\ tags'.speed = 106))
        <5> HIDE DEF e
        <5>1. CASE tags.n = 0
          BY <1>3, <5>1
        <5>2. CASE tags.n # 0
          <6>1. tags.n > 0
            BY <1>1, <5>2, SMT DEF Tags
          <6> QED BY <1>1, <1>2, <4>2, <6>1, PoweredTag
        <5> QED BY <5>1, <5>2
      <4> QED BY <1>2, <2>1, <3>1, <4>2, <4>3, SMT DEF Afresh, Forgotten
    <3>2. CASE acc = 2
      <4>1. e = F!Effect("flush", chip)
        BY <3>2, AccessCounts DEF F!Access
      <4> HIDE DEF e
      <4>2. e.fifo = "clean" /\ ~e.down /\ e.rf = chip.rf
        BY <1>1, <4>1, Effects
      <4>3. ASSUME ~fault
            PROVE  ~e.rf /\ tags'.st = "off" /\ (tags'.n = 0 \/ (tags'.cl = 0 /\ tags'.speed = 106))
        <5> HIDE DEF e
        <5>1. ~e.rf /\ ~F!Field(e)
          BY <1>1, <3>2, <4>2, <4>3 DEF Afresh, F!Field
        <5>2. CASE tags.n = 0
          BY <1>3, <5>1, <5>2
        <5>3. CASE tags.n # 0
          <6>1. tags.n > 0
            BY <1>1, <5>3, SMT DEF Tags
          <6> QED BY <1>1, <1>2, <5>1, <6>1, PoweredTag
        <5> QED BY <5>2, <5>3
      <4> QED BY <1>2, <1>5, <2>1, <3>2, <4>2, <4>3, SMT DEF Afresh, Forgotten
    <3>3. CASE acc = 3
      <4>1. e = F!Effect("tx_control", chip)
        BY <3>3, AccessCounts DEF F!Access
      <4> HIDE DEF e
      <4>2. e.rf /\ e.fifo = chip.fifo /\ e.down = chip.down
        BY <1>1, <4>1, Effects
      <4>3. ASSUME ~fault
            PROVE  /\ F!Field(e) /\ e.fifo = "clean"
                   /\ tags'.n = 0 \/ (tags'.cl = 0 /\ tags'.speed = 106)
                   /\ tags'.n > 0 => tags'.st = "idle"
        <5> HIDE DEF e
        <5>1. /\ F!Field(e) /\ e.fifo = "clean" /\ tags.st = "off"
              /\ tags.n = 0 \/ (tags.cl = 0 /\ tags.speed = 106)
          BY <1>1, <3>3, <4>2, <4>3 DEF Afresh, Forgotten, F!Field
        <5>2. CASE tags.n = 0
          <6>1. tags'.n = 0 /\ ~(tags'.n > 0)
            BY <1>3, <5>2, SMT
          <6> QED BY <5>1, <6>1
        <5>3. CASE tags.n # 0
          <6>1. tags.n > 0
            BY <1>1, <5>3, SMT DEF Tags
          <6>2. tags'.st = "idle" /\ tags'.cl = tags.cl /\ tags'.speed = tags.speed
            BY <1>1, <1>2, <5>1, <6>1, PoweredTag
          <6> QED BY <5>1, <5>3, <6>2
        <5> QED BY <5>2, <5>3
      <4> QED BY <1>2, <1>5, <2>1, <3>3, <4>3, SMT DEF Afresh, Forgotten
    <3> QED BY <1>6, <3>1, <3>2, <3>3
  <2> QED BY <1>3, <2>2, <2>3, <2>4, <2>5, Typed DEF FieldInv
<1>7. CASE acc = 4
  <2>1. e = F!Effect("rate", chip)
    BY <1>7, AccessCounts DEF F!Access
  <2> HIDE DEF e
  <2>2. e.speed = 106 /\ e.rf = chip.rf /\ e.fifo = chip.fifo /\ e.down = chip.down
    BY <1>1, <2>1, Effects
  <2>3. F!DoSelect
    BY <1>7, AccessCounts DEF F!AccessOk
  <2>4. CASE TagReset # "tag"
    <3>1. l3' = FALSE /\ level' = 1 /\ op' = "none" /\ acc' = 0 /\ frame' = "none" /\ f_ret' = "crash"
      BY <2>3, <2>4 DEF F!DoSelect, F!Finish
    <3>2. Ranges'
      <4>1. level' \in 0 .. 3 /\ acc' \in 0 .. Limit(op')
        BY <3>1, Limits, SMT
      <4> QED BY <1>1, <1>5, <3>1, <4>1 DEF Ranges
    <3>3. F!InStep' /\ Afresh'
      BY <3>1 DEF F!InStep, Afresh
    <3>4. Places'
      BY <1>3, <3>1 DEF Places
    <3> QED BY <1>3, <3>2, <3>3, <3>4, Typed DEF FieldInv
  <2>5. CASE TagReset = "tag"
    <3>1. l3' = FALSE /\ level' = 1 /\ op' = "on" /\ acc' = 0 /\ frame' = "reqa" /\ f_ret' = f_ret
      BY <2>3, <2>5 DEF F!DoSelect, F!NextFrame
    <3>2. Ranges'
      <4>1. level' \in 0 .. 3 /\ level' \in 1 .. 3 /\ acc' \in 0 .. Limit(op')
        BY <3>1, Limits, SMT
      <4> QED BY <1>1, <1>5, <3>1, <4>1 DEF Ranges
    <3>3. F!InStep'
      BY <3>1 DEF F!InStep
    <3>4. Places'
      BY <1>3, <1>4, <1>5, <3>1 DEF Places
    <3>5. ASSUME ~fault
          PROVE  F!Field(chip') /\ chip'.fifo = "clean"
      BY <1>1, <1>2, <1>7, <2>2, <3>5 DEF Afresh, F!Field
    <3>6. ASSUME ~fault, F!Plain(tags')
          PROVE  tags'.st = "idle" /\ tags'.cl = 0 /\ tags'.speed = 106
      <4>1. tags.n > 0 /\ tags.n # 0
        BY <1>3, <3>6, SMT DEF F!Plain
      <4>2. tags.st = "idle" /\ tags.cl = 0 /\ tags.speed = 106 /\ F!Field(e)
        BY <1>1, <1>2, <1>7, <3>5, <3>6, <4>1 DEF Afresh, Forgotten
      <4>3. tags' = tags
        BY <1>1, <1>2, <4>1, <4>2, PoweredTag
      <4> QED BY <4>2, <4>3
    <3>7. Afresh'
      <4>1. acc' \notin {2, 3, 4}
        BY <3>1, SMT
      <4> QED BY <1>2, <1>5, <2>2, <3>1, <3>5, <3>6, <4>1 DEF Afresh
    <3> QED BY <1>3, <3>2, <3>3, <3>4, <3>7, Typed DEF FieldInv
  <2> QED BY <2>4, <2>5
<1> QED BY <1>4, <1>6, <1>7

\* An access fails, with or without effect: a slot with a protocol is only in
\* cci_power_off then, and loses nothing by it.
LEMMA AccessFailsStep ==
  ASSUME FieldInv, F!AccessFails
  PROVE  FieldInv'
<1>1. chip \in Chips /\ tags \in Tags /\ Ranges /\ Places /\ F!InStep
  BY Typed DEF FieldInv
<1>2. PICK e \in {chip, F!Effect(F!Access, chip)} : chip' = e /\ tags' = F!Powered(e, tags)
  BY DEF F!AccessFails, F!SetChip
<1>3. e \in Chips /\ F!InAccesses
  <2>1. F!Effect(F!Access, chip) \in Chips
    BY <1>1, Effects
  <2> QED BY <1>1, <1>2, <2>1 DEF F!AccessFails
<1>4. /\ chip' \in Chips /\ tags' \in Tags /\ tags'.n = tags.n /\ (tags.n = 0 => tags'.st = "off")
      /\ op \in {"init", "on", "off"} /\ acc \in 1 .. Limit(op) /\ frame = "none"
  BY <1>2, <1>3, AccessMeets
<1>5. /\ d_num_rf' = d_num_rf /\ i_status' = i_status /\ l3' = l3 /\ level' = level
      /\ fault' = TRUE /\ moved' = moved /\ calls' = calls
      /\ op' = "none" /\ acc' = 0 /\ frame' = "none" /\ f_ret' \in {"none", "fail"}
  BY DEF F!AccessFails, F!Finish, F!slot
<1>6. Ranges'
  BY <1>1, <1>5, Limits DEF Ranges
<1>7. F!InStep'
  <2> SUFFICES ASSUME l3, ~moved
               PROVE  tags'.st = "proto" /\ F!Field(chip') /\ chip'.speed = tags'.speed
    BY <1>5 DEF F!InStep, F!Field
  <2>1. op = "off" /\ tags.st = "proto" /\ F!Field(chip) /\ chip.speed = tags.speed
    BY <1>1, <1>4 DEF F!InStep, Places
  <2>2. acc = 1
    BY <1>4, <2>1, Limits, SMT
  <2>3. F!Access = "rf_off"
    BY <2>1, <2>2, AccessCounts DEF F!Access
  <2>4. F!Field(e) /\ e.speed = chip.speed
    <3>1. CASE e = chip
      BY <2>1, <3>1
    <3>2. CASE e = F!Effect("rf_off", chip)
      <4> DEFINE d == F!Effect("rf_off", chip)
      <4>1. d.rf /\ d.down = chip.down /\ d.speed = chip.speed
        BY <1>1, Effects
      <4>2. e = d
        BY <3>2
      <4> HIDE DEF d
      <4> QED BY <2>1, <4>1, <4>2 DEF F!Field
    <3> QED BY <1>2, <2>3, <3>1, <3>2
  <2>5. tags.n > 0
    BY <1>1, <2>1, SMT DEF Places, Tags
  <2>6. tags' = tags
    BY <1>1, <1>2, <1>3, <2>1, <2>4, <2>5, PoweredTag
  <2> QED BY <1>2, <2>1, <2>4, <2>6
<1>8. Places' /\ Afresh'
  BY <1>4, <1>5 DEF Places, Afresh
<1> QED BY <1>4, <1>6, <1>7, <1>8, Typed DEF FieldInv

-----------------------------------------------------------------------------
(* The frames.                                                             *)

\* What the tag may make of a frame it hears.
LEMMA HeardTag ==
  ASSUME FieldInv, F!Hears(frame), NEW t \in F!Heard(frame)
  PROVE  /\ t \in Tags /\ t.n = tags.n /\ t.kind = tags.kind /\ tags.n > 0
         /\ frame = "reqa" => Becomes(t, tags, "ready", tags.cl, tags.speed)
         /\ frame = "select" =>
              Becomes(t, tags, IF level = tags.kind.uid THEN "active" ELSE "ready", level, tags.speed)
         /\ frame = "rats" => Becomes(t, tags, "proto", tags.cl, tags.speed)
         /\ frame = "pps" => t.st = tags.st /\ t.cl = tags.cl
         /\ frame \notin {"reqa", "select", "rats", "pps"} => t = tags
<1>1. tags \in Tags /\ level \in 0 .. 3
  BY Typed DEF FieldInv, Ranges
<1>2. tags.n > 0
  BY DEF F!Hears
<1>3. CASE frame = "reqa"
  <2>1. t = [tags EXCEPT !.st = "ready"]
    BY <1>3 DEF F!Heard
  <2>2. Becomes(t, tags, "ready", tags.cl, tags.speed)
    BY <1>1, <2>1, TagSt
  <2> QED BY <1>2, <1>3, <2>2 DEF Becomes
<1>4. CASE frame = "select"
  <2> DEFINE st == IF level = tags.kind.uid THEN "active" ELSE "ready"
  <2>1. t = [tags EXCEPT !.cl = level, !.st = st]
    BY <1>4 DEF F!Heard
  <2>2. st \in {"off", "idle", "ready", "active", "proto"}
    OBVIOUS
  <2> HIDE DEF st
  <2>3. Becomes(t, tags, st, level, tags.speed)
    BY <1>1, <2>1, <2>2, TagCl
  <2> QED BY <1>2, <1>4, <2>3 DEF Becomes, st
<1>5. CASE frame = "rats"
  <2>1. t = [tags EXCEPT !.st = "proto"]
    BY <1>5 DEF F!Heard
  <2>2. Becomes(t, tags, "proto", tags.cl, tags.speed)
    BY <1>1, <2>1, TagSt
  <2> QED BY <1>2, <1>5, <2>2 DEF Becomes
<1>6. CASE frame = "pps"
  <2>1. PICK s \in Speeds \cup {106} : t = [tags EXCEPT !.speed = s]
    BY <1>6 DEF F!Heard
  <2>2. Becomes(t, tags, tags.st, tags.cl, s)
    BY <1>1, <2>1, TagSpeed
  <2> QED BY <1>2, <1>6, <2>2 DEF Becomes
<1>7. CASE frame \notin {"reqa", "select", "rats", "pps"}
  <2>1. t = tags
    BY <1>7 DEF F!Heard
  <2> QED BY <1>1, <1>2, <1>7, <2>1
<1> QED BY <1>3, <1>4, <1>5, <1>6, <1>7

\* The chip, but for its FIFO or its rate.
LEMMA ChipFifo ==
  ASSUME NEW c \in Chips, NEW f \in {"clean", "dirty"}
  PROVE  LET d == [c EXCEPT !.fifo = f]
         IN d \in Chips /\ d.down = c.down /\ d.rf = c.rf /\ d.speed = c.speed
BY DEF Chips

\* The same for the rate.
LEMMA ChipSpeed ==
  ASSUME NEW c \in Chips, NEW s \in {0, 106} \cup Speeds
  PROVE  LET d == [c EXCEPT !.speed = s]
         IN d \in Chips /\ d.down = c.down /\ d.rf = c.rf /\ d.speed = s
BY DEF Chips

\* A frame fails: only a block is sent to a slot with a protocol, and the tag
\* stays where it is.
LEMMA FrameFailsStep ==
  ASSUME FieldInv, F!FrameFails
  PROVE  FieldInv'
<1>1. chip \in Chips /\ tags \in Tags /\ Ranges /\ Places /\ F!InStep
  BY Typed DEF FieldInv
<1>2. frame # "none" /\ op \in {"on", "transact"}
  BY <1>1 DEF F!FrameFails, F!InFrame, Places
<1>3. /\ tags' \in Tags /\ tags'.n = tags.n /\ (tags.n = 0 => tags'.st = "off")
      /\ frame = "block" => tags' = tags
  <2>1. CASE tags' = tags
    BY <1>1, <2>1 DEF Places
  <2>2. CASE F!Hears(frame) /\ tags' \in F!Heard(frame)
    <3>1. tags' \in Tags /\ tags'.n = tags.n /\ tags.n > 0 /\ (frame = "block" => tags' = tags)
      BY <2>2, HeardTag
    <3>2. tags.n # 0
      BY <3>1, SMT
    <3> QED BY <3>1, <3>2
  <2> QED BY <2>1, <2>2 DEF F!FrameFails
<1>4. /\ chip' \in Chips /\ chip'.down = chip.down /\ chip'.rf = chip.rf
      /\ chip'.speed = chip.speed
  <2>1. PICK f \in {"clean", "dirty"} : chip' = [chip EXCEPT !.fifo = f]
    BY DEF F!FrameFails
  <2> DEFINE d == [chip EXCEPT !.fifo = f]
  <2>2. d \in Chips /\ d.down = chip.down /\ d.rf = chip.rf /\ d.speed = chip.speed
    BY <1>1, ChipFifo
  <2>3. chip' = d
    BY <2>1
  <2> HIDE DEF d
  <2> QED BY <2>2, <2>3
<1>5. /\ d_num_rf' = d_num_rf /\ i_status' \in {i_status, "NOT_PRESENT"} /\ l3' = l3
      /\ level' = level /\ moved' = moved /\ calls' = calls
      /\ op' = "none" /\ acc' = 0 /\ frame' = "none" /\ f_ret' = "fail"
  BY DEF F!FrameFails, F!Finish
<1>6. fault' \in BOOLEAN
  BY <1>1, Zenon DEF F!FrameFails, Ranges
<1>7. Ranges'
  BY <1>1, <1>5, <1>6, Limits DEF Ranges
<1>8. F!InStep'
  <2> SUFFICES ASSUME l3, ~moved
               PROVE  tags'.st = "proto" /\ F!Field(chip') /\ chip'.speed = tags'.speed
    BY <1>5 DEF F!InStep, F!Field
  <2>1. op = "transact" /\ frame = "block"
    BY <1>1, <1>2 DEF Places
  <2> QED BY <1>1, <1>3, <1>4, <2>1 DEF F!InStep, F!Field
<1>9. Places' /\ Afresh'
  BY <1>3, <1>5 DEF Places, Afresh
<1> QED BY <1>3, <1>4, <1>7, <1>8, <1>9, Typed DEF FieldInv

\* Every frame of cci_power_on finds the slot without a protocol, and until
\* the ATS its tag counts as moved.
LEMMA OnFrame ==
  ASSUME FieldInv, frame \in {"reqa", "acf", "acf_again", "select", "rats", "pps", "set_speed"}
  PROVE  /\ op = "on" /\ acc = 0 /\ ~l3
         /\ frame \notin {"pps", "set_speed"} => moved = TRUE
<1>1. Places /\ moved \in BOOLEAN
  BY Typed DEF FieldInv, Ranges
<1>2. op = "on" /\ acc = 0 /\ ~l3
  BY <1>1 DEF Places
<1>3. frame \notin {"pps", "set_speed"} => moved
  BY <1>1, <1>2 DEF Places
<1> QED BY <1>1, <1>2, <1>3

\* The call ends without a protocol.
LEMMA Ended ==
  ASSUME Ranges, chip' \in Chips, tags' \in Tags, tags'.n = 0 => tags'.st = "off",
         ~l3, l3' = l3, d_num_rf' = d_num_rf, i_status' \in {i_status, "ACTIVE"},
         level' = level, moved' = moved, calls' = calls, fault' \in BOOLEAN, F!Finish("fail")
  PROVE  FieldInv'
<1>1. op' = "none" /\ acc' = 0 /\ frame' = "none" /\ f_ret' = "fail"
  BY DEF F!Finish
<1>2. Ranges'
  BY <1>1, Limits DEF Ranges
<1>3. F!InStep' /\ Places' /\ Afresh'
  BY <1>1 DEF F!InStep, Places, Afresh
<1> QED BY <1>2, <1>3, Typed DEF FieldInv

\* The selection goes on with another frame.
LEMMA GoesOn ==
  ASSUME FieldInv, NEW f \in {"acf", "acf_again", "select", "rats", "pps", "set_speed"},
         F!NextFrame(f), op = "on", ~l3,
         chip' = chip, tags' \in Tags, tags'.n = tags.n, tags.n > 0,
         l3' = l3, d_num_rf' = d_num_rf, i_status' \in {i_status, "ACTIVE"},
         level' \in 0 .. 3, f \in {"acf", "acf_again", "select"} => level' \in 1 .. 3,
         calls' = calls, fault' = fault, moved' \in BOOLEAN,
         F!Field(chip), chip.fifo = "clean",
         ~moved' => f \in {"pps", "set_speed"} /\ tags'.st = "proto",
         ~fault /\ f # "set_speed" /\ F!Plain(tags') =>
           /\ level' = 1 /\ chip.speed = 106 /\ tags'.speed = 106
           /\ f \in {"acf", "select"} => tags'.st = "ready" /\ tags'.cl = 0
           /\ f = "rats" => tags'.st = "active"
           /\ f = "pps" => tags'.st = "proto"
           /\ f # "acf_again"
  PROVE  FieldInv'
<1>1. chip' \in Chips /\ Ranges
  BY Typed DEF FieldInv
<1>2. op' = "on" /\ acc' = 0 /\ frame' = f /\ f_ret' = f_ret /\ f # "none"
  BY DEF F!NextFrame
<1>3. Ranges'
  <2>1. acc' \in 0 .. Limit(op')
    BY <1>2, Limits, SMT
  <2> QED BY <1>1, <1>2, <2>1 DEF Ranges
<1>4. F!InStep'
  BY DEF F!InStep
<1>5. tags'.n # 0
  BY SMT
<1>6. Places'
  BY <1>2, <1>5 DEF Places, F!Field
<1>7. Afresh'
  <2>1. acc' \notin {2, 3, 4}
    BY <1>2, SMT
  <2> QED BY <1>2, <2>1 DEF Afresh, F!Field
<1> QED BY <1>1, <1>3, <1>4, <1>6, <1>7, Typed DEF FieldInv

\* The tag answers REQA.
LEMMA RequestedStep ==
  ASSUME FieldInv, F!Requested
  PROVE  FieldInv'
<1>1. chip \in Chips /\ tags \in Tags /\ Ranges /\ Afresh
  BY Typed DEF FieldInv
<1>2. frame = "reqa" /\ F!Hears(frame) /\ tags' \in F!Heard(frame)
  BY DEF F!Requested
<1>3. op = "on" /\ acc = 0 /\ ~l3 /\ moved = TRUE
  BY <1>2, OnFrame
<1>4. /\ tags' \in Tags /\ tags'.n = tags.n /\ tags'.kind = tags.kind /\ tags.n > 0
      /\ Becomes(tags', tags, "ready", tags.cl, tags.speed)
  BY <1>2, HeardTag
<1>5. /\ chip' = chip /\ d_num_rf' = d_num_rf /\ l3' = l3 /\ level' = level
      /\ moved' = moved /\ fault' = fault /\ calls' = calls
  BY DEF F!Requested
<1>6. tags'.n # 0
  BY <1>4, SMT
<1>7. F!Field(chip) /\ chip.fifo = "clean"
  BY <1>2 DEF F!Hears
<1>8. CASE tags.kind.bitframe
  <2>1. F!NextFrame("acf") /\ i_status' = i_status
    BY <1>8 DEF F!Requested
  <2>2. ASSUME ~fault, F!Plain(tags')
        PROVE  level' = 1 /\ chip.speed = 106 /\ tags'.speed = 106 /\ tags'.st = "ready" /\ tags'.cl = 0
    <3>1. F!Plain(tags)
      BY <1>4, <2>2 DEF F!Plain
    <3> QED BY <1>1, <1>2, <1>3, <1>4, <1>5, <2>2, <3>1 DEF Afresh, Becomes
  <2>3. level' \in 0 .. 3 /\ level' \in 1 .. 3 /\ moved' \in BOOLEAN
    BY <1>1, <1>2, <1>5 DEF Ranges
  <2> QED BY <1>1, <1>3, <1>4, <1>5, <1>7, <2>1, <2>2, <2>3, GoesOn
<1>9. CASE ~tags.kind.bitframe
  <2>1. F!Finish("fail") /\ i_status' = "ACTIVE"
    BY <1>9 DEF F!Requested
  <2>2. fault' \in BOOLEAN
    BY <1>1, <1>5 DEF Ranges
  <2> QED BY <1>1, <1>3, <1>4, <1>5, <1>6, <2>1, <2>2, Ended
<1> QED BY <1>8, <1>9

\* An anticollision frame: a lone tag is selected next.
LEMMA AnticollisionStep ==
  ASSUME FieldInv, F!Anticollision
  PROVE  FieldInv'
<1>1. chip \in Chips /\ tags \in Tags /\ Ranges /\ Afresh
  BY Typed DEF FieldInv
<1>2. frame \in {"acf", "acf_again"} /\ F!Hears(frame)
  BY DEF F!Anticollision
<1>3. op = "on" /\ acc = 0 /\ ~l3 /\ moved = TRUE
  BY <1>2, OnFrame
<1>4. /\ chip' = chip /\ tags' = tags /\ d_num_rf' = d_num_rf /\ l3' = l3 /\ level' = level
      /\ i_status' = i_status /\ moved' = moved /\ fault' = fault /\ calls' = calls
  BY DEF F!Anticollision, F!slot
<1>5. F!Field(chip) /\ chip.fifo = "clean" /\ tags.n > 0 /\ tags.st = "ready"
  BY <1>2 DEF F!Hears
<1> DEFINE f == IF frame = "acf" /\ tags.n > 1 THEN "acf_again" ELSE "select"
<1>6. f \in {"acf_again", "select"} /\ F!NextFrame(f)
  BY DEF F!Anticollision
<1>7. ASSUME ~fault, F!Plain(tags)
      PROVE  level = 1 /\ chip.speed = 106 /\ tags.speed = 106 /\ f = "select" /\ tags.cl = 0
  <2>1. ~(tags.n > 1)
    BY <1>7, SMT DEF F!Plain
  <2> QED BY <1>1, <1>2, <1>3, <1>7, <2>1 DEF Afresh
<1> HIDE DEF f
<1>8. level \in 0 .. 3 /\ level \in 1 .. 3 /\ moved' \in BOOLEAN
  BY <1>1, <1>2, <1>4 DEF Ranges
<1>9. ~fault /\ f # "set_speed" /\ F!Plain(tags') =>
        /\ level' = 1 /\ chip.speed = 106 /\ tags'.speed = 106
        /\ f \in {"acf", "select"} => tags'.st = "ready" /\ tags'.cl = 0
        /\ f = "rats" => tags'.st = "active"
        /\ f = "pps" => tags'.st = "proto"
        /\ f # "acf_again"
  BY <1>4, <1>5, <1>6, <1>7
<1> QED BY <1>1, <1>3, <1>4, <1>5, <1>6, <1>8, <1>9, GoesOn

\* A cascade level is done: the next one, or RATS.
LEMMA SelectedStep ==
  ASSUME FieldInv, F!Selected
  PROVE  FieldInv'
<1>1. chip \in Chips /\ tags \in Tags /\ Ranges /\ Afresh
  BY Typed DEF FieldInv
<1>2. frame = "select" /\ F!Hears(frame) /\ tags' \in F!Heard(frame)
  BY DEF F!Selected
<1>3. op = "on" /\ acc = 0 /\ ~l3 /\ moved = TRUE
  BY <1>2, OnFrame
<1>4. /\ tags' \in Tags /\ tags'.n = tags.n /\ tags'.kind = tags.kind /\ tags.n > 0
      /\ tags'.speed = tags.speed
      /\ tags'.st = IF level = tags.kind.uid THEN "active" ELSE "ready"
  BY <1>2, HeardTag DEF Becomes
<1>5. /\ chip' = chip /\ d_num_rf' = d_num_rf /\ l3' = l3
      /\ moved' = moved /\ fault' = fault /\ calls' = calls
  BY DEF F!Selected
<1>6. tags'.n # 0
  BY <1>4, SMT
<1>7. F!Field(chip) /\ chip.fifo = "clean"
  BY <1>2 DEF F!Hears
<1>8. level \in 0 .. 3 /\ tags.kind.uid \in 1 .. 3 /\ moved' \in BOOLEAN /\ fault' \in BOOLEAN
  BY <1>1, <1>5 DEF Ranges, Tags, F!Kinds
<1>9. ASSUME ~fault, F!Plain(tags')
      PROVE  tags.kind.uid = 1 /\ level = 1 /\ chip.speed = 106 /\ tags.speed = 106
  <2>1. F!Plain(tags)
    BY <1>4, <1>9 DEF F!Plain
  <2> QED BY <1>1, <1>2, <1>3, <1>9, <2>1 DEF Afresh, F!Plain
<1>10. CASE level < tags.kind.uid
  <2>1. F!NextFrame("acf") /\ i_status' = i_status /\ level' = level + 1
    BY <1>10 DEF F!Selected
  <2>2. level' \in 0 .. 3 /\ level' \in 1 .. 3
    BY <1>8, <1>10, <2>1, SMT
  <2>3. ~(~fault /\ F!Plain(tags'))
    BY <1>9, <1>10, SMT
  <2> QED BY <1>1, <1>3, <1>4, <1>5, <1>7, <1>8, <2>1, <2>2, <2>3, GoesOn
<1>11. CASE ~(level < tags.kind.uid) /\ tags.kind.tcl
  <2>1. F!NextFrame("rats") /\ i_status' = "ACTIVE" /\ level' = level
    BY <1>11 DEF F!Selected
  <2> QED BY <1>1, <1>3, <1>4, <1>5, <1>7, <1>8, <1>9, <2>1, GoesOn
<1>12. CASE ~(level < tags.kind.uid) /\ ~tags.kind.tcl
  <2>1. F!Finish("fail") /\ i_status' = "ACTIVE" /\ level' = level
    BY <1>12 DEF F!Selected
  <2> QED BY <1>1, <1>3, <1>4, <1>5, <1>6, <1>8, <2>1, Ended
<1> QED BY <1>10, <1>11, <1>12

\* The ATS: from here on the tag waits for blocks.
LEMMA GotAtsStep ==
  ASSUME FieldInv, F!GotAts
  PROVE  FieldInv'
<1>1. chip \in Chips /\ tags \in Tags /\ Ranges /\ Afresh
  BY Typed DEF FieldInv
<1>2. frame = "rats" /\ F!Hears(frame) /\ tags' \in F!Heard(frame)
  BY DEF F!GotAts
<1>3. op = "on" /\ acc = 0 /\ ~l3
  BY <1>2, OnFrame
<1>4. /\ tags' \in Tags /\ tags'.n = tags.n /\ tags'.kind = tags.kind /\ tags.n > 0
      /\ tags'.speed = tags.speed /\ tags'.st = "proto"
  BY <1>2, HeardTag DEF Becomes
<1>5. /\ chip' = chip /\ d_num_rf' = d_num_rf /\ l3' = l3 /\ level' = level /\ i_status' = i_status
      /\ moved' \in BOOLEAN /\ fault' = fault /\ calls' = calls /\ F!NextFrame("pps")
  BY DEF F!GotAts, F!slot
<1>6. F!Field(chip) /\ chip.fifo = "clean"
  BY <1>2 DEF F!Hears
<1>7. ASSUME ~fault, F!Plain(tags')
      PROVE  level = 1 /\ chip.speed = 106 /\ tags.speed = 106
  <2>1. F!Plain(tags)
    BY <1>4, <1>7 DEF F!Plain
  <2> QED BY <1>1, <1>2, <1>3, <1>7, <2>1 DEF Afresh
<1>8. level \in 0 .. 3
  BY <1>1 DEF Ranges
<1> QED BY <1>1, <1>3, <1>4, <1>5, <1>6, <1>7, <1>8, GoesOn

\* PPS is agreed on.
LEMMA GotPpsStep ==
  ASSUME FieldInv, F!GotPps
  PROVE  FieldInv'
<1>1. Ranges
  BY Typed DEF FieldInv
<1>2. frame = "pps" /\ F!Hears(frame) /\ tags' \in F!Heard(frame)
  BY DEF F!GotPps
<1>3. op = "on" /\ acc = 0 /\ ~l3
  BY <1>2, OnFrame
<1>4. tags' \in Tags /\ tags'.n = tags.n /\ tags.n > 0 /\ tags'.st = tags.st
  BY <1>2, HeardTag
<1>5. /\ chip' = chip /\ d_num_rf' = d_num_rf /\ l3' = l3 /\ level' = level /\ i_status' = i_status
      /\ moved' = moved /\ fault' = fault /\ calls' = calls /\ F!NextFrame("set_speed")
  BY DEF F!GotPps, F!slot
<1>6. F!Field(chip) /\ chip.fifo = "clean" /\ tags.st = "proto"
  BY <1>2 DEF F!Hears
<1>7. level \in 0 .. 3 /\ moved' \in BOOLEAN
  BY <1>1, <1>5 DEF Ranges
<1> QED BY <1>3, <1>4, <1>5, <1>6, <1>7, GoesOn

\* The reader takes the speed of the tag, and the slot has a protocol.
LEMMA SetSpeedStep ==
  ASSUME FieldInv, F!SetSpeed
  PROVE  FieldInv'
<1>1. chip \in Chips /\ tags \in Tags /\ Ranges /\ Places
  BY Typed DEF FieldInv
<1>2. frame = "set_speed" /\ op = "on"
  BY OnFrame DEF F!SetSpeed
<1>3. PICK s \in Speeds \cup {106} :
        (tags.st = "proto" => s = tags.speed) /\ chip' = [chip EXCEPT !.speed = s]
  BY DEF F!SetSpeed
<1> DEFINE d == [chip EXCEPT !.speed = s]
<1>4. d \in Chips /\ d.down = chip.down /\ d.rf = chip.rf /\ d.speed = s
  BY <1>1, ChipSpeed
<1>5. chip' = d
  BY <1>3
<1> HIDE DEF d
<1>6. /\ tags' = tags /\ d_num_rf' = d_num_rf /\ i_status' = i_status /\ level' = level
      /\ moved' = moved /\ fault' = fault /\ calls' = calls /\ l3' = TRUE
      /\ op' = "none" /\ acc' = 0 /\ frame' = "none" /\ f_ret' = "ok"
  BY DEF F!SetSpeed, F!Finish
<1>7. Ranges'
  BY <1>1, <1>6, Limits DEF Ranges
<1>8. F!InStep'
  <2> SUFFICES ASSUME ~moved
               PROVE  tags.st = "proto" /\ F!Field(d) /\ d.speed = tags.speed
    BY <1>5, <1>6 DEF F!InStep, F!Field
  <2>1. tags.st = "proto" /\ F!Field(chip)
    BY <1>1, <1>2 DEF Places
  <2> QED BY <1>3, <1>4, <2>1 DEF F!Field
<1>9. Places' /\ Afresh'
  BY <1>1, <1>6 DEF Places, Afresh
<1> QED BY <1>1, <1>4, <1>5, <1>6, <1>7, <1>8, <1>9, Typed DEF FieldInv

\* The reader does not: no protocol either.
LEMMA SetSpeedFailsStep ==
  ASSUME FieldInv, F!SetSpeedFails
  PROVE  FieldInv'
<1>1. chip \in Chips /\ tags \in Tags /\ Ranges /\ Places
  BY Typed DEF FieldInv
<1>2. ~l3
  BY OnFrame DEF F!SetSpeedFails
<1>3. chip' \in Chips
  <2>1. PICK s \in {chip.speed, 0} \cup Speeds : chip' = [chip EXCEPT !.speed = s]
    BY DEF F!SetSpeedFails
  <2>2. s \in {0, 106} \cup Speeds
    BY <1>1, <2>1 DEF Chips
  <2> QED BY <1>1, <2>1, <2>2, ChipSpeed
<1>4. /\ tags' = tags /\ d_num_rf' = d_num_rf /\ i_status' = i_status /\ l3' = l3 /\ level' = level
      /\ moved' = moved /\ fault' = TRUE /\ calls' = calls /\ F!Finish("fail")
  BY DEF F!SetSpeedFails, F!slot
<1>5. tags'.n = 0 => tags'.st = "off"
  BY <1>1, <1>4 DEF Places
<1> QED BY <1>1, <1>2, <1>3, <1>4, <1>5, Ended

\* A block is answered.
LEMMA AnsweredStep ==
  ASSUME FieldInv, F!Answered
  PROVE  FieldInv'
<1>1. chip \in Chips /\ tags \in Tags /\ Ranges /\ Places /\ F!InStep
  BY Typed DEF FieldInv
<1>2. op = "transact"
  BY <1>1 DEF Places, F!Answered
<1>3. /\ chip' = chip /\ tags' = tags /\ d_num_rf' = d_num_rf /\ i_status' = i_status /\ l3' = l3
      /\ level' = level /\ moved' = moved /\ fault' = fault /\ calls' = calls
      /\ op' = "none" /\ acc' = 0 /\ frame' = "none" /\ f_ret' = "ok"
  BY DEF F!Answered, F!Finish, F!slot
<1>4. Ranges'
  BY <1>1, <1>3, Limits DEF Ranges
<1>5. F!InStep'
  BY <1>1, <1>2, <1>3 DEF F!InStep, F!Field
<1>6. Places' /\ Afresh'
  BY <1>1, <1>3 DEF Places, Afresh
<1> QED BY <1>1, <1>3, <1>4, <1>5, <1>6, Typed DEF FieldInv

-----------------------------------------------------------------------------
(* Tags come and go.                                                       *)

\* A tag comes into an empty field, which had no tag in step, or a second one.
LEMMA TagArrivesStep ==
  ASSUME FieldInv, F!TagArrives
  PROVE  FieldInv'
<1>1. chip \in Chips /\ tags \in Tags /\ Ranges /\ Places /\ F!InStep
  BY Typed DEF FieldInv
<1>2. /\ chip' = chip /\ d_num_rf' = d_num_rf /\ i_status' = i_status /\ l3' = l3 /\ level' = level
      /\ op' = op /\ acc' = acc /\ frame' = frame /\ f_ret' = f_ret
      /\ moved' = moved /\ calls' = calls /\ fault' = TRUE
  BY DEF F!TagArrives, F!slot, F!place
<1>3. CASE tags.n = 0
  <2>1. PICK k \in F!Kinds : tags' = F!Powered(chip, [F!NoTag EXCEPT !.n = 1, !.kind = k])
    BY <1>3 DEF F!TagArrives
  <2> DEFINE t == [F!NoTag EXCEPT !.n = 1, !.kind = k]
  <2>2. t \in Tags /\ t.n = 1
    <3> DEFINE one == 1
    <3>1. one \in 0 .. 2
      BY SMT
    <3>2. F!NoTag \in Tags
      BY FieldSizes DEF F!NoTag, Tags, F!Kinds, F!RfidAssumption
    <3> HIDE DEF one
    <3>3. LET d == [F!NoTag EXCEPT !.n = one, !.kind = k] IN d \in Tags /\ d.n = one
      BY <3>1, <3>2, TagNew
    <3> QED BY <3>3 DEF one
  <2> HIDE DEF t
  <2>3. tags' \in Tags /\ tags'.n = 1
    BY <1>1, <2>1, <2>2, PoweredTag DEF t
  <2>4. tags'.n # 0
    BY <2>3, SMT
  <2>5. tags.st = "off"
    BY <1>1, <1>3 DEF Places
  <2>6. (l3 => moved) /\ (op = "on" => moved)
    BY <1>1, <2>5 DEF F!InStep, Places
  <2>7. Ranges'
    BY <1>1, <1>2 DEF Ranges
  <2>8. F!InStep' /\ Places' /\ Afresh'
    BY <1>1, <1>2, <2>4, <2>6 DEF F!InStep, Places, Afresh
  <2> QED BY <1>1, <1>2, <2>3, <2>7, <2>8, Typed DEF FieldInv
<1>4. CASE tags.n # 0
  <2>1. tags' = [tags EXCEPT !.n = 2]
    BY <1>4 DEF F!TagArrives
  <2>2. tags' \in Tags /\ tags'.n = 2 /\ tags'.st = tags.st /\ tags'.speed = tags.speed
    BY <1>1, <2>1, SMT DEF Tags
  <2>3. tags'.n # 0
    BY <2>2, SMT
  <2>4. Ranges'
    BY <1>1, <1>2 DEF Ranges
  <2>5. F!InStep'
    BY <1>1, <1>2, <2>2 DEF F!InStep, F!Field
  <2>6. Places' /\ Afresh'
    BY <1>1, <1>2, <2>2, <2>3 DEF Places, Afresh, F!Field
  <2> QED BY <1>1, <1>2, <2>2, <2>4, <2>5, <2>6, Typed DEF FieldInv
<1> QED BY <1>3, <1>4

\* The tags are taken away: the slot's protocol is of a tag that moved.
LEMMA TagsLeaveStep ==
  ASSUME FieldInv, F!TagsLeave
  PROVE  FieldInv'
<1>1. chip \in Chips /\ Ranges /\ Places
  BY Typed DEF FieldInv
<1>2. /\ chip' = chip /\ d_num_rf' = d_num_rf /\ i_status' = i_status /\ l3' = l3 /\ level' = level
      /\ op' = op /\ acc' = acc /\ frame' = frame /\ f_ret' = f_ret
      /\ moved' = TRUE /\ calls' = calls /\ fault' = TRUE /\ tags' = F!NoTag
  BY DEF F!TagsLeave, F!slot, F!place
<1>3. F!NoTag \in Tags /\ F!NoTag.st = "off"
  BY FieldSizes DEF F!NoTag, Tags, F!Kinds, F!RfidAssumption
<1>4. Ranges'
  BY <1>1, <1>2 DEF Ranges
<1>5. F!InStep' /\ Places' /\ Afresh'
  BY <1>1, <1>2, <1>3 DEF F!InStep, Places, Afresh
<1> QED BY <1>1, <1>2, <1>3, <1>4, <1>5, Typed DEF FieldInv

-----------------------------------------------------------------------------
(* What holds of the field, whatever the tags, the calls and the failures. *)

\* Every step of the field keeps the invariant.
LEMMA FieldStep == FieldInv /\ [F!Next]_(F!vars) => FieldInv'
<1> SUFFICES ASSUME FieldInv, [F!Next]_(F!vars) PROVE FieldInv'
  OBVIOUS
<1>1. CASE F!PowerOn \/ F!PowerOff \/ F!Transact \/ F!TransactRefused
  BY <1>1, CallStep
<1>2. CASE F!AccessOk
  <2>1. F!Effect(F!Access, chip) \in Chips
    BY Typed, Effects DEF FieldInv
  <2>2. op \in {"init", "on", "off"}
    BY <1>2, <2>1, AccessMeets DEF F!AccessOk, F!SetChip
  <2> QED BY <1>2, <2>2, SetUpStep, OnStep, OffStep
<1>3. CASE F!AccessFails
  BY <1>3, AccessFailsStep
<1>4. CASE F!FrameFails \/ F!Requested \/ F!Anticollision \/ F!Selected
  BY <1>4, FrameFailsStep, RequestedStep, AnticollisionStep, SelectedStep
<1>5. CASE F!GotAts \/ F!GotPps \/ F!SetSpeed \/ F!SetSpeedFails \/ F!Answered
  BY <1>5, GotAtsStep, GotPpsStep, SetSpeedStep, SetSpeedFailsStep, AnsweredStep
<1>6. CASE F!TagArrives \/ F!TagsLeave
  BY <1>6, TagArrivesStep, TagsLeaveStep
<1>7. CASE UNCHANGED F!vars
  <2>1. /\ chip' = chip /\ tags' = tags /\ d_num_rf' = d_num_rf /\ i_status' = i_status /\ l3' = l3
        /\ level' = level /\ op' = op /\ acc' = acc /\ frame' = frame /\ f_ret' = f_ret
        /\ moved' = moved /\ fault' = fault /\ calls' = calls
    BY <1>7 DEF F!vars, F!slot, F!place
  <2>2. chip \in Chips /\ tags \in Tags /\ Ranges /\ F!InStep /\ Places /\ Afresh
    BY Typed DEF FieldInv
  <2>3. Ranges'
    BY <2>1, <2>2 DEF Ranges
  <2>4. F!InStep'
    BY <2>1, <2>2 DEF F!InStep, F!Field
  <2>5. Places'
    BY <2>1, <2>2 DEF Places, F!Field
  <2>6. Afresh'
    BY <2>1, <2>2 DEF Afresh, Forgotten, F!Field, F!Plain
  <2> QED BY <2>1, <2>2, <2>3, <2>4, <2>5, <2>6, Typed DEF FieldInv
<1> QED BY <1>1, <1>2, <1>3, <1>4, <1>5, <1>6, <1>7 DEF F!Next

\* A behaviour of the field keeps the invariant: the slot and the tag agree,
\* and cci_power_on leaves nothing of what was before.
THEOREM FieldInvariance == F!Spec => []FieldInv
<1>1. F!Init => FieldInv
  BY FieldStart
<1>2. FieldInv /\ [F!Next]_(F!vars) => FieldInv'
  BY FieldStep
<1> QED BY <1>1, <1>2, PTL DEF F!Spec

\* Beside the block protocol the field behaves as it does alone.
THEOREM ContactlessRefines == BothSpec => F!Spec
<1>1. BothInit => F!Init
  BY DEF BothInit
<1>2. [BothNext]_<<half, vars, field>> => [F!Next]_(F!vars)
  BY DEF BothNext, field, F!vars, F!slot, F!place
<1> QED BY <1>1, <1>2, PTL DEF BothSpec, F!Spec

\* Beside the field the block protocol behaves as it does alone, so that what
\* TclProofs has of it holds here too.
THEOREM ContactlessBlocks == BothSpec => Spec
<1>1. BothInit => Init
  BY DEF BothInit
<1>2. [BothNext]_<<half, vars, field>> => [Next]_vars
  BY DEF BothNext
<1> QED BY <1>1, <1>2, PTL DEF BothSpec, Spec

\* The field keeps its types, and no tag is asked for its UID without the
\* select code of a cascade level (iso14443a.c, cci_rfid.c).
THEOREM ContactlessType == BothSpec => []FieldTypeOK
<1>1. FieldInv => FieldTypeOK
  BY DEF FieldInv, FieldTypeOK
<1> QED BY <1>1, FieldInvariance, ContactlessRefines, PTL

\* While the slot has a protocol and its tag has stayed, the tag waits for
\* blocks, in a field that is on, at the speed the reader sends.
THEOREM ContactlessInStep == BothSpec => []FieldInStep
<1>1. FieldInv => FieldInStep
  BY DEF FieldInv, FieldInStep
<1> QED BY <1>1, FieldInvariance, ContactlessRefines, PTL

\* The timer lasts for the answer to every frame, except just for a tag whose
\* FWI is above 8 or missing (clrc632_set_timeout).
THEOREM ContactlessTimer == BothSpec => []TimerLasts
<1>1. FieldInv => TimerLasts
  BY TimerFits DEF FieldInv, TimerLasts, F!TimerLasts
<1> QED BY <1>1, FieldInvariance, ContactlessRefines, PTL

\* With the memset of _iso14443a_anticol writing what its argument points to, a
\* cci_power_on in which nothing is lost selects a lone plain tag.
LEMMA TagSelects ==
  ASSUME TagReset = "tag" PROVE F!Spec => F!GenuineSelected
<1>1. ASSUME FieldInv, F!Next, op = "on", op' = "none", ~fault', F!Plain(tags)
      PROVE  f_ret' = "ok"
  <2>1. F!TypeOK /\ Ranges /\ Places /\ Afresh
    BY <1>1, Typed DEF FieldInv
  <2>2. CASE F!PowerOn \/ F!PowerOff \/ F!Transact \/ F!TransactRefused
    BY <1>1, <2>2 DEF F!PowerOn, F!PowerOff, F!Transact, F!TransactRefused, F!Call
  <2>3. CASE F!AccessOk
    <3>1. op' = op
      BY <1>1, <2>3, AccessCounts DEF F!AccessOk, F!DoSelect, F!NextFrame
    <3> QED BY <1>1, <3>1
  <2>4. CASE F!AccessFails \/ F!SetSpeedFails \/ F!TagArrives \/ F!TagsLeave
    BY <1>1, <2>4 DEF F!AccessFails, F!SetSpeedFails, F!TagArrives, F!TagsLeave
  <2>5. CASE F!FrameFails
    <3>1. ~fault /\ ~(F!Hears(frame) /\ F!InTime(frame)) /\ F!InFrame
      BY <1>1, <2>5 DEF F!FrameFails
    <3>2. ~(tags.kind.fwi > 8) /\ tags.n > 0
      <4>1. tags.kind.fwi \in 0 .. 16
        BY <2>1, FieldSizes DEF F!TypeOK, F!Kinds, F!RfidAssumption, F!NoTb
      <4>2. tags.n = 1 /\ tags.kind.fwi <= 8
        BY <1>1 DEF F!Plain
      <4> QED BY <4>1, <4>2, SMT
    <3>3. F!InTime(frame)
      BY <2>1, <3>1, <3>2, TimerFits
    <3>4. F!Field(chip) /\ chip.fifo = "clean" /\ chip.speed = tags.speed /\ level = 1
      BY <1>1, <2>1, <3>1 DEF Afresh, F!InFrame
    <3>5. frame \in {"reqa", "acf", "select", "rats", "pps"}
      BY <1>1, <2>1, <3>1 DEF Afresh, Places, Ranges, F!InFrame
    <3>6. F!SelCode[level] = F!IsoCode[level] /\ level - 1 = 0
      BY <3>4 DEF F!SelCode, F!IsoCode
    <3>7. /\ frame = "reqa" => tags.st = "idle"
          /\ frame \in {"acf", "select"} => tags.st = "ready" /\ tags.cl = level - 1
          /\ frame = "rats" => tags.st = "active" /\ tags.kind.tcl
          /\ frame = "pps" => tags.st = "proto"
      BY <1>1, <2>1, <3>1, <3>5, <3>6 DEF Afresh, F!Plain, F!InFrame
    <3>8. F!Hears(frame)
      BY <3>2, <3>4, <3>5, <3>6, <3>7 DEF F!Hears
    <3> QED BY <3>1, <3>3, <3>8
  <2>6. CASE F!Requested
    BY <1>1, <2>6 DEF F!Requested, F!NextFrame, F!Plain
  <2>7. CASE F!Anticollision
    BY <1>1, <2>7 DEF F!Anticollision, F!NextFrame
  <2>8. CASE F!Selected
    BY <1>1, <2>8 DEF F!Selected, F!NextFrame, F!Plain
  <2>9. CASE F!GotAts \/ F!GotPps
    BY <1>1, <2>9 DEF F!GotAts, F!GotPps, F!NextFrame
  <2>10. CASE F!SetSpeed \/ F!Answered
    BY <2>10 DEF F!SetSpeed, F!Answered, F!Finish
  <2> QED BY <1>1, <2>2, <2>3, <2>4, <2>5, <2>6, <2>7, <2>8, <2>9, <2>10 DEF F!Next
<1>2. FieldInv /\ [F!Next]_(F!vars) =>
        [op = "on" /\ op' = "none" /\ ~fault' /\ F!Plain(tags)
           => f_ret' = (IF TagReset = "tag" THEN "ok" ELSE "crash")]_(F!vars)
  BY <1>1
<1> QED BY <1>2, FieldInvariance, PTL DEF F!GenuineSelected, F!Spec

\* With the memset on the pointer, as the source has it, no slot ever gets a
\* protocol and no frame is ever sent, let alone a block.
THEOREM PointerSelectsNothing ==
  TagReset = "pointer" => (F!Spec => [](~l3 /\ frame = "none"))
<1> SUFFICES ASSUME TagReset = "pointer" PROVE F!Spec => [](~l3 /\ frame = "none")
  OBVIOUS
<1> DEFINE Nothing == ~l3 /\ frame = "none"
<1>1. F!Init => Nothing
  BY DEF F!Init
<1>2. Nothing /\ [F!Next]_(F!vars) => Nothing'
  <2> SUFFICES ASSUME ~l3, frame = "none", [F!Next]_(F!vars) PROVE Nothing'
    OBVIOUS
  <2>1. CASE F!PowerOn \/ F!PowerOff \/ F!Transact \/ F!TransactRefused
    BY <2>1 DEF F!PowerOn, F!PowerOff, F!Transact, F!TransactRefused, F!slot, F!place
  <2>2. CASE F!AccessOk
    BY <2>2 DEF F!AccessOk, F!DoSelect, F!Finish, F!slot
  <2>3. CASE F!AccessFails
    BY <2>3 DEF F!AccessFails, F!Finish, F!slot
  <2>4. CASE F!TagArrives \/ F!TagsLeave \/ UNCHANGED F!vars
    <3>1. l3' = l3 /\ frame' = frame
      <4>1. F!TagArrives => l3' = l3 /\ frame' = frame
        BY Zenon DEF F!TagArrives, F!slot, F!place
      <4>2. F!TagsLeave => l3' = l3 /\ frame' = frame
        BY Zenon DEF F!TagsLeave, F!slot, F!place
      <4>3. UNCHANGED F!vars => l3' = l3 /\ frame' = frame
        BY DEF F!vars, F!slot, F!place
      <4> QED BY <2>4, <4>1, <4>2, <4>3
    <3> QED BY <3>1
  <2>5. ~F!InFrame /\ frame # "set_speed"
    BY DEF F!InFrame
  <2> QED BY <2>1, <2>2, <2>3, <2>4, <2>5 DEF F!Next, F!FrameFails, F!Requested, F!Anticollision,
        F!Selected, F!GotAts, F!GotPps, F!SetSpeed, F!SetSpeedFails, F!Answered
<1> QED BY <1>1, <1>2, PTL DEF F!Spec

\* As the source has it, a cci_power_on in which nothing is lost crashes.
LEMMA PointerCrashes ==
  ASSUME TagReset = "pointer" PROVE F!Spec => F!GenuineSelected
<1>1. ASSUME ~l3, frame = "none", F!Next, op = "on", op' = "none", ~fault'
      PROVE  f_ret' = "crash"
  <2>1. CASE F!PowerOn \/ F!PowerOff \/ F!Transact \/ F!TransactRefused
    BY <1>1, <2>1 DEF F!PowerOn, F!PowerOff, F!Transact, F!TransactRefused, F!Call
  <2>2. CASE F!AccessOk
    BY <1>1, <2>2, TagReset = "pointer" DEF F!AccessOk, F!DoSelect, F!Finish, F!slot
  <2>3. CASE F!AccessFails \/ F!TagArrives \/ F!TagsLeave
    BY <1>1, <2>3 DEF F!AccessFails, F!TagArrives, F!TagsLeave
  <2>4. ~F!InFrame /\ frame # "set_speed"
    BY <1>1 DEF F!InFrame
  <2> QED BY <1>1, <2>1, <2>2, <2>3, <2>4 DEF F!Next, F!FrameFails, F!Requested, F!Anticollision,
        F!Selected, F!GotAts, F!GotPps, F!SetSpeed, F!SetSpeedFails, F!Answered
<1>2. (~l3 /\ frame = "none") /\ [F!Next]_(F!vars) =>
        [op = "on" /\ op' = "none" /\ ~fault' /\ F!Plain(tags)
           => f_ret' = (IF TagReset = "tag" THEN "ok" ELSE "crash")]_(F!vars)
  BY <1>1
<1>3. F!Spec => [](~l3 /\ frame = "none")
  BY PointerSelectsNothing
<1> QED BY <1>2, <1>3, PTL DEF F!GenuineSelected, F!Spec

\* A cci_power_on in which nothing is lost selects a lone plain tag, after
\* whatever earlier calls and tags have left behind, with the memset of
\* _iso14443a_anticol on what its argument points to; as the source has it,
\* it crashes.
THEOREM ContactlessSelected == BothSpec => GenuineSelected
<1>1. F!Spec => F!GenuineSelected
  BY TagSelects, PointerCrashes, FieldSizes DEF F!RfidAssumption
<1> QED BY <1>1, ContactlessRefines DEF GenuineSelected

=============================================================================
