------------------------------- MODULE Timer -------------------------------
(***************************************************************************)
(* The CLRC632's answer timer (clrc632.c: best_prescaler, timer_set) and   *)
(* the waiting times a T=CL card may ask for (proto_tcl.c: fwi_to_fwt).    *)
(* Times are in microseconds. timer_set relaxes them tenfold; the factor   *)
(* is cancelled against the million here, to stay within 32 bits.          *)
(***************************************************************************)
EXTENDS Naturals

Carrier == 13560000
Second  == 100000       \* a second, over TIMER_RELAX_FACTOR
Prescalers == 0..20

(* (1000000 * 256 * 16) / 13560000, shifted by the card's FWI.             *)
FwiToFwt(fwi) == (4096000 \div (Carrier \div 1000)) * 2^(IF fwi > 14 THEN 14 ELSE fwi)

Clk(i) == Carrier \div 2^i

(* tmp_div, or 256 for all that do not fit 8 bits.                         *)
Divisor(i, t) ==
  IF t > 0 /\ Clk(i) > (256 * Second) \div t THEN 256 ELSE (Clk(i) * t) \div Second + 1

(* (res - timeout) / 10, and the prescalers best_prescaler considers.      *)
Res(i, t)  == (10 * Second) \div (Clk(i) \div Divisor(i, t))

(* Bug: the divisor is not checked to fit its 8 bits.                      *)
Fits_Unchecked(i, t) == Divisor(i, t) <= Clk(i)

Fits(i, t) == Divisor(i, t) <= 255 /\ Divisor(i, t) <= Clk(i)
Accepted(t) == {i \in Prescalers : Fits(i, t) /\ Res(i, t) >= 10 * t}

(* The first one with the smallest difference; prescaler 0 and divisor 1   *)
(* when there is none.                                                     *)
Best(t) == CHOOSE i \in Accepted(t) : \A j \in Accepted(t) :
             Res(i, t) < Res(j, t) \/ (Res(i, t) = Res(j, t) /\ i <= j)
BestPrescaler(t) == IF Accepted(t) = {} THEN [prescaler |-> 0, divisor |-> 1]
                    ELSE [prescaler |-> Best(t), divisor |-> Divisor(Best(t), t) % 256]

(* The periods of the carrier after which the chip gives up.               *)
Periods(t) == BestPrescaler(t).divisor * 2^BestPrescaler(t).prescaler

(* A timer asked for t runs for at least the time an answer may take (at   *)
(* 13.56 periods per microsecond), with nearly all of its tenfold margin.  *)
LongEnough(t, answer) == Periods(t) >= 9 * 14 * answer
=============================================================================
