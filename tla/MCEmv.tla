------------------------------- MODULE MCEmv -------------------------------
(* TLC instance of EmvSession: a genuine application that offers both kinds *)
(* of authentication, one that offers only SDA, and ones with one bad       *)
(* certificate each.  The applications are interchangeable.                 *)
EXTENDS EmvSession, TLC

MCProfiles ==
  LET P(aip, iss, ssa, icc) == [aip |-> aip, iss |-> iss, ssa |-> ssa, icc |-> icc] IN
  {P({"SDA", "DDA"}, TRUE, TRUE, TRUE), P({"SDA"}, TRUE, TRUE, TRUE),
   P({"SDA", "DDA"}, FALSE, TRUE, TRUE), P({"SDA", "DDA"}, TRUE, FALSE, TRUE),
   P({"SDA", "DDA"}, TRUE, TRUE, FALSE)}

Symmetric == Permutations(Apps)
=============================================================================
