------------------------------- MODULE MCCcid -------------------------------
(***************************************************************************)
(* Ccid on small instances.  SeqMod = 2 makes d_seq wrap within a session  *)
(* of four commands, MaxTry = 2 makes the driver give up on the second     *)
(* time extension, MaxExt = 2 lets the reader ask for that many.           *)
(***************************************************************************)
EXTENDS Ccid
=============================================================================
