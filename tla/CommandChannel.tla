--------------------------- MODULE CommandChannel ---------------------------
(***************************************************************************)
(* What a synchronous command channel promises its caller: commands are    *)
(* issued one at a time and numbered from 1; the far end executes some of  *)
(* them, each at most once and in the order they were issued, possibly     *)
(* after their caller was told they failed; the caller is told "ok" only   *)
(* when the far end has executed the command of the call.  A channel that  *)
(* numbers its messages modulo Window may also mistake the answer to a     *)
(* command at least Window commands old for that of the current one.       *)
(***************************************************************************)
EXTENDS Naturals

CONSTANT Window

VARIABLES
  issued,     \* commands issued so far
  done,       \* the commands the far end has executed
  pending,    \* is the caller waiting for an answer?
  verdict     \* what it was told last

vars == <<issued, done, pending, verdict>>

Init ==
  /\ issued = 0 /\ done = {} /\ pending = FALSE /\ verdict = "none"

Issue ==
  /\ ~pending
  /\ issued' = issued + 1 /\ pending' = TRUE
  /\ UNCHANGED <<done, verdict>>

\* A command whose sending fails: the far end may have it all the same.
Reject ==
  /\ ~pending
  /\ issued' = issued + 1 /\ verdict' = "fail"
  /\ UNCHANGED <<done, pending>>

Execute ==
  /\ \E i \in 1 .. issued :
       /\ \A j \in done : j < i
       /\ done' = done \union {i}
  /\ UNCHANGED <<issued, pending, verdict>>

Succeed ==
  /\ pending /\ verdict' = "ok" /\ pending' = FALSE
  /\ \E i \in done : i = issued \/ i + Window <= issued
  /\ UNCHANGED <<issued, done>>

Fail ==
  /\ pending /\ verdict' = "fail" /\ pending' = FALSE
  /\ UNCHANGED <<issued, done>>

Next == Issue \/ Reject \/ Execute \/ Succeed \/ Fail

Spec == Init /\ [][Next]_vars

=============================================================================
