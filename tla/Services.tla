------------------------------- MODULE Services -------------------------------
(***************************************************************************)
(* The two processes of a long-lived agent: the run of apidump (Apidump)   *)
(* and the supervisor that restarts the agent (Supervisor), which sees     *)
(* nothing of the run but its end.                                         *)
(***************************************************************************)
EXTENDS Apidump

CONSTANTS MaxRuns, RunBound
VARIABLES supPc, pid, numRuns, delaying, child, supPending, missed, termed, code

supervisor == <<supPc, pid, numRuns, delaying, child, supPending, missed, termed, code>>

Sup == INSTANCE Supervisor WITH pc <- supPc, pending <- supPending

\* The values of what each of the two keeps.
Types == TypeOK /\ Sup!TypeOK

\* One agent at a time, and no more runs than permitted (Supervisor).
RunsInOrder == Sup!RunsInOrder

\* A signal that asks the supervisor to end is answered (Supervisor).
SignalsAnswered == Sup!SignalsAnswered
=============================================================================
