------------------------------ MODULE Supervisor ------------------------------
(***************************************************************************)
(* The supervisor of the containerised agent (cmd/supervisor.go): it runs  *)
(* the agent as a child process, passes SIGTERM and SIGINT on to it, and   *)
(* starts it again after a delay when it has crashed.                      *)
(*                                                                         *)
(* A signal reaches the supervisor in two steps, as in the Go runtime: the *)
(* runtime keeps a set of pending signals, so that equal ones coalesce,    *)
(* and sends them on the channel sigs without waiting for a receiver.      *)
(***************************************************************************)
EXTENDS Naturals, FiniteSets

CONSTANTS
  MaxRuns,      \* __X_AKITA_MAX_RUNS, 0 for no restriction
  RunBound      \* bound: no child crashes in a run after this one

\* Both are numbers.

VARIABLES
  pc,       \* "spawn", "loop", "select", "kill", "collect" or "exited"
  pid,      \* the current child, named by its run, or 0
  numRuns,
  delaying, \* number of goroutines that sleep or send on spawnSignal
  child,    \* state of the child of each run
  pending,  \* pending signals, of {"TERM", "CHLD"}
  missed,   \* the signals that nobody received
  termed,   \* has SIGTERM been sent to the supervisor?
  code      \* how the supervisor ended: "none", "status" (that of the child),
            \* "max", "fork" (errors) or "signal"

vars == <<pc, pid, numRuns, delaying, child, pending, missed, termed, code>>

Limit == IF MaxRuns = 0 THEN RunBound + 1 ELSE MaxRuns + 1
Runs == 1 .. Limit

\* A child that has ended is a zombie until its status is collected; its exit
\* code is less than 126 ("done"), or not ("crashed", or killed by a signal).
Zombies == {"done", "crashed"}
ChildStates == {"none", "running", "reaped"} \cup Zombies

(***************************************************************************)
(* The supervisor.                                                         *)
(***************************************************************************)
\* return err: main exits.  syscall.Exit: the process ends at once.
Exit(c) == pc' = "exited" /\ code' = c

\* runChild counts the run before it forks.
runChild ==
  /\ pc = "spawn"
  /\ numRuns < Limit
  /\ numRuns' = numRuns + 1
  /\ \/ /\ child' = [child EXCEPT ![numRuns'] = "running"]
        /\ pid' = numRuns'
        /\ pc' = "loop"
        /\ UNCHANGED code
     \/ /\ Exit("fork")
        /\ pid' = 0
        /\ UNCHANGED child
  /\ UNCHANGED <<delaying, pending, missed, termed>>

\* The goroutine waits in the select from here on.
enter_select ==
  /\ pc = "loop"
  /\ pc' = "select"
  /\ UNCHANGED <<pid, numRuns, delaying, child, pending, missed, termed, code>>

\* Mutant: SIGTERM is ignored while there is no child.
receive_TERM_Mutant ==
  /\ pc = "select" /\ "TERM" \in pending
  /\ pending' = pending \ {"TERM"}
  /\ pc' = IF pid # 0 THEN "kill" ELSE "loop"
  /\ UNCHANGED <<pid, numRuns, delaying, child, missed, termed, code>>

\* SIGINT or SIGTERM: kill the child and wait for it, then exit.
receive_TERM ==
  /\ pc = "select" /\ "TERM" \in pending
  /\ pending' = pending \ {"TERM"}
  /\ IF pid # 0 THEN pc' = "kill" /\ UNCHANGED code ELSE Exit("signal")
  /\ UNCHANGED <<pid, numRuns, delaying, child, missed, termed>>

\* SIGCHLD: nothing to do while there is no child.
receive_CHLD ==
  /\ pc = "select" /\ "CHLD" \in pending
  /\ pending' = pending \ {"CHLD"}
  /\ pc' = IF pid = 0 THEN "loop" ELSE "collect"
  /\ UNCHANGED <<pid, numRuns, delaying, child, missed, termed, code>>

collectStatus_killed ==
  /\ pc = "kill"
  /\ child[pid] \in Zombies
  /\ child' = [child EXCEPT ![pid] = "reaped"]
  /\ Exit("signal")
  /\ UNCHANGED <<pid, numRuns, delaying, pending, missed, termed>>

\* Mutant: SIGCHLD is taken for the end of the child.
collectStatus_Mutant ==
  /\ pc = "collect"
  /\ child' = IF child[pid] \in Zombies THEN [child EXCEPT ![pid] = "reaped"]
                                        ELSE child
  /\ IF child[pid] = "done" THEN Exit("status") /\ UNCHANGED <<pid, delaying>>
     ELSE /\ pid' = 0
          /\ IF numRuns = MaxRuns THEN Exit("max") /\ UNCHANGED delaying
                                  ELSE /\ pc' = "loop"
                                       /\ delaying' = delaying + 1
                                       /\ UNCHANGED code
  /\ UNCHANGED <<numRuns, pending, missed, termed>>

\* proc.Wait waits for the child, whichever process SIGCHLD was for.  A crash
\* starts the goroutine that sends on spawnSignal after the delay.
collectStatus ==
  /\ pc = "collect"
  /\ child[pid] \in Zombies
  /\ child' = [child EXCEPT ![pid] = "reaped"]
  /\ IF child[pid] = "done" THEN Exit("status") /\ UNCHANGED <<pid, delaying>>
     ELSE /\ pid' = 0
          /\ IF numRuns = MaxRuns THEN Exit("max") /\ UNCHANGED delaying
                                  ELSE /\ pc' = "loop"
                                       /\ delaying' = delaying + 1
                                       /\ UNCHANGED code
  /\ UNCHANGED <<numRuns, pending, missed, termed>>

spawnSignal ==
  /\ pc = "select"
  /\ delaying > 0
  /\ delaying' = delaying - 1
  /\ pc' = "spawn"
  /\ UNCHANGED <<pid, numRuns, child, pending, missed, termed, code>>

(***************************************************************************)
(* The child and the operating system.                                     *)
(***************************************************************************)
ChildEnds(r, s) ==
  /\ child[r] = "running"
  /\ s = "crashed" => r <= RunBound
  /\ child' = [child EXCEPT ![r] = s]
  /\ pending' = pending \cup {"CHLD"}
  /\ UNCHANGED <<pc, pid, numRuns, delaying, missed, termed, code>>

\* An orphan of the child becomes a child of the supervisor, and ends.
OrphanEnds ==
  /\ pc # "exited"
  /\ "CHLD" \notin pending
  /\ pending' = pending \cup {"CHLD"}
  /\ UNCHANGED <<pc, pid, numRuns, delaying, child, missed, termed, code>>

SIGTERM ==
  /\ ~termed
  /\ termed' = TRUE
  /\ pending' = pending \cup {"TERM"}
  /\ UNCHANGED <<pc, pid, numRuns, delaying, child, missed, code>>

\* The channel has no buffer and nobody receives from it.
SignalLost ==
  /\ pc \in {"spawn", "loop", "kill", "collect"}
  /\ \E s \in pending : pending' = pending \ {s} /\ missed' = missed \cup {s}
  /\ UNCHANGED <<pc, pid, numRuns, delaying, child, termed, code>>

(***************************************************************************)
(* The specification.                                                      *)
(***************************************************************************)
\* runSupervisor has called signal.Notify.
Init ==
  /\ pc = "spawn"
  /\ pid = 0
  /\ numRuns = 0
  /\ delaying = 0
  /\ child = [r \in Runs |-> "none"]
  /\ pending = {}
  /\ missed = {}
  /\ termed = FALSE
  /\ code = "none"

SupervisorStep ==
  \/ runChild \/ enter_select
  \/ receive_TERM \/ receive_CHLD
  \/ collectStatus_killed \/ collectStatus
  \/ spawnSignal

Next ==
  \/ SupervisorStep
  \/ \E r \in Runs, s \in Zombies : ChildEnds(r, s)
  \/ OrphanEnds
  \/ SIGTERM
  \/ SignalLost

Spec == Init /\ [][Next]_vars

\* The supervisor goes on when it can, also with a signal that comes again and
\* again between others, and a child that was sent SIGTERM ends.
Fairness ==
  /\ WF_vars(SupervisorStep)
  /\ SF_vars(receive_TERM)
  /\ SF_vars(receive_CHLD)
  /\ SF_vars(spawnSignal)
  /\ \A r \in Runs :
       WF_vars(pc = "kill" /\ pid = r /\ \E s \in Zombies : ChildEnds(r, s))

FairSpec == Spec /\ Fairness

(***************************************************************************)
(* Properties.                                                             *)
(***************************************************************************)
\* The values of runSupervisor's variables.
TypeOK ==
  /\ pc \in {"spawn", "loop", "select", "kill", "collect", "exited"}
  /\ pid \in {0} \cup Runs
  /\ numRuns \in 0 .. Limit
  /\ delaying \in {0, 1}
  /\ child \in [Runs -> ChildStates]
  /\ pending \in SUBSET {"TERM", "CHLD"}
  /\ missed \in SUBSET {"TERM", "CHLD"}
  /\ termed \in BOOLEAN
  /\ code \in {"none", "status", "max", "fork", "signal"}

Unreaped == {r \in Runs : child[r] \in {"running"} \cup Zombies}

\* Two agents never run at the same time, the one that runs is the one the
\* supervisor waits for, and it is gone when the supervisor exits, so that no agent
\* is left that nobody watches: whatever order child signals, orphans' signals and
\* the delayed start come in.
OneChild ==
  /\ Unreaped \subseteq {pid}
  /\ pid # 0 /\ pc # "exited" => pid \in Unreaped
  /\ pc = "exited" => Unreaped = {}
  /\ delaying > 0 => Unreaped = {} /\ pc # "spawn"

\* The agent is started at most __X_AKITA_MAX_RUNS times, however runs are counted.
RunsBounded == MaxRuns > 0 => numRuns <= MaxRuns

\* The runs of the agent: one at a time, and no more than permitted
\* (cmd/supervisor.go: the select loop of runSupervisor).
RunsInOrder == OneChild /\ RunsBounded

\* A crash of the child is noticed and followed by another run, unless the
\* supervisor exits (for the last permitted run, for SIGTERM, or because a fork
\* failed) or the signal was lost.  Signals of orphans and signals that coalesce
\* do not hide it.
CrashRestarts ==
  \A r \in Runs :
    child[r] = "crashed" ~> (numRuns > r \/ pc = "exited" \/ "CHLD" \in missed)

\* SIGTERM ends the supervisor, unless the signal was lost, or the supervisor
\* waits for the end of a child that is still running, for the signal of an
\* orphan.
TermExits ==
  termed ~> \/ pc = "exited"
            \/ "TERM" \in missed
            \/ pc = "collect" /\ child[pid] = "running"

\* The supervisor answers the signals that it receives: a crash with another
\* run, SIGTERM with its exit.
SignalsAnswered == CrashRestarts /\ TermExits
=============================================================================
