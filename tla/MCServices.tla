------------------------------ MODULE MCServices ------------------------------
(***************************************************************************)
(* Services, for TLC.  Since the supervisor sees nothing of the run but    *)
(* its end, a behaviour is one of the part that it names; the other is     *)
(* over from the start.                                                    *)
(***************************************************************************)
EXTENDS Services

Session(interfaces, debug, filtered, exec, reason, interval) ==
  [interfaces |-> interfaces, debug |-> debug, userFilters |-> filtered,
   exec |-> exec, reasons |-> {reason}, expired |-> FALSE,
   TelemetryInterval |-> interval]

\* Two collectors, on two interfaces or on one interface with its negated filter,
\* with and without user filters, telemetry and a subcommand; and a session of the
\* discovery mode, its traffic expired or not.
TwoCollectors ==
  LET one == {CHOOSE i \in Interfaces : TRUE} IN
  {Session(Interfaces, FALSE, filtered, FALSE, "signal", interval) :
     filtered \in BOOLEAN, interval \in {0, 60}}
  \cup {Session(Interfaces, FALSE, FALSE, TRUE, "signal", 60)}
  \cup {Session(one, TRUE, filtered, FALSE, "external", 60) : filtered \in BOOLEAN}
  \cup {[Session(one, FALSE, FALSE, FALSE, "ttl", 60) EXCEPT !.expired = e] :
          e \in BOOLEAN}

\* A session of the daemonset with the default interval.
Unfiltered == {Session(Interfaces, FALSE, FALSE, FALSE, "external", 60)}

-----------------------------------------------------------------------------
(* Both.                                                                   *)

VARIABLE part

agent == vars

SupervisorOver ==
  /\ supPc = "exited" /\ pid = 0 /\ numRuns = 0 /\ delaying = 0
  /\ child = [r \in Sup!Runs |-> "none"]
  /\ supPending = {} /\ missed = {} /\ termed = FALSE /\ code = "status"

\* A run that ended in its set-up.
AgentOver ==
  /\ args = (CHOOSE s \in Sessions : TRUE)
  /\ pc = "returned" /\ received = "none" /\ subcmd = FALSE /\ result = "setup"
  /\ pending = "none" /\ errors = {} /\ errChan = {} /\ stop = FALSE /\ doneWG = 0
  /\ coll = [c \in AllCollectors |-> "off"] /\ seen = [s \in Summaries |-> {}]
  /\ once = "new" /\ worker = "off" /\ sentStats = FALSE /\ panicked = FALSE

MCInit ==
  \/ part = "agent" /\ Init /\ SupervisorOver
  \/ part = "supervisor" /\ AgentOver /\ Sup!Init

MCNext ==
  \/ part = "agent" /\ Next /\ UNCHANGED <<part, supervisor>>
  \/ part = "supervisor" /\ Sup!Next /\ UNCHANGED <<part, agent>>

MCSpec ==
  /\ MCInit /\ [][MCNext]_<<part, agent, supervisor>>
  /\ Fairness
  /\ Sup!Fairness

=============================================================================
