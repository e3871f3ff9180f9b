--------------------------- MODULE ApidumpCommand ---------------------------
(***************************************************************************)
(* Agents started with "apidump" (cmd/internal/apidump): the arguments made *)
(* of flags and environment, the project that they lead to (LookupService   *)
(* and util.go), and the learn sessions that the witnesses go to while they *)
(* are rotated.  Every agent is a process of its own; the back end is       *)
(* external and shared, and each of its calls may fail.  Apidump models the *)
(* capture itself.                                                          *)
(***************************************************************************)
EXTENDS Naturals, FiniteSets

CONSTANTS
  Agents,
  Interfaces,    \* of each agent; one collector each
  Starts,        \* the command lines and environments that the agents may have, see TypeOK
  UUIDs, ProjectIDs, \* the values that parse as such
  ServiceIDs,    \* for projects that agents create
  MaxSessions,   \* learn sessions created by all agents
  Statuses,      \* what a subcommand may exit with
  DefaultRateLimit,
  None

VARIABLES
  cl, env,   \* the command line and the environment of each agent
  pc,
  args,      \* apidump.Args, once they have been accepted
  service,   \* backendSvc
  session,   \* learnSessionID of each agent's collectors
  fresh,     \* the session that RotateLearnSession is switching to
  buffered,  \* the session that a collector's oldest buffered report was captured in
  outcome,   \* what becomes of the process: "exited" or "hibernating"
  serving,   \* the health check server
  subcommand,\* the exit status of the command given with -c, once it has ended
  projects,  \* back end: the collection that each created project belongs to
  sessions   \* back end: the project of each learn session, by creation

agent == <<cl, env, pc, args, service>>
rotation == <<session, fresh>>
process == <<outcome, serving, subcommand>>
backend == <<projects, sessions>>
vars == <<agent, rotation, buffered, process, backend>>

Goto(a, l) == pc' = [pc EXCEPT ![a] = l]
Set(x) == x # None
First(x, y) == IF x = None THEN y ELSE x

-----------------------------------------------------------------------------
\* cobra: flags that exclude each other.
MarkFlagsMutuallyExclusive(c) ==
  Cardinality({f \in {"project", "collection", "workspace"} : Set(c[f])}) <= 1

\* The environment wins, except for the rate limit.
Resolve(c, e) ==
  [discovery |-> c.discovery \/ e.discovery,
   project |-> First(e.project, c.project), collection |-> c.collection,
   workspace |-> First(e.workspace, c.workspace), systemEnv |-> First(e.systemEnv, c.systemEnv),
   cluster |-> e.cluster, namespace |-> e.namespace, workload |-> e.workload,
   rotate |-> Set(First(e.project, c.project)) \/ Set(c.collection),
   rate |-> LET limit == IF c.rate > 0 THEN c.rate ELSE IF e.rate \in Nat THEN e.rate ELSE 0
            IN IF limit = 0 THEN DefaultRateLimit ELSE limit,
   tls |-> c.tls \/ c.reports, reports |-> c.reports,
   docker |-> c.docker]

\* Exactly one of project, collection and workspace, unless in discovery mode.
OneTarget(r) == Cardinality({f \in {"project", "collection", "workspace"} : Set(r[f])}) = 1

Acceptable(r) ==
  r.discovery \/
    /\ OneTarget(r)
    /\ Set(r.workspace) => Set(r.systemEnv) /\ r.workspace \in UUIDs
    /\ Set(r.systemEnv) => r.systemEnv \in UUIDs
    /\ Set(r.project) => r.project \in ProjectIDs

\* Probability 0, 100 or some other; an environment variable replaces the flag if it is a
\* number.
Probability(a) == IF env[a].start \in Nat THEN env[a].start ELSE cl[a].start

applyRandomizedStart_never(a) ==
  /\ pc[a] = "start" /\ Probability(a) < 100
  /\ outcome' = [outcome EXCEPT ![a] = "hibernating"] /\ Goto(a, "over")
  /\ UNCHANGED <<cl, env, args, service, rotation, buffered, serving, subcommand, backend>>

applyRandomizedStart(a) ==
  /\ pc[a] = "start" /\ Probability(a) > 0
  /\ Goto(a, "parse")
  /\ UNCHANGED <<cl, env, args, service, rotation, buffered, process, backend>>

\* apidumpRunWithoutAbnormalExit: why is None, "error" or "signal".  An exit is without
\* an error, whatever happened.
Ends(a, why) ==
  /\ outcome' = [outcome EXCEPT ![a] = IF why = "error" /\ ~cl[a].terminal THEN "hibernating"
                                       ELSE "exited"]
  /\ Goto(a, "over")
ExitCode(a) == 0

\* Tags, plugins, the rotation interval and --append-by-tag, which needs an --out that
\* cannot be given, are wrong or not.
apidumpRunInternal(a) ==
  /\ pc[a] = "parse"
  /\ LET r == Resolve(cl[a], env[a])
     IN IF ~cl[a].malformed /\ Acceptable(r)
        THEN /\ args' = [args EXCEPT ![a] = r]
             /\ Goto(a, "lookup") /\ UNCHANGED outcome
        ELSE Ends(a, "error") /\ UNCHANGED args
  /\ UNCHANGED <<cl, env, service, rotation, buffered, serving, subcommand, backend>>

\* Any call of the back end fails, the service does not exist, or packet capture cannot
\* be set up.
Fail(a) ==
  /\ pc[a] \in {"lookup", "create", "lookup_again", "interfaces", "session", "session_exists"}
  /\ Ends(a, "error")
  /\ UNCHANGED <<cl, env, args, service, rotation, buffered, serving, subcommand, backend>>

-----------------------------------------------------------------------------
Found(a, s) == service' = [service EXCEPT ![a] = s] /\ Goto(a, "interfaces")

\* RegisterDiscoveredService, CreateApplication and GetServiceNameByServiceID: the back
\* end's answer depends on what is asked only.
LookupService(a) ==
  /\ pc[a] = "lookup"
  /\ \/ /\ args[a].discovery
        /\ None \notin {args[a].namespace, args[a].workload, args[a].cluster}
        /\ Found(a, <<"discovered", args[a].cluster, args[a].namespace, args[a].workload>>)
     \/ /\ ~args[a].discovery /\ Set(args[a].workspace)
        /\ Found(a, <<"application", args[a].workspace, args[a].systemEnv>>)
     \/ /\ ~args[a].discovery /\ Set(args[a].project)
        /\ Found(a, <<"project", args[a].project>>)
  /\ UNCHANGED <<cl, env, args, rotation, buffered, process, backend>>

\* GetServiceIDByPostmanCollectionID, in GetOrCreateServiceIDByPostmanCollectionID.
ProjectsOf(c) == {s \in DOMAIN projects : projects[s] = c}

GetServiceIDByPostmanCollectionID(a) ==
  /\ pc[a] \in {"lookup", "lookup_again"} /\ ~args[a].discovery /\ Set(args[a].collection)
  /\ LET known == ProjectsOf(args[a].collection)
     IN IF known # {} THEN \E s \in known : Found(a, s)
        ELSE Goto(a, "create") /\ UNCHANGED service
  /\ pc[a] = "lookup_again" => ProjectsOf(args[a].collection) # {}
  /\ UNCHANGED <<cl, env, args, rotation, buffered, process, backend>>

CreateService(a) ==
  /\ pc[a] = "create" /\ ProjectsOf(args[a].collection) = {}
  /\ \E s \in {s \in ServiceIDs : projects[s] = None} :
       /\ projects' = [projects EXCEPT ![s] = args[a].collection]
       /\ Found(a, s)
  /\ UNCHANGED <<cl, env, args, rotation, buffered, process, sessions>>

\* Mutant: the project is not looked up again.
CreateService_conflict_Mutant(a) ==
  /\ pc[a] = "create" /\ ProjectsOf(args[a].collection) # {}
  /\ \E s \in {s \in ServiceIDs : projects[s] = None} :
       /\ projects' = [projects EXCEPT ![s] = args[a].collection]
       /\ Found(a, s)
  /\ UNCHANGED <<cl, env, args, rotation, buffered, process, sessions>>

\* 409, collection_already_mapped: another agent has been faster.
CreateService_conflict(a) ==
  /\ pc[a] = "create" /\ ProjectsOf(args[a].collection) # {}
  /\ Goto(a, "lookup_again")
  /\ UNCHANGED <<cl, env, args, service, rotation, buffered, process, backend>>

-----------------------------------------------------------------------------
\* Interfaces, filters and the regular expressions of the command line.
Run_interfaces(a) ==
  /\ pc[a] = "interfaces" /\ Goto(a, "session")
  /\ UNCHANGED <<cl, env, args, service, rotation, buffered, process, backend>>

NextSession == Cardinality(DOMAIN sessions) + 1
CreateLearnSession(a) ==
  /\ NextSession <= MaxSessions
  /\ sessions' = [n \in 1 .. NextSession |-> IF n = NextSession THEN service[a] ELSE sessions[n]]

Run_session(a) ==
  /\ pc[a] = "session"
  /\ CreateLearnSession(a)
  /\ session' = [session EXCEPT ![a] = [i \in Interfaces |-> NextSession]]
  /\ Goto(a, "capture")
  /\ UNCHANGED <<cl, env, args, service, fresh, buffered, process, projects>>

\* A session of that name exists after all (409): its ID is looked up.  Names are
\* random, so it was this agent's request that had succeeded before.
Run_session_exists(a) ==
  /\ pc[a] = "session" /\ CreateLearnSession(a)
  /\ Goto(a, "session_exists")
  /\ fresh' = [fresh EXCEPT ![a] = NextSession]
  /\ UNCHANGED <<cl, env, args, service, session, buffered, process, projects>>

\* Mutant: the latest session is taken.
GetLearnSessionIDByName_Mutant(a) ==
  /\ pc[a] = "session_exists"
  /\ session' = [session EXCEPT ![a] = [i \in Interfaces |-> NextSession - 1]]
  /\ fresh' = [fresh EXCEPT ![a] = None]
  /\ Goto(a, "capture")
  /\ UNCHANGED <<cl, env, args, service, buffered, process, backend>>

GetLearnSessionIDByName(a) ==
  /\ pc[a] = "session_exists"
  /\ session' = [session EXCEPT ![a] = [i \in Interfaces |-> fresh[a]]]
  /\ fresh' = [fresh EXCEPT ![a] = None]
  /\ Goto(a, "capture")
  /\ UNCHANGED <<cl, env, args, service, buffered, process, backend>>

\* RotateLearnSession, which runs beside the collectors: a tick, and the switch of each
\* collector.  A tick that cannot create a session leaves the old one.
RotateLearnSession_tick(a) ==
  /\ pc[a] = "capture" /\ args[a].rotate /\ fresh[a] = None
  /\ CreateLearnSession(a)
  /\ fresh' = [fresh EXCEPT ![a] = NextSession]
  /\ UNCHANGED <<agent, session, buffered, process, projects>>

SwitchLearnSession(a, i) ==
  /\ fresh[a] # None /\ pc[a] = "capture" /\ session[a][i] # fresh[a]
  /\ session' = [session EXCEPT ![a][i] = fresh[a]]
  /\ fresh' = [fresh EXCEPT ![a] = IF \A j \in Interfaces \ {i} : session[a][j] = fresh[a]
                                   THEN None ELSE @]
  /\ UNCHANGED <<agent, buffered, process, backend>>

\* A report waits in the buffer of its collector, and is sent to the session that the
\* collector has when it is flushed.
Capture(a, i) ==
  /\ pc[a] = "capture" /\ buffered[a][i] = None
  /\ buffered' = [buffered EXCEPT ![a][i] = session[a][i]]
  /\ UNCHANGED <<agent, rotation, process, backend>>

Flush(a, i) ==
  /\ pc[a] = "capture" /\ buffered[a][i] # None
  /\ buffered' = [buffered EXCEPT ![a][i] = None]
  /\ UNCHANGED <<agent, rotation, process, backend>>

-----------------------------------------------------------------------------
\* Run returns what comes first: the end of the capture, or of the health check server
\* of the Docker extension, which leaves the capture running.
startHealthCheckServer_fails(a) ==
  /\ pc[a] \notin {"start", "parse", "over"} /\ args[a].docker /\ serving[a]
  /\ serving' = [serving EXCEPT ![a] = FALSE]
  /\ outcome' = [outcome EXCEPT ![a] = IF cl[a].terminal THEN "exited" ELSE "hibernating"]
  /\ IF cl[a].terminal THEN Goto(a, "over") ELSE UNCHANGED pc
  /\ UNCHANGED <<cl, env, args, service, rotation, buffered, subcommand, backend>>

\* runCommand, after which the capture is stopped.
runCommand(a) ==
  /\ pc[a] = "capture" /\ cl[a].command /\ subcommand[a] = None
  /\ \E status \in Statuses : subcommand' = [subcommand EXCEPT ![a] = status]
  /\ UNCHANGED <<cl, env, pc, args, service, rotation, buffered, outcome, serving, backend>>

\* What Run may return.  With a subcommand it handles no signals, and the failure of the
\* subcommand is an error.
Returned(a) ==
  IF ~cl[a].command THEN {None, "error", "signal"}
  ELSE IF subcommand[a] = 0 THEN {None, "error"} ELSE {"error"}

Run_returns(a) ==
  /\ pc[a] = "capture" /\ outcome[a] = None
  /\ cl[a].command => subcommand[a] # None
  /\ \E why \in Returned(a) : Ends(a, why)
  /\ UNCHANGED <<cl, env, args, service, rotation, buffered, serving, subcommand, backend>>

Init ==
  /\ \E start \in Starts :
       /\ cl = [a \in Agents |-> start[a].cl] /\ env = [a \in Agents |-> start[a].env]
       /\ \A a \in Agents : MarkFlagsMutuallyExclusive(cl[a])
  /\ pc = [a \in Agents |-> "start"] /\ args = [a \in Agents |-> None]
  /\ service = [a \in Agents |-> None]
  /\ session = [a \in Agents |-> [i \in Interfaces |-> None]]
  /\ fresh = [a \in Agents |-> None]
  /\ buffered = [a \in Agents |-> [i \in Interfaces |-> None]]
  /\ outcome = [a \in Agents |-> None] /\ subcommand = [a \in Agents |-> None]
  /\ serving = [a \in Agents |-> TRUE]
  /\ projects = [s \in ServiceIDs |-> None]
  /\ sessions = [n \in {} |-> None]

Next ==
  \E a \in Agents :
    \/ applyRandomizedStart_never(a) \/ applyRandomizedStart(a)
    \/ apidumpRunInternal(a) \/ Fail(a)
    \/ LookupService(a) \/ GetServiceIDByPostmanCollectionID(a)
    \/ CreateService(a) \/ CreateService_conflict(a)
    \/ Run_interfaces(a) \/ Run_session(a) \/ Run_session_exists(a)
    \/ GetLearnSessionIDByName(a) \/ RotateLearnSession_tick(a)
    \/ \E i \in Interfaces : SwitchLearnSession(a, i) \/ Capture(a, i) \/ Flush(a, i)
    \/ startHealthCheckServer_fails(a) \/ runCommand(a) \/ Run_returns(a)

Spec == Init /\ [][Next]_vars

-----------------------------------------------------------------------------
(***************************************************************************)
(* Properties.                                                             *)
(***************************************************************************)
TypeOK ==
  \A a \in Agents :
    /\ cl[a].terminal \in BOOLEAN /\ cl[a].malformed \in BOOLEAN
    /\ cl[a].command \in BOOLEAN
    /\ cl[a].start \in 0 .. 100
    /\ args[a] # None => args[a].rate \in Nat \ {0}
    /\ outcome[a] \in {None, "exited", "hibernating"}
    /\ subcommand[a] \in Statuses \cup {None}
    /\ fresh[a] \in DOMAIN sessions \cup {None}

\* Agents that are given the same collection, workspace, project or workload send to one
\* project, even when they start together and it has to be created (util.go:
\* GetOrCreateServiceIDByPostmanCollectionID).
SameProject ==
  \A a, b \in Agents : service[a] # None /\ service[b] # None =>
    ((service[a] = service[b]) <=>
      IF args[a].discovery \/ args[b].discovery
      THEN \A f \in {"discovery", "cluster", "namespace", "workload"} : args[a][f] = args[b][f]
      ELSE \A f \in {"project", "collection", "workspace"} :
             /\ args[a][f] = args[b][f]
             /\ f = "workspace" /\ Set(args[a][f]) => args[a].systemEnv = args[b].systemEnv)

\* Wherever a buffer is flushed, its reports go to a session of the agent's own project
\* that is not older than the one they were captured in, however the rotation
\* interleaves with the collectors (backend_collector.go: SwitchLearnSession;
\* report_buffer.go: Flush).
SessionOfProject ==
  \A a \in Agents, i \in Interfaces :
    /\ session[a][i] # None => sessions[session[a][i]] = service[a]
    /\ buffered[a][i] # None => buffered[a][i] <= session[a][i]

\* An agent whose subcommand failed exits with the same exit code (apidump/apidump.go:126:
\* "If the command stops with non-zero exit code, apidump will also exit with the same exit
\* code").
SubcommandStatus ==
  \A a \in Agents : pc[a] = "over" /\ subcommand[a] \notin {None, 0} =>
    outcome[a] = "exited" /\ ExitCode(a) = subcommand[a]
=============================================================================
