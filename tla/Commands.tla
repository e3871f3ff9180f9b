------------------------------- MODULE Commands -------------------------------
(***************************************************************************)
(* The ways the agent is set up and started: the ECS wizard (EcsWorkflow), *)
(* the daemonset's inspection of a pod (PodInspection) and the apidump     *)
(* command (ApidumpCommand).  They are programs and processes of their own *)
(* and share no state.                                                     *)
(***************************************************************************)
EXTENDS EcsWorkflow, Integers

-----------------------------------------------------------------------------
(* PodInspection.                                                          *)

CONSTANTS Handlers, Pods, CommandLines, Environments, AgentHost,
          DefaultExcluded, UUIDs, ProjectIDs, DefaultRateLimit
VARIABLES settings, pod, mapped, monState, args, pc, main, process, run,
          podService, blind

inspection == <<settings, pod, mapped, monState, args, pc, main, process, run,
                podService, blind>>

Insp == INSTANCE PodInspection WITH service <- podService

\* The workload that a pod is listed with is the one that its owner stands for.
ASSUME PodsAssumption == \A p \in Pods : Insp!WellFormed(p)

\* None is told apart from containers and from the states of pod and process.
ASSUME NoneAssumption ==
  None \notin Nat \cup {"PodPending", "PodRunning", "TrafficMonitoringRunning",
                       "TrafficMonitoringFailed", "namespace", "lookup"}

\* The rate limits that are given, and the default, are numbers.
ASSUME RatesAssumption ==
  /\ DefaultRateLimit \in Nat \ {0}
  /\ \A c \in CommandLines : c.rate \in Nat

\* A pod is captured for the service that its configuration asks for.
AsConfigured == Insp!AsConfigured

\* A pod with the agent in it is left alone.
SidecarSkipped == Insp!SidecarSkipped

-----------------------------------------------------------------------------
(* ApidumpCommand.                                                         *)

CONSTANTS Agents, Interfaces, Starts, ServiceIDs, MaxSessions, Statuses
VARIABLES cl, env, agentPc, agentArgs, agentService, session, fresh, buffered,
          agentOutcome, serving, subcommand, projects, sessions

command == <<cl, env, agentPc, agentArgs, agentService, session, fresh,
             buffered, agentOutcome, serving, subcommand, projects, sessions>>

Cmd == INSTANCE ApidumpCommand
  WITH pc <- agentPc, args <- agentArgs, service <- agentService,
       outcome <- agentOutcome

\* Flags are numbers and truth values; the start is a probability in percent.
ASSUME StartsAssumption ==
  \A start \in Starts, a \in Agents :
    /\ start[a].cl.terminal \in BOOLEAN /\ start[a].cl.malformed \in BOOLEAN
    /\ start[a].cl.command \in BOOLEAN
    /\ start[a].cl.start \in 0 .. 100 /\ start[a].cl.rate \in Int

\* Agents that are given the same collection send to one project.
SameProject == Cmd!SameProject

\* Reports go to sessions of the agent's project.
SessionOfProject == Cmd!SessionOfProject

\* The exit code of a subcommand is the agent's.
SubcommandStatus == Cmd!SubcommandStatus

-----------------------------------------------------------------------------
\* The values of what each of the three keeps.
Types == TypeOK /\ Insp!TypeOK /\ Cmd!TypeOK
=============================================================================
