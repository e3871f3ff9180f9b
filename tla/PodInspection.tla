--------------------------- MODULE PodInspection ---------------------------
(***************************************************************************)
(* What the daemonset decides about one pod: whether to capture it         *)
(* (pod_filter.go) and on whose behalf (inspectPodForEnvVars), up to the   *)
(* service that its apidump process sends witnesses to (LookupService).    *)
(*                                                                         *)
(* Every modified event of a pending pod starts a handler, and nothing     *)
(* keeps two of them from inspecting the pod into the same PodArgs object  *)
(* while the process of the first reads it.  Daemonset models the life of  *)
(* that object and the scans, which inspect a pod with the same functions  *)
(* into an object of their own.                                            *)
(*                                                                         *)
(* A name is the sequence of its segments between dashes; labels are sets  *)
(* of <<key, value>>.                                                      *)
(***************************************************************************)
EXTENDS Naturals, Sequences, FiniteSets

CONSTANTS
  Handlers,      \* of modified events
  Pods, CommandLines, Environments, \* see TypeOK
  AgentHost,     \* the name of the agent's own pod
  DefaultExcluded, \* excluded_namespaces.yaml
  UUIDs, ProjectIDs, \* the values that parse as such
  DefaultRateLimit,
  None

VARIABLES
  settings,  \* Daemonset: what StartDaemonset has made of flags and environment
  pod,
  mapped,    \* the pod's PodArgs is in PodArgsByNameMap
  monState,  \* PodTrafficMonitorState
  args,      \* PodArgs
  pc, main,  \* of each handler: where it is, and mainUUID and mainConfig
  process,   \* the apidump process
  run,       \* apidump.Args
  service,   \* backendSvc
  blind      \* some container was not started or could not be read

handlers == <<pc, main>>
capture == <<process, run, service>>
vars == <<settings, pod, mapped, monState, args, handlers, capture, blind>>

RangeOf(list) == {list[i] : i \in DOMAIN list}

-----------------------------------------------------------------------------
\* Blank is what is left of an empty element.
Blank == None
splitAndTrim(list) == SelectSeq(list, LAMBDA e : e # Blank)

\* Later pairs replace earlier ones; an element without "=" is skipped.
parseKeyValuePairs(list) ==
  {list[i] : i \in {j \in DOMAIN list :
     /\ list[j] # Blank /\ Len(list[j]) = 2
     /\ \A k \in DOMAIN list : k > j /\ list[k] # Blank /\ Len(list[k]) = 2 =>
           list[k][1] # list[j][1]}}

\* Flags win; the environment is read in discovery mode only.
applyEnvVarDefaults(cl, env) ==
  LET discovery == cl.discovery \/ env.discovery
      Default(flag, none, value) == IF discovery /\ flag = none THEN value ELSE flag
  IN [discovery |-> discovery, repro |-> cl.repro, rate |-> cl.rate,
      include |-> RangeOf(Default(cl.include, <<>>, splitAndTrim(env.include))),
      exclude |-> RangeOf(Default(cl.exclude, <<>>, splitAndTrim(env.exclude))),
      inLabels |-> Default(cl.inLabels, {}, parseKeyValuePairs(env.inLabels)),
      exLabels |-> Default(cl.exLabels, {}, parseKeyValuePairs(env.exLabels)),
      cluster |-> env.cluster, key |-> IF discovery THEN env.key ELSE None,
      drop |-> env.drop]

\* NewPodFilter adds the default namespaces.
StartDaemonset ==
  /\ settings = None
  /\ \E cl \in CommandLines, env \in Environments :
       LET s == applyEnvVarDefaults(cl, env)
       IN /\ s.discovery => s.cluster # None /\ s.key # None
          /\ settings' = [s EXCEPT !.exclude = @ \cup DefaultExcluded]
  /\ UNCHANGED <<pod, mapped, monState, args, handlers, capture, blind>>

-----------------------------------------------------------------------------
\* FilterPodsByContainerImage, negated: some container is not the agent.
FilterPodsByContainerImage == \E i \in DOMAIN pod.containers : ~pod.containers[i].agent

checkNamespace ==
  /\ pod.namespace \notin settings.exclude
  /\ settings.include # {} => pod.namespace \in settings.include

checkLabelsAndAnnotations ==
  /\ pod.optOut # TRUE /\ pod.optIn # FALSE
  /\ settings.exLabels \cap pod.labels = {}
  /\ settings.inLabels \subseteq pod.labels

controllingOwner(p) ==
  LET controllers == {i \in DOMAIN p.owners : p.owners[i].controller}
  IN IF controllers = {} THEN p.owners[1]
     ELSE p.owners[CHOOSE i \in controllers : \A j \in controllers : i <= j]

checkControllerType(p) ==
  p.owners # <<>> /\ controllingOwner(p).kind \in {"ReplicaSet", "StatefulSet", "DaemonSet"}

Evaluate ==
  /\ pod.name # AgentHost
  /\ checkNamespace /\ checkLabelsAndAnnotations /\ checkControllerType(pod)

deriveWorkloadType(p) ==
  IF controllingOwner(p).kind = "ReplicaSet" THEN "Deployment" ELSE controllingOwner(p).kind

\* The last segment of a ReplicaSet's name is the hash that its Deployment added.
\* Pods without an owner have been filtered out.
deriveWorkloadName(p) ==
  LET name == controllingOwner(p).name
  IN IF controllingOwner(p).kind = "ReplicaSet" /\ Len(name) > 1
     THEN SubSeq(name, 1, Len(name) - 1) ELSE name

NewPodArgs == [container |-> None, project |-> None, workspace |-> None, systemEnv |-> None,
               key |-> None, discovery |-> FALSE, name |-> None, cluster |-> None,
               namespace |-> None, workload |-> None, type |-> None, labels |-> {},
               drop |-> FALSE, repro |-> FALSE, rate |-> 0, payloads |-> {}]

handlePodAddEvent ==
  /\ settings # None /\ monState = None
  /\ FilterPodsByContainerImage /\ (settings.discovery => Evaluate)
  /\ mapped' = TRUE /\ monState' = "PodPending" /\ args' = NewPodArgs
  /\ UNCHANGED <<settings, pod, handlers, capture, blind>>

handlePodAddEvent_skip ==
  /\ settings # None /\ monState = None
  /\ ~(FilterPodsByContainerImage /\ (settings.discovery => Evaluate))
  /\ monState' = "skipped"
  /\ UNCHANGED <<settings, pod, mapped, args, handlers, capture, blind>>

-----------------------------------------------------------------------------
Goto(h, l) == pc' = [pc EXCEPT ![h] = l]
\* Whatever the error, the pod is removed from the map.
Fail(h) == mapped' = FALSE /\ Goto(h, "done")

handlePodModifyEvent(h) ==
  /\ pc[h] = "idle" /\ mapped /\ monState = "PodPending"
  /\ Goto(h, "read")
  /\ UNCHANGED <<settings, pod, mapped, monState, args, main, capture, blind>>

Env(i) == pod.containers[i].env
NoEnv == [project |-> None, workspace |-> None, systemEnv |-> None, key |-> None, name |-> None,
          noRepro |-> None, drop |-> None, rate |-> None, payloads |-> {}]

\* validateContainerConfig.
IsWorkspaceMode(e) == e.workspace # None \/ e.systemEnv # None
Required(e) == {"key"} \cup IF IsWorkspaceMode(e) THEN {"workspace", "systemEnv"} ELSE {"project"}
ValidationErrors(e) ==
  {f \in Required(e) \cap {"workspace", "systemEnv"} : e[f] # None /\ e[f] \notin UUIDs}
MissingAttrs(e) == {f \in Required(e) : e[f] = None}
ValidAttrs(e) == Required(e) \ (ValidationErrors(e) \cup MissingAttrs(e))
AsValidAs(e, f) == Cardinality(ValidAttrs(e)) >= Cardinality(ValidAttrs(f))

\* Mutant: the first container that can be read is taken.
selectMainContainer_Mutant(read) == {i \in read : \A j \in read : i <= j}

\* The map of the containers has no order: any of those with the most valid attributes.
selectMainContainer(read) == {i \in read : \A j \in read : AsValidAs(Env(i), Env(j))}

\* GetContainerUUIDs and GetEnvVars.  In discovery mode the first started container
\* is taken, as unconfigured when it cannot be read.
inspectPodForEnvVars_read(h) ==
  /\ pc[h] = "read"
  /\ \E started \in SUBSET DOMAIN pod.containers : \E read \in SUBSET started :
       /\ blind' = (blind \/ read # DOMAIN pod.containers)
       /\ \/ started = {} /\ Fail(h) /\ UNCHANGED main
          \/ /\ started # {} /\ settings.discovery
             /\ LET i == CHOOSE i \in started : \A j \in started : i <= j
                IN main' = [main EXCEPT ![h] = [container |-> i, env |-> IF i \in read THEN Env(i)
                                                                        ELSE NoEnv]]
             /\ Goto(h, "select") /\ UNCHANGED mapped
          \/ /\ started # {} /\ ~settings.discovery
             /\ \E i \in IF read = {} THEN {None} ELSE selectMainContainer(read) :
                  main' = [main EXCEPT ![h] = [container |-> i, env |-> IF i = None THEN NoEnv
                                                                        ELSE Env(i)]]
             /\ Goto(h, "select") /\ UNCHANGED mapped
  /\ UNCHANGED <<settings, pod, monState, args, capture>>

\* The trace tags are those of the pod, whichever handler writes them.
inspectPodForEnvVars_container(h) ==
  /\ pc[h] = "select"
  /\ args' = [args EXCEPT !.container = main[h].container]
  /\ LET e == main[h].env
     IN IF /\ ~settings.discovery /\ main[h].container # None
           /\ ValidationErrors(e) \cup MissingAttrs(e) # {}
        THEN Fail(h) ELSE Goto(h, "identity") /\ UNCHANGED mapped
  /\ UNCHANGED <<settings, pod, monState, main, capture, blind>>

\* applyDiscoveryModeConfig, and its counterpart in inspectPodForEnvVars.  ParseIDAs
\* rejects a missing ID, too.
HasExplicitIDs(e) == e.project # None \/ e.workspace # None
IDsAreValid(e) ==
  IF e.workspace # None
  THEN settings.discovery => e.project = None /\ {e.workspace, e.systemEnv} \subseteq UUIDs
  ELSE e.project \in ProjectIDs

identity_explicit(h) ==
  LET e == main[h].env
  IN /\ pc[h] = "identity" /\ (settings.discovery => HasExplicitIDs(e))
     /\ IF IDsAreValid(e)
        THEN /\ args' = IF e.workspace # None
                        THEN [args EXCEPT !.workspace = e.workspace, !.systemEnv = e.systemEnv]
                        ELSE [args EXCEPT !.project = e.project]
             /\ Goto(h, "creds") /\ UNCHANGED mapped
        ELSE Fail(h) /\ UNCHANGED args
     /\ UNCHANGED <<settings, pod, monState, main, capture, blind>>

identity_discovered(h) ==
  /\ pc[h] = "identity" /\ settings.discovery /\ ~HasExplicitIDs(main[h].env)
  /\ args' = [args EXCEPT !.discovery = TRUE,
                !.name = IF main[h].env.name # None THEN <<main[h].env.name>>
                         ELSE <<pod.namespace>> \o deriveWorkloadName(pod),
                !.cluster = settings.cluster, !.namespace = pod.namespace,
                !.workload = deriveWorkloadName(pod), !.type = deriveWorkloadType(pod),
                !.labels = pod.labels]
  /\ Goto(h, "creds")
  /\ UNCHANGED <<settings, pod, mapped, monState, main, capture, blind>>

\* PodCreds.  In discovery mode the key of the DaemonSet is the default.
KeyOf(e) == IF settings.discovery /\ (e.key = None \/ ~HasExplicitIDs(e)) THEN settings.key ELSE e.key

inspectPodForEnvVars_creds(h) ==
  /\ pc[h] = "creds"
  /\ args' = [args EXCEPT !.key = KeyOf(main[h].env)]
  /\ Goto(h, "options")
  /\ UNCHANGED <<settings, pod, mapped, monState, main, capture, blind>>

parseBoolConfig(value, default) == IF value \in BOOLEAN THEN value ELSE default

\* Mutant: a limit that cannot be parsed is not replaced.
RateOf_Mutant(e) ==
  LET limit == IF e.rate # None THEN e.rate ELSE settings.rate
  IN IF limit = 0 THEN DefaultRateLimit ELSE limit

RateOf(e) ==
  LET limit == IF e.rate \in Nat THEN e.rate ELSE settings.rate
  IN IF limit = 0 THEN DefaultRateLimit ELSE limit

\* Without repro mode of the DaemonSet the rate limit is not set either.
inspectPodForEnvVars_options(h) ==
  /\ pc[h] = "options"
  /\ LET e == main[h].env
         dropped == [args EXCEPT !.drop = parseBoolConfig(e.drop, settings.drop)]
     IN args' = IF ~settings.repro THEN [dropped EXCEPT !.repro = FALSE]
                ELSE [dropped EXCEPT !.repro = ~parseBoolConfig(e.noRepro, FALSE),
                                     !.rate = RateOf(e), !.payloads = e.payloads]
  /\ Goto(h, "change")
  /\ UNCHANGED <<settings, pod, mapped, monState, main, capture, blind>>

\* changePodTrafficMonitorState: only one handler gets here first.
handlePodModifyEvent_change(h) ==
  /\ pc[h] = "change"
  /\ IF monState = "PodPending" THEN monState' = "PodRunning" /\ Goto(h, "start")
     ELSE Goto(h, "done") /\ UNCHANGED monState
  /\ UNCHANGED <<settings, pod, mapped, args, main, capture, blind>>

StartApiDumpProcess(h) ==
  /\ pc[h] = "start"
  /\ IF mapped THEN monState' = "TrafficMonitoringRunning" /\ process' = "namespace"
     ELSE UNCHANGED <<monState, process>>
  /\ Goto(h, "done")
  /\ UNCHANGED <<settings, pod, mapped, args, main, run, service, blind>>

-----------------------------------------------------------------------------
\* GetNetworkNamespace answers, for a container, and the arguments are read.
StartApiDumpProcess_run ==
  /\ process = "namespace" /\ args.container # None
  /\ run' = args /\ process' = "lookup"
  /\ UNCHANGED <<settings, pod, mapped, monState, args, handlers, service, blind>>

\* Every call may fail: here, of the CRI, or of the backend.
apidump_fail ==
  /\ process \in {"namespace", "lookup"}
  /\ process' = "ended" /\ monState' = "TrafficMonitoringFailed"
  /\ UNCHANGED <<settings, pod, mapped, args, handlers, run, service, blind>>

\* RegisterDiscoveredService, CreateApplication or GetServiceNameByServiceID.
LookupService ==
  /\ process = "lookup"
  /\ run.discovery => {run.namespace, run.workload, run.cluster} \cap {None, <<>>} = {}
  /\ service' = CASE run.discovery -> <<"discovered", run.name, run.cluster, run.namespace,
                                         run.workload, run.type>>
                  [] ~run.discovery /\ run.workspace # None -> <<"application", run.workspace,
                                                                 run.systemEnv>>
                  [] OTHER -> <<"project", run.project>>
  /\ process' = "capturing"
  /\ UNCHANGED <<settings, pod, mapped, monState, args, handlers, run, blind>>

-----------------------------------------------------------------------------
Init ==
  /\ settings = None /\ pod \in Pods
  /\ mapped = FALSE /\ monState = None /\ args = NewPodArgs
  /\ pc = [h \in Handlers |-> "idle"] /\ main = [h \in Handlers |-> None]
  /\ process = None /\ run = None /\ service = None
  /\ blind = FALSE

Next ==
  \/ StartDaemonset \/ handlePodAddEvent \/ handlePodAddEvent_skip
  \/ \E h \in Handlers :
       \/ handlePodModifyEvent(h) \/ inspectPodForEnvVars_read(h)
       \/ inspectPodForEnvVars_container(h)
       \/ identity_explicit(h) \/ identity_discovered(h)
       \/ inspectPodForEnvVars_creds(h) \/ inspectPodForEnvVars_options(h)
       \/ handlePodModifyEvent_change(h) \/ StartApiDumpProcess(h)
  \/ StartApiDumpProcess_run \/ apidump_fail \/ LookupService

Spec == Init /\ [][Next]_vars

-----------------------------------------------------------------------------
(***************************************************************************)
(* Properties.                                                             *)
(***************************************************************************)
TypeOK ==
  /\ pod.namespace # None /\ pod.name # <<>>
  /\ \A i \in DOMAIN pod.containers :
       /\ pod.containers[i].agent \in BOOLEAN
       /\ DOMAIN Env(i) = DOMAIN NoEnv
  /\ mapped \in BOOLEAN /\ blind \in BOOLEAN
  /\ \A h \in Handlers : main[h] # None => main[h].container \in DOMAIN pod.containers \cup {None}
  /\ args.rate \in Nat
  /\ process \in {None, "namespace", "lookup", "capturing", "ended"}

\* A pod has a name and a namespace, it is listed with its containers, and the workload
\* that it belongs to is the one that its owner has been made for.
WellFormed(p) ==
  /\ p.namespace # None /\ p.name # <<>>
  /\ \A i \in DOMAIN p.containers :
       /\ p.containers[i].agent \in BOOLEAN
       /\ DOMAIN p.containers[i].env = DOMAIN NoEnv
  /\ DOMAIN p.containers = 1 .. Len(p.containers) /\ Len(p.containers) \in Nat
  /\ checkControllerType(p) =>
       p.workload = deriveWorkloadName(p) /\ p.type = deriveWorkloadType(p)

\* One container of the pod is more completely configured than the others.
Best(p, i) ==
  \A j \in DOMAIN p.containers \ {i} : ~AsValidAs(p.containers[j].env, p.containers[i].env)
BestOf(p) == CHOOSE i \in DOMAIN p.containers : Best(p, i)
Unambiguous == \E i \in DOMAIN pod.containers : Best(pod, i)

\* The pod's configuration: that of its best container, or in discovery mode of its
\* first one.
Configured == IF settings.discovery THEN 1 ELSE BestOf(pod)

\* The service that it asks for, if it is complete.  In discovery mode, a pod without IDs
\* belongs to the service of its workload (docs/discovery-mode.md).
Promised ==
  LET e == Env(Configured)
  IN CASE e.workspace # None ->
            IF /\ {e.workspace, e.systemEnv} \subseteq UUIDs
               /\ settings.discovery => e.project = None
            THEN <<"application", e.workspace, e.systemEnv>> ELSE None
       [] e.workspace = None /\ e.project # None ->
            IF e.project \in ProjectIDs THEN <<"project", e.project>> ELSE None
       [] e.workspace = None /\ e.project = None /\ settings.discovery ->
            <<"discovered", IF e.name # None THEN <<e.name>> ELSE <<pod.namespace>> \o pod.workload,
              settings.cluster, pod.namespace, pod.workload, pod.type>>
       [] OTHER -> None

\* However many handlers inspect the pod at once, as long as they see all of its
\* containers: its witnesses go where its configuration says, for all pods of a
\* workload alike, under a key of its own or of the DaemonSet; and a pod is given up
\* only when its configuration asks for no service or has no key
\* (kube_events_worker.go: inspectPodForEnvVars; pod_filter.go: deriveWorkloadName).
AsConfigured ==
  settings # None /\ ~blind /\ monState \notin {None, "skipped"}
    /\ (settings.discovery \/ Unambiguous) =>
       /\ service # None => service = Promised /\ run.key # None
       /\ (\E h \in Handlers : main[h] # None /\ pc[h] = "done") /\ ~mapped /\ process = None =>
             \/ Promised = None
             \/ ~settings.discovery /\ MissingAttrs(Env(Configured)) # {}

\* "Pod already has agent sidecar container, skipping" (kube_events_worker.go:93).
SidecarSkipped ==
  mapped => \A i \in DOMAIN pod.containers : ~pod.containers[i].agent
=============================================================================
