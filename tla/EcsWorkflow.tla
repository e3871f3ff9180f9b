---------------------------- MODULE EcsWorkflow ----------------------------
(***************************************************************************)
(* "ecs add" (cmd/internal/ecs): a wizard that adds the agent to a task    *)
(* definition of AWS ECS and moves a service to it.  Each state of         *)
(* AddWorkflow is an action, or several where its outcomes differ; the     *)
(* states that ask can be answered, interrupted, or skipped by a flag, and *)
(* lead back to earlier ones.                                              *)
(*                                                                         *)
(* AWS is external: of each account and region it has clusters, services   *)
(* and task definitions; every call may fail, with or without "not         *)
(* authorized".  Nobody else changes the task definitions meanwhile.       *)
(***************************************************************************)
EXTENDS Naturals, Sequences

CONSTANTS
  Profiles,      \* the profiles of the AWS credentials file, one account each
  ProfileNames,  \* what may be typed or given as a profile
  DefaultProfile,
  Regions, Clusters, Families, Services,
  AccountOf,     \* of a cluster
  RegionOf,      \* of a cluster
  ClusterOf,     \* of a service
  DefaultRegion, \* of a profile in its file, or None
  Flags,         \* the command lines, with AWS_REGION or AWS_DEFAULT_REGION as envRegion
  Tasks,         \* what task definitions there are at first, see TypeOK
  Running,       \* the families that the services run at first
  MaxTicks,      \* ticks of 15 seconds in five minutes
  None

ASSUME NoSuchService == None \notin Services

TaskDefinitions ==
  [Profiles \X Regions ->
     [Families -> Seq([agents : Nat, tagged : BOOLEAN, bridge : BOOLEAN])]]
ASSUME TasksAssumption == Tasks \subseteq TaskDefinitions
ASSUME FlagsAssumption ==
  \A f \in Flags : /\ f.task \in Families \cup {None}
                   /\ f.envRegion \in Regions \cup {None}
                   /\ f.terminal \in BOOLEAN /\ f.dryRun \in BOOLEAN
ASSUME PlacesAssumption ==
  /\ DefaultProfile \in ProfileNames
  /\ DefaultRegion \in [Profiles -> Regions \cup {None}]
  /\ RegionOf \in [Clusters -> Regions]
  /\ MaxTicks \in Nat

VARIABLES
  flags,     \* the command line
  state,     \* currentState
  outcome,   \* what RunAddWorkflow reports
  profile,   \* awsProfile
  config,    \* the profile that awsConfig was loaded from, or None
  region,    \* awsRegion; "all" while all regions are searched
  client,    \* account and region of ecsClient
  cluster, family, def, service, \* what has been chosen
  lost,      \* an error of a list call was wrapped as nil
  tasks,     \* AWS: the revisions of each task definition
  running,   \* AWS: the task definition of each service
  rollout,   \* AWS: the state of the deployment that the wizard started
  deployment, ticks \* of waitForRestartState

selection == <<region, client, cluster, family, def, service>>
login == <<profile, config>>
aws == <<tasks, running, rollout>>
waiting == <<deployment, ticks>>
vars == <<flags, state, outcome, selection, login, lost, aws, waiting>>

Place == <<client.profile, client.region>>
\* One more agent; the tag says so.
WithAgent(content) == [content EXCEPT !.agents = @ + 1, !.tagged = TRUE]

-----------------------------------------------------------------------------
\* The helpers that choose the next state.
awf_next(s) == state' = s /\ UNCHANGED outcome
awf_done == state' = "over" /\ outcome' = "success"
awf_error == state' = "over" /\ outcome' = "error"

\* AskOne returns an error when the user interrupts.
Asking == {"getProfile", "getRegion", "getCluster", "getTask", "getService"}
FlagOf(s) == CASE s = "getProfile" -> flags.profile [] s = "getRegion" -> flags.region
               [] s = "getCluster" -> flags.cluster [] s = "getTask" -> flags.task
               [] s = "getService" -> flags.service
Asks(s) == state = s /\ FlagOf(s) = None

\* The clusters in all regions; those whose listing fails are skipped.
Found(skipped) == {c \in Clusters : AccountOf[c] = config /\ RegionOf[c] \notin skipped}

Interrupt ==
  /\ \/ \E s \in Asking : Asks(s)
     \/ state = "findClusterAndRegion" /\ Found({}) # {}
  /\ state' = "over" /\ outcome' = "interrupted"
  /\ UNCHANGED <<flags, selection, login, lost, aws, waiting>>

initState ==
  /\ state = "init"
  /\ awf_next(IF flags.terminal THEN "getProfile" ELSE "fillFromFlags")
  /\ UNCHANGED <<flags, selection, login, lost, aws, waiting>>

\* createConfig: the region is that of the profile's file.
Load(p) ==
  /\ p \in Profiles
  /\ config' = p /\ region' = DefaultRegion[p]

getProfileState(p) ==
  /\ state = "getProfile"
  /\ p \in ProfileNames /\ flags.profile \in {None, p}
  /\ profile' = p /\ Load(p)
  /\ awf_next("getRegion")
  /\ UNCHANGED <<flags, client, cluster, family, def, service, lost, aws, waiting>>

getProfileState_none(p) ==
  /\ Asks("getProfile") /\ p \in ProfileNames \ Profiles
  /\ profile' = DefaultProfile
  /\ UNCHANGED <<flags, state, outcome, selection, config, lost, aws, waiting>>

\* Every call of AWS, every file and every question may fail in a way that ends the wizard.
Calling == Asking \cup
  {"findClusterAndRegion", "fillFromFlags", "fill_cluster", "fill_task", "fill_service",
   "fill_secrets", "modifyTask", "updateService", "waitForRestart"}
Fails ==
  /\ state \in Calling /\ awf_error
  /\ UNCHANGED <<flags, selection, login, lost, aws, waiting>>

\* createClient.
Connect(r) == client' = [profile |-> config, region |-> r]

getRegionState(r) ==
  /\ state = "getRegion" /\ flags.region \in {None, r}
  /\ region' = r /\ Connect(r)
  /\ awf_next("getCluster")
  /\ UNCHANGED <<flags, cluster, family, def, service, login, lost, aws, waiting>>

getRegionState_all ==
  /\ Asks("getRegion")
  /\ region' = "all"
  /\ awf_next("findClusterAndRegion")
  /\ UNCHANGED <<flags, client, cluster, family, def, service, login, lost, aws, waiting>>

findClusterAndRegionState(c) ==
  /\ state = "findClusterAndRegion"
  /\ \E skipped \in SUBSET Regions : c \in Found(skipped)
  /\ cluster' = c /\ region' = RegionOf[c] /\ Connect(RegionOf[c])
  /\ awf_next("getTask")
  /\ UNCHANGED <<flags, family, def, service, login, lost, aws, waiting>>

findClusterAndRegionState_none ==
  /\ state = "findClusterAndRegion"
  /\ \E last \in Regions : Connect(last)
  /\ awf_next("getProfile")
  /\ UNCHANGED <<flags, region, cluster, family, def, service, login, lost, aws, waiting>>

\* What the user is sent back for: no permission, nothing to choose from, or the
\* choice to return.
GoBack(from, to) ==
  /\ Asks(from) /\ awf_next(to)
  /\ UNCHANGED <<flags, selection, login, lost, aws, waiting>>

Back ==
  \/ GoBack("getCluster", "getProfile")
  \/ GoBack("getCluster", "getRegion")
  \/ GoBack("getTask", "getProfile")
  \/ GoBack("getTask", "getCluster")
  \/ GoBack("getService", "getCluster")
  \/ GoBack("getService", "getTask")

\* listECSClusters.
ClustersHere == {c \in Clusters : <<AccountOf[c], RegionOf[c]>> = Place}

getClusterState(c) ==
  /\ Asks("getCluster") /\ c \in ClustersHere
  /\ cluster' = c
  /\ awf_next("getTask")
  /\ UNCHANGED <<flags, region, client, family, def, service, login, lost, aws, waiting>>

\* With flags the states are the same, run one after the other by fillFromFlags.
loadClusterFromFlag ==
  /\ state \in {"getCluster", "fill_cluster"} /\ flags.cluster # None
  /\ flags.cluster.id \in ClustersHere
  /\ cluster' = flags.cluster.id
  /\ awf_next(IF state = "getCluster" THEN "getTask" ELSE "fill_task")
  /\ UNCHANGED <<flags, region, client, family, def, service, login, lost, aws, waiting>>

\* errors.Wrap of the wrong error: nil, and the end of the wizard, or the next step
\* of fillFromFlags.
LoseError(s, fill, next) ==
  /\ state \in {s, fill} /\ ~FlagOf(s).arn
  /\ lost' = TRUE
  /\ IF state = s THEN awf_done ELSE awf_next(next)
  /\ UNCHANGED <<flags, selection, login, aws, waiting>>

loadClusterFromFlag_lost ==
  flags.cluster # None /\ LoseError("getCluster", "fill_cluster", "fill_task")

\* The revisions of a family; its latest one (getLatestECSTaskDefinition).
Revisions(f) == IF client.region \in Regions THEN tasks[Place][f] ELSE <<>>
Latest(f) == [place |-> Place, family |-> f, rev |-> Len(Revisions(f))]
ContentOf(d) == tasks[d.place][d.family][d.rev]

\* A definition that has been modified before, or has the agent, is remembered, but
\* another one must be chosen.
getTaskState(f) ==
  /\ Asks("getTask")
  /\ Revisions(f) # <<>>
  /\ ~ContentOf(Latest(f)).bridge
  /\ family' = f /\ def' = Latest(f)
  /\ awf_next(IF ContentOf(Latest(f)).tagged \/ ContentOf(Latest(f)).agents > 0
              THEN "getTask" ELSE "getService")
  /\ UNCHANGED <<flags, region, client, cluster, service, login, lost, aws, waiting>>

\* No permission to load it, or it uses bridge networking.
getTaskState_again(f) ==
  /\ Asks("getTask")
  /\ Revisions(f) # <<>>
  /\ family' = f
  /\ UNCHANGED <<flags, state, outcome, region, client, cluster, def, service, login,
                 lost, aws, waiting>>

loadTaskFromFlag ==
  /\ state \in {"getTask", "fill_task"} /\ flags.task # None
  /\ Revisions(flags.task) # <<>>
  /\ ~ContentOf(Latest(flags.task)).bridge
  /\ family' = flags.task /\ def' = Latest(flags.task)
  /\ awf_next(IF state = "getTask" THEN "getService" ELSE "fill_service")
  /\ UNCHANGED <<flags, region, client, cluster, service, login, lost, aws, waiting>>

\* Mutant: services of the cluster with other tasks are listed.
ServicesHere_Mutant == {s \in Services : ClusterOf[s] = cluster /\ cluster \in ClustersHere}

\* listECSServices: those that run the family in the cluster; one whose task
\* definition cannot be looked up is skipped.
ServicesHere == {s \in Services : /\ ClusterOf[s] = cluster /\ cluster \in ClustersHere
                                  /\ running[s].family = family}

getServiceState(s) ==
  /\ Asks("getService") /\ s \in ServicesHere
  /\ service' = s
  /\ awf_next("confirm")
  /\ UNCHANGED <<flags, region, client, cluster, family, def, login, lost, aws, waiting>>

loadServiceFromFlag ==
  /\ state \in {"getService", "fill_service"} /\ flags.service # None
  /\ flags.service.id \in ServicesHere
  /\ service' = flags.service.id
  /\ awf_next(IF state = "getService" THEN "confirm" ELSE "fill_secrets")
  /\ UNCHANGED <<flags, region, client, cluster, family, def, login, lost, aws, waiting>>

loadServiceFromFlag_lost ==
  flags.service # None /\ LoseError("getService", "fill_service", "fill_secrets")

\* Mutant: a dry run goes on after the confirmation.
confirmState_Mutant(proceed) ==
  /\ state = "confirm"
  /\ IF proceed THEN awf_next("modifyTask") ELSE awf_done
  /\ UNCHANGED <<flags, selection, login, lost, aws, waiting>>

\* An interruption of this question counts as a no.
confirmState(proceed) ==
  /\ state = "confirm"
  /\ IF ~flags.dryRun /\ proceed THEN awf_next("modifyTask") ELSE awf_done
  /\ UNCHANGED <<flags, selection, login, lost, aws, waiting>>

-----------------------------------------------------------------------------
\* LoadDefaultConfig: the region of the environment wins over the one in the file.
ConfigRegion(p) == IF flags.envRegion # None THEN flags.envRegion ELSE DefaultRegion[p]

\* Not at a terminal.  The flags of the profile and the region are not looked at.
fillFromFlags ==
  /\ state = "fillFromFlags"
  /\ Load(profile)
  /\ client' = [profile |-> profile, region |-> ConfigRegion(profile)]
  /\ IF flags.cluster = None THEN awf_error ELSE awf_next("fill_cluster")
  /\ UNCHANGED <<flags, cluster, family, def, service, profile, lost, aws, waiting>>

\* The flags that follow are mandatory.
fillFromFlags_missing ==
  /\ \/ state = "fill_task" /\ flags.task = None
     \/ state = "fill_service" /\ flags.service = None
  /\ awf_error
  /\ UNCHANGED <<flags, selection, login, lost, aws, waiting>>

fillFromFlags_secrets ==
  /\ state = "fill_secrets"
  /\ IF flags.dryRun THEN awf_done ELSE awf_next("modifyTask")
  /\ UNCHANGED <<flags, selection, login, lost, aws, waiting>>

-----------------------------------------------------------------------------
\* RegisterTaskDefinition: a copy with the agent becomes the latest revision.
modifyTaskState ==
  /\ state = "modifyTask"
  /\ LET revs == tasks[def.place][def.family]
     IN /\ tasks' = [tasks EXCEPT ![def.place][def.family] =
                                     Append(@, WithAgent(ContentOf(def)))]
        /\ def' = [def EXCEPT !.rev = Len(revs) + 1]
  /\ awf_next("updateService")
  /\ UNCHANGED <<flags, region, client, cluster, family, service, login, lost, running,
                 rollout, waiting>>

\* A service that was not found cannot be updated.  Whether it can be tagged does
\* not matter.
updateServiceState ==
  /\ state = "updateService" /\ service # None
  /\ running' = [running EXCEPT ![service] = [family |-> def.family, rev |-> def.rev]]
  /\ rollout' = "IN_PROGRESS"
  /\ awf_next("waitForRestart")
  /\ UNCHANGED <<flags, selection, login, lost, tasks, waiting>>

\* GetDeploymentMatchingTask.
waitForRestartState ==
  /\ state = "waitForRestart"
  /\ deployment' = rollout
  /\ awf_next("poll")
  /\ UNCHANGED <<flags, selection, login, lost, aws, ticks>>

\* A tick: after five minutes the wizard gives up.  GetDeploymentByID returns an
\* empty deployment with its error.
waitForRestartState_tick ==
  /\ state = "poll" /\ deployment = "IN_PROGRESS"
  /\ IF ticks = MaxTicks
     THEN awf_error /\ UNCHANGED waiting
     ELSE /\ ticks' = ticks + 1
          /\ deployment' \in {rollout, None}
          /\ UNCHANGED <<state, outcome>>
  /\ UNCHANGED <<flags, selection, login, lost, aws>>

waitForRestartState_end ==
  /\ state = "poll" /\ deployment # "IN_PROGRESS"
  /\ IF deployment = "FAILED" THEN awf_error ELSE awf_done
  /\ UNCHANGED <<flags, selection, login, lost, aws, waiting>>

\* ECS replaces the service's tasks.
Deploy ==
  /\ rollout = "IN_PROGRESS" /\ rollout' \in {"COMPLETED", "FAILED"}
  /\ UNCHANGED <<flags, state, outcome, selection, login, lost, tasks, running, waiting>>

-----------------------------------------------------------------------------
Init ==
  /\ flags \in Flags
  /\ state = "init" /\ outcome = None
  /\ profile = DefaultProfile /\ config = None
  /\ region = None /\ client = None
  /\ cluster = None /\ family = None /\ def = None /\ service = None
  /\ lost = FALSE
  /\ tasks \in Tasks
  /\ running = [s \in Services |->
                  LET c == ClusterOf[s]
                  IN [family |-> Running[s],
                      rev |-> Len(tasks[<<AccountOf[c], RegionOf[c]>>][Running[s]])]]
  /\ rollout = None /\ deployment = None /\ ticks = 0

Next ==
  \/ Interrupt \/ initState \/ Fails \/ Back
  \/ \E p \in ProfileNames : getProfileState(p) \/ getProfileState_none(p)
  \/ \E r \in Regions : getRegionState(r)
  \/ getRegionState_all
  \/ \E c \in Clusters : findClusterAndRegionState(c) \/ getClusterState(c)
  \/ findClusterAndRegionState_none
  \/ loadClusterFromFlag \/ loadClusterFromFlag_lost
  \/ \E f \in Families : getTaskState(f) \/ getTaskState_again(f)
  \/ loadTaskFromFlag
  \/ \E s \in Services : getServiceState(s)
  \/ loadServiceFromFlag \/ loadServiceFromFlag_lost
  \/ \E proceed \in BOOLEAN : confirmState(proceed)
  \/ fillFromFlags \/ fillFromFlags_missing \/ fillFromFlags_secrets
  \/ modifyTaskState \/ updateServiceState
  \/ waitForRestartState \/ waitForRestartState_tick \/ waitForRestartState_end
  \/ Deploy

Spec == Init /\ [][Next]_vars

-----------------------------------------------------------------------------
(***************************************************************************)
(* Properties.                                                             *)
(***************************************************************************)
TypeOK ==
  /\ \A n \in {"terminal", "dryRun"} : flags[n] \in BOOLEAN
  /\ profile \in ProfileNames /\ config \in Profiles \cup {None}
  /\ region \in Regions \cup {"all", None}
  /\ cluster \in Clusters \cup {None} /\ family \in Families \cup {None}
  /\ service \in Services \cup {None}
  /\ def # None => def.rev \in 1 .. Len(tasks[def.place][def.family])
  /\ ticks \in 0 .. MaxTicks

\* What the wizard is about to change fits together, however often the user went
\* back and with whatever flags: one account and region, a cluster there, a service of
\* that cluster, and a definition of the family that the service runs (add.go: the
\* states up to confirmState).  A service whose listing failed is missing instead.  At a
\* terminal the region that the agent will be told is that of the client as well;
\* without one it is the profile's, wherever the client works.
Coherent ==
  state \in {"confirm", "fill_secrets", "modifyTask", "updateService"} =>
    /\ client.profile = config
    /\ flags.terminal =>
         client.region = region /\ flags.profile \in {None, config}
    /\ def.place = Place /\ def.family = family
    /\ service # None => /\ ClusterOf[service] = cluster /\ cluster \in ClustersHere
                         /\ running[service].family = family
    /\ service = None => lost

\* AWS is changed only after everything has been chosen, and not by a dry run: by one
\* new revision, of the definition chosen and with one agent more, and by the move of
\* the chosen service to that revision (add.go: modifyTaskState, updateServiceState).
OnlyAddsAgent ==
  [][/\ tasks' # tasks =>
          /\ ~flags.dryRun
          /\ def' # def /\ def'.rev = Len(tasks[def.place][def.family]) + 1
          /\ tasks'[def'.place][def'.family][def'.rev] = WithAgent(ContentOf(def))
          /\ flags.task = None => ContentOf(def).agents = 0
     /\ running' # running =>
          \A s \in Services : running'[s] # running[s] =>
             /\ s = service
             /\ running[s].family = def.family
             /\ running'[s] = [family |-> def.family, rev |-> def.rev]]_vars

\* "Deployment successful!" (add.go:1112).
SuccessMeansDeployed ==
  state = "over" /\ outcome = "success" => rollout \in {None, "COMPLETED"}
=============================================================================
