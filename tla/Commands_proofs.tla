--------------------------- MODULE Commands_proofs ---------------------------
(***************************************************************************)
(* Theorems about the ways the agent is set up and started.  EcsWorkflow,  *)
(* for any accounts, clusters, services, task definitions and command      *)
(* lines, and however often the user goes back: what is changed fits       *)
(* together, and is changed as announced.  ApidumpCommand, for any agents, *)
(* interfaces and command lines: which project they find, and where their  *)
(* reports go.  And the types of these and of PodInspection.               *)
(***************************************************************************)
EXTENDS Commands, FiniteSetTheorems, WellFoundedInduction, TLAPS

\* How far the wizard has come: what it has fixed in each of these states it does not
\* change before it returns to an earlier one.
Chosen == {"confirm", "fill_secrets", "modifyTask", "updateService"}
Defined == Chosen \cup {"getService", "fill_service"}
Located == Defined \cup {"getCluster", "getTask", "fill_cluster", "fill_task"}
LoggedIn == Located \cup {"getRegion", "findClusterAndRegion"}
Filling == {"fillFromFlags", "fill_cluster", "fill_task", "fill_service", "fill_secrets"}
Started == Chosen \cup {"waitForRestart", "poll", "over"}

Typed ==
  /\ flags \in Flags
  /\ tasks \in TaskDefinitions
  /\ running = [s \in Services |-> running[s]]

LoginRight ==
  /\ state \in Filling => ~flags.terminal
  /\ state \in LoggedIn => /\ config \in Profiles
                           /\ flags.terminal /\ flags.profile # None
                              => config = flags.profile

ClientRight ==
  state \in Located => /\ client.profile = config
                       /\ flags.terminal => client.region = region

DefRight ==
  state \in Defined =>
    /\ Place \in Profiles \X Regions /\ family \in Families
    /\ def = [place |-> Place, family |-> family, rev |-> def.rev]
    /\ def.rev \in 1 .. Len(tasks[Place][family])

DefUnused ==
  state \in Defined \ {"updateService"} /\ flags.task = None =>
    tasks[Place][family][def.rev].agents = 0

ServiceRight ==
  /\ state \notin Started => service = None
  /\ state \in Chosen =>
       /\ service # None => /\ ClusterOf[service] = cluster /\ cluster \in ClustersHere
                            /\ running[service].family = family
       /\ service = None => lost

NotDry == state \in {"modifyTask", "updateService"} => ~flags.dryRun

WizardInv ==
  /\ Typed /\ LoginRight /\ ClientRight /\ DefRight /\ DefUnused /\ ServiceRight /\ NotDry

-----------------------------------------------------------------------------
LEMMA WizardInit == Init => WizardInv
<1> SUFFICES ASSUME Init PROVE WizardInv
  OBVIOUS
<1>1. Typed
  BY TasksAssumption DEF Init, Typed
<1> QED
  BY <1>1 DEF Init, WizardInv, LoginRight, ClientRight, DefRight, DefUnused, ServiceRight,
              NotDry, Chosen, Defined, Located, LoggedIn, Filling, Started

\* The states are disjoint where the invariant needs them to be.
LEMMA Ended ==
  ASSUME WizardInv, state' \in {"over", "waitForRestart", "poll"}, flags' = flags,
         tasks' = tasks, running' = [s \in Services |-> running'[s]]
  PROVE  WizardInv'
BY DEF WizardInv, Typed, LoginRight, ClientRight, DefRight, DefUnused, ServiceRight,
       NotDry, Chosen, Defined, Located, LoggedIn, Filling, Started

\* The wizard returns to a state that fixes no more than the one it leaves, or stays.
LEMMA Returned ==
  ASSUME WizardInv,
         UNCHANGED <<flags, tasks, running, config, region, client, cluster, family, def,
                     service, lost>>,
         \/ state' = state
         \/ state' = "getProfile" /\ service = None
         \/ state' = "getRegion" /\ service = None /\ state \in LoggedIn
         \/ state' \in {"getCluster", "getTask"} /\ service = None
            /\ state \in Located \ Filling
  PROVE  WizardInv'
BY DEF WizardInv, Typed, LoginRight, ClientRight, DefRight, DefUnused, ServiceRight,
       NotDry, Chosen, Defined, Located, LoggedIn, Filling, Started, Place, ClustersHere

LEMMA LastElement ==
  ASSUME NEW S, NEW s \in Seq(S), s # <<>>
  PROVE  Len(s) \in 1 .. Len(s) /\ s[Len(s)] \in S
OBVIOUS

\* A revision more.
LEMMA AppendedElement ==
  ASSUME NEW S, NEW s \in Seq(S), NEW e \in S
  PROVE  /\ Append(s, e) \in Seq(S)
         /\ Len(Append(s, e)) = Len(s) + 1 /\ Len(s) \in Nat
         /\ Append(s, e)[Len(s) + 1] = e
OBVIOUS

\* What getTaskState and loadTaskFromFlag choose.
LEMMA LatestRight ==
  ASSUME Typed, LoginRight, ClientRight, state \in Located, NEW f \in Families,
         Revisions(f) # <<>>
  PROVE  /\ Place \in Profiles \X Regions
         /\ Latest(f) = [place |-> Place, family |-> f, rev |-> Len(tasks[Place][f])]
         /\ Len(tasks[Place][f]) \in 1 .. Len(tasks[Place][f])
         /\ ContentOf(Latest(f)) = tasks[Place][f][Len(tasks[Place][f])]
         /\ ContentOf(Latest(f)).agents \in Nat
<1> DEFINE Content == [agents : Nat, tagged : BOOLEAN, bridge : BOOLEAN]
<1>1. client.region \in Regions /\ Revisions(f) = tasks[Place][f]
  BY DEF Revisions
<1>2. client.profile \in Profiles
  BY DEF LoginRight, ClientRight, LoggedIn
<1>3. Place \in Profiles \X Regions
  BY <1>1, <1>2 DEF Place
<1>4. tasks[Place][f] \in Seq(Content)
  BY <1>3 DEF Typed, TaskDefinitions
<1> HIDE DEF Content
<1>5. /\ Len(tasks[Place][f]) \in 1 .. Len(tasks[Place][f])
      /\ tasks[Place][f][Len(tasks[Place][f])] \in Content
  BY <1>1, <1>4, LastElement
<1>6. tasks[Place][f][Len(tasks[Place][f])].agents \in Nat
  BY <1>5 DEF Content
<1> QED
  BY <1>1, <1>3, <1>5, <1>6 DEF Latest, ContentOf

LEMMA WithAgentType ==
  ASSUME NEW c \in [agents : Nat, tagged : BOOLEAN, bridge : BOOLEAN]
  PROVE  WithAgent(c) \in [agents : Nat, tagged : BOOLEAN, bridge : BOOLEAN]
<1>1. WithAgent(c) = [agents |-> c.agents + 1, tagged |-> TRUE, bridge |-> c.bridge]
  <2>1. c = [agents |-> c.agents, tagged |-> c.tagged, bridge |-> c.bridge]
    OBVIOUS
  <2>2. [c EXCEPT !.agents = c.agents + 1] =
          [agents |-> c.agents + 1, tagged |-> c.tagged, bridge |-> c.bridge]
    BY <2>1
  <2>3. WithAgent(c) = [[c EXCEPT !.agents = c.agents + 1] EXCEPT !.tagged = TRUE]
    BY DEF WithAgent
  <2> QED BY <2>2, <2>3
<1>2. c.agents + 1 \in Nat
  OBVIOUS
<1>3. c.bridge \in BOOLEAN
  OBVIOUS
<1> QED BY <1>1, <1>2, <1>3

\* The revision that modifyTaskState registers.
LEMMA Registered ==
  ASSUME WizardInv, modifyTaskState
  PROVE  /\ Place \in Profiles \X Regions /\ family \in Families
         /\ ContentOf(def) = tasks[Place][family][def.rev]
         /\ def' = [place |-> Place, family |-> family,
                    rev |-> Len(tasks[Place][family]) + 1]
         /\ tasks' \in TaskDefinitions
         /\ tasks'[Place][family] = Append(tasks[Place][family], WithAgent(ContentOf(def)))
         /\ Len(tasks'[Place][family]) = Len(tasks[Place][family]) + 1
         /\ Len(tasks[Place][family]) \in Nat /\ def.rev \in 1 .. Len(tasks[Place][family])
         /\ tasks'[Place][family][Len(tasks[Place][family]) + 1] = WithAgent(ContentOf(def))
<1> DEFINE Content == [agents : Nat, tagged : BOOLEAN, bridge : BOOLEAN]
           revs == tasks[Place][family]
           new == WithAgent(ContentOf(def))
<1>1. /\ Place \in Profiles \X Regions /\ family \in Families
      /\ def.place = Place /\ def.family = family /\ def.rev \in 1 .. Len(revs)
      /\ def = [place |-> Place, family |-> family, rev |-> def.rev]
  BY DEF modifyTaskState, WizardInv, DefRight, Defined, Chosen
<1>2. revs \in Seq(Content)
  BY <1>1 DEF WizardInv, Typed, TaskDefinitions
<1>3. ContentOf(def) = revs[def.rev]
  BY <1>1 DEF ContentOf
<1>4. revs[def.rev] \in Content
  <2> HIDE DEF Content
  <2> QED BY <1>1, <1>2
<1>5. new \in Content
  BY <1>3, <1>4, WithAgentType
<1>6. tasks' = [tasks EXCEPT ![Place][family] = Append(revs, new)]
  BY <1>1 DEF modifyTaskState
<1>7. def' = [place |-> Place, family |-> family, rev |-> Len(revs) + 1]
  BY <1>1 DEF modifyTaskState
<1>8. /\ Append(revs, new) \in Seq(Content)
      /\ Len(Append(revs, new)) = Len(revs) + 1 /\ Len(revs) \in Nat
      /\ Append(revs, new)[Len(revs) + 1] = new
  <2> HIDE DEF Content, revs, new
  <2> QED BY <1>2, <1>5, AppendedElement
<1>9. tasks' \in TaskDefinitions /\ tasks'[Place][family] = Append(revs, new)
  <2> DEFINE longer == Append(revs, new)
  <2> HIDE DEF longer
  <2>1. tasks \in [Profiles \X Regions -> [Families -> Seq(Content)]]
    BY DEF WizardInv, Typed, TaskDefinitions
  <2>2. longer \in Seq(Content)
    BY <1>8 DEF longer
  <2>3. tasks' = [tasks EXCEPT ![Place][family] = longer]
    BY <1>6 DEF longer
  <2>4. /\ tasks' \in [Profiles \X Regions -> [Families -> Seq(Content)]]
        /\ tasks'[Place][family] = longer
    <3> HIDE DEF Content
    <3> QED BY <2>1, <2>2, <2>3, <1>1
  <2> QED BY <2>4 DEF TaskDefinitions, longer
<1> QED
  BY <1>1, <1>3, <1>7, <1>8, <1>9

LEMMA WizardStep ==
  ASSUME WizardInv, [Next]_vars
  PROVE  WizardInv'
<1> USE DEF vars, selection, login, aws, waiting
<1>1. CASE Interrupt \/ Fails
  <2>1. state' = "over" /\ UNCHANGED <<flags, tasks, running>>
    BY <1>1 DEF Interrupt, Fails, awf_error
  <2> QED BY <2>1, Ended DEF WizardInv, Typed
<1>2. CASE initState
  BY <1>2 DEF initState, awf_next, WizardInv, Typed, LoginRight, ClientRight, DefRight,
    DefUnused, ServiceRight, NotDry, Chosen, Defined, Located, LoggedIn, Filling, Started
<1>3. CASE Back
  BY <1>3, Returned DEF Back, GoBack, Asks, awf_next, WizardInv, ServiceRight, Chosen,
    Defined, Located, LoggedIn, Filling, Started
<1>4. CASE \E p \in ProfileNames : getProfileState(p)
  BY <1>4 DEF getProfileState, Load, awf_next, WizardInv, Typed, LoginRight, ClientRight,
    DefRight, DefUnused, ServiceRight, NotDry, Chosen, Defined, Located, LoggedIn, Filling,
    Started
<1>5. CASE \E p \in ProfileNames : getProfileState_none(p)
  BY <1>5, Returned DEF getProfileState_none
<1>6. CASE \E r \in Regions : getRegionState(r)
  BY <1>6 DEF getRegionState, Connect, awf_next, WizardInv, Typed, LoginRight, ClientRight,
    DefRight, DefUnused, ServiceRight, NotDry, Chosen, Defined, Located, LoggedIn, Filling,
    Started
<1>7. CASE getRegionState_all
  BY <1>7 DEF getRegionState_all, Asks, awf_next, WizardInv, Typed, LoginRight, ClientRight,
    DefRight, DefUnused, ServiceRight, NotDry, Chosen, Defined, Located, LoggedIn, Filling,
    Started
<1>8. CASE \E c \in Clusters : findClusterAndRegionState(c)
  BY <1>8 DEF findClusterAndRegionState, Connect, awf_next, WizardInv, Typed, LoginRight,
    ClientRight, DefRight, DefUnused, ServiceRight, NotDry, Chosen, Defined, Located,
    LoggedIn, Filling, Started
<1>9. CASE \E c \in Clusters : getClusterState(c)
  BY <1>9 DEF getClusterState, Asks, awf_next, WizardInv, Typed, LoginRight, ClientRight,
    DefRight, DefUnused, ServiceRight, NotDry, Chosen, Defined, Located, LoggedIn, Filling,
    Started
<1>10. CASE findClusterAndRegionState_none
  BY <1>10 DEF findClusterAndRegionState_none, awf_next, WizardInv, Typed, LoginRight,
    ClientRight, DefRight, DefUnused, ServiceRight, NotDry, Chosen, Defined, Located,
    LoggedIn, Filling, Started
<1>11. CASE loadClusterFromFlag
  BY <1>11 DEF loadClusterFromFlag, awf_next, WizardInv, Typed, LoginRight, ClientRight,
    DefRight, DefUnused, ServiceRight, NotDry, Chosen, Defined, Located, LoggedIn, Filling,
    Started
<1>12. CASE loadClusterFromFlag_lost \/ loadServiceFromFlag_lost
  <2>1. CASE state' = "over"
    BY <1>12, <2>1, Ended DEF loadClusterFromFlag_lost, loadServiceFromFlag_lost, LoseError,
      WizardInv, Typed
  <2>2. CASE state' # "over"
    BY <1>12, <2>2 DEF loadClusterFromFlag_lost, loadServiceFromFlag_lost, LoseError,
      awf_next, awf_done, WizardInv, Typed, LoginRight, ClientRight, DefRight,
      DefUnused, ServiceRight, NotDry, Chosen, Defined, Located, LoggedIn, Filling,
      Started, Place
  <2> QED BY <2>1, <2>2
<1>13. CASE \E f \in Families : getTaskState(f)
  <2> PICK f \in Families : getTaskState(f)
    BY <1>13
  <2>1. /\ Place \in Profiles \X Regions
        /\ Latest(f) = [place |-> Place, family |-> f, rev |-> Len(tasks[Place][f])]
        /\ Len(tasks[Place][f]) \in 1 .. Len(tasks[Place][f])
        /\ ContentOf(Latest(f)) = tasks[Place][f][Len(tasks[Place][f])]
        /\ ContentOf(Latest(f)).agents \in Nat
    BY LatestRight DEF getTaskState, Asks, WizardInv, Located
  <2>2. DefRight' /\ DefUnused'
    BY <2>1 DEF getTaskState, awf_next, DefRight, DefUnused, Defined, Chosen, Place
  <2> QED
    BY <2>2 DEF getTaskState, Asks, awf_next, WizardInv, Typed, LoginRight, ClientRight,
      ServiceRight, NotDry, Chosen, Defined, Located, LoggedIn, Filling, Started
<1>14. CASE \E f \in Families : getTaskState_again(f)
  BY <1>14 DEF getTaskState_again, Asks, WizardInv, Typed, LoginRight, ClientRight,
    DefRight, DefUnused, ServiceRight, NotDry, Chosen, Defined, Located, LoggedIn,
    Filling, Started
<1>15. CASE loadTaskFromFlag
  <2>1. flags.task \in Families
    BY <1>15, FlagsAssumption DEF loadTaskFromFlag, WizardInv, Typed
  <2>2. /\ Place \in Profiles \X Regions
        /\ Latest(flags.task) = [place |-> Place, family |-> flags.task,
                                 rev |-> Len(tasks[Place][flags.task])]
        /\ Len(tasks[Place][flags.task]) \in 1 .. Len(tasks[Place][flags.task])
    BY <1>15, <2>1, LatestRight DEF loadTaskFromFlag, WizardInv, Located
  <2>3. DefRight' /\ DefUnused'
    BY <1>15, <2>1, <2>2 DEF loadTaskFromFlag, DefRight, DefUnused, Place
  <2> QED
    BY <1>15, <2>3 DEF loadTaskFromFlag, awf_next, WizardInv, Typed, LoginRight,
      ClientRight, ServiceRight, NotDry, Chosen, Defined, Located, LoggedIn, Filling,
      Started
<1>16. CASE \E s \in Services : getServiceState(s)
  BY <1>16, NoSuchService DEF getServiceState, Asks, ServicesHere, awf_next, WizardInv,
    Typed, LoginRight, ClientRight, DefRight, DefUnused, ServiceRight, NotDry, Chosen,
    Defined, Located, LoggedIn, Filling, Started, Place, ClustersHere
<1>17. CASE loadServiceFromFlag
  BY <1>17, NoSuchService DEF loadServiceFromFlag, ServicesHere, awf_next, WizardInv, Typed,
    LoginRight, ClientRight, DefRight, DefUnused, ServiceRight, NotDry, Chosen, Defined,
    Located, LoggedIn, Filling, Started, Place, ClustersHere
<1>18. CASE \E proceed \in BOOLEAN : confirmState(proceed)
  BY <1>18 DEF confirmState, awf_next, awf_done, WizardInv, Typed,
    LoginRight, ClientRight, DefRight, DefUnused, ServiceRight, NotDry, Chosen, Defined,
    Located, LoggedIn, Filling, Started, Place, ClustersHere
<1>19. CASE fillFromFlags \/ fillFromFlags_missing
  <2>1. CASE state' = "over"
    BY <1>19, <2>1, Ended DEF fillFromFlags, fillFromFlags_missing, WizardInv, Typed
  <2>2. CASE state' # "over"
    BY <1>19, <2>2 DEF fillFromFlags, fillFromFlags_missing, Load, awf_next, awf_error,
      WizardInv, Typed, LoginRight, ClientRight, DefRight, DefUnused, ServiceRight, NotDry,
      Chosen, Defined, Located, LoggedIn, Filling, Started
  <2> QED BY <2>1, <2>2
<1>20. CASE fillFromFlags_secrets
  BY <1>20 DEF fillFromFlags_secrets, awf_next, awf_done, WizardInv, Typed,
    LoginRight, ClientRight, DefRight, DefUnused, ServiceRight, NotDry, Chosen, Defined,
    Located, LoggedIn, Filling, Started, Place, ClustersHere
<1>21. CASE modifyTaskState
  <2>1. Place' = Place
    BY <1>21 DEF modifyTaskState, Place
  <2>2. family' = family
    BY <1>21 DEF modifyTaskState
  <2>3. def' = [place |-> Place', family |-> family', rev |-> def'.rev]
    BY <1>21, <2>1, <2>2, Registered
  <2>4. def'.rev \in 1 .. Len(tasks'[Place'][family'])
    <3> DEFINE n == Len(tasks[Place][family])
    <3>1. n \in Nat /\ def'.rev = n + 1 /\ Len(tasks'[Place'][family']) = n + 1
      BY <1>21, <2>1, <2>2, Registered
    <3> HIDE DEF n
    <3> QED BY <3>1
  <2>5. DefRight'
    BY <1>21, <2>1, <2>2, <2>3, <2>4, Registered DEF DefRight
  <2> QED
    BY <1>21, <2>5, Registered DEF modifyTaskState, awf_next, WizardInv, Typed, LoginRight,
      ClientRight, DefUnused, ServiceRight, NotDry, Chosen, Defined, Located, LoggedIn,
      Filling, Started, ClustersHere, Place
<1>22. CASE updateServiceState
  BY <1>22, Ended DEF updateServiceState, awf_next, WizardInv, Typed
<1>23. CASE waitForRestartState \/ waitForRestartState_tick \/ waitForRestartState_end
  BY <1>23, Ended DEF waitForRestartState, waitForRestartState_tick,
    waitForRestartState_end, awf_next, awf_done, awf_error, WizardInv, Typed
<1>24. CASE Deploy \/ UNCHANGED vars
  BY <1>24, Returned DEF Deploy
<1> QED
  BY <1>1, <1>2, <1>3, <1>4, <1>5, <1>6, <1>7, <1>8, <1>9, <1>10, <1>11, <1>12, <1>13,
    <1>14, <1>15, <1>16, <1>17, <1>18, <1>19, <1>20, <1>21, <1>22, <1>23, <1>24 DEF Next

-----------------------------------------------------------------------------
LEMMA WizardInvariant == Spec => []WizardInv
<1>1. Init => WizardInv
  BY WizardInit
<1>2. WizardInv /\ [Next]_vars => WizardInv'
  BY WizardStep
<1> QED BY <1>1, <1>2, PTL DEF Spec

\* Coherent: account, cluster, service and task definition fit together when AWS is
\* about to be changed, however often the user went back, and at a terminal the region
\* that the agent is told is the client's (add.go: the states up to confirmState).
THEOREM CoherentTheorem == Spec => []Coherent
<1>1. WizardInv => Coherent
  BY DEF WizardInv, LoginRight, ClientRight, DefRight, ServiceRight, Coherent, Chosen,
         Defined, Located, LoggedIn
<1> QED BY <1>1, WizardInvariant, PTL

\* OnlyAddsAgent: AWS is changed by one revision with one agent more, and by the move of
\* the chosen service to it, and not by a dry run (add.go: modifyTaskState and
\* updateServiceState).
THEOREM OnlyAddsAgentTheorem == Spec => OnlyAddsAgent
<1> DEFINE Step ==
      /\ tasks' # tasks =>
          /\ ~flags.dryRun
          /\ def' # def /\ def'.rev = Len(tasks[def.place][def.family]) + 1
          /\ tasks'[def'.place][def'.family][def'.rev] = WithAgent(ContentOf(def))
          /\ flags.task = None => ContentOf(def).agents = 0
      /\ running' # running =>
          \A s \in Services : running'[s] # running[s] =>
             /\ s = service
             /\ running[s].family = def.family
             /\ running'[s] = [family |-> def.family, rev |-> def.rev]
<1>1. ASSUME WizardInv, modifyTaskState
      PROVE  Step
  <2>1. flags.task = None => tasks[Place][family][def.rev].agents = 0
    BY <1>1 DEF modifyTaskState, WizardInv, DefUnused, Defined, Chosen
  <2>2. def.place = Place /\ def.family = family /\ ~flags.dryRun
    BY <1>1 DEF modifyTaskState, WizardInv, DefRight, NotDry, Defined, Chosen
  <2>3. def'.rev # def.rev
    BY <1>1, Registered
  <2>4. running' = running
    BY <1>1 DEF modifyTaskState
  <2> QED BY <1>1, <2>1, <2>2, <2>3, <2>4, Registered
<1>2. ASSUME WizardInv, updateServiceState
      PROVE  Step
  <2>1. tasks' = tasks
    BY <1>2 DEF updateServiceState
  <2>2. service # None => running[service].family = def.family
    BY <1>2 DEF updateServiceState, WizardInv, ServiceRight, DefRight, Chosen, Defined
  <2>3. running' = [running EXCEPT ![service] = [family |-> def.family, rev |-> def.rev]]
    BY <1>2 DEF updateServiceState
  <2>4. running = [s \in Services |-> running[s]]
    BY <1>2 DEF WizardInv, Typed
  <2>5. ASSUME NEW s \in Services, running'[s] # running[s]
        PROVE  s = service /\ running'[s] = [family |-> def.family, rev |-> def.rev]
    BY <2>3, <2>4, <2>5
  <2> QED BY <1>2, <2>1, <2>2, <2>5 DEF updateServiceState
<1>3. ASSUME [Next]_vars, ~modifyTaskState, ~updateServiceState
      PROVE  UNCHANGED <<tasks, running>>
  BY <1>3 DEF Next, vars, selection, login, aws, waiting, Interrupt, initState, Fails,
    Back, GoBack, getProfileState, getProfileState_none, getRegionState,
    getRegionState_all, findClusterAndRegionState, getClusterState,
    findClusterAndRegionState_none, loadClusterFromFlag, loadClusterFromFlag_lost,
    LoseError, getTaskState, getTaskState_again, loadTaskFromFlag, getServiceState,
    loadServiceFromFlag, loadServiceFromFlag_lost, confirmState, fillFromFlags,
    fillFromFlags_missing, fillFromFlags_secrets, waitForRestartState,
    waitForRestartState_tick, waitForRestartState_end, Deploy
<1>4. WizardInv /\ [Next]_vars => [Step]_vars
  BY <1>1, <1>2, <1>3
<1> QED BY <1>4, WizardInvariant, PTL DEF Spec, OnlyAddsAgent

(***************************************************************************)
(* ApidumpCommand.                                                         *)
(***************************************************************************)
-----------------------------------------------------------------------------
\* The service of an agent is fixed before it has a session, and it is in one of these
\* states until then.
Looking == {"start", "parse", "lookup", "create", "lookup_again", "interfaces"}

Created == Cardinality(DOMAIN sessions)
Ids == 1 .. Created \cup {None}

SessionsTyped ==
  /\ Created \in Nat /\ DOMAIN sessions = 1 .. Created
  /\ agentPc = [a \in Agents |-> agentPc[a]]
     /\ agentService = [a \in Agents |-> agentService[a]]
  /\ session \in [Agents -> [Interfaces -> Ids]]
  /\ fresh \in [Agents -> Ids]
  /\ buffered \in [Agents -> [Interfaces -> Ids]]

\* Of one agent: where its sessions come from, and that they only become newer.
InOrder(a) ==
  /\ agentPc[a] \in Looking \cup {"session"} => fresh[a] = None
  /\ agentPc[a] = "session_exists" => fresh[a] # None
  /\ fresh[a] # None => sessions[fresh[a]] = agentService[a]
  /\ \A i \in Interfaces :
       /\ agentPc[a] \in Looking \cup {"session", "session_exists"} =>
            session[a][i] = None /\ buffered[a][i] = None
       /\ agentPc[a] = "capture" => session[a][i] # None
       /\ session[a][i] # None => sessions[session[a][i]] = agentService[a]
       /\ session[a][i] # None /\ fresh[a] # None => session[a][i] <= fresh[a]
       /\ buffered[a][i] # None => session[a][i] # None /\ buffered[a][i] <= session[a][i]

SessionInv == SessionsTyped /\ \A a \in Agents : InOrder(a)

LEMMA SessionInit == Cmd!Init => SessionInv
<1> SUFFICES ASSUME Cmd!Init PROVE SessionInv
  OBVIOUS
<1>1. DOMAIN sessions = {} /\ Created = 0
  BY FS_EmptySet DEF Cmd!Init, Created
<1>2. SessionsTyped
  BY <1>1 DEF Cmd!Init, SessionsTyped, Ids
<1> QED BY <1>2 DEF Cmd!Init, SessionInv, InOrder, Looking

\* A session of the service is created: it is newer than the others, which stay.
LEMMA SessionCreated ==
  ASSUME SessionsTyped, None \notin Nat, NEW a \in Agents, Cmd!CreateLearnSession(a)
  PROVE  /\ Cmd!NextSession = Created + 1 /\ Created' = Created + 1
         /\ DOMAIN sessions' = 1 .. Created' /\ Ids \subseteq Ids'
         /\ Cmd!NextSession \in Ids' /\ Cmd!NextSession # None
         /\ sessions'[Cmd!NextSession] = agentService[a]
         /\ \A n \in Ids : n # None => sessions'[n] = sessions[n] /\ n <= Cmd!NextSession
<1>1. Cmd!NextSession = Created + 1 /\ Created \in Nat
  BY DEF Cmd!NextSession, Cmd!Cardinality, Cardinality, Created, SessionsTyped
<1>2. sessions' = [n \in 1 .. Cmd!NextSession |->
                     IF n = Cmd!NextSession THEN agentService[a] ELSE sessions[n]]
  BY DEF Cmd!CreateLearnSession
<1>3. DOMAIN sessions' = 1 .. (Created + 1)
  BY <1>1, <1>2
<1>4. Created' = Created + 1
  <2>1. Cardinality(1 .. (Created + 1)) = Created + 1
    BY <1>1, FS_Interval
  <2>2. Created' = Cardinality(DOMAIN sessions')
    BY DEF Created
  <2> QED BY <1>3, <2>1, <2>2
<1>5. Ids \subseteq Ids' /\ Cmd!NextSession \in Ids'
  BY <1>1, <1>4 DEF Ids
<1>6. \A n \in Ids : n # None => n \in 1 .. Created
  BY DEF Ids
<1>7. /\ Cmd!NextSession # None /\ sessions'[Cmd!NextSession] = agentService[a]
  BY <1>1, <1>2
<1>8. ASSUME NEW n \in Ids, n # None
      PROVE  sessions'[n] = sessions[n] /\ n <= Cmd!NextSession
  <2>1. n \in 1 .. Cmd!NextSession /\ n # Cmd!NextSession
    BY <1>1, <1>6, <1>8
  <2> QED BY <1>2, <2>1
<1> QED
  BY <1>1, <1>3, <1>4, <1>5, <1>7, <1>8

LEMMA SessionStep ==
  ASSUME None \notin Nat, SessionInv, [Cmd!Next]_(Cmd!vars)
  PROVE  SessionInv'
<1> USE DEF Cmd!vars, Cmd!agent, Cmd!rotation, Cmd!process, Cmd!backend
<1>1. ASSUME UNCHANGED <<agentPc, agentService, session, fresh, buffered, sessions>>
      PROVE  SessionInv'
  BY <1>1 DEF SessionInv, SessionsTyped, InOrder, Ids, Created
\* An agent goes on without touching its sessions; its service changes only while it has
\* none.
<1>2. ASSUME NEW a \in Agents, NEW l, NEW s,
             UNCHANGED <<session, fresh, buffered, sessions>>,
             agentPc' = [agentPc EXCEPT ![a] = l],
             agentService' = agentService \/ agentService' = [agentService EXCEPT ![a] = s],
             \/ l = "over" /\ agentService' = agentService
             \/ l \in Looking \cup {"session"} /\ agentPc[a] \in Looking
      PROVE  SessionInv'
  <2>1. SessionsTyped'
    BY <1>2 DEF SessionInv, SessionsTyped, Ids, Created
  <2>2. ASSUME NEW b \in Agents PROVE InOrder(b)'
    <3>1. CASE b = a
      BY <1>2, <3>1 DEF SessionInv, SessionsTyped, InOrder, Looking
    <3>2. CASE b # a
      BY <1>2, <3>2 DEF SessionInv, SessionsTyped, InOrder, Looking
    <3> QED BY <3>1, <3>2
  <2> QED BY <2>1, <2>2 DEF SessionInv
<1>3. ASSUME NEW a \in Agents,
             \/ Cmd!applyRandomizedStart_never(a) \/ Cmd!applyRandomizedStart(a)
             \/ Cmd!apidumpRunInternal(a) \/ Cmd!Fail(a) \/ Cmd!Run_interfaces(a)
             \/ Cmd!CreateService_conflict(a) \/ Cmd!Run_returns(a)
      PROVE  SessionInv'
  BY <1>2, <1>3 DEF Cmd!applyRandomizedStart_never, Cmd!applyRandomizedStart,
    Cmd!apidumpRunInternal, Cmd!Fail, Cmd!Run_interfaces, Cmd!CreateService_conflict,
    Cmd!Run_returns, Cmd!Goto, Cmd!Ends, Looking
<1>4. ASSUME NEW a \in Agents,
             \/ Cmd!LookupService(a) \/ Cmd!GetServiceIDByPostmanCollectionID(a)
                \/ Cmd!CreateService(a)
      PROVE  SessionInv'
  BY <1>2, <1>4 DEF Cmd!LookupService, Cmd!GetServiceIDByPostmanCollectionID,
    Cmd!CreateService, Cmd!Goto, Cmd!Found, Looking
<1>5. ASSUME NEW a \in Agents, Cmd!startHealthCheckServer_fails(a) \/ Cmd!runCommand(a)
      PROVE  SessionInv'
  BY <1>1, <1>2, <1>5 DEF Cmd!startHealthCheckServer_fails, Cmd!runCommand, Cmd!Goto
\* When a session is created, the other agents and the types are left as they were.
<1>6. ASSUME NEW a \in Agents, Cmd!CreateLearnSession(a)
       PROVE  /\ session \in [Agents -> [Interfaces -> Ids']]
              /\ fresh \in [Agents -> Ids']
              /\ buffered \in [Agents -> [Interfaces -> Ids']]
  <2>1. Ids \subseteq Ids'
    BY <1>6, SessionCreated DEF SessionInv
  <2> QED BY <2>1 DEF SessionInv, SessionsTyped
<1>7. ASSUME NEW a \in Agents, Cmd!CreateLearnSession(a),
             UNCHANGED <<agentService, buffered>>,
              session' \in [Agents -> [Interfaces -> Ids']], fresh' \in [Agents -> Ids'],
              agentPc' = [b \in Agents |-> agentPc'[b]]
       PROVE  SessionsTyped'
  BY <1>6, <1>7, SessionCreated DEF SessionInv, SessionsTyped
<1>8. ASSUME NEW a \in Agents, Cmd!CreateLearnSession(a),
             UNCHANGED <<agentService, buffered>>,
             NEW b \in Agents, b # a,
             agentPc'[b] = agentPc[b], session'[b] = session[b], fresh'[b] = fresh[b]
      PROVE  InOrder(b)'
  <2>1. \A n \in Ids : n # None => sessions'[n] = sessions[n]
    BY <1>8, SessionCreated DEF SessionInv
  <2>2. fresh[b] \in Ids /\ \A i \in Interfaces : session[b][i] \in Ids
    BY DEF SessionInv, SessionsTyped
  <2>3. InOrder(b)
    BY DEF SessionInv
  <2> HIDE DEF SessionInv
  <2>4. fresh'[b] # None => sessions'[fresh'[b]] = agentService'[b]
    BY <1>8, <2>1, <2>2, <2>3 DEF InOrder
  <2>5. ASSUME NEW i \in Interfaces, session'[b][i] # None
        PROVE  sessions'[session'[b][i]] = agentService'[b]
    BY <1>8, <2>1, <2>2, <2>3, <2>5 DEF InOrder
  <2> QED BY <1>8, <2>3, <2>4, <2>5 DEF InOrder
<1>9. ASSUME NEW a \in Agents, Cmd!Run_session(a)
      PROVE  SessionInv'
  <2>1. SessionsTyped'
    <3>1. session' \in [Agents -> [Interfaces -> Ids']]
      BY <1>6, <1>9, SessionCreated DEF Cmd!Run_session, SessionInv
    <3>2. agentPc' = [b \in Agents |-> agentPc'[b]]
      BY <1>9 DEF Cmd!Run_session, Cmd!Goto, SessionInv, SessionsTyped
    <3> QED BY <1>6, <1>7, <1>9, <3>1, <3>2 DEF Cmd!Run_session
  <2>2. InOrder(a)'
    BY <1>9, SessionCreated DEF Cmd!Run_session, Cmd!Goto, SessionInv, SessionsTyped,
      InOrder, Looking
  <2>3. ASSUME NEW b \in Agents, b # a PROVE InOrder(b)'
    BY <1>8, <1>9, <2>3 DEF Cmd!Run_session, Cmd!Goto, SessionInv, SessionsTyped
  <2> QED BY <2>1, <2>2, <2>3 DEF SessionInv
<1>10. ASSUME NEW a \in Agents, Cmd!Run_session_exists(a)
      PROVE  SessionInv'
  <2>1. SessionsTyped'
    <3>1. fresh' \in [Agents -> Ids']
      BY <1>6, <1>10, SessionCreated DEF Cmd!Run_session_exists, SessionInv
    <3>2. agentPc' = [b \in Agents |-> agentPc'[b]]
      BY <1>10 DEF Cmd!Run_session_exists, Cmd!Goto, SessionInv, SessionsTyped
    <3> QED BY <1>6, <1>7, <1>10, <3>1, <3>2 DEF Cmd!Run_session_exists
  <2>2. InOrder(a)'
    BY <1>10, SessionCreated DEF Cmd!Run_session_exists, Cmd!Goto, SessionInv,
      SessionsTyped, InOrder, Looking
  <2>3. ASSUME NEW b \in Agents, b # a PROVE InOrder(b)'
    BY <1>8, <1>10, <2>3 DEF Cmd!Run_session_exists, Cmd!Goto, SessionInv, SessionsTyped
  <2> QED BY <2>1, <2>2, <2>3 DEF SessionInv
<1>11. ASSUME NEW a \in Agents, Cmd!RotateLearnSession_tick(a)
      PROVE  SessionInv'
  <2>1. SessionsTyped'
    <3>1. fresh' \in [Agents -> Ids']
      BY <1>6, <1>11, SessionCreated DEF Cmd!RotateLearnSession_tick, SessionInv
    <3> QED BY <1>6, <1>7, <1>11, <3>1 DEF Cmd!RotateLearnSession_tick, SessionInv,
      SessionsTyped
  <2>2. InOrder(a)'
    <3>1. InOrder(a) /\ \A i \in Interfaces : session[a][i] \in Ids
      BY DEF SessionInv, SessionsTyped
    <3>2. fresh'[a] = Cmd!NextSession /\ sessions'[Cmd!NextSession] = agentService'[a]
      BY <1>11, SessionCreated DEF Cmd!RotateLearnSession_tick, SessionInv, SessionsTyped
    <3>3. \A n \in Ids : n # None => sessions'[n] = sessions[n] /\ n <= Cmd!NextSession
      BY <1>11, SessionCreated DEF Cmd!RotateLearnSession_tick, SessionInv
    <3> QED
      BY <1>11, <3>1, <3>2, <3>3 DEF Cmd!RotateLearnSession_tick, InOrder, Looking
  <2>3. ASSUME NEW b \in Agents, b # a PROVE InOrder(b)'
    BY <1>8, <1>11, <2>3 DEF Cmd!RotateLearnSession_tick, SessionInv, SessionsTyped
  <2> QED BY <2>1, <2>2, <2>3 DEF SessionInv
<1>12. ASSUME NEW a \in Agents, Cmd!GetLearnSessionIDByName(a)
       PROVE  SessionInv'
  <2>1. SessionsTyped'
    BY <1>12 DEF Cmd!GetLearnSessionIDByName, Cmd!Goto, SessionInv, SessionsTyped, Ids,
      Created
  <2>2. ASSUME NEW b \in Agents PROVE InOrder(b)'
    BY <1>12 DEF Cmd!GetLearnSessionIDByName, Cmd!Goto, SessionInv, SessionsTyped,
      InOrder, Looking
  <2> QED BY <2>1, <2>2 DEF SessionInv
<1>13. ASSUME NEW a \in Agents, NEW i \in Interfaces, Cmd!SwitchLearnSession(a, i)
       PROVE  SessionInv'
  <2>1. SessionsTyped'
    BY <1>13 DEF Cmd!SwitchLearnSession, SessionInv, SessionsTyped, Ids, Created
  <2>2. ASSUME NEW b \in Agents PROVE InOrder(b)'
    BY <1>13 DEF Cmd!SwitchLearnSession, SessionInv, SessionsTyped, InOrder, Looking, Ids
  <2> QED BY <2>1, <2>2 DEF SessionInv
<1>14. ASSUME NEW a \in Agents, NEW i \in Interfaces, NEW v \in Ids,
              UNCHANGED <<agentPc, agentService, session, fresh, sessions>>,
              buffered' = [buffered EXCEPT ![a][i] = v],
              v # None => v = session[a][i] /\ agentPc[a] = "capture"
       PROVE  SessionInv'
  <2>1. buffered' \in [Agents -> [Interfaces -> Ids]] /\ Ids' = Ids
    BY <1>14 DEF SessionInv, SessionsTyped, Ids, Created
  <2>2. SessionsTyped'
    BY <1>14, <2>1 DEF SessionInv, SessionsTyped, Created
  <2>3. v # None => v <= v
    BY DEF SessionInv, SessionsTyped, Ids
  <2>4. ASSUME NEW b \in Agents, NEW j \in Interfaces, buffered'[b][j] # None
        PROVE  /\ session[b][j] # None /\ buffered'[b][j] <= session[b][j]
               /\ agentPc[b] \notin Looking \cup {"session", "session_exists"}
    <3>1. CASE b = a /\ j = i
      <4>1. buffered'[b][j] = v
        BY <1>14, <3>1 DEF SessionInv, SessionsTyped
      <4> QED BY <1>14, <2>3, <2>4, <3>1, <4>1 DEF Looking
    <3>2. CASE ~(b = a /\ j = i)
      <4>1. buffered'[b][j] = buffered[b][j]
        BY <1>14, <3>2 DEF SessionInv, SessionsTyped
      <4> QED BY <2>4, <4>1 DEF SessionInv, InOrder
    <3> QED BY <3>1, <3>2
  <2>5. ASSUME NEW b \in Agents PROVE InOrder(b)'
    BY <1>14, <2>4 DEF SessionInv, InOrder
  <2> QED BY <2>2, <2>5 DEF SessionInv
<1>15. ASSUME NEW a \in Agents, NEW i \in Interfaces, Cmd!Capture(a, i) \/ Cmd!Flush(a, i)
       PROVE  SessionInv'
  <2>1. session[a][i] \in Ids /\ None \in Ids
    BY DEF SessionInv, SessionsTyped, Ids
  <2> QED BY <1>14, <1>15, <2>1 DEF Cmd!Capture, Cmd!Flush
<1> QED
  BY <1>1, <1>3, <1>4, <1>5, <1>9, <1>10, <1>11, <1>12, <1>13, <1>15 DEF Cmd!Next

\* SessionOfProject: reports are sent to a session of the agent's own project, not older
\* than the one they were captured in, whenever it is rotated
\* (backend_collector.go: SwitchLearnSession; report_buffer.go: Flush).
THEOREM SessionTheorem == Cmd!Spec => []SessionOfProject
<1>1. Cmd!Init => SessionInv
  BY SessionInit
<1>2. SessionInv /\ [Cmd!Next]_(Cmd!vars) => SessionInv'
  BY SessionStep, NoneAssumption
<1>3. SessionInv => SessionOfProject
  BY DEF SessionInv, InOrder, SessionOfProject, Cmd!SessionOfProject
<1> QED BY <1>1, <1>2, <1>3, PTL DEF Cmd!Spec

-----------------------------------------------------------------------------
\* What an agent asks the back end for, and the service that answers.
Targets == {"project", "collection", "workspace"}

\* The service that is found without creating it.
ByName(r) ==
  IF r.discovery THEN <<"discovered", r.cluster, r.namespace, r.workload>>
  ELSE IF r.workspace # None THEN <<"application", r.workspace, r.systemEnv>>
  ELSE <<"project", r.project>>

\* Accepted arguments name one target, or the agent is in discovery mode.
ArgsRight(a) ==
  /\ agentArgs[a].discovery \in BOOLEAN
  /\ ~agentArgs[a].discovery =>
       \E t \in Targets : agentArgs[a][t] # None
       /\ \A u \in Targets \ {t} : agentArgs[a][u] = None

\* The service of an agent is the one that it asked for.
ServiceAnswers(a) ==
  \/ agentService[a] = None
  \/ /\ agentArgs[a].discovery \/ agentArgs[a].collection = None
     /\ agentService[a] = ByName(agentArgs[a])
  \/ /\ ~agentArgs[a].discovery /\ agentArgs[a].collection # None
     /\ agentService[a] \in ServiceIDs
        /\ projects[agentService[a]] = agentArgs[a].collection

\* And no collection has two projects.
ProjectInv ==
  /\ agentArgs = [a \in Agents |-> agentArgs[a]]
     /\ agentService = [a \in Agents |-> agentService[a]]
  /\ agentPc = [a \in Agents |-> agentPc[a]]
     /\ projects = [s \in ServiceIDs |-> projects[s]]
  /\ \A a \in Agents : /\ agentPc[a] \in {"start", "parse"} => agentService[a] = None
                       /\ agentPc[a] \notin {"start", "parse", "over"} => ArgsRight(a)
                       /\ agentService[a] # None => ArgsRight(a)
                       /\ agentPc[a] = "create" => ~agentArgs[a].discovery
                          /\ agentArgs[a].collection # None
                       /\ ServiceAnswers(a)
  /\ \A s, t \in ServiceIDs : projects[s] = projects[t] /\ projects[s] # None => s = t

\* Of a record with one target.
LEMMA OneOf ==
  ASSUME NEW r, Cmd!OneTarget(r)
  PROVE  \E t \in Targets : r[t] # None /\ \A u \in Targets \ {t} : r[u] = None
<1> DEFINE S == {f \in Targets : r[f] # None}
<1>1. S \subseteq Targets /\ IsFiniteSet(Targets)
  <2>1. Targets = {"project"} \cup {"collection"} \cup {"workspace"}
    BY DEF Targets
  <2> QED BY <2>1, FS_Singleton, FS_Union
<1>2. IsFiniteSet(S)
  BY <1>1, FS_Subset
<1>3. Cardinality(S) = 1
  BY DEF Cmd!Cardinality, Cardinality, Cmd!OneTarget, Cmd!Set, Targets
<1>4. PICK t : S = {t}
  BY <1>2, <1>3, FS_Singleton
<1> QED BY <1>4

\* Nobody has a service yet.
LEMMA ProjectInit == Cmd!Init => ProjectInv
<1> SUFFICES ASSUME Cmd!Init PROVE ProjectInv
  OBVIOUS
<1>1. \A a \in Agents : agentService[a] = None /\ agentPc[a] = "start"
  BY DEF Cmd!Init
<1>2. \A s \in ServiceIDs : projects[s] = None
  BY DEF Cmd!Init
<1> QED BY <1>1, <1>2 DEF Cmd!Init, ProjectInv, ServiceAnswers

\* Arguments that are accepted name one target.
LEMMA ProjectParsed ==
  ASSUME ProjectInv, NEW a \in Agents, Cmd!apidumpRunInternal(a)
  PROVE  ProjectInv'
<1>1. UNCHANGED <<agentService, projects>> /\ agentPc[a] = "parse"
  BY DEF Cmd!apidumpRunInternal, Cmd!backend
<1>2. ASSUME NEW b \in Agents, b # a
      PROVE  agentPc'[b] = agentPc[b] /\ agentArgs'[b] = agentArgs[b]
  BY <1>2 DEF Cmd!apidumpRunInternal, Cmd!Goto, Cmd!Ends, ProjectInv
<1>3. agentService[a] = None
  BY <1>1 DEF ProjectInv
<1>4. agentPc'[a] \in {"lookup", "over"}
  BY DEF Cmd!apidumpRunInternal, Cmd!Goto, Cmd!Ends, ProjectInv
<1>5. ASSUME agentPc'[a] = "lookup" PROVE ArgsRight(a)'
  <2>1. agentArgs'[a] = Cmd!Resolve(cl[a], env[a]) /\ Cmd!Acceptable(agentArgs'[a])
    BY <1>5 DEF Cmd!apidumpRunInternal, Cmd!Goto, Cmd!Ends, ProjectInv
  <2>2. agentArgs'[a].discovery \in BOOLEAN
    BY <2>1 DEF Cmd!Resolve
  <2> QED BY <2>1, <2>2, OneOf DEF ArgsRight, Cmd!Acceptable
<1>6. /\ agentArgs' = [b \in Agents |-> agentArgs'[b]]
         /\ agentPc' = [b \in Agents |-> agentPc'[b]]
  BY DEF Cmd!apidumpRunInternal, Cmd!Goto, Cmd!Ends, ProjectInv
<1> QED BY <1>1, <1>2, <1>3, <1>4, <1>5, <1>6 DEF ProjectInv, ServiceAnswers, ArgsRight

\* An agent's service is looked up or created.
LEMMA ProjectFound ==
  ASSUME ProjectInv, NEW a \in Agents,
         Cmd!LookupService(a) \/ Cmd!GetServiceIDByPostmanCollectionID(a)
         \/ Cmd!CreateService(a)
  PROVE  ProjectInv'
<1>1. UNCHANGED agentArgs /\ agentPc[a] \in {"lookup", "create", "lookup_again"}
      /\ ArgsRight(a)
  BY DEF Cmd!LookupService, Cmd!GetServiceIDByPostmanCollectionID, Cmd!CreateService,
    ProjectInv
<1>2. /\ agentPc' = [b \in Agents |-> agentPc'[b]]
         /\ agentService' = [b \in Agents |-> agentService'[b]]
      /\ agentPc'[a] \notin {"start", "parse", "over"}
      /\ \A b \in Agents : b # a => agentPc'[b] = agentPc[b]
         /\ agentService'[b] = agentService[b]
  BY DEF Cmd!LookupService, Cmd!GetServiceIDByPostmanCollectionID, Cmd!CreateService,
    ProjectInv, Cmd!Found, Cmd!Goto
<1>3. CASE Cmd!LookupService(a)
  <2>1. agentPc'[a] = "interfaces"
    BY <1>3 DEF Cmd!LookupService, Cmd!Found, Cmd!Goto, ProjectInv
  <2>2. agentService'[a] = ByName(agentArgs[a]) /\ UNCHANGED projects
        /\ (agentArgs[a].discovery \/ agentArgs[a].collection = None)
    <3>1. CASE agentArgs[a].discovery
      BY <1>3, <3>1 DEF Cmd!LookupService, Cmd!Found, ByName, ProjectInv, Cmd!backend
    <3>2. CASE ~agentArgs[a].discovery
      BY <1>1, <1>3, <3>2 DEF Cmd!LookupService, Cmd!Found, ByName, ProjectInv,
        Cmd!backend, Cmd!Set, ArgsRight, Targets
    <3> QED BY <3>1, <3>2
  <2> QED BY <1>1, <1>2, <2>1, <2>2 DEF ProjectInv, ServiceAnswers, ArgsRight
<1>4. CASE Cmd!GetServiceIDByPostmanCollectionID(a)
  <2>1. /\ ~agentArgs[a].discovery /\ agentArgs[a].collection # None /\ UNCHANGED projects
        /\ \/ agentService'[a] = agentService[a]
           \/ agentService'[a] \in ServiceIDs
              /\ projects[agentService'[a]] = agentArgs[a].collection
    BY <1>4 DEF Cmd!GetServiceIDByPostmanCollectionID, Cmd!Found, Cmd!Goto, ProjectInv,
      Cmd!backend, Cmd!Set, Cmd!ProjectsOf
  <2>2. ServiceAnswers(a)'
    BY <1>1, <2>1 DEF ProjectInv, ServiceAnswers
  <2>3. ASSUME NEW b \in Agents, b # a PROVE ServiceAnswers(b)'
    BY <1>1, <1>2, <2>1, <2>3 DEF ProjectInv, ServiceAnswers
  <2> QED BY <1>1, <1>2, <2>1, <2>2, <2>3 DEF ProjectInv, ArgsRight
<1>5. CASE Cmd!CreateService(a)
  <2>1. PICK s \in ServiceIDs :
          /\ projects[s] = None
             /\ projects' = [projects EXCEPT ![s] = agentArgs[a].collection]
          /\ agentService'[a] = s
    BY <1>5 DEF Cmd!CreateService, Cmd!Found, ProjectInv
  <2>2. \A t \in ServiceIDs : projects[t] # agentArgs[a].collection
    BY <1>5 DEF Cmd!CreateService, Cmd!ProjectsOf, ProjectInv
  <2>3. ~agentArgs[a].discovery /\ agentArgs[a].collection # None
        /\ agentPc'[a] = "interfaces"
    BY <1>5 DEF Cmd!CreateService, ProjectInv, Cmd!Found, Cmd!Goto
  <2>4. ASSUME NEW t \in ServiceIDs, projects[t] # None PROVE projects'[t] = projects[t]
               /\ t # s
    BY <2>1, <2>4 DEF ProjectInv
  <2>5. ASSUME NEW b \in Agents, b # a PROVE ServiceAnswers(b)'
    BY <1>1, <1>2, <2>4, <2>5 DEF ProjectInv, ServiceAnswers, ArgsRight
  <2>6. ServiceAnswers(a)'
    BY <1>1, <2>1, <2>3 DEF ProjectInv, ServiceAnswers
  <2>7. ASSUME NEW t \in ServiceIDs, NEW u \in ServiceIDs, projects'[t] = projects'[u],
               projects'[t] # None
        PROVE  t = u
    BY <2>1, <2>2, <2>7 DEF ProjectInv
  <2>8. projects' = [t \in ServiceIDs |-> projects'[t]]
    BY <2>1 DEF ProjectInv
  <2> QED BY <1>1, <1>2, <2>3, <2>5, <2>6, <2>7, <2>8 DEF ProjectInv, ArgsRight
<1> QED BY <1>3, <1>4, <1>5

\* Every step keeps the invariant.
LEMMA ProjectStep == ProjectInv /\ [Cmd!Next]_(Cmd!vars) => ProjectInv'
<1> SUFFICES ASSUME ProjectInv, [Cmd!Next]_(Cmd!vars) PROVE ProjectInv'
  OBVIOUS
<1>1. CASE UNCHANGED <<agentPc, agentArgs, agentService, projects>>
  BY <1>1 DEF ProjectInv, ServiceAnswers, ArgsRight
<1>2. CASE UNCHANGED Cmd!vars
  BY <1>1, <1>2 DEF Cmd!vars, Cmd!agent, Cmd!backend
<1>3. ASSUME NEW a \in Agents,
             Cmd!applyRandomizedStart_never(a) \/ Cmd!applyRandomizedStart(a)
      PROVE  ProjectInv'
  BY <1>3 DEF Cmd!applyRandomizedStart_never, Cmd!applyRandomizedStart, Cmd!Goto,
    ProjectInv, ServiceAnswers, ArgsRight, Cmd!backend
<1>4. ASSUME NEW a \in Agents,
             Cmd!Fail(a) \/ Cmd!CreateService_conflict(a) \/ Cmd!Run_interfaces(a)
      PROVE  ProjectInv'
  <2>1. UNCHANGED <<agentArgs, agentService, projects>>
        /\ (agentPc' = [agentPc EXCEPT ![a] = "over"]
            \/ agentPc' = [agentPc EXCEPT ![a] = "lookup_again"]
            \/ agentPc' = [agentPc EXCEPT ![a] = "session"])
        /\ agentPc[a] \notin {"start", "parse", "over"}
    BY <1>4 DEF Cmd!Fail, Cmd!Ends, Cmd!CreateService_conflict, Cmd!Run_interfaces,
      Cmd!Goto, Cmd!backend
  <2> QED BY <2>1 DEF ProjectInv, ServiceAnswers, ArgsRight
<1>5. ASSUME NEW a \in Agents,
             Cmd!Run_session(a) \/ Cmd!Run_session_exists(a)
             \/ Cmd!GetLearnSessionIDByName(a)
             \/ Cmd!startHealthCheckServer_fails(a) \/ Cmd!runCommand(a)
             \/ Cmd!Run_returns(a)
      PROVE  ProjectInv'
  <2>1. UNCHANGED <<agentArgs, agentService, projects>>
        /\ (agentPc' = [agentPc EXCEPT ![a] = "over"]
           \/ agentPc' = [agentPc EXCEPT ![a] = "capture"]
            \/ agentPc' = [agentPc EXCEPT ![a] = "session_exists"] \/ UNCHANGED agentPc)
        /\ agentPc[a] \notin {"start", "parse", "over"}
    BY <1>5 DEF Cmd!Run_session, Cmd!Run_session_exists, Cmd!GetLearnSessionIDByName,
      Cmd!startHealthCheckServer_fails, Cmd!runCommand, Cmd!Run_returns, Cmd!Ends,
      Cmd!Goto, Cmd!backend
  <2> QED BY <2>1 DEF ProjectInv, ServiceAnswers, ArgsRight
<1>6. ASSUME NEW a \in Agents, NEW i \in Interfaces,
             Cmd!RotateLearnSession_tick(a) \/ Cmd!SwitchLearnSession(a, i)
             \/ Cmd!Capture(a, i) \/ Cmd!Flush(a, i)
      PROVE  UNCHANGED <<agentPc, agentArgs, agentService, projects>>
  BY <1>6 DEF Cmd!RotateLearnSession_tick, Cmd!SwitchLearnSession, Cmd!Capture,
    Cmd!Flush, Cmd!agent, Cmd!backend
<1>7. ASSUME NEW a \in Agents, Cmd!RotateLearnSession_tick(a)
      PROVE  UNCHANGED <<agentPc, agentArgs, agentService, projects>>
  BY <1>7 DEF Cmd!RotateLearnSession_tick, Cmd!agent, Cmd!backend
<1> QED BY <1>1, <1>2, <1>3, <1>4, <1>5, <1>6, <1>7, ProjectParsed, ProjectFound
  DEF Cmd!Next

\* Two agents with the same service have been given the same, and conversely.
LEMMA SameService ==
  ASSUME ProjectInv, NEW a \in Agents, NEW b \in Agents, agentService[a] # None,
         agentService[b] # None,
         \A r \in {agentArgs[a], agentArgs[b]} : ByName(r) \notin ServiceIDs
  PROVE  (agentService[a] = agentService[b]) <=>
           IF agentArgs[a].discovery \/ agentArgs[b].discovery
           THEN \A f \in {"discovery", "cluster", "namespace", "workload"} :
                   agentArgs[a][f] = agentArgs[b][f]
           ELSE \A f \in Targets :
                  /\ agentArgs[a][f] = agentArgs[b][f]
                  /\ f = "workspace" /\ Cmd!Set(agentArgs[a][f])
                     => agentArgs[a].systemEnv = agentArgs[b].systemEnv
<1> DEFINE r == agentArgs[a]
           q == agentArgs[b]
<1>1. ArgsRight(a) /\ ArgsRight(b) /\ ServiceAnswers(a) /\ ServiceAnswers(b)
  BY DEF ProjectInv
<1>2. CASE r.discovery /\ q.discovery
  <2>1. agentService[a] = <<"discovered", r.cluster, r.namespace, r.workload>>
        /\ agentService[b] = <<"discovered", q.cluster, q.namespace, q.workload>>
    BY <1>1, <1>2 DEF ServiceAnswers, ByName
  <2>2. r.discovery = q.discovery
    BY <1>1, <1>2 DEF ArgsRight
  <2>3. agentService[a] = agentService[b] <=>
          r.cluster = q.cluster /\ r.namespace = q.namespace /\ r.workload = q.workload
    BY <2>1
  <2> QED BY <1>2, <2>2, <2>3
<1>3. CASE r.discovery /\ ~q.discovery
  <2>1. agentService[a] # agentService[b]
    BY <1>1, <1>3 DEF ServiceAnswers, ByName
  <2> QED BY <1>3, <2>1
<1>4. CASE ~r.discovery /\ q.discovery
  <2>1. agentService[a] # agentService[b]
    BY <1>1, <1>4 DEF ServiceAnswers, ByName
  <2> QED BY <1>4, <2>1
<1>5. CASE ~r.discovery /\ ~q.discovery
  <2> SUFFICES (agentService[a] = agentService[b]) <=>
                 /\ r.project = q.project /\ r.collection = q.collection
                 /\ r.workspace = q.workspace
                 /\ r.workspace # None => r.systemEnv = q.systemEnv
    BY <1>5 DEF Cmd!Set, Targets
  <2>1. ASSUME NEW x \in Agents, x \in {a, b}
        PROVE  \/ /\ agentArgs[x].collection # None /\ agentArgs[x].workspace = None
                  /\ agentArgs[x].project = None
                  /\ agentService[x] \in ServiceIDs
                     /\ projects[agentService[x]] = agentArgs[x].collection
               \/ /\ agentArgs[x].collection = None /\ agentArgs[x].workspace # None
                  /\ agentArgs[x].project = None
                  /\ agentService[x] = <<"application", agentArgs[x].workspace,
                     agentArgs[x].systemEnv>>
                  /\ agentService[x] \notin ServiceIDs
               \/ /\ agentArgs[x].collection = None /\ agentArgs[x].workspace = None
                  /\ agentArgs[x].project # None
                  /\ agentService[x] = <<"project", agentArgs[x].project>>
                  /\ agentService[x] \notin ServiceIDs
    BY <1>1, <1>5, <2>1 DEF ArgsRight, ServiceAnswers, ByName, Targets
  <2>2. \A s, t \in ServiceIDs : projects[s] = projects[t] /\ projects[s] # None => s = t
    BY DEF ProjectInv
  <2>3. \A v, w, x : <<"application", v, w>> # <<"project", x>>
    OBVIOUS
  <2> QED BY <2>1, <2>2, <2>3
<1> QED BY <1>1, <1>2, <1>3, <1>4, <1>5 DEF ArgsRight

\* SameProject: agents that are given the same target send to one project, and only they,
\* even when they start together and it has to be created.  Service IDs are opaque: none
\* looks like what another call of the back end answers (util.go:
\* GetOrCreateServiceIDByPostmanCollectionID).
THEOREM SameProjectTheorem ==
  ASSUME \A x, y, z : /\ <<"discovered", x, y, z>> \notin ServiceIDs
                      /\ <<"application", x, y>> \notin ServiceIDs
                      /\ <<"project", x>> \notin ServiceIDs
  PROVE  Cmd!Spec => []SameProject
<1>1. ProjectInv => SameProject
  BY SameService DEF SameProject, Cmd!SameProject, ByName, Targets
<1> QED BY <1>1, ProjectInit, ProjectStep, PTL DEF Cmd!Spec

(***************************************************************************)
(* The values of what each of the three keeps.                             *)
(***************************************************************************)
WizardTypes ==
  /\ profile \in ProfileNames /\ config \in Profiles \cup {None}
  /\ region \in Regions \cup {"all", None}
  /\ cluster \in Clusters \cup {None} /\ family \in Families \cup {None}
  /\ service \in Services \cup {None}
  /\ ticks \in 0 .. MaxTicks

\* The definition that is remembered is a revision, wherever the wizard has gone since.
Exists(d) ==
  /\ d.place \in Profiles \X Regions /\ d.family \in Families
  /\ d.rev \in 1 .. Len(tasks[d.place][d.family])
DefExists == def # None => Exists(def)

LEMMA WizardTypesInit == Init => WizardTypes /\ DefExists
BY PlacesAssumption DEF Init, WizardTypes, DefExists

LEMMA WizardTypesStep ==
  ASSUME WizardInv, WizardTypes, [Next]_vars
  PROVE  WizardTypes'
<1> USE DEF WizardTypes, vars, selection, login, aws, waiting
<1>1. CASE Interrupt \/ initState \/ Fails \/ Back \/ UNCHANGED vars
  BY <1>1 DEF Interrupt, initState, Fails, Back, GoBack
<1>2. ASSUME NEW p \in ProfileNames, getProfileState(p) \/ getProfileState_none(p)
      PROVE  WizardTypes'
  BY <1>2, PlacesAssumption DEF getProfileState, getProfileState_none, Load
<1>3. CASE getRegionState_all \/ \E r \in Regions : getRegionState(r)
  BY <1>3 DEF getRegionState_all, getRegionState
<1>4. ASSUME NEW c \in Clusters, findClusterAndRegionState(c) \/ getClusterState(c)
      PROVE  WizardTypes'
  BY <1>4, PlacesAssumption DEF findClusterAndRegionState, getClusterState
<1>5. CASE findClusterAndRegionState_none \/ loadClusterFromFlag \/ loadClusterFromFlag_lost
  BY <1>5 DEF findClusterAndRegionState_none, loadClusterFromFlag, ClustersHere,
    loadClusterFromFlag_lost, LoseError
<1>6. ASSUME NEW f \in Families, getTaskState(f) \/ getTaskState_again(f)
      PROVE  WizardTypes'
  BY <1>6 DEF getTaskState, getTaskState_again
<1>7. CASE loadTaskFromFlag
  BY <1>7, FlagsAssumption DEF loadTaskFromFlag, WizardInv, Typed
<1>8. ASSUME NEW s \in Services, getServiceState(s)
      PROVE  WizardTypes'
  BY <1>8 DEF getServiceState
<1>9. CASE loadServiceFromFlag \/ loadServiceFromFlag_lost
  BY <1>9 DEF loadServiceFromFlag, ServicesHere, loadServiceFromFlag_lost, LoseError
<1>10. CASE fillFromFlags \/ fillFromFlags_missing \/ fillFromFlags_secrets
            \/ \E proceed \in BOOLEAN : confirmState(proceed)
  BY <1>10, PlacesAssumption DEF fillFromFlags, Load, fillFromFlags_missing,
    fillFromFlags_secrets, confirmState
<1>11. CASE modifyTaskState \/ updateServiceState \/ waitForRestartState \/ Deploy
            \/ waitForRestartState_end
  BY <1>11 DEF modifyTaskState, updateServiceState, waitForRestartState, Deploy,
    waitForRestartState_end
<1>12. CASE waitForRestartState_tick
  BY <1>12, PlacesAssumption DEF waitForRestartState_tick
<1> QED
  BY <1>1, <1>2, <1>3, <1>4, <1>5, <1>6, <1>7, <1>8, <1>9, <1>10, <1>11, <1>12 DEF Next

LEMMA DefExistsStep ==
  ASSUME WizardInv, DefExists, [Next]_vars
  PROVE  DefExists'
<1>1. CASE UNCHANGED <<def, tasks>>
  BY <1>1 DEF DefExists, Exists
<1>2. ASSUME NEW f \in Families, state \in Located, Revisions(f) # <<>>,
             def' = Latest(f), tasks' = tasks
      PROVE  DefExists'
  BY <1>2, LatestRight DEF WizardInv, DefExists, Exists
<1>3. ASSUME NEW f \in Families, getTaskState(f)
      PROVE  DefExists'
  BY <1>2, <1>3 DEF getTaskState, Asks, Located, aws
<1>4. CASE loadTaskFromFlag
  <2>1. flags.task \in Families
    BY <1>4, FlagsAssumption DEF loadTaskFromFlag, WizardInv, Typed
  <2> QED BY <1>2, <1>4, <2>1 DEF loadTaskFromFlag, Located, aws
<1>5. CASE modifyTaskState
  <2> DEFINE n == Len(tasks[Place][family])
  <2>1. /\ def'.place = Place /\ def'.family = family /\ def'.rev = n + 1
        /\ Place \in Profiles \X Regions /\ family \in Families
        /\ Len(tasks'[Place][family]) = n + 1 /\ n \in Nat
    BY <1>5, Registered
  <2>2. n + 1 \in 1 .. n + 1
    <3> HIDE DEF n
    <3> QED BY <2>1
  <2>3. def'.rev \in 1 .. Len(tasks'[def'.place][def'.family])
    BY <2>1, <2>2
  <2> QED BY <2>1, <2>3 DEF DefExists, Exists
<1>6. ASSUME ~modifyTaskState, ~loadTaskFromFlag, \A f \in Families : ~getTaskState(f)
      PROVE  UNCHANGED <<def, tasks>>
  BY <1>6 DEF Next, vars, selection, login, aws, waiting, Interrupt, initState, Fails,
    Back, GoBack, getProfileState, getProfileState_none, getRegionState,
    getRegionState_all, findClusterAndRegionState, getClusterState,
    findClusterAndRegionState_none, loadClusterFromFlag, loadClusterFromFlag_lost,
    LoseError, getTaskState_again, getServiceState,
    loadServiceFromFlag, loadServiceFromFlag_lost, confirmState, fillFromFlags,
    fillFromFlags_missing, fillFromFlags_secrets, updateServiceState,
    waitForRestartState, waitForRestartState_tick, waitForRestartState_end, Deploy
<1> QED
  BY <1>1, <1>3, <1>4, <1>5, <1>6

LEMMA WizardTyped == Spec => []TypeOK
<1>1. WizardInv /\ WizardTypes /\ DefExists => TypeOK
  BY FlagsAssumption DEF WizardInv, Typed, WizardTypes, DefExists, Exists, TypeOK
<1>2. WizardInv /\ WizardTypes /\ DefExists /\ [Next]_vars => (WizardTypes /\ DefExists)'
  BY WizardTypesStep, DefExistsStep
<1> QED BY <1>1, <1>2, WizardTypesInit, WizardInvariant, PTL DEF Spec

-----------------------------------------------------------------------------
\* PodInspection.
Inspected ==
  /\ main = [h \in Handlers |-> main[h]]
  /\ \A h \in Handlers :
       main[h] # None => main[h].container \in DOMAIN pod.containers \cup {None}

InspectionTypes ==
  /\ pod \in Pods /\ mapped \in BOOLEAN /\ blind \in BOOLEAN
  /\ settings # None \/ mapped \/ (\E h \in Handlers : pc[h] # "idle") => settings.rate \in Nat
  /\ pc = [h \in Handlers |-> pc[h]] /\ Inspected
  /\ "rate" \in DOMAIN args /\ args.rate \in Nat
  /\ process \in {None, "namespace", "lookup", "capturing", "ended"}

\* The first of some containers is one of them.
LEMMA FirstContainer ==
  ASSUME NEW S \in SUBSET Nat, S # {}
  PROVE  (CHOOSE i \in S : \A j \in S : i <= j) \in S
<1> DEFINE T == {0 .. i : i \in S}
<1>1. T \subseteq FiniteSubsetsOf(Nat) /\ T # {}
  <2>1. ASSUME NEW i \in S PROVE 0 .. i \in SUBSET Nat /\ IsFiniteSet(0 .. i)
    <3>1. i \in Nat
      OBVIOUS
    <3> QED BY <3>1, FS_Interval
  <2> QED BY <2>1 DEF FiniteSubsetsOf
<1>2. PICK X \in T : \A Y \in T : ~ <<Y, X>> \in StrictSubsetOrdering(Nat)
  <2> HIDE DEF T
  <2> QED BY <1>1, FS_StrictSubsetOrderingWellFounded, WFMin
<1>3. PICK i \in S : X = 0 .. i
  BY <1>2
<1>4. ASSUME NEW j \in S PROVE i <= j
  <2>1. CASE j < i
    <3>1. 0 .. j \subseteq 0 .. i /\ 0 .. j # 0 .. i
      <4>1. i \in 0 .. i /\ i \notin 0 .. j
        BY <2>1
      <4> QED BY <2>1, <4>1
    <3>2. <<0 .. j, X>> \in StrictSubsetOrdering(Nat)
      BY <1>3, <3>1 DEF StrictSubsetOrdering
    <3> QED BY <1>2, <3>2
  <2> QED BY <2>1
<1> QED BY <1>3, <1>4

LEMMA NewArgs ==
  "rate" \in DOMAIN Insp!NewPodArgs /\ Insp!NewPodArgs.rate \in Nat
BY DEF Insp!NewPodArgs

LEMMA InspectionTypesInit == Insp!Init => InspectionTypes
BY NewArgs DEF Insp!Init, InspectionTypes, Inspected

LEMMA InspectionTypesStep ==
  ASSUME InspectionTypes, [Insp!Next]_(Insp!vars)
  PROVE  InspectionTypes'
<1> USE DEF InspectionTypes, Inspected, Insp!vars, Insp!handlers, Insp!capture
<1>1. CASE UNCHANGED Insp!vars
  BY <1>1
<1>2. CASE Insp!StartDaemonset
  BY <1>2, RatesAssumption DEF Insp!StartDaemonset, Insp!applyEnvVarDefaults
<1>3. CASE Insp!handlePodAddEvent \/ Insp!handlePodAddEvent_skip
  BY <1>3, NewArgs DEF Insp!handlePodAddEvent, Insp!handlePodAddEvent_skip
<1>4. ASSUME NEW h \in Handlers, Insp!handlePodModifyEvent(h)
      PROVE  InspectionTypes'
  BY <1>4 DEF Insp!handlePodModifyEvent, Insp!Goto
<1>5. ASSUME NEW h \in Handlers, Insp!inspectPodForEnvVars_read(h)
      PROVE  InspectionTypes'
  <2>1. DOMAIN pod.containers = 1 .. Len(pod.containers)
        /\ Len(pod.containers) \in Nat
    BY PodsAssumption DEF Insp!WellFormed
  <2>2. ASSUME NEW started \in SUBSET DOMAIN pod.containers, started # {}
        PROVE  (CHOOSE i \in started : \A j \in started : i <= j) \in DOMAIN pod.containers
    <3>1. started \in SUBSET Nat
      BY <2>1
    <3> QED BY <2>2, <3>1, FirstContainer
  <2>3. UNCHANGED <<settings, pod, monState, args, process, run, podService>>
    BY <1>5 DEF Insp!inspectPodForEnvVars_read
  <2>4. mapped' \in BOOLEAN /\ blind' \in BOOLEAN
    BY <1>5 DEF Insp!inspectPodForEnvVars_read, Insp!Fail
  <2>5. pc' = [g \in Handlers |-> pc'[g]]
    BY <1>5 DEF Insp!inspectPodForEnvVars_read, Insp!Fail, Insp!Goto
  <2>6. \/ main' = main
        \/ \E i \in DOMAIN pod.containers \cup {None} : \E e :
             main' = [main EXCEPT ![h] = [container |-> i, env |-> e]]
    BY <1>5, <2>2 DEF Insp!inspectPodForEnvVars_read, Insp!selectMainContainer
  <2>7. Inspected'
    <3>1. CASE main' = main
      BY <2>3, <3>1
    <3>2. ASSUME NEW i \in DOMAIN pod.containers \cup {None}, NEW e,
                 NEW m, m = [container |-> i, env |-> e], main' = [main EXCEPT ![h] = m]
          PROVE  Inspected'
      <4>1. m.container = i
        BY <3>2
      <4> QED BY <2>3, <3>2, <4>1
    <3> QED BY <2>6, <3>1, <3>2
  <2>8. pc[h] = "read"
    BY <1>5 DEF Insp!inspectPodForEnvVars_read
  <2> QED BY <2>3, <2>4, <2>5, <2>7, <2>8
<1>6. ASSUME NEW h \in Handlers, Insp!inspectPodForEnvVars_container(h)
      PROVE  InspectionTypes'
  BY <1>6 DEF Insp!inspectPodForEnvVars_container, Insp!Fail, Insp!Goto
<1>7. ASSUME NEW h \in Handlers, Insp!identity_explicit(h)
      PROVE  InspectionTypes'
  BY <1>7 DEF Insp!identity_explicit, Insp!Fail, Insp!Goto
<1>8. ASSUME NEW h \in Handlers, Insp!identity_discovered(h)
      PROVE  InspectionTypes'
  BY <1>8 DEF Insp!identity_discovered, Insp!Goto
<1>9. ASSUME NEW h \in Handlers, Insp!inspectPodForEnvVars_creds(h)
      PROVE  InspectionTypes'
  BY <1>9 DEF Insp!inspectPodForEnvVars_creds, Insp!Goto
<1>10. ASSUME NEW h \in Handlers, Insp!inspectPodForEnvVars_options(h)
       PROVE  InspectionTypes'
  <2>1. \A e : Insp!RateOf(e) \in Nat
    BY <1>10, RatesAssumption DEF Insp!inspectPodForEnvVars_options, Insp!RateOf
  <2> QED BY <1>10, <2>1 DEF Insp!inspectPodForEnvVars_options, Insp!Goto
<1>11. ASSUME NEW h \in Handlers,
              Insp!handlePodModifyEvent_change(h) \/ Insp!StartApiDumpProcess(h)
       PROVE  InspectionTypes'
  BY <1>11 DEF Insp!handlePodModifyEvent_change, Insp!StartApiDumpProcess, Insp!Goto
<1>12. CASE Insp!StartApiDumpProcess_run \/ Insp!apidump_fail \/ Insp!LookupService
  BY <1>12 DEF Insp!StartApiDumpProcess_run, Insp!apidump_fail, Insp!LookupService
<1> QED
  BY <1>1, <1>2, <1>3, <1>4, <1>5, <1>6, <1>7, <1>8, <1>9, <1>10, <1>11, <1>12
  DEF Insp!Next

LEMMA InspectionTyped == Insp!Spec => []Insp!TypeOK
<1>1. InspectionTypes => Insp!TypeOK
  BY PodsAssumption DEF InspectionTypes, Inspected, Insp!TypeOK, Insp!WellFormed, Insp!Env
<1> QED
  BY <1>1, InspectionTypesInit, InspectionTypesStep, PTL DEF Insp!Spec

-----------------------------------------------------------------------------
\* ApidumpCommand.
CommandTypes ==
  /\ agentArgs = [a \in Agents |-> agentArgs[a]]
  /\ agentOutcome = [a \in Agents |-> agentOutcome[a]]
  /\ subcommand = [a \in Agents |-> subcommand[a]]
  /\ \A a \in Agents :
       /\ cl[a].terminal \in BOOLEAN /\ cl[a].malformed \in BOOLEAN
       /\ cl[a].command \in BOOLEAN
       /\ cl[a].start \in 0 .. 100 /\ cl[a].rate \in Int
       /\ agentArgs[a] # None => agentArgs[a].rate \in Nat \ {0}
       /\ agentOutcome[a] \in {None, "exited", "hibernating"}
       /\ subcommand[a] \in Statuses \cup {None}

LEMMA CommandTypesInit == Cmd!Init => CommandTypes
BY StartsAssumption DEF Cmd!Init, CommandTypes

\* Of one agent, the fate and the arguments.
LEMMA CommandTypesStep ==
  ASSUME CommandTypes, [Cmd!Next]_(Cmd!vars)
  PROVE  CommandTypes'
<1> USE DEF Cmd!vars, Cmd!agent, Cmd!rotation, Cmd!process, Cmd!backend,
    CommandTypes
<1>1. CASE UNCHANGED <<cl, agentArgs, agentOutcome, subcommand>>
  BY <1>1
<1>2. ASSUME NEW a \in Agents, NEW why, Cmd!Ends(a, why),
             cl' = cl, agentArgs' = agentArgs, subcommand' = subcommand
      PROVE  CommandTypes'
  BY <1>2 DEF Cmd!Ends
<1>3. ASSUME NEW a \in Agents, \/ Cmd!startHealthCheckServer_fails(a)
                               \/ Cmd!applyRandomizedStart_never(a)
      PROVE  CommandTypes'
  BY <1>3 DEF Cmd!startHealthCheckServer_fails, Cmd!applyRandomizedStart_never
<1>4. ASSUME NEW a \in Agents, Cmd!apidumpRunInternal(a)
      PROVE  CommandTypes'
  <2> DEFINE r == Cmd!Resolve(cl[a], env[a])
  <2>1. r.rate \in Nat \ {0}
    BY RatesAssumption DEF Cmd!Resolve
  <2> HIDE DEF r
  <2>2. CASE agentArgs' = [agentArgs EXCEPT ![a] = r]
            /\ UNCHANGED <<cl, agentOutcome, subcommand>>
    BY <2>1, <2>2
  <2>3. CASE UNCHANGED <<cl, agentArgs, subcommand>> /\ Cmd!Ends(a, "error")
    BY <1>2, <2>3
  <2> QED BY <1>4, <2>2, <2>3 DEF Cmd!apidumpRunInternal, r
<1>5. ASSUME NEW a \in Agents, Cmd!Fail(a) \/ Cmd!Run_returns(a)
      PROVE  CommandTypes'
  BY <1>2, <1>5 DEF Cmd!Fail, Cmd!Run_returns
<1>6. ASSUME NEW a \in Agents, NEW i \in Interfaces,
             Cmd!SwitchLearnSession(a, i) \/ Cmd!Capture(a, i) \/ Cmd!Flush(a, i)
      PROVE  UNCHANGED <<cl, agentArgs, agentOutcome, subcommand>>
  BY <1>6 DEF Cmd!SwitchLearnSession, Cmd!Capture, Cmd!Flush
<1>7. ASSUME NEW a \in Agents,
             \/ Cmd!applyRandomizedStart(a) \/ Cmd!LookupService(a)
             \/ Cmd!GetServiceIDByPostmanCollectionID(a)
             \/ Cmd!CreateService(a) \/ Cmd!CreateService_conflict(a)
             \/ Cmd!Run_interfaces(a) \/ Cmd!Run_session(a) \/ Cmd!Run_session_exists(a)
             \/ Cmd!GetLearnSessionIDByName(a) \/ Cmd!RotateLearnSession_tick(a)
      PROVE  UNCHANGED <<cl, agentArgs, agentOutcome, subcommand>>
  BY <1>7 DEF Cmd!applyRandomizedStart, Cmd!LookupService,
    Cmd!GetServiceIDByPostmanCollectionID, Cmd!CreateService,
    Cmd!CreateService_conflict, Cmd!Run_interfaces, Cmd!Run_session,
    Cmd!Run_session_exists, Cmd!GetLearnSessionIDByName, Cmd!RotateLearnSession_tick
<1>8. ASSUME NEW a \in Agents, Cmd!runCommand(a)
      PROVE  CommandTypes'
  BY <1>8 DEF Cmd!runCommand
<1> QED
  BY <1>1, <1>3, <1>4, <1>5, <1>6, <1>7, <1>8 DEF Cmd!Next

LEMMA CommandTyped == Cmd!Spec => []Cmd!TypeOK
<1>1. None \notin Nat
  BY NoneAssumption
<1>2. SessionInv /\ CommandTypes => Cmd!TypeOK
  BY DEF SessionInv, SessionsTyped, Ids, CommandTypes, Cmd!TypeOK
<1>3. SessionInv /\ [Cmd!Next]_(Cmd!vars) => SessionInv'
  BY <1>1, SessionStep
<1>4. CommandTypes /\ [Cmd!Next]_(Cmd!vars) => CommandTypes'
  BY CommandTypesStep
<1> QED
  BY <1>2, <1>3, <1>4, SessionInit, CommandTypesInit, PTL DEF Cmd!Spec

\* The values of the state of the wizard, of an inspection and of the agents: among them
\* that the task definition that is remembered is a revision, that rate limits are numbers
\* whatever was given for them, and that sessions exist (add.go, kube_events_worker.go,
\* cmd/internal/apidump/apidump.go).
THEOREM TypesTheorem == Spec /\ Insp!Spec /\ Cmd!Spec => []Types
<1>1. TypeOK /\ Insp!TypeOK /\ Cmd!TypeOK => Types
  BY DEF Types
<1> QED BY <1>1, WizardTyped, InspectionTyped, CommandTyped, PTL
=============================================================================
