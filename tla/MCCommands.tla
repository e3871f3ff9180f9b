------------------------------ MODULE MCCommands ------------------------------
(***************************************************************************)
(* Commands, for TLC.  A behaviour is one of the part that it names, and   *)
(* the others stay as they began.                                          *)
(***************************************************************************)
EXTENDS Commands, TLC

\* Model values: the AWS objects of the wizard; IDs, names and keys of the others.
CONSTANTS
  p1, p2, p3, r1, r2, c1, c2, c3, fa, fb, s1, s2, s3,
  u1, u2, bad, project, coll, k1, k2, web, front, hash, ns1, ns2, kube, svc,
  lk, lv, a1, a2

-----------------------------------------------------------------------------
(* EcsWorkflow: two accounts, three clusters, three services of two        *)
(* families.                                                               *)

MCAccountOf == [c \in Clusters |-> IF c = c3 THEN p2 ELSE p1]
MCRegionOf == [c \in Clusters |-> IF c = c2 THEN r2 ELSE r1]
MCClusterOf == [s \in Services |-> CASE s = s1 -> c1 [] s = s2 -> c1 [] OTHER -> c2]
MCRunning == [s \in Services |-> IF s = s2 THEN fb ELSE fa]
MCDefaultRegion == [p \in Profiles |-> IF p = p1 THEN r1 ELSE None]
Content == [agents : {0, 1}, tagged : BOOLEAN, bridge : {FALSE}]
         \cup {[agents |-> 0, tagged |-> FALSE, bridge |-> TRUE]}
Plain == [agents |-> 0, tagged |-> FALSE, bridge |-> FALSE]
MCTasks == {[pl \in Profiles \X Regions |-> (fa :> <<Plain>>) @@ (fb :> <<Plain, c>>)] : c \in Content}
Arg(S) == {None} \cup {[arn |-> b, id |-> c] : b \in BOOLEAN, c \in S}
MCFlags == {fl \in [terminal : BOOLEAN, dryRun : BOOLEAN, profile : {None, p1, p3},
   region : {None, r1, r2}, cluster : Arg({c1, c3}), task : {None, fa, fb}, service : Arg({s1, s2}),
   envRegion : {None, r2}] :
    IF fl.terminal THEN fl.envRegion = None ELSE fl.region \in {None, r1}}

-----------------------------------------------------------------------------
(* PodInspection.                                                          *)

\* PodInspection's NoEnv, which the values of its constants cannot mention.
NoPodEnv == [project |-> None, workspace |-> None, systemEnv |-> None, key |-> None, name |-> None,
             noRepro |-> None, drop |-> None, rate |-> None, payloads |-> {}]
Envs == {NoPodEnv, [NoPodEnv EXCEPT !.project = project, !.key = k1, !.rate = bad],
         [NoPodEnv EXCEPT !.project = bad, !.key = k1, !.name = svc],
         [NoPodEnv EXCEPT !.workspace = u1, !.systemEnv = u2, !.rate = 5, !.noRepro = TRUE],
         [NoPodEnv EXCEPT !.workspace = u1, !.systemEnv = u2, !.key = k1, !.project = project],
         [NoPodEnv EXCEPT !.workspace = u1, !.key = k1, !.rate = bad, !.drop = TRUE],
         [NoPodEnv EXCEPT !.workspace = bad, !.systemEnv = u2, !.key = k1],
         [NoPodEnv EXCEPT !.name = svc, !.payloads = {project}],
         [NoPodEnv EXCEPT !.project = project]}
MCAgentHost == <<svc>>
C(a, e) == [agent |-> a, env |-> e]
Deployment == <<[kind |-> "ReplicaSet", controller |-> TRUE, name |-> <<web, front, hash>>]>>
Base == [name |-> <<web, front, hash, u1>>, namespace |-> ns1, labels |-> {<<lk, lv>>}, optOut |-> None,
         optIn |-> None, owners |-> Deployment, workload |-> <<web, front>>, type |-> "Deployment",
         containers |-> <<C(FALSE, NoPodEnv)>>]
MCPods ==
  {[Base EXCEPT !.containers = <<C(FALSE, e)>>] : e \in Envs}
  \cup {[Base EXCEPT !.containers = <<C(FALSE, e), C(FALSE, f)>>] : e \in Envs, f \in Envs}
  \cup {[Base EXCEPT !.containers = <<C(TRUE, NoPodEnv)>>],
        [Base EXCEPT !.containers = <<C(FALSE, NoPodEnv), C(TRUE, NoPodEnv)>>]}
  \cup {[Base EXCEPT !.namespace = n] : n \in {ns2, kube}}
  \cup {[Base EXCEPT !.optOut = TRUE], [Base EXCEPT !.optIn = FALSE], [Base EXCEPT !.labels = {}],
        [Base EXCEPT !.name = <<svc>>], [Base EXCEPT !.owners = <<>>],
        [Base EXCEPT !.owners[1].kind = "Job"],
        [Base EXCEPT !.owners = <<[kind |-> "DaemonSet", controller |-> FALSE, name |-> <<svc, web>>]>>,
                     !.workload = <<svc, web>>, !.type = "DaemonSet"],
        [Base EXCEPT !.owners = <<[kind |-> "Rollout", controller |-> FALSE, name |-> <<svc>>]>> \o @]}
MCCommandLines ==
  {[discovery |-> d, repro |-> TRUE, rate |-> 0, include |-> i, exclude |-> <<>>, inLabels |-> {}, exLabels |-> {}] :
    d \in BOOLEAN, i \in {<<>>, <<ns1>>}}
  \cup {[discovery |-> FALSE, repro |-> FALSE, rate |-> 7, include |-> <<>>, exclude |-> <<>>, inLabels |-> {}, exLabels |-> {}]}
MCEnvironments ==
  {[discovery |-> d, cluster |-> name, key |-> k2, include |-> <<None, ns2>>, exclude |-> <<>>,
    inLabels |-> <<<<lk, web>>, None, <<web>>, <<lk, lv>>>>, exLabels |-> <<<<lk, web>>>>, drop |-> FALSE] :
    d \in BOOLEAN, name \in {None, kube}}

-----------------------------------------------------------------------------
(* ApidumpCommand.                                                         *)

NoFlags == [project |-> None, collection |-> None, workspace |-> None, systemEnv |-> None,
            discovery |-> FALSE, rate |-> 0, start |-> 100, tls |-> FALSE, reports |-> FALSE,
            docker |-> FALSE, terminal |-> FALSE, malformed |-> FALSE, command |-> FALSE]
MCAgentFlags ==
  {[NoFlags EXCEPT !.collection = coll], [NoFlags EXCEPT !.collection = coll, !.terminal = TRUE, !.docker = TRUE],
   [NoFlags EXCEPT !.project = project, !.docker = TRUE, !.start = 50],
   [NoFlags EXCEPT !.workspace = u1, !.systemEnv = u2, !.command = TRUE], [NoFlags EXCEPT !.workspace = u1],
   [NoFlags EXCEPT !.project = bad, !.rate = 5], [NoFlags EXCEPT !.malformed = TRUE, !.project = project],
   [NoFlags EXCEPT !.discovery = TRUE, !.start = 0]}
NoEnvironment == [project |-> None, workspace |-> None, systemEnv |-> None, discovery |-> FALSE,
                  cluster |-> None, namespace |-> None, workload |-> None, rate |-> None, start |-> None]
MCAgentEnvironments ==
  {NoEnvironment, [NoEnvironment EXCEPT !.project = project, !.rate = 7],
   [NoEnvironment EXCEPT !.discovery = TRUE, !.cluster = kube, !.namespace = ns1, !.workload = web, !.start = 100]}
\* The second agent is given the collection, or what the first is given.
MCStarts ==
  {s \in [Agents -> [cl : MCAgentFlags, env : MCAgentEnvironments]] :
     \/ s[a2] = s[a1]
     \/ s[a2] = [cl |-> [NoFlags EXCEPT !.collection = coll], env |-> NoEnvironment]}

-----------------------------------------------------------------------------
(* All three.                                                              *)

VARIABLE part

wizard == vars

MCInit ==
  /\ part \in {"wizard", "inspection", "command"}
  /\ IF part = "wizard" THEN TRUE
     ELSE /\ flags = CHOOSE f \in Flags : TRUE
          /\ tasks = CHOOSE t \in Tasks : TRUE
  /\ IF part = "inspection" THEN TRUE ELSE pod = Base
  /\ IF part = "command" THEN TRUE
     ELSE /\ cl = [a \in Agents |-> [NoFlags EXCEPT !.collection = coll]]
          /\ env = [a \in Agents |-> NoEnvironment]
  /\ Init
  /\ Insp!Init
  /\ Cmd!Init

MCNext ==
  \/ part = "wizard" /\ Next /\ UNCHANGED <<part, inspection, command>>
  \/ part = "inspection" /\ Insp!Next /\ UNCHANGED <<part, wizard, command>>
  \/ part = "command" /\ Cmd!Next /\ UNCHANGED <<part, wizard, inspection>>

MCSpec == MCInit /\ [][MCNext]_<<part, wizard, inspection, command>>
=============================================================================
