------------------------ MODULE PodInspection_proofs ------------------------
(***************************************************************************)
(* The theorem about PodInspection, for any pod, settings of the daemonset *)
(* and number of handlers at work on one PodArgs: as long as they see the  *)
(* pod's containers, it is captured on behalf of the service that its      *)
(* configuration asks for.                                                 *)
(***************************************************************************)
EXTENDS Commands, TLAPS

NotYet == {None, "skipped"}
IdFields == {"project", "workspace", "systemEnv", "discovery", "name", "cluster",
             "namespace", "workload", "type"}

\* The configuration that each handler arrives at when it sees all containers.
ConfiguredEnv == Insp!Env(Insp!Configured)
Discovered == settings.discovery /\ ~Insp!HasExplicitIDs(ConfiguredEnv)

\* What it makes of the fields that name a service.
Wanted(f) ==
  IF Discovered
  THEN CASE f = "discovery" -> TRUE
         [] f = "name" -> IF ConfiguredEnv.name # None THEN <<ConfiguredEnv.name>>
                          ELSE <<pod.namespace>> \o Insp!deriveWorkloadName(pod)
         [] f = "cluster" -> settings.cluster
         [] f = "namespace" -> pod.namespace
         [] f = "workload" -> Insp!deriveWorkloadName(pod)
         [] f = "type" -> Insp!deriveWorkloadType(pod)
         [] OTHER -> Insp!NewPodArgs[f]
  ELSE CASE f \in {"workspace", "systemEnv"} /\ ConfiguredEnv.workspace # None ->
                ConfiguredEnv[f]
         [] f = "project" /\ ConfiguredEnv.workspace = None -> ConfiguredEnv.project
         [] OTHER -> Insp!NewPodArgs[f]

\* What AsConfigured is about: the pod has been added, all handlers have seen all of its
\* containers, and it is clear which of them is the configured one.
Quiet ==
  /\ settings # None /\ ~blind /\ monState \notin NotYet
  /\ settings.discovery \/ Insp!Unambiguous

\* The configuration has been validated, its IDs have been parsed.
Complete ==
  ~settings.discovery =>
    Insp!ValidationErrors(ConfiguredEnv) \cup Insp!MissingAttrs(ConfiguredEnv) = {}
Identified == Discovered \/ Insp!IDsAreValid(ConfiguredEnv)

Names(r) == \A f \in IdFields : r[f] = Wanted(f)
HasKey(r) == r.key = Insp!KeyOf(ConfiguredEnv) /\ r.key # None

\* What a handler may rely on where it is, though the others write the same object.
HandlerRight(h) ==
  /\ pc[h] \in {"select", "identity", "creds", "options", "change", "start"} =>
       main[h] = [container |-> Insp!Configured, env |-> ConfiguredEnv]
  /\ pc[h] \in {"identity", "creds", "options", "change", "start"} => Complete
  /\ pc[h] \in {"creds", "options", "change", "start"} => Identified /\ Names(args)
  /\ pc[h] \in {"options", "change", "start"} => HasKey(args)

\* What the process may rely on.
CaptureRight ==
  /\ process # None => Complete /\ Identified /\ Names(args) /\ HasKey(args)
  /\ process = "lookup" => Names(run) /\ HasKey(run)
  /\ podService # None => podService = Insp!Promised /\ HasKey(run)

\* Why a pod is removed from the map.
GivenUp ==
  ~mapped => \/ Insp!Promised = None
             \/ ~settings.discovery /\ Insp!MissingAttrs(ConfiguredEnv) # {}

\* A pod that has not been added.
Fresh ==
  /\ ~mapped /\ args = Insp!NewPodArgs
  /\ pc = [h \in Handlers |-> "idle"] /\ main = [h \in Handlers |-> None]
  /\ process = None /\ run = None /\ podService = None

Shape ==
  /\ pod \in Pods
  /\ args = [f \in DOMAIN Insp!NewPodArgs |-> args[f]]
  /\ pc = [h \in Handlers |-> pc[h]] /\ main = [h \in Handlers |-> main[h]]
  /\ settings = None => monState = None
  /\ settings # None => (settings.discovery => settings.key # None)
  /\ monState \in NotYet => Fresh
  /\ monState \notin NotYet =>
       DOMAIN pod.containers # {} /\ (settings.discovery => Insp!checkControllerType(pod))

\* A handler resets no field that another one relies on: each field is as NewPodArgs has
\* it, or as the configuration wants it, and a handler that has passed the step that
\* writes a field finds the latter.
InspectionInv ==
  /\ Shape
  /\ Quiet => /\ \A f \in IdFields : args[f] \in {Insp!NewPodArgs[f], Wanted(f)}
              /\ \A h \in Handlers : HandlerRight(h)
              /\ CaptureRight /\ GivenUp

\* The configuration does not change.
Kept ==
  /\ Insp!Configured' = Insp!Configured /\ ConfiguredEnv' = ConfiguredEnv
  /\ Discovered' <=> Discovered
  /\ \A f \in IdFields : Wanted(f)' = Wanted(f)
  /\ Complete' <=> Complete
  /\ Identified' <=> Identified
  /\ Insp!KeyOf(ConfiguredEnv)' = Insp!KeyOf(ConfiguredEnv)
  /\ Insp!Promised' = Insp!Promised

\* The configuration of a pod depends on the pod and the settings only.
LEMMA ConfigurationKept ==
  ASSUME UNCHANGED <<settings, pod>>
  PROVE  Kept /\ (Insp!Unambiguous' <=> Insp!Unambiguous)
<1>1. Insp!BestOf(pod)' = Insp!BestOf(pod)
  OBVIOUS
<1>2. Insp!Configured' = Insp!Configured
  BY <1>1 DEF Insp!Configured
<1>3. Insp!Unambiguous' <=> Insp!Unambiguous
  BY DEF Insp!Unambiguous
<1>4. ConfiguredEnv' = ConfiguredEnv
  BY <1>2 DEF ConfiguredEnv, Insp!Env
<1>5. Discovered' <=> Discovered
  BY <1>4 DEF Discovered
<1>6. ASSUME NEW f \in IdFields PROVE Wanted(f)' = Wanted(f)
  BY <1>4, <1>5 DEF Wanted
<1>7. Complete' <=> Complete
  BY <1>4 DEF Complete
<1>8. Identified' <=> Identified
  BY <1>4, <1>5 DEF Identified, Insp!IDsAreValid
<1>9. Insp!KeyOf(ConfiguredEnv)' = Insp!KeyOf(ConfiguredEnv)
  BY <1>4 DEF Insp!KeyOf
<1>10. Insp!Promised' = Insp!Promised
  BY <1>4, Zenon DEF Insp!Promised, ConfiguredEnv
<1> QED BY <1>2, <1>3, <1>4, <1>5, <1>6, <1>7, <1>8, <1>9, <1>10 DEF Kept

\* The fields that a handler writes get the values that the others give them.
Better ==
  /\ \A f \in IdFields : args'[f] \in {args[f], Wanted(f)}
  /\ args'.key \in {args.key, Insp!KeyOf(ConfiguredEnv)}

\* A complete configuration comes with a key: its own, or that of the DaemonSet.
LEMMA KeyOfComplete ==
  ASSUME Shape, Quiet, Complete
  PROVE  Insp!KeyOf(ConfiguredEnv) # None
<1>1. CASE settings.discovery
  BY <1>1 DEF Shape, Quiet, Insp!KeyOf
<1>2. CASE ~settings.discovery
  <2>1. "key" \notin Insp!MissingAttrs(ConfiguredEnv)
    BY <1>2 DEF Complete
  <2>2. ConfiguredEnv.key # None
    BY <2>1 DEF Insp!MissingAttrs, Insp!Required
  <2> QED BY <1>2, <2>2 DEF Insp!KeyOf
<1> QED BY <1>1, <1>2

\* What holds of the arguments, the other handlers and the process survives that a
\* handler writes what the others write.
LEMMA StillRight ==
  ASSUME InspectionInv, Quiet, UNCHANGED <<settings, pod>>, Better
  PROVE  /\ \A f \in IdFields : args'[f] \in {Insp!NewPodArgs[f], Wanted(f)'}
         /\ Names(args) => Names(args)'
         /\ Complete /\ HasKey(args) => HasKey(args)'
         /\ \A h \in Handlers :
              pc'[h] = pc[h] /\ main'[h] = main[h] => HandlerRight(h)'
         /\ UNCHANGED <<process, run, podService>> => CaptureRight'
<1>1. Kept /\ Shape
  BY ConfigurationKept DEF InspectionInv
<1>2. \A f \in IdFields : args'[f] \in {Insp!NewPodArgs[f], Wanted(f)'}
  BY <1>1 DEF Kept, InspectionInv, Better
<1>3. Names(args) => Names(args)'
  BY <1>1 DEF Kept, Names, Better
<1>4. Complete /\ HasKey(args) => HasKey(args)'
  BY <1>1, KeyOfComplete DEF Kept, HasKey, Better
<1>5. ASSUME NEW h \in Handlers, pc'[h] = pc[h], main'[h] = main[h]
      PROVE  HandlerRight(h)'
  <2>1. HandlerRight(h)
    BY DEF InspectionInv
  <2> QED BY <1>1, <1>3, <1>4, <1>5, <2>1 DEF Kept, HandlerRight
<1>6. ASSUME UNCHANGED <<process, run, podService>>
      PROVE  CaptureRight'
  <2>1. CaptureRight
    BY DEF InspectionInv
  <2>2. run' = run => (Names(run)' <=> Names(run)) /\ (HasKey(run)' <=> HasKey(run))
    BY <1>1 DEF Kept, Names, HasKey
  <2> QED BY <1>1, <1>3, <1>4, <1>6, <2>1, <2>2 DEF Kept, CaptureRight
<1> QED BY <1>2, <1>3, <1>4, <1>5, <1>6

\* The configured container is one of the pod's.
LEMMA ConfiguredExists ==
  ASSUME Shape, Quiet
  PROVE  /\ DOMAIN pod.containers = 1 .. Len(pod.containers) /\ Len(pod.containers) \in Nat
         /\ Insp!Configured \in DOMAIN pod.containers /\ Insp!Configured # None
         /\ settings.discovery \/ Insp!Best(pod, Insp!Configured)
<1>1. DOMAIN pod.containers = 1 .. Len(pod.containers) /\ Len(pod.containers) \in Nat
      /\ DOMAIN pod.containers # {}
  BY PodsAssumption DEF Shape, Insp!WellFormed, Quiet
<1>2. CASE settings.discovery
  BY <1>1, <1>2, NoneAssumption DEF Insp!Configured
<1>3. CASE ~settings.discovery
  <2>1. PICK k \in DOMAIN pod.containers : Insp!Best(pod, k)
    BY <1>3 DEF Quiet, Insp!Unambiguous
  <2>2. Insp!Best(pod, Insp!BestOf(pod)) /\ Insp!BestOf(pod) \in DOMAIN pod.containers
    BY <2>1 DEF Insp!BestOf
  <2> QED BY <1>1, <1>3, <2>2, NoneAssumption DEF Insp!Configured
<1> QED BY <1>1, <1>2, <1>3

\* The containers are all seen, and the one that is taken is the configured one.
LEMMA Selected ==
  ASSUME Shape, Quiet, NEW i, NEW started, started = DOMAIN pod.containers,
         \/ settings.discovery /\ i = CHOOSE k \in started : \A j \in started : k <= j
         \/ ~settings.discovery /\ i \in Insp!selectMainContainer(started)
  PROVE  i = Insp!Configured
<1>1. CASE settings.discovery
  <2>1. Insp!Configured = 1 /\ 1 \in started /\ \A j \in started : 1 <= j
    BY <1>1, ConfiguredExists DEF Insp!Configured
  <2>2. \A k \in started : (\A j \in started : k <= j) => k = 1
    BY <2>1, ConfiguredExists
  <2> QED BY <1>1, <2>1, <2>2
<1>2. CASE ~settings.discovery
  <2>1. i \in DOMAIN pod.containers
        /\ Insp!AsValidAs(Insp!Env(i), Insp!Env(Insp!Configured))
    BY <1>2, ConfiguredExists DEF Insp!selectMainContainer
  <2> QED BY <1>2, <2>1, ConfiguredExists DEF Insp!Best, Insp!Env
<1> QED BY <1>1, <1>2

\* A configuration that is rejected asks for no service, or lacks an attribute.
LEMMA Rejected ==
  ASSUME Quiet,
         \/ ~Complete
         \/ ~Insp!IDsAreValid(ConfiguredEnv)
            /\ (settings.discovery => Insp!HasExplicitIDs(ConfiguredEnv))
  PROVE  \/ Insp!Promised = None
         \/ ~settings.discovery /\ Insp!MissingAttrs(ConfiguredEnv) # {}
<1> DEFINE e == ConfiguredEnv
<1>1. CASE ~Complete
  <2>1. ~settings.discovery /\ Insp!ValidationErrors(e) \cup Insp!MissingAttrs(e) # {}
    BY <1>1 DEF Complete
  <2>2. CASE Insp!MissingAttrs(e) = {}
    <3>1. PICK f \in {"workspace", "systemEnv"} : f \in Insp!Required(e)
               /\ e[f] \notin UUIDs
      BY <2>1, <2>2 DEF Insp!ValidationErrors
    <3>2. Insp!IsWorkspaceMode(e) /\ "workspace" \in Insp!Required(e)
      BY <3>1 DEF Insp!Required
    <3>3. e.workspace # None
      BY <2>2, <3>2 DEF Insp!MissingAttrs
    <3>4. ~({e.workspace, e.systemEnv} \subseteq UUIDs)
      BY <3>1
    <3> QED BY <3>3, <3>4 DEF Insp!Promised, ConfiguredEnv
  <2> QED BY <2>1, <2>2
<1>2. CASE ~Insp!IDsAreValid(e) /\ (settings.discovery => Insp!HasExplicitIDs(e))
  BY <1>2 DEF Insp!IDsAreValid, Insp!HasExplicitIDs, Insp!Promised, ConfiguredEnv
<1> QED BY <1>1, <1>2

\* Arguments that are complete lead to the service that was asked for.
LEMMA Served ==
  ASSUME Shape, Quiet, Complete, Identified, NEW r, Names(r)
  PROVE  Insp!Promised =
           CASE r.discovery -> <<"discovered", r.name, r.cluster, r.namespace, r.workload,
                                 r.type>>
             [] ~r.discovery /\ r.workspace # None ->
                  <<"application", r.workspace, r.systemEnv>>
             [] OTHER -> <<"project", r.project>>
<1> DEFINE e == ConfiguredEnv
<1>1. CASE Discovered
  <2>1. /\ r.discovery = TRUE /\ r.cluster = settings.cluster /\ r.namespace = pod.namespace
        /\ r.workload = Insp!deriveWorkloadName(pod)
           /\ r.type = Insp!deriveWorkloadType(pod)
        /\ r.name = IF e.name # None THEN <<e.name>>
                    ELSE <<pod.namespace>> \o Insp!deriveWorkloadName(pod)
    BY <1>1 DEF Names, IdFields, Wanted
  <2>2. e.workspace = None /\ e.project = None /\ settings.discovery
    BY <1>1 DEF Discovered, Insp!HasExplicitIDs
  <2>3. pod.workload = Insp!deriveWorkloadName(pod)
        /\ pod.type = Insp!deriveWorkloadType(pod)
    BY <2>2, PodsAssumption DEF Shape, Quiet, Insp!WellFormed
  <2>4. Insp!Promised = <<"discovered",
                          IF e.name # None THEN <<e.name>>
                          ELSE <<pod.namespace>> \o pod.workload,
                          settings.cluster, pod.namespace, pod.workload, pod.type>>
    BY <2>2 DEF Insp!Promised, ConfiguredEnv
  <2> QED BY <2>1, <2>3, <2>4
<1>2. CASE ~Discovered /\ e.workspace # None
  <2>1. r.discovery = FALSE /\ r.workspace = e.workspace /\ r.systemEnv = e.systemEnv
    BY <1>2 DEF Names, IdFields, Wanted, Insp!NewPodArgs
  <2>2. {e.workspace, e.systemEnv} \subseteq UUIDs
        /\ (settings.discovery => e.project = None)
    <3>1. CASE settings.discovery
      BY <1>2, <3>1 DEF Identified, Insp!IDsAreValid
    <3>2. CASE ~settings.discovery
      <4>1. Insp!ValidationErrors(e) = {} /\ Insp!MissingAttrs(e) = {}
        BY <3>2 DEF Complete
      <4>2. {"workspace", "systemEnv"} \subseteq Insp!Required(e)
        BY <1>2 DEF Insp!Required, Insp!IsWorkspaceMode
      <4>3. e.workspace # None /\ e.systemEnv # None
        BY <4>1, <4>2 DEF Insp!MissingAttrs
      <4>4. e["workspace"] \in UUIDs /\ e["systemEnv"] \in UUIDs
        BY <4>1, <4>2, <4>3 DEF Insp!ValidationErrors
      <4> QED BY <3>2, <4>4
    <3> QED BY <3>1, <3>2
  <2> QED BY <1>2, <2>1, <2>2 DEF Insp!Promised, ConfiguredEnv
<1>3. CASE ~Discovered /\ e.workspace = None
  <2>1. r.discovery = FALSE /\ r.workspace = None /\ r.project = e.project
    BY <1>3 DEF Names, IdFields, Wanted, Insp!NewPodArgs
  <2>2. e.project \in ProjectIDs
    BY <1>3 DEF Identified, Insp!IDsAreValid
  <2>3. e.project # None
    <3>1. CASE settings.discovery
      BY <1>3, <3>1 DEF Discovered, Insp!HasExplicitIDs
    <3>2. CASE ~settings.discovery
      <4>1. Insp!MissingAttrs(e) = {}
        BY <3>2 DEF Complete
      <4>2. Insp!IsWorkspaceMode(e) => "workspace" \in Insp!Required(e)
        BY DEF Insp!Required
      <4>3. "project" \in Insp!Required(e)
        BY <1>3, <4>1, <4>2 DEF Insp!Required, Insp!MissingAttrs
      <4> QED BY <4>1, <4>3 DEF Insp!MissingAttrs
    <3> QED BY <3>1, <3>2
  <2> QED BY <1>3, <2>1, <2>2, <2>3 DEF Insp!Promised, ConfiguredEnv
<1> QED BY <1>1, <1>2, <1>3

\* A step of one handler, which sees the others as they were.
LEMMA HandlerStep ==
  ASSUME InspectionInv, NEW h \in Handlers, Shape',
         UNCHANGED <<settings, pod>>, UNCHANGED <<process, run, podService>>,
         monState \notin NotYet, blind => blind',
         \A k \in Handlers \ {h} : pc'[k] = pc[k] /\ main'[k] = main[k],
         Quiet /\ ~blind' => Better /\ HandlerRight(h)' /\ GivenUp'
  PROVE  InspectionInv'
<1> SUFFICES ASSUME Quiet'
             PROVE  /\ \A f \in IdFields : args'[f] \in {Insp!NewPodArgs[f], Wanted(f)'}
                    /\ \A k \in Handlers : HandlerRight(k)'
                    /\ CaptureRight' /\ GivenUp'
  BY DEF InspectionInv
<1>1. Quiet /\ ~blind'
  BY ConfigurationKept DEF Quiet
<1>2. Better /\ HandlerRight(h)' /\ GivenUp'
  BY <1>1
<1>3. CaptureRight' /\ \A f \in IdFields : args'[f] \in {Insp!NewPodArgs[f], Wanted(f)'}
  BY <1>1, <1>2, StillRight
<1>4. ASSUME NEW k \in Handlers PROVE HandlerRight(k)'
  <2>1. CASE k = h
    BY <1>2, <2>1
  <2>2. CASE k # h
    BY <1>1, <1>2, <2>2, StillRight
  <2> QED BY <2>1, <2>2
<1> QED BY <1>2, <1>3, <1>4

\* A handler is at work only when the pod has been added.
LEMMA AtWork ==
  ASSUME Shape, NEW h \in Handlers, pc[h] # "idle" \/ mapped
  PROVE  monState \notin NotYet /\ settings # None
BY DEF Shape, Fresh, NotYet

\* What a handler at work leaves of the shape.
LEMMA ShapeKept ==
  ASSUME Shape, monState \notin NotYet, monState' \notin NotYet, UNCHANGED <<settings,
         pod>>,
         args' = [f \in DOMAIN Insp!NewPodArgs |-> args'[f]],
         pc' = [h \in Handlers |-> pc'[h]], main' = [h \in Handlers |-> main'[h]]
  PROVE  Shape'
<1>1. Insp!checkControllerType(pod)' <=> Insp!checkControllerType(pod)
  OBVIOUS
<1>2. settings # None
  BY DEF Shape, NotYet
<1> QED BY <1>1, <1>2 DEF Shape

\* InspectionInv holds at first.
LEMMA InspectionInit == Insp!Init => InspectionInv
<1> SUFFICES ASSUME Insp!Init PROVE InspectionInv
  OBVIOUS
<1>1. Shape
  BY DEF Insp!Init, Shape, Fresh, NotYet, Insp!NewPodArgs, Insp!handlers
<1> QED BY <1>1 DEF Insp!Init, InspectionInv, Quiet

\* Before the settings are there nothing has been said of the pod; in discovery mode
\* they include a key.
LEMMA StartDaemonsetStep ==
  ASSUME InspectionInv, Insp!StartDaemonset
  PROVE  InspectionInv'
<1>1. Shape /\ monState = None /\ monState' = None
  BY DEF InspectionInv, Shape, Insp!StartDaemonset
<1>2. settings' # None => (settings'.discovery => settings'.key # None)
  <2>1. PICK line \in CommandLines, e \in Environments :
          LET s == Insp!applyEnvVarDefaults(line, e)
          IN /\ s.discovery => s.cluster # None /\ s.key # None
             /\ settings' = [s EXCEPT !.exclude = @ \cup DefaultExcluded]
    BY DEF Insp!StartDaemonset
  <2> DEFINE s == Insp!applyEnvVarDefaults(line, e)
  <2>2. settings'.discovery = s.discovery /\ settings'.key = s.key
    BY <2>1 DEF Insp!applyEnvVarDefaults
  <2> QED BY <2>1, <2>2
<1>3. Shape'
  BY <1>1, <1>2 DEF Shape, Fresh, NotYet, Insp!StartDaemonset, Insp!handlers, Insp!capture
<1> QED BY <1>1, <1>3 DEF InspectionInv, Quiet, NotYet

\* A pod is taken only with containers and, in discovery mode, with a controller that
\* its workload can be named after.
LEMMA AddStep ==
  ASSUME InspectionInv, Insp!handlePodAddEvent \/ Insp!handlePodAddEvent_skip
  PROVE  InspectionInv'
<1>1. Shape /\ Fresh /\ settings # None /\ UNCHANGED <<settings, pod, Insp!handlers,
      Insp!capture, blind>>
  BY DEF InspectionInv, Shape, NotYet, Insp!handlePodAddEvent, Insp!handlePodAddEvent_skip
<1>2. CASE Insp!handlePodAddEvent
  <2>1. DOMAIN pod.containers # {} /\ (settings.discovery => Insp!checkControllerType(pod))
    BY <1>2 DEF Insp!handlePodAddEvent, Insp!FilterPodsByContainerImage, Insp!Evaluate
  <2>2. /\ mapped' = TRUE /\ monState' = "PodPending" /\ args' = Insp!NewPodArgs
        /\ monState' \notin NotYet
    BY <1>2, NoneAssumption DEF Insp!handlePodAddEvent, NotYet
  <2>3. Shape'
    BY <1>1, <2>1, <2>2 DEF Shape, Insp!handlers, Insp!NewPodArgs
  <2>4. \A h \in Handlers : HandlerRight(h)'
    BY <1>1 DEF Fresh, Insp!handlers, HandlerRight
  <2>5. CaptureRight'
    BY <1>1, NoneAssumption DEF Fresh, Insp!capture, CaptureRight
  <2> QED BY <2>2, <2>3, <2>4, <2>5 DEF InspectionInv, GivenUp
<1>3. CASE Insp!handlePodAddEvent_skip
  <2>1. monState' = "skipped" /\ UNCHANGED <<mapped, args>>
    BY <1>3 DEF Insp!handlePodAddEvent_skip
  <2>2. Shape'
    BY <1>1, <2>1 DEF Shape, Fresh, NotYet, Insp!handlers, Insp!capture
  <2> QED BY <2>1, <2>2 DEF InspectionInv, Quiet, NotYet
<1> QED BY <1>2, <1>3

\* A handler that starts has read nothing yet.
LEMMA ModifyStep ==
  ASSUME InspectionInv, NEW h \in Handlers, Insp!handlePodModifyEvent(h)
  PROVE  InspectionInv'
<1>1. Shape /\ monState \notin NotYet
  BY AtWork DEF InspectionInv, Insp!handlePodModifyEvent
<1>2. UNCHANGED <<settings, pod, mapped, monState, args, main, process, run,
      podService, blind>>
  BY DEF Insp!handlePodModifyEvent, Insp!capture
<1>3. pc' = [pc EXCEPT ![h] = "read"]
  BY DEF Insp!handlePodModifyEvent, Insp!Goto
<1>4. pc' = [k \in Handlers |-> pc'[k]] /\ pc'[h] = "read"
      /\ \A k \in Handlers \ {h} : pc'[k] = pc[k]
  BY <1>1, <1>3 DEF Shape
<1>5. Shape'
  BY <1>1, <1>2, <1>4, ShapeKept DEF Shape
<1>6. HandlerRight(h)' /\ Better
  BY <1>2, <1>4 DEF HandlerRight, Better
<1>7. Quiet => GivenUp'
  BY <1>2, ConfigurationKept DEF InspectionInv, GivenUp, Kept
<1> QED BY <1>1, <1>2, <1>4, <1>5, <1>6, <1>7, HandlerStep

\* A handler that reads all containers arrives at the configured one, whatever order
\* they are read in.
LEMMA ReadStep ==
  ASSUME InspectionInv, NEW h \in Handlers, Insp!inspectPodForEnvVars_read(h)
  PROVE  InspectionInv'
<1>1. Shape /\ monState \notin NotYet
  BY AtWork DEF InspectionInv, Insp!inspectPodForEnvVars_read
<1>2. UNCHANGED <<settings, pod, monState, args, process, run, podService>>
  BY DEF Insp!inspectPodForEnvVars_read, Insp!capture
<1>3. PICK started \in SUBSET DOMAIN pod.containers,
            read \in SUBSET DOMAIN pod.containers :
       /\ read \subseteq started
       /\ blind' = (blind \/ read # DOMAIN pod.containers)
       /\ \/ started = {} /\ Insp!Fail(h) /\ UNCHANGED main
          \/ /\ started # {} /\ settings.discovery
             /\ LET i == CHOOSE i \in started : \A j \in started : i <= j
                IN main' = [main EXCEPT ![h] =
                     [container |-> i,
                      env |-> IF i \in read THEN Insp!Env(i) ELSE Insp!NoEnv]]
             /\ Insp!Goto(h, "select") /\ UNCHANGED mapped
          \/ /\ started # {} /\ ~settings.discovery
             /\ \E i \in IF read = {} THEN {None} ELSE Insp!selectMainContainer(read) :
                  main' = [main EXCEPT ![h] =
                    [container |-> i,
                     env |-> IF i = None THEN Insp!NoEnv ELSE Insp!Env(i)]]
             /\ Insp!Goto(h, "select") /\ UNCHANGED mapped
  BY DEF Insp!inspectPodForEnvVars_read
<1>4. /\ pc' = [k \in Handlers |-> pc'[k]] /\ main' = [k \in Handlers |-> main'[k]]
      /\ \A k \in Handlers \ {h} : pc'[k] = pc[k] /\ main'[k] = main[k]
  BY <1>1, <1>3 DEF Shape, Insp!Fail, Insp!Goto
<1>5. Shape'
  BY <1>1, <1>2, <1>4, ShapeKept DEF Shape
<1>6. ASSUME Quiet, ~blind'
      PROVE  Better /\ HandlerRight(h)' /\ GivenUp'
  <2>1. Kept
    BY <1>2, ConfigurationKept
  <2>2. read = DOMAIN pod.containers /\ started = read /\ started # {}
    BY <1>1, <1>3, <1>6 DEF Shape
  <2>3. PICK i : /\ i = Insp!Configured
                 /\ main'[h] = [container |-> i, env |-> Insp!Env(i)]
                 /\ pc'[h] = "select" /\ UNCHANGED mapped
    <3>1. CASE settings.discovery
      <4> DEFINE i == CHOOSE k \in started : \A j \in started : k <= j
      <4>1. i = Insp!Configured /\ Insp!Configured \in read
        BY <1>1, <1>6, <2>2, <3>1, Selected, ConfiguredExists
      <4> HIDE DEF i
      <4>2. /\ main'[h] = [container |-> i,
                           env |-> IF i \in read THEN Insp!Env(i) ELSE Insp!NoEnv]
            /\ pc'[h] = "select" /\ UNCHANGED mapped
        BY <1>1, <1>3, <2>2, <3>1 DEF Shape, Insp!Goto, i
      <4> QED BY <4>1, <4>2
    <3>2. CASE ~settings.discovery
      <4>1. PICK i \in Insp!selectMainContainer(read) :
               /\ main' = [main EXCEPT ![h] =
                    [container |-> i,
                     env |-> IF i = None THEN Insp!NoEnv ELSE Insp!Env(i)]]
               /\ Insp!Goto(h, "select") /\ UNCHANGED mapped
        BY <1>3, <2>2, <3>2
      <4>2. i = Insp!Configured /\ Insp!Configured # None
        BY <1>1, <1>6, <2>2, <3>2, <4>1, Selected, ConfiguredExists
      <4> QED BY <1>1, <4>1, <4>2 DEF Shape, Insp!Goto
    <3> QED BY <3>1, <3>2
  <2>4. HandlerRight(h)'
    BY <2>1, <2>3 DEF HandlerRight, Kept, ConfiguredEnv
  <2>5. GivenUp'
    BY <1>2, <1>6, <2>1, <2>3 DEF InspectionInv, GivenUp, Kept
  <2> QED BY <1>2, <2>4, <2>5 DEF Better
<1> QED BY <1>1, <1>2, <1>3, <1>4, <1>5, <1>6, HandlerStep

\* The handler goes on with a complete configuration only.
LEMMA ContainerStep ==
  ASSUME InspectionInv, NEW h \in Handlers, Insp!inspectPodForEnvVars_container(h)
  PROVE  InspectionInv'
<1>1. Shape /\ monState \notin NotYet
  BY AtWork DEF InspectionInv, Insp!inspectPodForEnvVars_container
<1>2. UNCHANGED <<settings, pod, monState, main, process, run, podService, blind>>
  BY DEF Insp!inspectPodForEnvVars_container, Insp!capture
<1>3. args' = [f \in DOMAIN Insp!NewPodArgs |-> args'[f]]
      /\ \A f \in DOMAIN Insp!NewPodArgs \ {"container"} : args'[f] = args[f]
  BY <1>1 DEF Shape, Insp!inspectPodForEnvVars_container
<1>4. /\ pc' = [k \in Handlers |-> pc'[k]]
      /\ \A k \in Handlers \ {h} : pc'[k] = pc[k]
  BY <1>1 DEF Shape, Insp!Fail, Insp!Goto, Insp!inspectPodForEnvVars_container
<1>5. Shape'
  BY <1>1, <1>2, <1>3, <1>4, ShapeKept DEF Shape
<1>6. ASSUME Quiet
      PROVE  Better /\ HandlerRight(h)' /\ GivenUp'
  <2>1. Kept
    BY <1>2, ConfigurationKept
  <2>2. main[h] = [container |-> Insp!Configured, env |-> ConfiguredEnv]
        /\ Insp!Configured # None
    BY <1>1, <1>6, ConfiguredExists DEF InspectionInv, HandlerRight,
      Insp!inspectPodForEnvVars_container
  <2>3. Better
    BY <1>3 DEF Better, IdFields, Insp!NewPodArgs
  <2>4. CASE Complete
    <3>1. pc'[h] = "identity" /\ mapped' = mapped
      BY <1>1, <2>2, <2>4 DEF Complete, Shape, Insp!Goto,
        Insp!inspectPodForEnvVars_container
    <3>2. HandlerRight(h)'
      BY <1>2, <2>1, <2>2, <2>4, <3>1 DEF HandlerRight, Kept
    <3>3. GivenUp'
      BY <1>2, <1>6, <2>1, <3>1 DEF InspectionInv, GivenUp, Kept
    <3> QED BY <2>3, <3>2, <3>3
  <2>5. CASE ~Complete
    <3>1. pc'[h] = "done"
      BY <1>1, <2>2, <2>5 DEF Complete, Shape, Insp!Fail, Insp!Goto,
        Insp!inspectPodForEnvVars_container
    <3>2. HandlerRight(h)'
      BY <3>1 DEF HandlerRight
    <3>3. GivenUp'
      BY <1>2, <1>6, <2>1, <2>5, Rejected DEF GivenUp, Kept
    <3> QED BY <2>3, <3>2, <3>3
  <2> QED BY <2>4, <2>5
<1> QED BY <1>1, <1>2, <1>4, <1>5, <1>6, HandlerStep

\* The IDs that are written are those of the configuration; the pod is given up when
\* they do not parse.
LEMMA ExplicitStep ==
  ASSUME InspectionInv, NEW h \in Handlers, Insp!identity_explicit(h)
  PROVE  InspectionInv'
<1>1. Shape /\ monState \notin NotYet
  BY AtWork DEF InspectionInv, Insp!identity_explicit
<1>2. UNCHANGED <<settings, pod, monState, main, process, run, podService, blind>>
  BY DEF Insp!identity_explicit, Insp!capture
<1>3. args' = [f \in DOMAIN Insp!NewPodArgs |-> args'[f]]
  BY <1>1 DEF Shape, Insp!identity_explicit
<1>4. /\ pc' = [k \in Handlers |-> pc'[k]]
      /\ \A k \in Handlers \ {h} : pc'[k] = pc[k]
  BY <1>1 DEF Shape, Insp!Fail, Insp!Goto, Insp!identity_explicit
<1>5. Shape'
  BY <1>1, <1>2, <1>3, <1>4, ShapeKept DEF Shape
<1>6. ASSUME Quiet
      PROVE  Better /\ HandlerRight(h)' /\ GivenUp'
  <2>1. Kept
    BY <1>2, ConfigurationKept
  <2>2. /\ main[h] = [container |-> Insp!Configured, env |-> ConfiguredEnv] /\ Complete
        /\ \A f \in IdFields : args[f] \in {Insp!NewPodArgs[f], Wanted(f)}
        /\ settings.discovery => Insp!HasExplicitIDs(ConfiguredEnv)
    BY <1>6 DEF InspectionInv, HandlerRight, Insp!identity_explicit
  <2> DEFINE e == ConfiguredEnv
  <2> HIDE DEF e
  <2>3. main[h].env = e
    BY <2>2 DEF e
  <2>4. CASE Insp!IDsAreValid(e)
    <3>1. /\ pc'[h] = "creds" /\ mapped' = mapped
          /\ args' = IF e.workspace # None
                   THEN [args EXCEPT !.workspace = e.workspace, !.systemEnv = e.systemEnv]
                   ELSE [args EXCEPT !.project = e.project]
      BY <1>1, <2>3, <2>4 DEF Shape, Insp!Goto, Insp!identity_explicit
    <3>2. ~Discovered
      BY <2>2 DEF Discovered
    <3>3. ASSUME e.workspace # None
          PROVE  Names(args)' /\ \A f \in IdFields : args'[f] \in {args[f], Wanted(f)}
      <4>1. /\ args'.workspace = e.workspace /\ args'.systemEnv = e.systemEnv
            /\ \A f \in IdFields \ {"workspace", "systemEnv"} : args'[f] = args[f]
        BY <1>1, <3>1, <3>3 DEF Shape, IdFields, Insp!NewPodArgs
      <4>2. /\ Wanted("workspace") = e.workspace /\ Wanted("systemEnv") = e.systemEnv
            /\ \A f \in IdFields \ {"workspace", "systemEnv"} :
                 Wanted(f) = Insp!NewPodArgs[f]
        BY <3>2, <3>3 DEF Wanted, IdFields, e
      <4> QED BY <2>1, <2>2, <4>1, <4>2 DEF Names, Kept
    <3>4. ASSUME e.workspace = None
          PROVE  Names(args)' /\ \A f \in IdFields : args'[f] \in {args[f], Wanted(f)}
      <4>1. /\ args'.project = e.project
            /\ \A f \in IdFields \ {"project"} : args'[f] = args[f]
        BY <1>1, <3>1, <3>4 DEF Shape, IdFields, Insp!NewPodArgs
      <4>2. /\ Wanted("project") = e.project
            /\ \A f \in IdFields \ {"project"} : Wanted(f) = Insp!NewPodArgs[f]
        BY <3>2, <3>4 DEF Wanted, IdFields, e
      <4> QED BY <2>1, <2>2, <4>1, <4>2 DEF Names, Kept
    <3>5. Names(args)' /\ \A f \in IdFields : args'[f] \in {args[f], Wanted(f)}
      BY <3>3, <3>4
    <3>6. args'.key = args.key
      BY <1>1, <3>1 DEF Shape, Insp!NewPodArgs
    <3>7. HandlerRight(h)'
      BY <1>2, <2>1, <2>2, <2>4, <3>1, <3>5 DEF HandlerRight, Identified, Kept, e
    <3>8. GivenUp'
      BY <1>2, <1>6, <2>1, <3>1 DEF InspectionInv, GivenUp, Kept
    <3> QED BY <3>5, <3>6, <3>7, <3>8 DEF Better
  <2>5. CASE ~Insp!IDsAreValid(e)
    <3>1. pc'[h] = "done" /\ UNCHANGED args
      BY <1>1, <2>3, <2>5 DEF Shape, Insp!Fail, Insp!Goto, Insp!identity_explicit
    <3>2. HandlerRight(h)'
      BY <3>1 DEF HandlerRight
    <3>3. GivenUp'
      BY <1>2, <1>6, <2>1, <2>2, <2>5, Rejected DEF GivenUp, Kept, e
    <3> QED BY <3>1, <3>2, <3>3 DEF Better
  <2> QED BY <2>4, <2>5
<1> QED BY <1>1, <1>2, <1>4, <1>5, <1>6, HandlerStep

\* Without IDs, in discovery mode, the service is named after the workload.
LEMMA DiscoveredStep ==
  ASSUME InspectionInv, NEW h \in Handlers, Insp!identity_discovered(h)
  PROVE  InspectionInv'
<1>1. Shape /\ monState \notin NotYet
  BY AtWork DEF InspectionInv, Insp!identity_discovered
<1>2. UNCHANGED <<settings, pod, mapped, monState, main, process, run, podService, blind>>
  BY DEF Insp!identity_discovered, Insp!capture
<1>3. /\ args' = [f \in DOMAIN Insp!NewPodArgs |-> args'[f]]
      /\ args'.discovery = TRUE
      /\ args'.name = IF main[h].env.name # None THEN <<main[h].env.name>>
                      ELSE <<pod.namespace>> \o Insp!deriveWorkloadName(pod)
      /\ args'.cluster = settings.cluster /\ args'.namespace = pod.namespace
      /\ args'.workload = Insp!deriveWorkloadName(pod)
         /\ args'.type = Insp!deriveWorkloadType(pod)
      /\ args'.project = args.project /\ args'.workspace = args.workspace
      /\ args'.systemEnv = args.systemEnv /\ args'.key = args.key
  BY <1>1 DEF Shape, Insp!identity_discovered, Insp!NewPodArgs
<1>4. /\ pc' = [k \in Handlers |-> pc'[k]] /\ pc'[h] = "creds"
      /\ \A k \in Handlers \ {h} : pc'[k] = pc[k]
  BY <1>1 DEF Shape, Insp!Goto, Insp!identity_discovered
<1>5. Shape'
  BY <1>1, <1>2, <1>3, <1>4, ShapeKept DEF Shape
<1>6. ASSUME Quiet
      PROVE  Better /\ HandlerRight(h)' /\ GivenUp'
  <2>1. Kept
    BY <1>2, ConfigurationKept
  <2>2. /\ main[h] = [container |-> Insp!Configured, env |-> ConfiguredEnv] 
        /\ Complete /\ Discovered
        /\ \A f \in IdFields : args[f] \in {Insp!NewPodArgs[f], Wanted(f)}
    BY <1>6 DEF InspectionInv, HandlerRight, Insp!identity_discovered, Discovered
  <2>3. \A f \in IdFields : args'[f] = Wanted(f)
    <3>1. \A f \in {"project", "workspace", "systemEnv"} :
            Wanted(f) = Insp!NewPodArgs[f] /\ args'[f] = args[f]
      BY <1>3, <2>2 DEF Wanted
    <3>2. /\ args'.discovery = Wanted("discovery") /\ args'.cluster = Wanted("cluster")
          /\ args'.namespace = Wanted("namespace") /\ args'.workload = Wanted("workload")
          /\ args'.type = Wanted("type")
      BY <1>3, <2>2 DEF Wanted
    <3>3. args'.name = Wanted("name")
      <4>1. main[h].env = ConfiguredEnv
        BY <2>2
      <4> QED BY <1>3, <2>2, <4>1 DEF Wanted
    <3> QED BY <2>2, <3>1, <3>2, <3>3 DEF IdFields
  <2>4. HandlerRight(h)'
    BY <1>2, <1>4, <2>1, <2>2, <2>3 DEF HandlerRight, Identified, Names, Kept
  <2>5. GivenUp'
    BY <1>2, <1>6, <2>1 DEF InspectionInv, GivenUp, Kept
  <2> QED BY <1>3, <2>3, <2>4, <2>5 DEF Better
<1> QED BY <1>1, <1>2, <1>4, <1>5, <1>6, HandlerStep

\* The key that is written is there.
LEMMA CredsStep ==
  ASSUME InspectionInv, NEW h \in Handlers, Insp!inspectPodForEnvVars_creds(h)
  PROVE  InspectionInv'
<1>1. Shape /\ monState \notin NotYet
  BY AtWork DEF InspectionInv, Insp!inspectPodForEnvVars_creds
<1>2. UNCHANGED <<settings, pod, mapped, monState, main, process, run, podService, blind>>
  BY DEF Insp!inspectPodForEnvVars_creds, Insp!capture
<1>3. /\ args' = [f \in DOMAIN Insp!NewPodArgs |-> args'[f]]
      /\ args'.key = Insp!KeyOf(main[h].env)
      /\ \A f \in IdFields : args'[f] = args[f]
  BY <1>1 DEF Shape, Insp!inspectPodForEnvVars_creds, Insp!NewPodArgs, IdFields
<1>4. /\ pc' = [k \in Handlers |-> pc'[k]] /\ pc'[h] = "options"
      /\ \A k \in Handlers \ {h} : pc'[k] = pc[k]
  BY <1>1 DEF Shape, Insp!Goto, Insp!inspectPodForEnvVars_creds
<1>5. Shape'
  BY <1>1, <1>2, <1>3, <1>4, ShapeKept DEF Shape
<1>6. ASSUME Quiet
      PROVE  Better /\ HandlerRight(h)' /\ GivenUp'
  <2>1. Kept
    BY <1>2, ConfigurationKept
  <2>2. /\ main[h] = [container |-> Insp!Configured, env |-> ConfiguredEnv]
        /\ Complete /\ Identified /\ Names(args)
    BY <1>6 DEF InspectionInv, HandlerRight, Insp!inspectPodForEnvVars_creds
  <2>3. args'.key = Insp!KeyOf(ConfiguredEnv) /\ Insp!KeyOf(ConfiguredEnv) # None
    BY <1>1, <1>3, <1>6, <2>2, KeyOfComplete
  <2>4. Names(args)' /\ HasKey(args)'
    BY <1>3, <2>1, <2>2, <2>3 DEF Names, HasKey, Kept
  <2>5. HandlerRight(h)'
    BY <1>2, <1>4, <2>1, <2>2, <2>4 DEF HandlerRight, Kept
  <2>6. GivenUp'
    BY <1>2, <1>6, <2>1 DEF InspectionInv, GivenUp, Kept
  <2> QED BY <1>3, <2>3, <2>5, <2>6 DEF Better
<1> QED BY <1>1, <1>2, <1>4, <1>5, <1>6, HandlerStep

\* The options say nothing of the service.
LEMMA OptionsStep ==
  ASSUME InspectionInv, NEW h \in Handlers, Insp!inspectPodForEnvVars_options(h)
  PROVE  InspectionInv'
<1>1. Shape /\ monState \notin NotYet
  BY AtWork DEF InspectionInv, Insp!inspectPodForEnvVars_options
<1>2. UNCHANGED <<settings, pod, mapped, monState, main, process, run, podService, blind>>
  BY DEF Insp!inspectPodForEnvVars_options, Insp!capture
<1>3. /\ args' = [f \in DOMAIN Insp!NewPodArgs |-> args'[f]]
      /\ args'.key = args.key /\ \A f \in IdFields : args'[f] = args[f]
  BY <1>1 DEF Shape, Insp!inspectPodForEnvVars_options, Insp!NewPodArgs, IdFields
<1>4. /\ pc' = [k \in Handlers |-> pc'[k]] /\ pc'[h] = "change"
      /\ \A k \in Handlers \ {h} : pc'[k] = pc[k]
  BY <1>1 DEF Shape, Insp!Goto, Insp!inspectPodForEnvVars_options
<1>5. Shape'
  BY <1>1, <1>2, <1>3, <1>4, ShapeKept DEF Shape
<1>6. ASSUME Quiet
      PROVE  Better /\ HandlerRight(h)' /\ GivenUp'
  <2>1. Kept
    BY <1>2, ConfigurationKept
  <2>2. /\ main[h] = [container |-> Insp!Configured, env |-> ConfiguredEnv]
        /\ Complete /\ Identified /\ Names(args) /\ HasKey(args)
    BY <1>6 DEF InspectionInv, HandlerRight, Insp!inspectPodForEnvVars_options
  <2>3. Names(args)' /\ HasKey(args)'
    BY <1>3, <2>1, <2>2 DEF Names, HasKey, Kept
  <2>4. HandlerRight(h)'
    BY <1>2, <1>4, <2>1, <2>2, <2>3 DEF HandlerRight, Kept
  <2>5. GivenUp'
    BY <1>2, <1>6, <2>1 DEF InspectionInv, GivenUp, Kept
  <2> QED BY <1>3, <2>4, <2>5 DEF Better
<1> QED BY <1>1, <1>2, <1>4, <1>5, <1>6, HandlerStep

\* The state of the pod moves on, the arguments stay.
LEMMA ChangeStep ==
  ASSUME InspectionInv, NEW h \in Handlers, Insp!handlePodModifyEvent_change(h)
  PROVE  InspectionInv'
<1>1. Shape /\ monState \notin NotYet
  BY AtWork DEF InspectionInv, Insp!handlePodModifyEvent_change
<1>2. UNCHANGED <<settings, pod, mapped, args, main, process, run, podService, blind>>
  BY DEF Insp!handlePodModifyEvent_change, Insp!capture
<1>3. monState' \notin NotYet
  BY <1>1, NoneAssumption DEF NotYet, Insp!handlePodModifyEvent_change
<1>4. /\ pc' = [k \in Handlers |-> pc'[k]] /\ pc'[h] \in {"start", "done"}
      /\ \A k \in Handlers \ {h} : pc'[k] = pc[k]
  BY <1>1 DEF Shape, Insp!Goto, Insp!handlePodModifyEvent_change
<1>5. Shape'
  BY <1>1, <1>2, <1>3, <1>4, ShapeKept DEF Shape
<1>6. ASSUME Quiet
      PROVE  Better /\ HandlerRight(h)' /\ GivenUp'
  <2>1. Kept
    BY <1>2, ConfigurationKept
  <2>2. HandlerRight(h) /\ pc[h] = "change"
    BY <1>6 DEF InspectionInv, Insp!handlePodModifyEvent_change
  <2>3. (Names(args)' <=> Names(args)) /\ (HasKey(args)' <=> HasKey(args))
    BY <1>2, <2>1 DEF Names, HasKey, Kept
  <2>4. HandlerRight(h)'
    BY <1>2, <1>4, <2>1, <2>2, <2>3 DEF HandlerRight, Kept
  <2>5. GivenUp'
    BY <1>2, <1>6, <2>1 DEF InspectionInv, GivenUp, Kept
  <2> QED BY <1>2, <2>4, <2>5 DEF Better
<1> QED BY <1>1, <1>2, <1>4, <1>5, <1>6, HandlerStep

\* The process starts after the handler has written all that names the service.
LEMMA StartProcessStep ==
  ASSUME InspectionInv, NEW h \in Handlers, Insp!StartApiDumpProcess(h)
  PROVE  InspectionInv'
<1>1. Shape /\ monState \notin NotYet
  BY AtWork DEF InspectionInv, Insp!StartApiDumpProcess
<1>2. UNCHANGED <<settings, pod, mapped, args, main, run, podService, blind>>
  BY DEF Insp!StartApiDumpProcess
<1>3. monState' \notin NotYet /\ process' \in {process, "namespace"}
  BY <1>1, NoneAssumption DEF NotYet, Insp!StartApiDumpProcess
<1>4. /\ pc' = [k \in Handlers |-> pc'[k]] /\ pc'[h] = "done"
      /\ \A k \in Handlers \ {h} : pc'[k] = pc[k]
  BY <1>1 DEF Shape, Insp!Goto, Insp!StartApiDumpProcess
<1>5. Shape'
  BY <1>1, <1>2, <1>3, <1>4, ShapeKept DEF Shape
<1>6. ASSUME Quiet
      PROVE  /\ \A f \in IdFields : args'[f] \in {Insp!NewPodArgs[f], Wanted(f)'}
             /\ \A k \in Handlers : HandlerRight(k)'
             /\ CaptureRight' /\ GivenUp'
  <2>1. Kept /\ Better
    BY <1>2, ConfigurationKept DEF Better
  <2>2. HandlerRight(h) /\ pc[h] = "start" /\ CaptureRight
    BY <1>6 DEF InspectionInv, Insp!StartApiDumpProcess
  <2>3. Complete /\ Identified /\ Names(args) /\ HasKey(args)
    BY <2>2 DEF HandlerRight
  <2>4. \A k \in Handlers : HandlerRight(k)'
    <3>1. HandlerRight(h)'
      BY <1>4 DEF HandlerRight
    <3>2. \A k \in Handlers \ {h} : HandlerRight(k)'
      BY <1>2, <1>4, <1>6, <2>1, StillRight
    <3> QED BY <3>1, <3>2
  <2>5. CaptureRight'
    <3>1. /\ Names(args)' /\ HasKey(args)'
          /\ (Names(run)' <=> Names(run)) /\ (HasKey(run)' <=> HasKey(run))
      BY <1>2, <2>1, <2>3 DEF Names, HasKey, Kept
    <3> QED BY <1>2, <1>3, <2>1, <2>2, <2>3, <3>1 DEF CaptureRight, Kept
  <2>6. GivenUp'
    BY <1>2, <1>6, <2>1 DEF InspectionInv, GivenUp, Kept
  <2> QED BY <1>2, <1>6, <2>1, <2>4, <2>5, <2>6, StillRight
<1>7. Quiet' => Quiet
  BY <1>1, <1>2, ConfigurationKept DEF Quiet
<1> QED BY <1>5, <1>6, <1>7 DEF InspectionInv

\* A step of the process: the handlers see nothing of it.
LEMMA ProcessStep ==
  ASSUME InspectionInv, UNCHANGED <<settings, pod, mapped, args, pc, main, blind>>,
         monState' = monState \/ monState' = "TrafficMonitoringFailed",
         monState \notin NotYet,
         Quiet => CaptureRight'
  PROVE  InspectionInv'
<1>1. monState' \notin NotYet
  BY NoneAssumption DEF NotYet
<1>2. Shape'
  BY <1>1, ShapeKept DEF InspectionInv, Shape
<1>3. ASSUME Quiet
      PROVE  /\ \A f \in IdFields : args'[f] \in {Insp!NewPodArgs[f], Wanted(f)'}
             /\ \A k \in Handlers : HandlerRight(k)'
             /\ CaptureRight' /\ GivenUp'
  <2>1. Kept /\ Better
    BY ConfigurationKept DEF Better
  <2>2. GivenUp'
    BY <1>3, <2>1 DEF InspectionInv, GivenUp, Kept
  <2> QED BY <1>3, <2>1, <2>2, StillRight
<1>4. Quiet' => Quiet
  BY ConfigurationKept DEF Quiet
<1> QED BY <1>2, <1>3, <1>4 DEF InspectionInv

\* The process reads arguments that are right, and resolves them to the service.
LEMMA ProcessSteps ==
  ASSUME InspectionInv, Insp!StartApiDumpProcess_run \/ Insp!apidump_fail
         \/ Insp!LookupService
  PROVE  InspectionInv'
<1>1. /\ UNCHANGED <<settings, pod, mapped, args, pc, main, blind>>
      /\ monState' = monState \/ monState' = "TrafficMonitoringFailed"
      /\ process \in {"namespace", "lookup"}
  BY DEF Insp!StartApiDumpProcess_run, Insp!apidump_fail, Insp!LookupService, Insp!handlers
<1>2. monState \notin NotYet /\ process # None
  BY <1>1, NoneAssumption DEF InspectionInv, Shape, Fresh
<1>3. ASSUME Quiet PROVE CaptureRight'
  <2>1. /\ Kept /\ Shape /\ CaptureRight
        /\ Complete /\ Identified /\ Names(args) /\ HasKey(args)
        /\ Complete' /\ Identified' /\ Names(args)' /\ HasKey(args)'
    <3>1. Kept /\ Shape /\ CaptureRight
      BY <1>1, <1>3, ConfigurationKept DEF InspectionInv
    <3>2. Complete /\ Identified /\ Names(args) /\ HasKey(args)
      BY <1>2, <3>1 DEF CaptureRight
    <3> QED BY <1>1, <3>1, <3>2 DEF Names, HasKey, Kept
  <2>2. run' = run => (Names(run)' <=> Names(run)) /\ (HasKey(run)' <=> HasKey(run))
    BY <2>1 DEF Names, HasKey, Kept
  <2>3. CASE Insp!StartApiDumpProcess_run
    <3>1. run' = args /\ process' = "lookup" /\ podService' = podService
      BY <2>3 DEF Insp!StartApiDumpProcess_run
    <3>2. Names(run)' /\ HasKey(run)'
      BY <2>1, <3>1 DEF Names, HasKey, Kept
    <3> QED BY <2>1, <3>1, <3>2 DEF CaptureRight, Kept
  <2>4. CASE Insp!apidump_fail
    <3>1. run' = run /\ process' = "ended" /\ podService' = podService
      BY <2>4 DEF Insp!apidump_fail
    <3> QED BY <2>1, <2>2, <3>1 DEF CaptureRight, Kept
  <2>5. CASE Insp!LookupService
    <3>1. /\ run' = run /\ process = "lookup" /\ process' = "capturing"
          /\ podService' =
               CASE run.discovery -> <<"discovered", run.name, run.cluster, run.namespace,
                                       run.workload, run.type>>
                 [] ~run.discovery /\ run.workspace # None ->
                      <<"application", run.workspace, run.systemEnv>>
                 [] OTHER -> <<"project", run.project>>
      BY <2>5 DEF Insp!LookupService
    <3>2. Names(run) /\ HasKey(run)
      BY <2>1, <3>1 DEF CaptureRight
    <3>3. podService' = Insp!Promised
      BY <1>3, <2>1, <3>1, <3>2, Served
    <3> QED BY <2>1, <2>2, <3>1, <3>2, <3>3 DEF CaptureRight, Kept
  <2> QED BY <2>3, <2>4, <2>5
<1> QED BY <1>1, <1>2, <1>3, ProcessStep

\* Every step keeps InspectionInv.
LEMMA InspectionStep ==
  ASSUME InspectionInv, [Insp!Next]_(Insp!vars)
  PROVE  InspectionInv'
<1>1. CASE Insp!Next
  BY <1>1, StartDaemonsetStep, AddStep, ModifyStep, ReadStep, ContainerStep,
    ExplicitStep, DiscoveredStep, CredsStep, OptionsStep, ChangeStep, StartProcessStep,
    ProcessSteps DEF Insp!Next
<1>2. CASE UNCHANGED Insp!vars
  <2>1. CASE monState \in NotYet
    <3>1. Shape'
      BY <1>2, <2>1 DEF InspectionInv, Shape, Fresh, NotYet, Insp!vars, Insp!handlers,
        Insp!capture
    <3> QED BY <1>2, <2>1, <3>1 DEF InspectionInv, Quiet, NotYet, Insp!vars
  <2>2. CASE monState \notin NotYet
    <3>1. UNCHANGED <<settings, pod, mapped, monState, args, pc, main, process, run,
                      podService, blind>>
      BY <1>2 DEF Insp!vars, Insp!handlers, Insp!capture
    <3>2. Quiet => CaptureRight'
      BY <3>1, ConfigurationKept, StillRight DEF Better
    <3> QED BY <2>2, <3>1, <3>2, ProcessStep
  <2> QED BY <2>1, <2>2
<1> QED BY <1>1, <1>2

\* However many handlers write the PodArgs of a pod while its process reads it, the
\* process captures for the service that the configuration asks for, with a key, and
\* the pod is given up only when its configuration names no service or is incomplete
\* (kube_events_worker.go: inspectPodForEnvVars; apidump_process.go:
\* StartApiDumpProcess).
THEOREM InspectionTheorem == Insp!Spec => []AsConfigured
<1>1. InspectionInv => AsConfigured
  <2> SUFFICES ASSUME InspectionInv, Quiet,
                      settings # None /\ ~blind /\ monState \notin NotYet
               PROVE  /\ podService # None => podService = Insp!Promised /\ run.key # None
                      /\ ~mapped => \/ Insp!Promised = None
                                    \/ ~settings.discovery
                                       /\ Insp!MissingAttrs(Insp!Env(Insp!Configured)) # {}
    BY DEF AsConfigured, Insp!AsConfigured, Quiet, NotYet
  <2> QED BY DEF InspectionInv, CaptureRight, GivenUp, HasKey, ConfiguredEnv
<1> QED BY <1>1, InspectionInit, InspectionStep, PTL DEF Insp!Spec
=============================================================================
