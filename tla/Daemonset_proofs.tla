-------------------------- MODULE Daemonset_proofs --------------------------
(***************************************************************************)
(* Theorems about Daemonset, for any sets of pods, handlers and objects.   *)
(***************************************************************************)
EXTENDS Daemonset, TLAPS

\* A goroutine in the middle of a pod knows which pod it is; past the lookup or
\* the store it holds an object that was made for this pod.
Holding == Busy \ {"add_store", "start_load", "del_load", "mod_load",
                   "term_load", "unm_load"}

Working ==
  \A g \in Goroutines :
    /\ pc[g] \in Busy => uid[g] \in Pods
    /\ pc[g] \in Holding => arg[g] \in Args

TypeInv == TypeOK /\ Working

\* The phases of an object's life, as its state and its goroutine show them.
ObjectOK(a) ==
  /\ proc[a] \in LiveStates \cup {"ended"} => mon[a] \in EndableStates
  /\ proc[a] = "done" <=> mon[a] \in FinalStates
  /\ closed[a] => mon[a] = "RemovePodFromMap"

\* A goroutine that is about to give an object its first state, or to spawn
\* its apidump goroutine, is the only one, and finds the object unused.
Preparing == {"add_state", "start_spawn"}

FirstStates == {"Unset", "PodTerminated", "DaemonSetShutdown"}

PreparerOK(g) ==
  /\ At(g, "add_state") => /\ proc[arg[g]] = "none"
                           /\ mon[arg[g]] \in FirstStates
  /\ At(g, "start_spawn") => /\ proc[arg[g]] = "none"
                             /\ mon[arg[g]] \in EndableStates

OnePreparer ==
  \A g, h \in Goroutines :
    pc[g] \in Preparing /\ pc[h] \in Preparing /\ arg[g] = arg[h] => g = h

ProcessInv ==
  /\ \A a \in Args : ObjectOK(a)
  /\ \A g \in Goroutines : PreparerOK(g)
  /\ OnePreparer

LEMMA TypeInit == Init => TypeInv
<1> SUFFICES ASSUME Init PROVE TypeInv
  OBVIOUS
<1> USE DaemonsetAssumption DEF DaemonsetAssumption, Init
<1>1. /\ phase \in [Pods -> Phases]
      /\ podMap \in [Pods -> Args \cup {NoArgs}]
      /\ owner \in [Args -> Pods \cup {NoPod}]
      /\ mon \in [Args -> MonStates]
      /\ chan \in [Args -> 0..StopChanCap]
      /\ closed \in [Args -> BOOLEAN]
      /\ proc \in [Args -> ProcStates]
  BY DEF Phases, MonStates, ProcStates
<1>2. /\ pc \in [Goroutines -> PCs]
      /\ uid \in [Goroutines -> Pods \cup {NoPod}]
      /\ arg \in [Goroutines -> Args \cup {NoArgs}]
      /\ late \in SUBSET Goroutines
  BY DEF PCs, Resting
<1>3. /\ todo \in [Scanners -> SUBSET Pods]
      /\ uids \in SUBSET Pods
      /\ stat \in [Pods -> Phases]
  BY DEF Phases
<1>4. Working
  BY DEF Working, Holding, Busy
<1>5. QED
  BY <1>1, <1>2, <1>3, <1>4 DEF TypeInv, TypeOK

LEMMA AfterIsResting ==
  ASSUME NEW g
  PROVE  /\ AfterAdd(g) \in {"scan", "idle"}
         /\ AfterStart(g) \in {"scan", "visit", "idle"}
BY DEF AfterAdd, AfterStart

LEMMA TypeCall ==
  ASSUME TypeInv, NEW g \in Goroutines, CallStep(g)
  PROVE  TypeInv'
<1> USE DaemonsetAssumption, AfterIsResting DEF DaemonsetAssumption, TypeInv,
      TypeOK, Working, Holding, Busy, Resting, PCs, At, Goto, GotoWith, Take,
      Leave, Goroutines, Scanners, cluster, objects, loops, control, signals
<1>1. CASE addPodArgsToMap_store(g)
  <2>1. CASE podMap[uid[g]] = NoArgs
    <3>1. PICK a \in Args : /\ NewPodArgs(a, uid[g])
                            /\ podMap' = [podMap EXCEPT ![uid[g]] = a]
                            /\ GotoWith(g, "add_state", a)
      BY <1>1, <2>1 DEF addPodArgsToMap_store, FreeArgs
    <3>2. QED
      BY <1>1, <2>1, <3>1 DEF addPodArgsToMap_store, NewPodArgs, MonStates, FinalStates, ProcStates
  <2>2. CASE podMap[uid[g]] # NoArgs
    BY <1>1, <2>2 DEF addPodArgsToMap_store
  <2>3. QED BY <2>1, <2>2
<1>2. CASE addPodArgsToMap_state(g)
  BY <1>2 DEF addPodArgsToMap_state, StartingState, MonStates, FinalStates
<1>3. CASE StartApiDumpProcess_load(g)
  BY <1>3 DEF StartApiDumpProcess_load, getPodArgsFromMap
<1>4. CASE StartApiDumpProcess_change(g)
  BY <1>4 DEF StartApiDumpProcess_change, changePodTrafficMonitorState, MonStates, FinalStates
<1>5. CASE StartApiDumpProcess_spawn(g)
  BY <1>5 DEF StartApiDumpProcess_spawn, ProcStates
<1>6. CASE SignalApiDumpProcessToStop_load(g)
  BY <1>6 DEF SignalApiDumpProcessToStop_load, ReturnFromSignal
<1>7. CASE SignalApiDumpProcessToStop_send(g)
  BY <1>7 DEF SignalApiDumpProcessToStop_send, ReturnFromSignal
<1>8. CASE SignalApiDumpProcessToStop_panic(g)
  BY <1>8 DEF SignalApiDumpProcessToStop_panic, Goroutines
<1>9. QED
  BY <1>1, <1>2, <1>3, <1>4, <1>5, <1>6, <1>7, <1>8 DEF CallStep

LEMMA TypeHandler ==
  ASSUME TypeInv, NEW g \in Handlers, HandlerStep(g)
  PROVE  TypeInv'
<1> USE DaemonsetAssumption, AfterIsResting DEF DaemonsetAssumption, TypeInv,
      TypeOK, Working, Holding, Busy, Resting, PCs, At, Goto, GotoWith, Take,
      Leave, Goroutines, Scanners, cluster, objects, loops, control, signals
<1>1. CASE handlePodDeleteEvent_load(g)
  BY <1>1 DEF handlePodDeleteEvent_load, getPodArgsFromMap
<1>2. CASE handlePodDeleteEvent_change(g)
  BY <1>2
  DEF handlePodDeleteEvent_change, changePodTrafficMonitorState, MonStates, FinalStates
<1>3. CASE handlePodModifyEvent_load(g)
  BY <1>3 DEF handlePodModifyEvent_load, getPodArgsFromMap
<1>4. CASE handlePodModifyEvent_check(g)
  BY <1>4 DEF handlePodModifyEvent_check
<1>5. CASE handlePodModifyEvent_inspect(g)
  BY <1>5 DEF handlePodModifyEvent_inspect
<1>6. CASE handlePodModifyEvent_change(g)
  BY <1>6
  DEF handlePodModifyEvent_change, changePodTrafficMonitorState, MonStates, FinalStates
<1>7. QED
  BY <1>1, <1>2, <1>3, <1>4, <1>5, <1>6 DEF HandlerStep

LEMMA TypeScan ==
  ASSUME TypeInv, NEW g \in Scanners, ScanStep(g)
  PROVE  TypeInv'
<1> USE DaemonsetAssumption, AfterIsResting DEF DaemonsetAssumption, TypeInv,
      TypeOK, Working, Holding, Busy, Resting, PCs, At, Goto, GotoWith, Take,
      Leave, Goroutines, Scanners, cluster, objects, loops, control, signals
<1>1. CASE GetPodsInAgentNode(g)
  BY <1>1 DEF GetPodsInAgentNode, PodLists, Listed
<1>2. CASE scan_inspect(g)
  BY <1>2 DEF scan_inspect
<1>3. QED
  BY <1>1, <1>2 DEF ScanStep

LEMMA TypeHealth ==
  ASSUME TypeInv, HealthStep
  PROVE  TypeInv'
<1> USE DaemonsetAssumption, AfterIsResting DEF DaemonsetAssumption, TypeInv,
      TypeOK, Working, Holding, Busy, Resting, PCs, At, Goto, GotoWith, Take,
      Leave, Goroutines, Scanners, cluster, objects, loops, control, signals
<1>1. CASE checkPodsHealth_begin
  BY <1>1 DEF checkPodsHealth_begin, Keys
<1>2. CASE PodsHealthWorker_stop
  BY <1>2 DEF PodsHealthWorker_stop
<1>3. CASE checkPodsHealth_scanned
  BY <1>3 DEF checkPodsHealth_scanned
<1>4. CASE GetPodsStatusByUIDs
  BY <1>4 DEF GetPodsStatusByUIDs, PodLists, Listed, Phases
<1>5. CASE checkPodsHealth_visit
  BY <1>5 DEF checkPodsHealth_visit
<1>6. CASE checkPodsHealth_done
  BY <1>6 DEF checkPodsHealth_done, Phases
<1>7. CASE handleTerminatedPod_load
  BY <1>7 DEF handleTerminatedPod_load, getPodArgsFromMap
<1>8. CASE handleTerminatedPod_change
  BY <1>8
  DEF handleTerminatedPod_change, changePodTrafficMonitorState, MonStates, FinalStates
<1>9. CASE handleUnmonitoredPod_load
  BY <1>9 DEF handleUnmonitoredPod_load, getPodArgsFromMap
<1>10. CASE handleUnmonitoredPod_check
  BY <1>10 DEF handleUnmonitoredPod_check
<1>11. CASE pruneStoppedProcesses_begin
  BY <1>11 DEF pruneStoppedProcesses_begin, RangeSets
<1>12. CASE pruneStoppedProcesses_visit
  BY <1>12 DEF pruneStoppedProcesses_visit, Keys
<1>13. CASE pruneStoppedProcesses_check
  <2>1. arg["health"] \in Args
    BY <1>13 DEF pruneStoppedProcesses_check
  <2>2. mon' \in [Args -> MonStates]
    BY <1>13, <2>1 DEF pruneStoppedProcesses_check, MonStates, FinalStates
  <2>3. closed' \in [Args -> BOOLEAN]
    <3>1. closed' = closed \/ closed' = [closed EXCEPT ![arg["health"]] = TRUE]
      BY <1>13 DEF pruneStoppedProcesses_check
    <3>2. [closed EXCEPT ![arg["health"]] = TRUE] \in [Args -> BOOLEAN]
      BY <2>1
    <3> QED
      BY <3>1, <3>2
  <2>4. Leave("health", "prune") \/ Goto("health", "prune_delete")
    BY <1>13 DEF pruneStoppedProcesses_check
  <2>5. At("health", "prune_check")
    BY <1>13 DEF pruneStoppedProcesses_check
  <2>6. UNCHANGED <<cluster, podMap, owner, chan, proc, loops, signals>>
    BY <1>13 DEF pruneStoppedProcesses_check
  <2>7. QED
    BY <2>1, <2>2, <2>3, <2>4, <2>5, <2>6
<1>14. CASE pruneStoppedProcesses_delete
  BY <1>14 DEF pruneStoppedProcesses_delete
<1>15. CASE pruneStoppedProcesses_end
  BY <1>15 DEF pruneStoppedProcesses_end
<1>16. QED
  BY <1>1, <1>2, <1>3, <1>4, <1>5, <1>6, <1>7, <1>8, <1>9, <1>10, <1>11,
     <1>12, <1>13, <1>14, <1>15 DEF HealthStep

LEMMA TypeMain ==
  ASSUME TypeInv, MainStep
  PROVE  TypeInv'
<1> USE DaemonsetAssumption, AfterIsResting DEF DaemonsetAssumption, TypeInv,
      TypeOK, Working, Holding, Busy, Resting, PCs, At, Goto, GotoWith, Take,
      Leave, Goroutines, Scanners, cluster, objects, loops, control, signals
<1>1. CASE StartProcessInExistingPods_done
  BY <1>1 DEF StartProcessInExistingPods_done
<1>2. CASE Run_signal
  BY <1>2 DEF Run_signal
<1>3. CASE StopAllApiDumpProcesses_begin
  BY <1>3 DEF StopAllApiDumpProcesses_begin, RangeSets
<1>4. CASE StopAllApiDumpProcesses_visit
  BY <1>4 DEF StopAllApiDumpProcesses_visit, Keys
<1>5. CASE StopAllApiDumpProcesses_change
  BY <1>5
  DEF StopAllApiDumpProcesses_change, changePodTrafficMonitorState, MonStates, FinalStates
<1>6. CASE StopAllApiDumpProcesses_delete
  BY <1>6 DEF StopAllApiDumpProcesses_delete
<1>7. CASE StopAllApiDumpProcesses_visited
  BY <1>7 DEF StopAllApiDumpProcesses_visited
<1>8. CASE StopAllApiDumpProcesses_wait
  BY <1>8 DEF StopAllApiDumpProcesses_wait
<1>9. QED
  BY <1>1, <1>2, <1>3, <1>4, <1>5, <1>6, <1>7, <1>8 DEF MainStep

LEMMA TypeProcess ==
  ASSUME TypeInv, NEW a \in Args, ProcessStep(a) \/ apidump_finish(a)
  PROVE  TypeInv'
<1> USE DaemonsetAssumption, AfterIsResting DEF DaemonsetAssumption, TypeInv,
      TypeOK, Working, Holding, Busy, Resting, PCs, At, Goto, GotoWith, Take,
      Leave, Goroutines, Scanners, cluster, objects, loops, control, signals
<1>1. CASE apidump_begin(a)
  BY <1>1 DEF apidump_begin, ProcStep, ProcStates
<1>2. CASE apidump_receive(a)
  BY <1>2 DEF apidump_receive, ProcStep, ProcStates
<1>3. CASE apidump_finish(a)
  BY <1>3 DEF apidump_finish, ProcStep, ProcStates
<1>4. CASE apidump_signal(a)
  BY <1>4 DEF apidump_signal, ProcStep, ProcStates
<1>5. CASE apidump_return(a)
  BY <1>5 DEF apidump_return, ProcStep, ProcStates
<1>6. CASE apidump_final(a)
  BY <1>6 DEF apidump_final, ProcStep, ProcStates, MonStates, FinalStates
<1>7. QED
  BY <1>1, <1>2, <1>3, <1>4, <1>5, <1>6 DEF ProcessStep

LEMMA TypeNode ==
  ASSUME TypeInv, NodeStep
  PROVE  TypeInv'
<1> USE DaemonsetAssumption, AfterIsResting DEF DaemonsetAssumption, TypeInv,
      TypeOK, Working, Holding, Busy, Resting, PCs, At, Goto, GotoWith, Take,
      Leave, Goroutines, Scanners, cluster, objects, loops, control, signals
<1>1. CASE \E p \in Pods : PodAdded(p) \/ PodModified(p) \/ PodDeleted(p)
  <2>1. PICK p \in Pods : PodAdded(p) \/ PodModified(p) \/ PodDeleted(p)
    BY <1>1
  <2>2. PICK l \in {"add_store", "mod_load", "del_load"} :
          KubernetesPodEventsWorker(p, l)
    BY <2>1 DEF PodAdded, PodModified, PodDeleted, PodEvent
  <2>3. /\ phase' \in [Pods -> Phases]
        /\ UNCHANGED <<watching, podMap, objects, proc, loops, signals>>
    BY <2>1 DEF PodAdded, PodModified, PodDeleted, PodEvent, Phases
  <2>4. QED
    BY <2>2, <2>3 DEF KubernetesPodEventsWorker
<1>2. CASE \E p \in Pods : PodStopped(p)
  BY <1>2 DEF PodStopped, Phases
<1>3. CASE KubernetesPodEventsWorker_stop
  BY <1>3 DEF KubernetesPodEventsWorker_stop
<1>4. CASE SIGTERM
  BY <1>4 DEF SIGTERM, ProcStates
<1>5. QED
  BY <1>1, <1>2, <1>3, <1>4 DEF NodeStep

LEMMA TypeNext ==
  ASSUME TypeInv, [Next]_vars
  PROVE  TypeInv'
<1>1. CASE UNCHANGED vars
  BY <1>1 DEF vars, TypeInv, TypeOK, Working
<1>2. CASE Next
  BY <1>2, TypeCall, TypeHandler, TypeScan, TypeHealth, TypeMain, TypeProcess,
     TypeNode DEF Next, Goroutine, Process
<1>3. QED
  BY <1>1, <1>2

\* Type correctness: the map, the PodArgs objects, the loops and the goroutines'
\* locals of the daemonset keep to the values the code can give them, and a
\* stop channel never holds more than its capacity.
THEOREM TypeCorrect == Spec => []TypeOK
<1>1. Spec => []TypeInv
  <2>1. TypeInv /\ [Next]_vars => TypeInv'
    BY TypeNext
  <2>2. QED
    BY TypeInit, <2>1, PTL DEF Spec
<1>2. TypeInv => TypeOK
  BY DEF TypeInv
<1>3. QED
  BY <1>1, <1>2, PTL

\* The lemmas of the process invariant: each step keeps it.  A step that changes
\* no object's state, channel or goroutine, and brings no goroutine to one of
\* the points in Preparing, keeps it for that reason alone.
LEMMA ProcessFrame ==
  ASSUME TypeInv, ProcessInv, UNCHANGED <<mon, closed, proc>>,
         \A g \in Goroutines :
           pc'[g] \in Preparing => pc'[g] = pc[g] /\ arg'[g] = arg[g]
  PROVE  ProcessInv'
BY DEF ProcessInv, ObjectOK, PreparerOK, OnePreparer, Preparing, At

LEMMA ProcessCall ==
  ASSUME TypeInv, ProcessInv, NEW g \in Goroutines, CallStep(g)
  PROVE  ProcessInv'
<1> USE DaemonsetAssumption, AfterIsResting DEF DaemonsetAssumption, TypeInv,
      TypeOK, Working, Holding, Busy, Preparing, At, Goto, GotoWith, Take,
      Leave, Goroutines, Scanners, cluster, objects, control
<1>1. CASE addPodArgsToMap_store(g)
  <2>1. CASE podMap[uid[g]] = NoArgs
    <3>1. PICK a \in Args : /\ a \in FreeArgs
                            /\ NewPodArgs(a, uid[g])
                            /\ GotoWith(g, "add_state", a)
      BY <1>1, <2>1 DEF addPodArgsToMap_store, FreeArgs
    <3>2. \A h \in Goroutines : arg[h] # a
      BY <3>1 DEF FreeArgs
    <3>3. \A b \in Args : ObjectOK(b)'
      BY <3>1 DEF NewPodArgs, ProcessInv, ObjectOK, FinalStates, LiveStates
    <3>4. \A h \in Goroutines : PreparerOK(h)'
      BY <3>1, <3>2 DEF NewPodArgs, ProcessInv, PreparerOK, FirstStates
    <3>5. OnePreparer'
      BY <3>1, <3>2 DEF ProcessInv, OnePreparer
    <3>6. QED
      BY <3>3, <3>4, <3>5 DEF ProcessInv
  <2>2. CASE podMap[uid[g]] # NoArgs
    BY <1>1, <2>2, ProcessFrame DEF addPodArgsToMap_store
  <2>3. QED
    BY <2>1, <2>2
<1>2. CASE addPodArgsToMap_state(g)
  BY <1>2 DEF addPodArgsToMap_state, MayChange,
     isTrafficMonitoringInFinalState, StartingState, ProcessInv, ObjectOK,
     PreparerOK, OnePreparer, FirstStates, FinalStates, LiveStates,
     EndableStates
<1>3. CASE StartApiDumpProcess_load(g)
  BY <1>3, ProcessFrame DEF StartApiDumpProcess_load, getPodArgsFromMap
<1>4. CASE StartApiDumpProcess_change(g)
  <2>1. CASE /\ mon[arg[g]] = "PodRunning"
             /\ mon' = [mon EXCEPT ![arg[g]] = "TrafficMonitoringRunning"]
             /\ Goto(g, "start_spawn")
    <3>1. At(g, "start_change") /\ UNCHANGED <<closed, proc>>
      BY <1>4 DEF StartApiDumpProcess_change
    <3>2. arg[g] \in Args /\ ObjectOK(arg[g])
      BY <3>1 DEF ProcessInv
    <3>3. proc[arg[g]] = "none"
      BY <2>1, <3>2 DEF ObjectOK, ProcStates, LiveStates, FinalStates,
                        EndableStates
    <3>4. \A h \in Goroutines : pc[h] \in Preparing => arg[h] # arg[g]
      BY <2>1 DEF ProcessInv, PreparerOK, FirstStates, EndableStates
    <3>5. \A b \in Args : ObjectOK(b)'
      BY <2>1, <3>1, <3>3 DEF ProcessInv, ObjectOK, LiveStates, FinalStates
    <3>6. \A h \in Goroutines : PreparerOK(h)'
      BY <2>1, <3>1, <3>3, <3>4 DEF ProcessInv, PreparerOK, EndableStates
    <3>7. OnePreparer'
      BY <2>1, <3>1, <3>4 DEF ProcessInv, OnePreparer
    <3>8. QED
      BY <3>5, <3>6, <3>7 DEF ProcessInv
  <2>2. CASE UNCHANGED <<mon, closed, proc>> /\ Leave(g, AfterStart(g))
    BY <2>2, ProcessFrame
  <2>3. QED
    BY <1>4, <2>1, <2>2 DEF StartApiDumpProcess_change,
       changePodTrafficMonitorState, MayChange
<1>5. CASE StartApiDumpProcess_spawn(g)
  BY <1>5 DEF StartApiDumpProcess_spawn, ProcessInv, ObjectOK, PreparerOK,
     OnePreparer, FirstStates, FinalStates, LiveStates, EndableStates
<1>6. CASE SignalApiDumpProcessToStop_load(g)
  BY <1>6, ProcessFrame DEF SignalApiDumpProcessToStop_load,
     ReturnFromSignal
<1>7. CASE SignalApiDumpProcessToStop_send(g)
  BY <1>7, ProcessFrame DEF SignalApiDumpProcessToStop_send,
     ReturnFromSignal
<1>8. CASE SignalApiDumpProcessToStop_panic(g)
  BY <1>8, ProcessFrame DEF SignalApiDumpProcessToStop_panic
<1>9. QED
  BY <1>1, <1>2, <1>3, <1>4, <1>5, <1>6, <1>7, <1>8 DEF CallStep

LEMMA ProcessHandler ==
  ASSUME TypeInv, ProcessInv, NEW g \in Handlers, HandlerStep(g)
  PROVE  ProcessInv'
<1> USE DaemonsetAssumption, AfterIsResting DEF DaemonsetAssumption, TypeInv,
      TypeOK, Working, Holding, Busy, Preparing, At, Goto, GotoWith, Take,
      Leave, Goroutines, Scanners, cluster, objects, control
<1>1. CASE handlePodDeleteEvent_load(g)
  BY <1>1, ProcessFrame DEF handlePodDeleteEvent_load, getPodArgsFromMap
<1>2. CASE handlePodDeleteEvent_change(g)
  BY <1>2 DEF handlePodDeleteEvent_change, changePodTrafficMonitorState,
     MayChange, isTrafficMonitoringInFinalState, ProcessInv, ObjectOK,
     PreparerOK, OnePreparer, FirstStates, FinalStates, LiveStates,
     EndableStates
<1>3. CASE handlePodModifyEvent_load(g)
  BY <1>3, ProcessFrame DEF handlePodModifyEvent_load, getPodArgsFromMap
<1>4. CASE handlePodModifyEvent_check(g)
  BY <1>4, ProcessFrame DEF handlePodModifyEvent_check
<1>5. CASE handlePodModifyEvent_inspect(g)
  BY <1>5, ProcessFrame DEF handlePodModifyEvent_inspect
<1>6. CASE handlePodModifyEvent_change(g)
  BY <1>6 DEF handlePodModifyEvent_change, changePodTrafficMonitorState,
     MayChange, isTrafficMonitoringInFinalState, ProcessInv, ObjectOK,
     PreparerOK, OnePreparer, FirstStates, FinalStates, LiveStates,
     EndableStates
<1>7. QED
  BY <1>1, <1>2, <1>3, <1>4, <1>5, <1>6 DEF HandlerStep

LEMMA ProcessScan ==
  ASSUME TypeInv, ProcessInv, NEW g \in Scanners, ScanStep(g)
  PROVE  ProcessInv'
<1> USE DaemonsetAssumption, AfterIsResting DEF DaemonsetAssumption, TypeInv,
      TypeOK, Working, Holding, Busy, Preparing, At, Goto, GotoWith, Take,
      Leave, Goroutines, Scanners, cluster, objects, control
<1>1. CASE GetPodsInAgentNode(g)
  BY <1>1, ProcessFrame DEF GetPodsInAgentNode
<1>2. CASE scan_inspect(g)
  BY <1>2, ProcessFrame DEF scan_inspect
<1>3. QED
  BY <1>1, <1>2 DEF ScanStep

LEMMA ProcessHealth ==
  ASSUME TypeInv, ProcessInv, HealthStep
  PROVE  ProcessInv'
<1> USE DaemonsetAssumption, AfterIsResting DEF DaemonsetAssumption, TypeInv,
      TypeOK, Working, Holding, Busy, Preparing, At, Goto, GotoWith, Take,
      Leave, Goroutines, Scanners, cluster, objects, control
<1>1. CASE checkPodsHealth_begin
  BY <1>1, ProcessFrame DEF checkPodsHealth_begin
<1>2. CASE PodsHealthWorker_stop
  BY <1>2, ProcessFrame DEF PodsHealthWorker_stop
<1>3. CASE checkPodsHealth_scanned
  BY <1>3, ProcessFrame DEF checkPodsHealth_scanned
<1>4. CASE GetPodsStatusByUIDs
  BY <1>4, ProcessFrame DEF GetPodsStatusByUIDs
<1>5. CASE checkPodsHealth_visit
  BY <1>5, ProcessFrame DEF checkPodsHealth_visit
<1>6. CASE checkPodsHealth_done
  BY <1>6, ProcessFrame DEF checkPodsHealth_done
<1>7. CASE handleTerminatedPod_load
  BY <1>7, ProcessFrame DEF handleTerminatedPod_load, getPodArgsFromMap
<1>8. CASE handleTerminatedPod_change
  BY <1>8 DEF handleTerminatedPod_change, changePodTrafficMonitorState,
     MayChange, isTrafficMonitoringInFinalState, ProcessInv, ObjectOK,
     PreparerOK, OnePreparer, FirstStates, FinalStates, LiveStates,
     EndableStates
<1>9. CASE handleUnmonitoredPod_load
  BY <1>9, ProcessFrame DEF handleUnmonitoredPod_load, getPodArgsFromMap
<1>10. CASE handleUnmonitoredPod_check
  BY <1>10, ProcessFrame DEF handleUnmonitoredPod_check
<1>11. CASE pruneStoppedProcesses_begin
  BY <1>11, ProcessFrame DEF pruneStoppedProcesses_begin
<1>12. CASE pruneStoppedProcesses_visit
  BY <1>12, ProcessFrame DEF pruneStoppedProcesses_visit
<1>13. CASE pruneStoppedProcesses_check
  BY <1>13 DEF pruneStoppedProcesses_check, ProcessInv, ObjectOK,
     PreparerOK, OnePreparer, FirstStates, FinalStates, LiveStates,
     EndableStates
<1>14. CASE pruneStoppedProcesses_delete
  BY <1>14, ProcessFrame DEF pruneStoppedProcesses_delete
<1>15. CASE pruneStoppedProcesses_end
  BY <1>15, ProcessFrame DEF pruneStoppedProcesses_end
<1>16. QED
  BY <1>1, <1>2, <1>3, <1>4, <1>5, <1>6, <1>7, <1>8, <1>9, <1>10, <1>11,
     <1>12, <1>13, <1>14, <1>15 DEF HealthStep

LEMMA ProcessMain ==
  ASSUME TypeInv, ProcessInv, MainStep
  PROVE  ProcessInv'
<1> USE DaemonsetAssumption, AfterIsResting DEF DaemonsetAssumption, TypeInv,
      TypeOK, Working, Holding, Busy, Preparing, At, Goto, GotoWith, Take,
      Leave, Goroutines, Scanners, cluster, objects, control
<1>1. CASE StartProcessInExistingPods_done
  BY <1>1, ProcessFrame DEF StartProcessInExistingPods_done
<1>2. CASE Run_signal
  BY <1>2, ProcessFrame DEF Run_signal
<1>3. CASE StopAllApiDumpProcesses_begin
  BY <1>3, ProcessFrame DEF StopAllApiDumpProcesses_begin
<1>4. CASE StopAllApiDumpProcesses_visit
  BY <1>4, ProcessFrame DEF StopAllApiDumpProcesses_visit
<1>5. CASE StopAllApiDumpProcesses_change
  BY <1>5 DEF StopAllApiDumpProcesses_change, changePodTrafficMonitorState,
     MayChange, isTrafficMonitoringInFinalState, ProcessInv, ObjectOK,
     PreparerOK, OnePreparer, FirstStates, FinalStates, LiveStates,
     EndableStates
<1>6. CASE StopAllApiDumpProcesses_delete
  BY <1>6, ProcessFrame DEF StopAllApiDumpProcesses_delete
<1>7. CASE StopAllApiDumpProcesses_visited
  BY <1>7, ProcessFrame DEF StopAllApiDumpProcesses_visited
<1>8. CASE StopAllApiDumpProcesses_wait
  BY <1>8, ProcessFrame DEF StopAllApiDumpProcesses_wait
<1>9. QED
  BY <1>1, <1>2, <1>3, <1>4, <1>5, <1>6, <1>7, <1>8 DEF MainStep

LEMMA ProcessProcess ==
  ASSUME TypeInv, ProcessInv, NEW a \in Args, ProcessStep(a) \/ apidump_finish(a)
  PROVE  ProcessInv'
<1> USE DaemonsetAssumption, AfterIsResting DEF DaemonsetAssumption, TypeInv,
      TypeOK, Working, Holding, Busy, Preparing, At, Goto, GotoWith, Take,
      Leave, Goroutines, Scanners, cluster, objects, control
<1>1. CASE apidump_begin(a)
  BY <1>1 DEF apidump_begin, ProcStep, ProcessInv, ObjectOK, PreparerOK,
     OnePreparer, FirstStates, FinalStates, LiveStates, EndableStates
<1>2. CASE apidump_receive(a)
  BY <1>2 DEF apidump_receive, ProcStep, ProcessInv, ObjectOK, PreparerOK,
     OnePreparer, FirstStates, FinalStates, LiveStates, EndableStates
<1>3. CASE apidump_finish(a)
  BY <1>3 DEF apidump_finish, ProcStep, ProcessInv, ObjectOK, PreparerOK,
     OnePreparer, FirstStates, FinalStates, LiveStates, EndableStates
<1>4. CASE apidump_signal(a)
  BY <1>4 DEF apidump_signal, ProcStep, ProcessInv, ObjectOK, PreparerOK,
     OnePreparer, FirstStates, FinalStates, LiveStates, EndableStates
<1>5. CASE apidump_return(a)
  BY <1>5 DEF apidump_return, ProcStep, ProcessInv, ObjectOK, PreparerOK,
     OnePreparer, FirstStates, FinalStates, LiveStates, EndableStates
<1>6. CASE apidump_final(a)
  BY <1>6 DEF apidump_final, ProcStep, MayChange,
     isTrafficMonitoringInFinalState, ProcessInv, ObjectOK, PreparerOK,
     OnePreparer, FirstStates, FinalStates, LiveStates, EndableStates
<1>7. QED
  BY <1>1, <1>2, <1>3, <1>4, <1>5, <1>6 DEF ProcessStep

LEMMA ProcessNode ==
  ASSUME TypeInv, ProcessInv, NodeStep
  PROVE  ProcessInv'
<1> USE DaemonsetAssumption, AfterIsResting DEF DaemonsetAssumption, TypeInv,
      TypeOK, Working, Holding, Busy, Preparing, At, Goto, GotoWith, Take,
      Leave, Goroutines, Scanners, cluster, objects, control
<1>1. CASE \E p \in Pods : PodAdded(p) \/ PodModified(p) \/ PodDeleted(p)
  <2>1. PICK p \in Pods, l \in {"add_store", "mod_load", "del_load"} :
          KubernetesPodEventsWorker(p, l)
    BY <1>1 DEF PodAdded, PodModified, PodDeleted, PodEvent
  <2>2. UNCHANGED <<mon, closed, proc>>
    BY <1>1 DEF PodAdded, PodModified, PodDeleted, PodEvent
  <2>3. QED
    BY <2>1, <2>2, ProcessFrame DEF KubernetesPodEventsWorker
<1>2. CASE \E p \in Pods : PodStopped(p)
  BY <1>2, ProcessFrame DEF PodStopped
<1>3. CASE KubernetesPodEventsWorker_stop
  BY <1>3, ProcessFrame DEF KubernetesPodEventsWorker_stop
<1>4. CASE SIGTERM
  <2>1. UNCHANGED <<mon, closed>>
    BY <1>4 DEF SIGTERM
  <2>2. \A a \in Args :
          \/ proc'[a] = proc[a]
          \/ proc[a] = "listening" /\ proc'[a] = "signalled"
    BY <1>4 DEF SIGTERM
  <2>3. \A g \in Goroutines :
          pc'[g] \in Preparing => pc'[g] = pc[g] /\ arg'[g] = arg[g]
    BY <1>4 DEF SIGTERM
  <2>4. QED
    BY <2>1, <2>2, <2>3
    DEF ProcessInv, ObjectOK, PreparerOK, OnePreparer, LiveStates
<1>5. QED
  BY <1>1, <1>2, <1>3, <1>4 DEF NodeStep

LEMMA ProcessNext ==
  ASSUME TypeInv, ProcessInv, [Next]_vars
  PROVE  ProcessInv'
<1>1. CASE UNCHANGED vars
  BY <1>1, ProcessFrame DEF vars
<1>2. CASE Next
  BY <1>2, ProcessCall, ProcessHandler, ProcessScan, ProcessHealth,
     ProcessMain, ProcessProcess, ProcessNode DEF Next, Goroutine, Process
<1>3. QED
  BY <1>1, <1>2

LEMMA ProcessInit == Init => ProcessInv
BY DaemonsetAssumption DEF DaemonsetAssumption, Init, ProcessInv, ObjectOK,
   PreparerOK, OnePreparer, Preparing, At, LiveStates, FinalStates

LEMMA ProcessInvariant == Spec => [](TypeInv /\ ProcessInv)
<1>1. Init => TypeInv /\ ProcessInv
  BY TypeInit, ProcessInit
<1>2. (TypeInv /\ ProcessInv) /\ [Next]_vars => (TypeInv /\ ProcessInv)'
  BY TypeNext, ProcessNext
<1>3. QED
  BY <1>1, <1>2, PTL DEF Spec

\* Whatever the event handlers, the health worker and the shutdown do to the
\* state of a pod while its apidump goroutine is about to start, runs or ends,
\* the deferred function of StartApiDumpProcess can make its final change.
THEOREM FinishTheorem == Spec => []LiveProcessCanFinish
<1>1. TypeInv /\ ProcessInv => LiveProcessCanFinish
  BY DEF TypeInv, TypeOK, ProcessInv, ObjectOK, PreparerOK,
         LiveProcessCanFinish, Committed, Live
<1>2. QED
  BY <1>1, ProcessInvariant, PTL

\* pruneStoppedProcesses closes no stop channel of a process that is about to
\* start, runs or ends, so that no capture is ended by a closed channel.
THEOREM CloseTheorem == Spec => []ClosedAfterProcess
<1>1. TypeInv /\ ProcessInv => ClosedAfterProcess
  BY DEF TypeInv, TypeOK, ProcessInv, ObjectOK, PreparerOK,
         ClosedAfterProcess, Committed, Live, EndableStates
<1>2. QED
  BY <1>1, ProcessInvariant, PTL

(***************************************************************************)
(* The map: as long as no inspection of a running container fails for a    *)
(* reason that passes, the capture of a running pod is found in the map,   *)
(* and there is only one; as long as the list calls succeed, the capture   *)
(* of a running pod is not stopped before the shutdown.                    *)
(***************************************************************************)
\* A pod that can still be monitored.
Steady(p) == p \in Instrumented /\ phase[p] \notin {"Stopped", "Gone"}

\* The points at which a goroutine relies on what it has found out before.
Watched ==
  {"add_store", "add_state", "mod_load", "mod_check", "mod_inspect", "mod_change",
   "start_change", "start_spawn", "prune_check", "prune_delete"}
HoldsOwn == Watched \ {"add_store", "mod_load"}
Stops == {"stop_start", "stop_visit", "stop_change", "stop_delete", "sig_load", "sig_send"}
HasRun == {"Running", "Stopped", "Gone"}

\* The map leads from a pod to an object made for it.
OwnerRight ==
  /\ \A p \in Pods : podMap[p] # NoArgs => owner[podMap[p]] = p
  /\ \A g \in Goroutines : pc[g] \in HoldsOwn => owner[arg[g]] = uid[g]

\* Only a pod that has passed an inspection gets as far as PodRunning.
Inspected ==
  /\ \A a \in Args : mon[a] = "PodRunning" \/ Live(a) => owner[a] \in Instrumented
  /\ \A g \in Goroutines :
       /\ pc[g] \in {"mod_change", "start_spawn"} => uid[g] \in Instrumented
       /\ g \notin Handlers /\ pc[g] \in {"add_store", "add_state"} => uid[g] \in Instrumented

\* A handler of a modification has seen its pod run.
SeenRunning ==
  \A g \in Goroutines : pc[g] \in {"mod_load", "mod_check", "mod_inspect"} => phase[uid[g]] \in HasRun

StopsWhenDown == pc["main"] \in Stops => down

\* Until the shutdown, what is or may soon be captured is in the map, and so is what
\* the health worker is pruning, which it prunes in the final state.
Mapped ==
  /\ pc["health"] = "prune_delete" => mon[arg["health"]] = "RemovePodFromMap"
  /\ ~down =>
       /\ \A a \in Args : Live(a) /\ Steady(owner[a]) => podMap[owner[a]] = a
       /\ \A g \in Goroutines :
            /\ \/ pc[g] = "start_spawn"
               \/ g = "health" /\ pc[g] \in {"prune_check", "prune_delete"}
               \/ pc[g] = "start_change" /\ mon[arg[g]] \notin FinalStates
            /\ Steady(uid[g])
            => podMap[uid[g]] = arg[g]

MapInv ==
  /\ OwnerRight /\ Inspected /\ SeenRunning /\ StopsWhenDown /\ Mapped

-----------------------------------------------------------------------------
LEMMA MapInit == Init => MapInv
BY DaemonsetAssumption
DEF DaemonsetAssumption, Init, MapInv, OwnerRight, Inspected, SeenRunning, StopsWhenDown,
    Mapped, HoldsOwn, Watched, Stops, Live, LiveStates, Goroutines

\* A step keeps the invariant if it leaves the map alone, brings no object back to life
\* and no goroutine to one of the watched points.
LEMMA MapFrame ==
  ASSUME TypeInv, MapInv, UNCHANGED <<podMap, owner>>, down => down',
         \A a \in Args :
           /\ Live(a)' => Live(a)
           /\ mon[a] \in FinalStates => mon'[a] \in FinalStates
           /\ mon'[a] = "PodRunning" => mon[a] = "PodRunning"
           /\ mon[a] = "RemovePodFromMap" => mon'[a] = "RemovePodFromMap",
         \A p \in Pods :
           /\ Steady(p)' => Steady(p)
           /\ phase[p] \in HasRun => phase'[p] \in HasRun,
         \A g \in Goroutines :
           pc'[g] \in Watched => pc'[g] = pc[g] /\ uid'[g] = uid[g] /\ arg'[g] = arg[g],
         pc'["main"] \in Stops => down'
  PROVE  MapInv'
<1> USE DEF Watched, HoldsOwn
<1>1. \A g \in Goroutines : /\ pc[g] \in Watched => uid[g] \in Pods
                            /\ pc[g] \in HoldsOwn => arg[g] \in Args
  BY DEF TypeInv, Working, Busy, Holding
<1>3. OwnerRight'
  BY DEF MapInv, OwnerRight
<1>4. Inspected'
  BY DEF MapInv, Inspected
<1>5. SeenRunning'
  BY <1>1 DEF MapInv, SeenRunning
<1>6. StopsWhenDown'
  BY DEF StopsWhenDown
<1>7. Mapped'
  <2>1. pc'["health"] = "prune_delete" => mon'[arg'["health"]] = "RemovePodFromMap"
    BY <1>1 DEF MapInv, Mapped, Goroutines
  <2>2. ASSUME ~down', NEW a \in Args, Live(a)', Steady(owner[a])'
        PROVE  podMap'[owner'[a]] = a
    <3>1. owner[a] \in Pods /\ Steady(owner[a])
      BY <2>2, DaemonsetAssumption DEF DaemonsetAssumption, Steady
    <3> QED BY <2>2, <3>1 DEF MapInv, Mapped
  <2>3. ASSUME ~down', NEW g \in Goroutines,
               \/ pc'[g] = "start_spawn"
               \/ g = "health" /\ pc'[g] \in {"prune_check", "prune_delete"}
               \/ pc'[g] = "start_change" /\ mon'[arg'[g]] \notin FinalStates,
               Steady(uid[g])'
        PROVE  podMap'[uid'[g]] = arg'[g]
    <3>1. pc'[g] = pc[g] /\ uid'[g] = uid[g] /\ arg'[g] = arg[g]
      BY <2>3
    <3>2. uid[g] \in Pods /\ arg[g] \in Args
      BY <1>1, <2>3, <3>1
    <3>3. Steady(uid[g])
      BY <2>3, <3>1, <3>2 DEF Steady
    <3> QED BY <2>3, <3>1, <3>2, <3>3 DEF MapInv, Mapped
  <2> QED BY <2>1, <2>2, <2>3 DEF Mapped
<1> QED BY <1>3, <1>4, <1>5, <1>6, <1>7 DEF MapInv

\* The same, for one goroutine that goes on to a point that is not watched.
LEMMA MapMove ==
  ASSUME TypeInv, MapInv, UNCHANGED <<podMap, owner, mon, proc, phase>>, down => down',
         NEW g \in Goroutines, NEW l, l \notin Watched, g = "main" /\ l \in Stops => down',
         pc' = [pc EXCEPT ![g] = l],
         \A h \in Goroutines \ {g} : uid'[h] = uid[h] /\ arg'[h] = arg[h]
  PROVE  MapInv'
<1>1. \A h \in Goroutines : pc'[h] = IF h = g THEN l ELSE pc[h]
  BY DEF TypeInv, TypeOK
<1>2. pc'["main"] \in Stops => down'
  BY <1>1 DEF MapInv, StopsWhenDown, Goroutines
<1>3. \A h \in Goroutines :
        pc'[h] \in Watched => pc'[h] = pc[h] /\ uid'[h] = uid[h] /\ arg'[h] = arg[h]
  BY <1>1
<1> QED BY <1>2, <1>3, MapFrame DEF Live, Steady

\* The same, for a step that leaves objects and cluster alone.
LEMMA MapRest ==
  ASSUME TypeInv, MapInv, UNCHANGED <<podMap, owner, mon, proc, phase>>, down => down',
         \A g \in Goroutines :
           pc'[g] \in Watched => pc'[g] = pc[g] /\ uid'[g] = uid[g] /\ arg'[g] = arg[g],
         pc'["main"] \in Stops => down'
  PROVE  MapInv'
BY MapFrame DEF Live, Steady

\* The same, for a goroutine that is through with its pod.
LEMMA MapLeave ==
  ASSUME TypeInv, MapInv, UNCHANGED <<podMap, owner, mon, proc, phase, down>>,
         NEW g \in Goroutines, NEW l, l \notin Watched, l \notin Stops, Leave(g, l)
  PROVE  MapInv'
<1>1. /\ pc' = [pc EXCEPT ![g] = l]
      /\ \A h \in Goroutines \ {g} : uid'[h] = uid[h] /\ arg'[h] = arg[h]
  BY DEF Leave, TypeInv, TypeOK
<1> QED BY <1>1, MapMove

\* The same, for a lookup after which the goroutine does not rely on what it found.
LEMMA MapLookup ==
  ASSUME TypeInv, MapInv, UNCHANGED <<podMap, owner, mon, proc, phase, down>>,
         NEW g \in Goroutines, NEW l, NEW back, l \notin Watched, l \notin Stops,
         back \notin Watched, back \notin Stops, getPodArgsFromMap(g, l, back)
  PROVE  MapInv'
<1>1. CASE GotoWith(g, l, podMap[uid[g]])
  <2>1. /\ pc' = [pc EXCEPT ![g] = l]
        /\ \A h \in Goroutines \ {g} : uid'[h] = uid[h] /\ arg'[h] = arg[h]
    BY <1>1 DEF GotoWith, TypeInv, TypeOK
  <2> QED BY <2>1, MapMove
<1>2. CASE Leave(g, back)
  BY <1>2, MapLeave
<1> QED BY <1>1, <1>2 DEF getPodArgsFromMap

\* The same, for a change of an object to a state in which its pod is not to be started.
LEMMA MapHalt ==
  ASSUME TypeInv, MapInv, UNCHANGED <<podMap, owner, proc, phase, down>>,
         NEW g \in Goroutines, pc[g] \in Holding, g = "main" => down,
         NEW s, s \notin FinalStates, s # "PodRunning", NEW allowed,
         NEW l, l \notin Watched, NEW back, back \notin Watched,
         changePodTrafficMonitorState(g, s, allowed, l, back)
  PROVE  MapInv'
<1>1. arg[g] \in Args
  BY DEF TypeInv, Working
<1>2. \/ mon' = mon
      \/ mon[arg[g]] \notin FinalStates /\ mon' = [mon EXCEPT ![arg[g]] = s]
  BY DEF changePodTrafficMonitorState, MayChange, isTrafficMonitoringInFinalState
<1>3. \A a \in Args : /\ mon[a] \in FinalStates => mon'[a] = mon[a]
                      /\ mon'[a] = "PodRunning" => mon[a] = "PodRunning"
  BY <1>1, <1>2 DEF TypeInv, TypeOK
<1>4. \A a \in Args : /\ mon[a] \in FinalStates => mon'[a] \in FinalStates
                      /\ mon[a] = "RemovePodFromMap" => mon'[a] = "RemovePodFromMap"
  BY <1>3 DEF FinalStates
<1>5. /\ pc' = [pc EXCEPT ![g] = l] \/ pc' = [pc EXCEPT ![g] = back]
      /\ \A h \in Goroutines \ {g} : uid'[h] = uid[h] /\ arg'[h] = arg[h]
  BY DEF changePodTrafficMonitorState, Goto, Leave, TypeInv, TypeOK
<1>6. \A h \in Goroutines :
        pc'[h] \in Watched => pc'[h] = pc[h] /\ uid'[h] = uid[h] /\ arg'[h] = arg[h]
  BY <1>5 DEF TypeInv, TypeOK
<1>7. pc'["main"] \in Stops => down'
  BY <1>5 DEF MapInv, StopsWhenDown, TypeInv, TypeOK, Goroutines
<1> QED BY <1>3, <1>4, <1>6, <1>7, MapFrame DEF Live, Steady

LEMMA MapCall ==
  ASSUME TypeInv, ProcessInv, MapInv, NEW g \in Goroutines, CallStep(g)
  PROVE  MapInv'
<1> USE DaemonsetAssumption, AfterIsResting DEF DaemonsetAssumption, TypeInv,
      TypeOK, Working, Holding, Busy, At, Goto, GotoWith, Take,
      Leave, Goroutines, Scanners, cluster, objects, control, signals
<1>1. CASE addPodArgsToMap_store(g)
  <2>1. CASE podMap[uid[g]] = NoArgs
    <3>1. PICK a \in Args : /\ a \in FreeArgs
                            /\ NewPodArgs(a, uid[g])
                            /\ podMap' = [podMap EXCEPT ![uid[g]] = a]
                            /\ GotoWith(g, "add_state", a)
      BY <1>1, <2>1 DEF addPodArgsToMap_store, FreeArgs
    <3>2. /\ \A h \in Goroutines : arg[h] # a
          /\ \A p \in Pods : podMap[p] # a
      BY <3>1 DEF FreeArgs
    <3>3. UNCHANGED <<phase, down>> /\ At(g, "add_store")
      BY <1>1 DEF addPodArgsToMap_store
    <3>4. OwnerRight'
      BY <3>1, <3>2, <3>3 DEF MapInv, OwnerRight, NewPodArgs, HoldsOwn, Watched
    <3>5. Inspected'
      BY <3>1, <3>2, <3>3 DEF MapInv, Inspected, NewPodArgs, Live, LiveStates
    <3>6. SeenRunning' /\ StopsWhenDown'
      BY <3>1, <3>3 DEF MapInv, SeenRunning, StopsWhenDown, Stops
    <3>7. Mapped'
      BY <2>1, <3>1, <3>2, <3>3 DEF MapInv, Mapped, NewPodArgs, Live, LiveStates, Steady
    <3> QED BY <3>4, <3>5, <3>6, <3>7 DEF MapInv
  <2>2. CASE podMap[uid[g]] # NoArgs
    BY <1>1, <2>2, MapMove DEF addPodArgsToMap_store, Watched, Stops
  <2> QED BY <2>1, <2>2
<1>2. CASE addPodArgsToMap_state(g)
  <2>1. CASE MayChange(arg[g], StartingState(g), {})
    <3>1. mon' = [mon EXCEPT ![arg[g]] = StartingState(g)] /\ mon[arg[g]] \notin FinalStates
      BY <1>2, <2>1 DEF addPodArgsToMap_state, MayChange, isTrafficMonitoringInFinalState
    <3>2. /\ At(g, "add_state") /\ UNCHANGED <<podMap, owner, proc, phase, down>>
          /\ Goto(g, "start_load") \/ Leave(g, AfterAdd(g))
      BY <1>2, <2>1 DEF addPodArgsToMap_state
    <3>3. arg[g] \in Args /\ owner[arg[g]] = uid[g]
      BY <3>2 DEF MapInv, OwnerRight, HoldsOwn, Watched
    <3>4. StartingState(g) = "PodRunning" => owner[arg[g]] \in Instrumented
      BY <3>2, <3>3 DEF StartingState, MapInv, Inspected
    <3>5. OwnerRight' /\ SeenRunning' /\ StopsWhenDown'
      BY <3>2 DEF MapInv, OwnerRight, SeenRunning, StopsWhenDown, Stops, HoldsOwn, Watched
    <3>6. Inspected'
      BY <3>1, <3>2, <3>3, <3>4 DEF MapInv, Inspected, Live
    <3>7. Mapped'
      BY <3>1, <3>2, <3>3 DEF MapInv, Mapped, Live, Steady, FinalStates
    <3> QED BY <3>5, <3>6, <3>7 DEF MapInv
  <2>2. CASE ~MayChange(arg[g], StartingState(g), {})
    BY <1>2, <2>2, MapMove DEF addPodArgsToMap_state, Watched, Stops
  <2> QED BY <2>1, <2>2
<1>3. CASE StartApiDumpProcess_load(g)
  <2>1. CASE podMap[uid[g]] = NoArgs
    <3>1. Leave(g, AfterStart(g)) /\ UNCHANGED <<podMap, owner, mon, proc, phase, down>>
      BY <1>3, <2>1 DEF StartApiDumpProcess_load, getPodArgsFromMap
    <3> QED BY <3>1, MapLeave DEF Watched, Stops
  <2>2. CASE podMap[uid[g]] # NoArgs
    <3>1. /\ At(g, "start_load") /\ GotoWith(g, "start_change", podMap[uid[g]])
          /\ UNCHANGED <<podMap, owner, mon, proc, phase, down>>
      BY <1>3, <2>2 DEF StartApiDumpProcess_load, getPodArgsFromMap
    <3>2. OwnerRight'
      BY <2>2, <3>1 DEF MapInv, OwnerRight, HoldsOwn, Watched
    <3>3. Inspected' /\ SeenRunning' /\ StopsWhenDown'
      BY <3>1 DEF MapInv, Inspected, SeenRunning, StopsWhenDown, Stops, Live
    <3>4. Mapped'
      BY <3>1 DEF MapInv, Mapped, Live, Steady
    <3> QED BY <3>2, <3>3, <3>4 DEF MapInv
  <2> QED BY <2>1, <2>2
<1>4. CASE StartApiDumpProcess_change(g)
  <2>1. CASE MayChange(arg[g], "TrafficMonitoringRunning", {"PodRunning"})
    <3>1. /\ mon[arg[g]] = "PodRunning"
          /\ mon' = [mon EXCEPT ![arg[g]] = "TrafficMonitoringRunning"]
          /\ At(g, "start_change") /\ Goto(g, "start_spawn")
          /\ UNCHANGED <<podMap, owner, proc, phase, down>>
      BY <1>4, <2>1 DEF StartApiDumpProcess_change, changePodTrafficMonitorState, MayChange
    <3>2. arg[g] \in Args /\ owner[arg[g]] = uid[g]
      BY <3>1 DEF MapInv, OwnerRight, HoldsOwn, Watched
    <3>3. OwnerRight' /\ SeenRunning' /\ StopsWhenDown'
      BY <3>1, <3>2 DEF MapInv, OwnerRight, SeenRunning, StopsWhenDown, Stops, HoldsOwn, Watched
    <3>4. Inspected'
      BY <3>1, <3>2 DEF MapInv, Inspected, Live
    <3>5. Mapped'
      BY <3>1, <3>2 DEF MapInv, Mapped, Live, Steady, FinalStates
    <3> QED BY <3>3, <3>4, <3>5 DEF MapInv
  <2>2. CASE ~MayChange(arg[g], "TrafficMonitoringRunning", {"PodRunning"})
    BY <1>4, <2>2, MapMove DEF StartApiDumpProcess_change, changePodTrafficMonitorState,
      Watched, Stops
  <2> QED BY <2>1, <2>2
<1>5. CASE StartApiDumpProcess_spawn(g)
  <2>1. /\ At(g, "start_spawn") /\ Leave(g, AfterStart(g))
        /\ proc' = [proc EXCEPT ![arg[g]] = "starting"]
        /\ UNCHANGED <<podMap, owner, mon, phase, down>>
    BY <1>5 DEF StartApiDumpProcess_spawn
  <2>2. arg[g] \in Args /\ owner[arg[g]] = uid[g] /\ uid[g] \in Instrumented
    BY <2>1 DEF MapInv, OwnerRight, Inspected, HoldsOwn, Watched
  <2>3. OwnerRight' /\ SeenRunning' /\ StopsWhenDown'
    BY <2>1 DEF MapInv, OwnerRight, SeenRunning, StopsWhenDown, Stops, HoldsOwn, Watched
  <2>4. Inspected'
    BY <2>1, <2>2 DEF MapInv, Inspected, Live
  <2>5. Mapped'
    BY <2>1, <2>2 DEF MapInv, Mapped, Live, Steady
  <2> QED BY <2>3, <2>4, <2>5 DEF MapInv
<1>6. CASE SignalApiDumpProcessToStop_load(g)
  BY <1>6, MapRest DEF SignalApiDumpProcessToStop_load, ReturnFromSignal, AfterStart, Watched,
    Stops, MapInv, StopsWhenDown
<1>7. CASE SignalApiDumpProcessToStop_send(g)
  BY <1>7, MapRest DEF SignalApiDumpProcessToStop_send, ReturnFromSignal, AfterStart, Watched,
    Stops, MapInv, StopsWhenDown
<1>8. CASE SignalApiDumpProcessToStop_panic(g)
  BY <1>8, MapRest DEF SignalApiDumpProcessToStop_panic, Watched, Stops
<1> QED
  BY <1>1, <1>2, <1>3, <1>4, <1>5, <1>6, <1>7, <1>8 DEF CallStep

LEMMA MapHandler ==
  ASSUME CRIMayFail = FALSE, TypeInv, ProcessInv, MapInv, NEW g \in Handlers, HandlerStep(g)
  PROVE  MapInv'
<1> USE DaemonsetAssumption DEF DaemonsetAssumption, TypeInv, TypeOK, Working, Holding, Busy,
      At, Goto, GotoWith, Take, Leave, Goroutines, Scanners, cluster, objects, control, signals
<1>1. CASE handlePodDeleteEvent_load(g)
  <2>1. /\ getPodArgsFromMap(g, "del_change", "idle")
        /\ UNCHANGED <<podMap, owner, mon, proc, phase, down>>
    BY <1>1 DEF handlePodDeleteEvent_load
  <2> QED BY <2>1, MapLookup DEF Watched, Stops
<1>2. CASE handlePodDeleteEvent_change(g)
  <2>1. PICK s \in {"PodStopped", "PodTerminated"} :
          changePodTrafficMonitorState(g, s, {"TrafficMonitoringRunning"}, "sig_load", "idle")
    BY <1>2 DEF handlePodDeleteEvent_change
  <2>2. pc[g] \in Holding /\ UNCHANGED <<podMap, owner, proc, phase, down>>
    BY <1>2 DEF handlePodDeleteEvent_change
  <2> QED BY <2>1, <2>2, MapHalt DEF Watched, FinalStates
<1>3. CASE handlePodModifyEvent_load(g)
  <2>1. CASE podMap[uid[g]] = NoArgs
    <3>1. Leave(g, "idle") /\ UNCHANGED <<podMap, owner, mon, proc, phase, down>>
      BY <1>3, <2>1 DEF handlePodModifyEvent_load, getPodArgsFromMap
    <3> QED BY <3>1, MapLeave DEF Watched, Stops
  <2>2. CASE podMap[uid[g]] # NoArgs
    <3>1. /\ At(g, "mod_load") /\ GotoWith(g, "mod_check", podMap[uid[g]])
          /\ UNCHANGED <<podMap, owner, mon, proc, phase, down>>
      BY <1>3, <2>2 DEF handlePodModifyEvent_load, getPodArgsFromMap
    <3>2. OwnerRight'
      BY <2>2, <3>1 DEF MapInv, OwnerRight, HoldsOwn, Watched
    <3>3. Inspected' /\ SeenRunning' /\ StopsWhenDown'
      BY <3>1 DEF MapInv, Inspected, SeenRunning, StopsWhenDown, Stops, Live
    <3>4. Mapped'
      BY <3>1 DEF MapInv, Mapped, Live, Steady
    <3> QED BY <3>2, <3>3, <3>4 DEF MapInv
  <2> QED BY <2>1, <2>2
<1>4. CASE handlePodModifyEvent_check(g)
  <2>1. CASE Leave(g, "idle")
    BY <1>4, <2>1, MapMove DEF handlePodModifyEvent_check, Watched, Stops
  <2>2. CASE Goto(g, "mod_inspect")
    <3>1. /\ At(g, "mod_check") /\ UNCHANGED <<podMap, owner, mon, proc, phase, down>>
      BY <1>4 DEF handlePodModifyEvent_check
    <3>2. OwnerRight'
      BY <2>2, <3>1 DEF MapInv, OwnerRight, HoldsOwn, Watched
    <3>3. Inspected' /\ SeenRunning' /\ StopsWhenDown'
      BY <2>2, <3>1 DEF MapInv, Inspected, SeenRunning, StopsWhenDown, Stops, Live
    <3>4. Mapped'
      BY <2>2, <3>1 DEF MapInv, Mapped, Live, Steady
    <3> QED BY <3>2, <3>3, <3>4 DEF MapInv
  <2> QED BY <1>4, <2>1, <2>2 DEF handlePodModifyEvent_check
<1>5. CASE handlePodModifyEvent_inspect(g)
  <2>1. /\ At(g, "mod_inspect") /\ UNCHANGED <<owner, mon, proc, phase, down>>
    BY <1>5 DEF handlePodModifyEvent_inspect
  <2>2. CASE uid[g] \in Instrumented /\ Goto(g, "mod_change") /\ podMap' = podMap
    <3>1. OwnerRight'
      BY <2>1, <2>2 DEF MapInv, OwnerRight, HoldsOwn, Watched
    <3>2. Inspected' /\ SeenRunning' /\ StopsWhenDown'
      BY <2>1, <2>2 DEF MapInv, Inspected, SeenRunning, StopsWhenDown, Stops, Live
    <3>3. Mapped'
      BY <2>1, <2>2 DEF MapInv, Mapped, Live, Steady
    <3> QED BY <3>1, <3>2, <3>3 DEF MapInv
  <2>3. CASE InspectionMayFail(uid[g]) /\ podMap' = [podMap EXCEPT ![uid[g]] = NoArgs]
             /\ Leave(g, "idle")
    <3>1. ~Steady(uid[g])
      BY <2>1, <2>3 DEF InspectionMayFail, Steady, MapInv, SeenRunning, HasRun
    <3>2. OwnerRight'
      BY <2>1, <2>3 DEF MapInv, OwnerRight, HoldsOwn, Watched
    <3>3. Inspected' /\ SeenRunning' /\ StopsWhenDown'
      BY <2>1, <2>3 DEF MapInv, Inspected, SeenRunning, StopsWhenDown, Stops, Live
    <3>4. Mapped'
      BY <2>1, <2>3, <3>1 DEF MapInv, Mapped, Live, Steady
    <3> QED BY <3>2, <3>3, <3>4 DEF MapInv
  <2> QED BY <1>5, <2>2, <2>3 DEF handlePodModifyEvent_inspect, InspectionMayPass
<1>6. CASE handlePodModifyEvent_change(g)
  <2>1. CASE MayChange(arg[g], "PodRunning", {"PodPending"})
    <3>1. /\ mon[arg[g]] \notin FinalStates
          /\ mon' = [mon EXCEPT ![arg[g]] = "PodRunning"]
          /\ At(g, "mod_change") /\ Goto(g, "start_load")
          /\ UNCHANGED <<podMap, owner, proc, phase, down>>
      BY <1>6, <2>1 DEF handlePodModifyEvent_change, changePodTrafficMonitorState, MayChange,
        isTrafficMonitoringInFinalState
    <3>2. arg[g] \in Args /\ owner[arg[g]] = uid[g] /\ uid[g] \in Instrumented
      BY <3>1 DEF MapInv, OwnerRight, Inspected, HoldsOwn, Watched
    <3>3. OwnerRight' /\ SeenRunning' /\ StopsWhenDown'
      BY <3>1 DEF MapInv, OwnerRight, SeenRunning, StopsWhenDown, Stops, HoldsOwn, Watched
    <3>4. Inspected'
      BY <3>1, <3>2 DEF MapInv, Inspected, Live
    <3>5. Mapped'
      BY <3>1, <3>2 DEF MapInv, Mapped, Live, Steady, FinalStates
    <3> QED BY <3>3, <3>4, <3>5 DEF MapInv
  <2>2. CASE ~MayChange(arg[g], "PodRunning", {"PodPending"})
    BY <1>6, <2>2, MapMove DEF handlePodModifyEvent_change, changePodTrafficMonitorState,
      Watched, Stops
  <2> QED BY <2>1, <2>2
<1> QED
  BY <1>1, <1>2, <1>3, <1>4, <1>5, <1>6 DEF HandlerStep

LEMMA MapScan ==
  ASSUME TypeInv, MapInv, NEW g \in Scanners, ScanStep(g)
  PROVE  MapInv'
<1> USE DaemonsetAssumption DEF DaemonsetAssumption, TypeInv, TypeOK, Working, Holding, Busy,
      At, Goto, GotoWith, Take, Leave, Goroutines, Scanners, cluster, objects, control, signals
<1>1. CASE GetPodsInAgentNode(g)
  BY <1>1, MapMove DEF GetPodsInAgentNode, Watched, Stops
<1>2. CASE scan_inspect(g)
  <2>1. UNCHANGED <<podMap, owner, mon, proc, phase, down>> /\ At(g, "scan")
    BY <1>2 DEF scan_inspect
  <2>2. CASE UNCHANGED control
    BY <2>1, <2>2, MapRest DEF MapInv, StopsWhenDown
  <2>3. CASE ~UNCHANGED control
    <3>1. PICK p \in Instrumented : Take(g, "add_store", p, NoArgs)
      BY <1>2, <2>3 DEF scan_inspect, InspectionMayPass
    <3>2. OwnerRight' /\ Inspected' /\ SeenRunning' /\ StopsWhenDown'
      BY <2>1, <3>1 DEF MapInv, OwnerRight, Inspected, SeenRunning, StopsWhenDown, Stops, Live,
        HoldsOwn, Watched
    <3>3. Mapped'
      BY <2>1, <3>1 DEF MapInv, Mapped, Live, Steady
    <3> QED BY <3>2, <3>3 DEF MapInv
  <2> QED BY <2>2, <2>3
<1> QED
  BY <1>1, <1>2 DEF ScanStep

LEMMA MapHealth ==
  ASSUME TypeInv, ProcessInv, MapInv, HealthStep
  PROVE  MapInv'
<1> USE DaemonsetAssumption DEF DaemonsetAssumption, TypeInv, TypeOK, Working, Holding, Busy,
      At, Goto, GotoWith, Take, Leave, Goroutines, Scanners, cluster, objects, control, signals
<1>1. CASE checkPodsHealth_begin
  BY <1>1, MapMove DEF checkPodsHealth_begin, Watched, Stops
<1>2. CASE PodsHealthWorker_stop
  BY <1>2, MapMove DEF PodsHealthWorker_stop, Watched, Stops
<1>3. CASE checkPodsHealth_scanned
  BY <1>3, MapMove DEF checkPodsHealth_scanned, Watched, Stops
<1>4. CASE GetPodsStatusByUIDs
  BY <1>4, MapMove DEF GetPodsStatusByUIDs, Watched, Stops
<1>5. CASE checkPodsHealth_visit
  BY <1>5, MapRest DEF checkPodsHealth_visit, Watched, MapInv, StopsWhenDown
<1>6. CASE checkPodsHealth_done
  BY <1>6, MapMove DEF checkPodsHealth_done, Watched, Stops
<1>7. CASE handleTerminatedPod_load
  <2>1. /\ getPodArgsFromMap("health", "term_change", "visit")
        /\ UNCHANGED <<podMap, owner, mon, proc, phase, down>>
    BY <1>7 DEF handleTerminatedPod_load
  <2> QED BY <2>1, MapLookup DEF Watched, Stops
<1>8. CASE handleTerminatedPod_change
  <2>1. PICK allowed : changePodTrafficMonitorState("health", "PodTerminated", allowed,
                                                    "sig_load", "visit")
    BY <1>8 DEF handleTerminatedPod_change
  <2>2. pc["health"] \in Holding /\ UNCHANGED <<podMap, owner, proc, phase, down>>
    BY <1>8 DEF handleTerminatedPod_change
  <2> QED BY <2>1, <2>2, MapHalt DEF Watched, FinalStates
<1>9. CASE handleUnmonitoredPod_load
  <2>1. /\ getPodArgsFromMap("health", "unm_check", "visit")
        /\ UNCHANGED <<podMap, owner, mon, proc, phase, down>>
    BY <1>9 DEF handleUnmonitoredPod_load
  <2> QED BY <2>1, MapLookup DEF Watched, Stops
<1>10. CASE handleUnmonitoredPod_check
  BY <1>10, MapMove DEF handleUnmonitoredPod_check, Watched, Stops
<1>11. CASE pruneStoppedProcesses_begin
  BY <1>11, MapMove DEF pruneStoppedProcesses_begin, Watched, Stops
<1>12. CASE pruneStoppedProcesses_visit
  <2>1. PICK p \in Keys : Take("health", "prune_check", p, podMap[p])
    BY <1>12 DEF pruneStoppedProcesses_visit
  <2>2. UNCHANGED <<podMap, owner, mon, proc, phase, down>>
    BY <1>12 DEF pruneStoppedProcesses_visit
  <2>3. p \in Pods /\ podMap[p] # NoArgs
    BY <2>1 DEF Keys
  <2>4. OwnerRight'
    BY <2>1, <2>2, <2>3 DEF MapInv, OwnerRight, HoldsOwn, Watched
  <2>5. Inspected' /\ SeenRunning' /\ StopsWhenDown'
    BY <2>1, <2>2 DEF MapInv, Inspected, SeenRunning, StopsWhenDown, Stops, Live
  <2>6. Mapped'
    BY <2>1, <2>2, <2>3 DEF MapInv, Mapped, Live, Steady
  <2> QED BY <2>4, <2>5, <2>6 DEF MapInv
<1>13. CASE pruneStoppedProcesses_check
  <2>1. /\ At("health", "prune_check") /\ UNCHANGED <<podMap, owner, proc, phase, down>>
        /\ arg["health"] \in Args
    BY <1>13 DEF pruneStoppedProcesses_check
  <2>2. CASE Leave("health", "prune") /\ mon' = mon
    BY <2>1, <2>2, MapMove DEF Watched, Stops
  <2>3. CASE /\ mon[arg["health"]] \in FinalStates
             /\ mon' = [mon EXCEPT ![arg["health"]] = "RemovePodFromMap"]
             /\ Leave("health", "prune")
    <3>1. \A a \in Args : /\ mon[a] \in FinalStates => mon'[a] \in FinalStates
                          /\ mon'[a] = "PodRunning" => mon[a] = "PodRunning"
                          /\ mon[a] = "RemovePodFromMap" => mon'[a] = "RemovePodFromMap"
      BY <2>1, <2>3 DEF FinalStates
    <3>2. /\ pc'["main"] \in Stops => down'
          /\ \A g \in Goroutines :
               pc'[g] \in Watched => pc'[g] = pc[g] /\ uid'[g] = uid[g] /\ arg'[g] = arg[g]
      BY <2>1, <2>3 DEF Watched, MapInv, StopsWhenDown
    <3> QED BY <2>1, <3>1, <3>2, MapFrame DEF Live, Steady
  <2>4. CASE /\ mon[arg["health"]] = "RemovePodFromMap" /\ mon' = mon
             /\ Goto("health", "prune_delete")
    <3>1. OwnerRight'
      BY <2>1, <2>4 DEF MapInv, OwnerRight, HoldsOwn, Watched
    <3>2. Inspected' /\ SeenRunning' /\ StopsWhenDown'
      BY <2>1, <2>4 DEF MapInv, Inspected, SeenRunning, StopsWhenDown, Stops, Live
    <3>3. Mapped'
      BY <2>1, <2>4 DEF MapInv, Mapped, Live, Steady
    <3> QED BY <3>1, <3>2, <3>3 DEF MapInv
  <2> QED BY <1>13, <2>2, <2>3, <2>4 DEF pruneStoppedProcesses_check, FinalStates
<1>14. CASE pruneStoppedProcesses_delete
  <2> DEFINE a == arg["health"]
             p == uid["health"]
  <2>1. /\ At("health", "prune_delete") /\ UNCHANGED <<owner, mon, proc, phase, down>>
        /\ Leave("health", "prune") /\ podMap' = [podMap EXCEPT ![p] = NoArgs]
        /\ a \in Args /\ p \in Pods
    BY <1>14 DEF pruneStoppedProcesses_delete
  <2>2. mon[a] = "RemovePodFromMap" /\ (~down /\ Steady(p) => podMap[p] = a)
    BY <2>1 DEF MapInv, Mapped
  <2>3. ~Live(a)
    BY <2>1, <2>2 DEF ProcessInv, ObjectOK, Live, EndableStates
  <2>4. \A g \in Goroutines : At(g, "start_spawn") => arg[g] # a
    BY <2>1, <2>2 DEF ProcessInv, PreparerOK, EndableStates
  <2>5. OwnerRight'
    BY <2>1 DEF MapInv, OwnerRight, HoldsOwn, Watched
  <2>6. Inspected' /\ SeenRunning' /\ StopsWhenDown'
    BY <2>1 DEF MapInv, Inspected, SeenRunning, StopsWhenDown, Stops, Live
  <2>7. Mapped'
    <3>1. pc'["health"] # "prune_delete"
      BY <2>1
    <3>2. ASSUME ~down', NEW b \in Args, Live(b)', Steady(owner[b])'
          PROVE  podMap'[owner'[b]] = b
      <4>1. b # a /\ podMap[owner[b]] = b
        BY <2>1, <2>3, <3>2 DEF MapInv, Mapped, Live, Steady
      <4>2. owner[b] # p
        BY <2>1, <2>2, <3>2, <4>1 DEF Steady
      <4> QED BY <2>1, <4>1, <4>2
    <3>3. ASSUME ~down', NEW g \in Goroutines,
                 \/ pc'[g] = "start_spawn"
                 \/ g = "health" /\ pc'[g] \in {"prune_check", "prune_delete"}
                 \/ pc'[g] = "start_change" /\ mon'[arg'[g]] \notin FinalStates,
                 Steady(uid[g])'
          PROVE  podMap'[uid'[g]] = arg'[g]
      <4>1. g # "health" /\ pc'[g] = pc[g] /\ uid'[g] = uid[g] /\ arg'[g] = arg[g]
        BY <2>1, <3>3
      <4>2. podMap[uid[g]] = arg[g]
        BY <2>1, <3>3, <4>1 DEF MapInv, Mapped, Steady
      <4>3. arg[g] # a
        BY <2>1, <2>2, <2>4, <3>3, <4>1 DEF FinalStates
      <4>4. uid[g] # p
        BY <2>1, <2>2, <3>3, <4>1, <4>2, <4>3 DEF Steady
      <4> QED BY <2>1, <4>1, <4>2, <4>4
    <3> QED BY <3>1, <3>2, <3>3 DEF Mapped
  <2> QED BY <2>5, <2>6, <2>7 DEF MapInv
<1>15. CASE pruneStoppedProcesses_end
  BY <1>15, MapMove DEF pruneStoppedProcesses_end, Watched, Stops
<1> QED
  BY <1>1, <1>2, <1>3, <1>4, <1>5, <1>6, <1>7, <1>8, <1>9, <1>10, <1>11, <1>12, <1>13, <1>14,
     <1>15 DEF HealthStep

LEMMA MapMain ==
  ASSUME TypeInv, MapInv, MainStep
  PROVE  MapInv'
<1> USE DaemonsetAssumption DEF DaemonsetAssumption, TypeInv, TypeOK, Working, Holding, Busy,
      At, Goto, GotoWith, Take, Leave, Goroutines, Scanners, cluster, objects, control, signals
<1>1. CASE StartProcessInExistingPods_done
  BY <1>1, MapMove DEF StartProcessInExistingPods_done, Watched, Stops
<1>2. CASE Run_signal
  BY <1>2, MapMove DEF Run_signal, Watched
<1>3. CASE StopAllApiDumpProcesses_begin
  BY <1>3, MapMove DEF StopAllApiDumpProcesses_begin, Watched, Stops, MapInv, StopsWhenDown
<1>4. CASE StopAllApiDumpProcesses_visit
  BY <1>4, MapMove DEF StopAllApiDumpProcesses_visit, Watched, Stops, MapInv, StopsWhenDown
<1>5. CASE StopAllApiDumpProcesses_change
  <2>1. pc["main"] = "stop_change" /\ UNCHANGED <<podMap, owner, proc, phase, down>>
    BY <1>5 DEF StopAllApiDumpProcesses_change
  <2>2. down /\ pc["main"] \in Holding
    BY <2>1 DEF MapInv, StopsWhenDown, Stops
  <2> QED BY <1>5, <2>1, <2>2, MapHalt DEF StopAllApiDumpProcesses_change, Watched, FinalStates
<1>6. CASE StopAllApiDumpProcesses_delete
  <2>1. /\ pc["main"] = "stop_delete" /\ Leave("main", "stop_visit")
        /\ podMap' = [podMap EXCEPT ![uid["main"]] = NoArgs]
        /\ UNCHANGED <<owner, mon, proc, phase, down>>
    BY <1>6 DEF StopAllApiDumpProcesses_delete
  <2>2. down
    BY <2>1 DEF MapInv, StopsWhenDown, Stops
  <2>3. OwnerRight'
    BY <2>1 DEF MapInv, OwnerRight, HoldsOwn, Watched
  <2>4. Inspected' /\ SeenRunning' /\ StopsWhenDown'
    BY <2>1, <2>2 DEF MapInv, Inspected, SeenRunning, StopsWhenDown, Live
  <2>5. Mapped'
    BY <2>1, <2>2 DEF MapInv, Mapped
  <2> QED BY <2>3, <2>4, <2>5 DEF MapInv
<1>7. CASE StopAllApiDumpProcesses_visited
  BY <1>7, MapMove DEF StopAllApiDumpProcesses_visited, Watched, Stops
<1>8. CASE StopAllApiDumpProcesses_wait
  BY <1>8, MapMove DEF StopAllApiDumpProcesses_wait, Watched, Stops
<1> QED
  BY <1>1, <1>2, <1>3, <1>4, <1>5, <1>6, <1>7, <1>8 DEF MainStep

LEMMA MapProcess ==
  ASSUME TypeInv, MapInv, NEW a \in Args, ProcessStep(a) \/ apidump_finish(a)
  PROVE  MapInv'
<1>1. UNCHANGED <<podMap, owner, phase, control, down>>
  BY DEF ProcessStep, apidump_begin, apidump_receive, apidump_finish, apidump_signal,
    apidump_return, apidump_final, cluster, objects, signals
<1>2. \A b \in Args : Live(b)' => Live(b)
  BY DEF ProcessStep, apidump_begin, apidump_receive, apidump_finish, apidump_signal,
    apidump_return, apidump_final, ProcStep, Live, LiveStates, TypeInv, TypeOK
<1>3. \/ mon' = mon
      \/ mon[a] \notin FinalStates /\ mon' = [mon EXCEPT ![a] = "TrafficMonitoringEnded"]
      \/ mon[a] \notin FinalStates /\ mon' = [mon EXCEPT ![a] = "TrafficMonitoringFailed"]
  BY DEF ProcessStep, apidump_begin, apidump_receive, apidump_finish, apidump_signal,
    apidump_return, apidump_final, MayChange, isTrafficMonitoringInFinalState, objects
<1>4. \A b \in Args :
        /\ mon[b] \in FinalStates => mon'[b] = mon[b]
        /\ mon'[b] = "PodRunning" => mon[b] = "PodRunning"
  BY <1>3 DEF TypeInv, TypeOK
<1>5. \A b \in Args :
        /\ mon[b] \in FinalStates => mon'[b] \in FinalStates
        /\ mon[b] = "RemovePodFromMap" => mon'[b] = "RemovePodFromMap"
  BY <1>4 DEF FinalStates
<1> QED
  BY <1>1, <1>2, <1>4, <1>5, MapFrame DEF Steady, control, MapInv, StopsWhenDown

LEMMA MapNode ==
  ASSUME TypeInv, MapInv, NodeStep
  PROVE  MapInv'
<1> USE DaemonsetAssumption DEF DaemonsetAssumption, TypeInv, TypeOK, Working, Holding, Busy,
      At, Goto, GotoWith, Take, Leave, Goroutines, Scanners, cluster, objects, control, signals
<1>1. ASSUME NEW p \in Pods, PodAdded(p) \/ PodModified(p) \/ PodDeleted(p)
      PROVE  MapInv'
  <2>1. /\ UNCHANGED <<podMap, owner, mon, proc, down>>
        /\ phase[p] \notin {"Stopped", "Gone"} \/ phase'[p] = "Gone"
        /\ phase[p] \in HasRun => phase'[p] \in HasRun
        /\ \A q \in Pods \ {p} : phase'[q] = phase[q]
    BY <1>1 DEF PodAdded, PodModified, PodDeleted, PodEvent, HasRun
  <2>2. \A q \in Pods : /\ Steady(q)' => Steady(q)
                        /\ phase[q] \in HasRun => phase'[q] \in HasRun
    BY <2>1 DEF Steady
  <2>3. CASE UNCHANGED control
    BY <2>1, <2>2, <2>3, MapFrame DEF Live, MapInv, StopsWhenDown
  <2>4. CASE ~UNCHANGED control
    <3>1. PICK h \in Handlers, l \in {"add_store", "mod_load", "del_load"} :
            /\ Take(h, l, p, NoArgs)
            /\ l = "mod_load" => phase'[p] = "Running"
      BY <1>1, <2>4
      DEF PodAdded, PodModified, PodDeleted, PodEvent, KubernetesPodEventsWorker
    <3>2. OwnerRight'
      BY <2>1, <3>1 DEF MapInv, OwnerRight, HoldsOwn, Watched
    <3>3. Inspected' /\ StopsWhenDown'
      BY <2>1, <3>1 DEF MapInv, Inspected, StopsWhenDown, Stops, Live
    <3>4. SeenRunning'
      BY <2>1, <2>2, <3>1 DEF MapInv, SeenRunning, HasRun
    <3>5. Mapped'
      <4>1. pc'["health"] = "prune_delete" => mon'[arg'["health"]] = "RemovePodFromMap"
        BY <2>1, <3>1 DEF MapInv, Mapped
      <4>2. ASSUME ~down', NEW a \in Args, Live(a)', Steady(owner[a])'
            PROVE  podMap'[owner'[a]] = a
        <5>1. Live(a) /\ owner[a] \in Pods /\ Steady(owner[a])
          BY <2>1, <2>2, <4>2 DEF Live, Steady
        <5> QED BY <2>1, <4>2, <5>1 DEF MapInv, Mapped
      <4>3. ASSUME ~down', NEW g \in Goroutines,
                   \/ pc'[g] = "start_spawn"
                   \/ g = "health" /\ pc'[g] \in {"prune_check", "prune_delete"}
                   \/ pc'[g] = "start_change" /\ mon'[arg'[g]] \notin FinalStates,
                   Steady(uid[g])'
            PROVE  podMap'[uid'[g]] = arg'[g]
        <5>1. pc'[g] = pc[g] /\ uid'[g] = uid[g] /\ arg'[g] = arg[g] /\ uid[g] \in Pods
          BY <3>1, <4>3
        <5>2. Steady(uid[g])
          BY <2>2, <4>3, <5>1 DEF Steady
        <5> QED BY <2>1, <4>3, <5>1, <5>2 DEF MapInv, Mapped
      <4> QED BY <4>1, <4>2, <4>3 DEF Mapped
    <3> QED BY <3>2, <3>3, <3>4, <3>5 DEF MapInv
  <2> QED BY <2>3, <2>4
<1>2. ASSUME NEW p \in Pods, PodStopped(p)
      PROVE  MapInv'
  <2>1. UNCHANGED <<podMap, owner, mon, proc, down, control>>
    BY <1>2 DEF PodStopped
  <2>2. \A q \in Pods : /\ Steady(q)' => Steady(q)
                        /\ phase[q] \in HasRun => phase'[q] \in HasRun
    BY <1>2 DEF PodStopped, Steady, HasRun
  <2> QED BY <2>1, <2>2, MapFrame DEF Live, MapInv, StopsWhenDown
<1>3. CASE KubernetesPodEventsWorker_stop
  BY <1>3, MapRest DEF KubernetesPodEventsWorker_stop, MapInv, StopsWhenDown
<1>4. CASE SIGTERM
  <2>1. UNCHANGED <<podMap, owner, mon, phase, down>>
    BY <1>4 DEF SIGTERM
  <2>2. \A a \in Args : Live(a)' => Live(a)
    BY <1>4 DEF SIGTERM, Live, LiveStates
  <2>3. /\ pc'["main"] \in Stops => down'
        /\ \A g \in Goroutines :
             pc'[g] \in Watched => pc'[g] = pc[g] /\ uid'[g] = uid[g] /\ arg'[g] = arg[g]
    BY <1>4 DEF SIGTERM, Watched, Stops, MapInv, StopsWhenDown
  <2> QED BY <2>1, <2>2, <2>3, MapFrame DEF Steady
<1> QED
  BY <1>1, <1>2, <1>3, <1>4 DEF NodeStep

LEMMA MapNext ==
  ASSUME CRIMayFail = FALSE, TypeInv, ProcessInv, MapInv, [Next]_vars
  PROVE  MapInv'
<1>1. CASE UNCHANGED vars
  BY <1>1, MapRest DEF vars, MapInv, StopsWhenDown
<1>2. CASE Next
  BY <1>2, MapCall, MapHandler, MapScan, MapHealth, MapMain, MapProcess, MapNode
  DEF Next, Goroutine, Process
<1> QED BY <1>1, <1>2

LEMMA MapInvariant ==
  ASSUME CRIMayFail = FALSE
  PROVE  Spec => [](TypeInv /\ MapInv)
<1> DEFINE IInv == TypeInv /\ ProcessInv /\ MapInv
<1>1. Init => IInv
  BY TypeInit, ProcessInit, MapInit
<1>2. IInv /\ [Next]_vars => IInv'
  BY TypeNext, ProcessNext, MapNext
<1>3. IInv => TypeInv /\ MapInv
  OBVIOUS
<1> QED BY <1>1, <1>2, <1>3, PTL DEF Spec

LEMMA LiveIsMappedHolds ==
  ASSUME TypeInv, MapInv
  PROVE  LiveIsMapped
<1> SUFFICES ASSUME NEW a \in Args, ~down, Live(a), phase[owner[a]] = "Running"
             PROVE  podMap[owner[a]] = a
  BY DEF LiveIsMapped
<1>1. Steady(owner[a])
  BY DEF MapInv, Inspected, Steady
<1> QED BY <1>1 DEF MapInv, Mapped

\* As long as the CRI fails no inspection of a running container, the capture of a
\* running pod stays in PodArgsByNameMap until the shutdown: neither the removal after a
\* failed inspection (handlePodModifyEvent) nor pruneStoppedProcesses takes it out, and
\* addPodArgsToMap replaces no entry, so that SignalApiDumpProcessToStop can find it.
THEOREM MappedTheorem ==
  ASSUME CRIMayFail = FALSE
  PROVE  Spec => []LiveIsMapped
<1>1. TypeInv /\ MapInv => LiveIsMapped
  BY LiveIsMappedHolds
<1> QED BY <1>1, MapInvariant, PTL

\* Under the same assumption StartApiDumpProcess never runs two apidump processes for one
\* running pod: both would be what the map holds for it.
THEOREM OneCaptureTheorem ==
  ASSUME CRIMayFail = FALSE
  PROVE  Spec => []NoDuplicateCapture
<1>1. TypeInv /\ MapInv => NoDuplicateCapture
  BY LiveIsMappedHolds DEF LiveIsMapped, NoDuplicateCapture
<1> QED BY <1>1, MapInvariant, PTL

-----------------------------------------------------------------------------
\* The part about the stop signals.  A pod that has gone past running, and the points
\* at which a goroutine takes its pod for such a one.
Past == {"Stopped", "Gone"}
Doomed == {"del_load", "del_change", "term_load", "term_change", "sig_load", "sig_send"}

\* The stretches in which "main" and "health" go through a list of pods.
Adding == {"add_store", "add_state"}
Starting == {"start_load", "start_change", "start_spawn"}
MainScan == {"scan"} \cup Adding \cup Starting
HealthScan == {"scan"} \cup Adding
Visiting ==
  {"visit", "term_load", "term_change", "unm_load", "unm_check", "sig_load", "sig_send"}
  \cup Starting

\* What the map, the lists and the adding goroutines name has been on the node.
Present ==
  /\ \A p \in Pods : podMap[p] # NoArgs => phase[p] # "Absent"
  /\ \A p \in uids : phase[p] # "Absent"
  /\ \A g \in Goroutines : pc[g] \in Adding => phase[uid[g]] # "Absent"
  /\ pc["main"] \in MainScan => \A p \in todo["main"] : phase[p] # "Absent"
  /\ pc["health"] \in HealthScan => \A p \in todo["health"] : phase[p] # "Absent"

\* A status that says a pod has stopped or is gone is not outdated by later events.
StatusRight ==
  pc["health"] \in Visiting =>
    \A p \in todo["health"] : stat[p] \in Past => phase[p] \in Past

\* A stop signal goes to an object of a pod that has gone past running.
SignalRight ==
  /\ \A p \in Pods : podMap[p] # NoArgs => owner[podMap[p]] = p
  /\ \A a \in Args : chan[a] > 0 => owner[a] \in Pods
  /\ \A g \in Goroutines :
       /\ ~down /\ pc[g] \in Doomed => phase[uid[g]] \in Past
       /\ pc[g] = "sig_send" => owner[arg[g]] = uid[g]

StopInv ==
  /\ Present /\ StatusRight /\ SignalRight /\ StopsWhenDown /\ RunningPodNotStopped

\* A step that signals no object, names no new pod, and takes no goroutine into one of
\* the stretches above from outside.
Quiet ==
  /\ owner' = owner
  /\ down => down'
  /\ \A a \in Args : chan'[a] > 0 => chan[a] > 0
  /\ \A p \in Pods :
       /\ podMap'[p] # NoArgs => podMap'[p] = podMap[p]
       /\ phase[p] # "Absent" => phase'[p] # "Absent"
       /\ phase[p] \in Past => phase'[p] \in Past
  /\ \A p \in uids' : p \in uids \/ phase[p] # "Absent"
  /\ \A g \in Goroutines :
       /\ pc'[g] \in Doomed => pc[g] \in Doomed /\ uid'[g] = uid[g]
       /\ pc'[g] \in Adding => pc[g] \in Adding /\ uid'[g] = uid[g]
       /\ pc'[g] = "sig_send" => pc[g] = "sig_send" /\ arg'[g] = arg[g]
  /\ pc'["main"] \in MainScan => pc["main"] \in MainScan /\ todo'["main"] \subseteq todo["main"]
  /\ pc'["health"] \in HealthScan =>
       pc["health"] \in HealthScan /\ todo'["health"] \subseteq todo["health"]
  /\ pc'["health"] \in Visiting =>
       /\ pc["health"] \in Visiting
       /\ stat' = stat
       /\ todo'["health"] \subseteq todo["health"]
  /\ pc'["main"] \in Stops => down'

LEMMA StopFrame ==
  ASSUME TypeInv, TypeInv', StopInv, Quiet
  PROVE  StopInv'
<1> USE DEF TypeInv, TypeOK, Scanners
<1>1. \A g \in Goroutines : pc[g] \in Doomed \cup Adding => uid[g] \in Pods
  BY DEF Working, Busy, Doomed, Adding
<1>2. \A g \in Goroutines : pc[g] = "sig_send" => arg[g] \in Args
  BY DEF Working, Holding, Busy
<1>3. Present'
  <2>1. \A p \in Pods : podMap'[p] # NoArgs => phase'[p] # "Absent"
    BY DEF Quiet, StopInv, Present
  <2>2. \A p \in uids' : phase'[p] # "Absent"
    BY DEF Quiet, StopInv, Present
  <2>3. \A g \in Goroutines : pc'[g] \in Adding => phase'[uid'[g]] # "Absent"
    BY <1>1 DEF Quiet, StopInv, Present
  <2>4. pc'["main"] \in MainScan => \A p \in todo'["main"] : phase'[p] # "Absent"
    BY DEF Quiet, StopInv, Present
  <2>5. pc'["health"] \in HealthScan => \A p \in todo'["health"] : phase'[p] # "Absent"
    BY DEF Quiet, StopInv, Present
  <2> QED BY <2>1, <2>2, <2>3, <2>4, <2>5 DEF Present
<1>4. StatusRight'
  BY DEF Quiet, StopInv, StatusRight
<1>5. SignalRight'
  <2>1. \A p \in Pods : podMap'[p] # NoArgs => owner'[podMap'[p]] = p
    BY DEF Quiet, StopInv, SignalRight
  <2>2. \A g \in Goroutines : ~down' /\ pc'[g] \in Doomed => phase'[uid'[g]] \in Past
    BY <1>1 DEF Quiet, StopInv, SignalRight
  <2>3. \A g \in Goroutines : pc'[g] = "sig_send" => owner'[arg'[g]] = uid'[g]
    BY <1>2 DEF Quiet, StopInv, SignalRight, Doomed
  <2>4. \A a \in Args : chan'[a] > 0 => owner'[a] \in Pods
    BY DEF Quiet, StopInv, SignalRight
  <2> QED BY <2>1, <2>2, <2>3, <2>4 DEF SignalRight
<1>6. StopsWhenDown'
  BY DEF Quiet, StopsWhenDown
<1>7. RunningPodNotStopped'
  <2>1. SUFFICES ASSUME NEW a \in Args, ~down', chan'[a] > 0
                 PROVE  phase'[owner'[a]] \in Past
    BY DEF RunningPodNotStopped, Past
  <2>2. phase[owner[a]] \in Past
    BY <2>1 DEF Quiet, StopInv, RunningPodNotStopped, Past
  <2>3. owner[a] \in Pods
    BY <2>1 DEF Quiet, StopInv, SignalRight
  <2> QED BY <2>2, <2>3 DEF Quiet
<1> QED BY <1>3, <1>4, <1>5, <1>6, <1>7 DEF StopInv

\* A goroutine that goes on to l with its pod, or leaves it for l.
Onward(g, l) ==
  /\ l \in Doomed => pc[g] \in Doomed
  /\ l \in Adding => pc[g] \in Adding
  /\ l # "sig_send"
  /\ g = "main" => (l \in MainScan => pc[g] \in MainScan) /\ (l \in Stops => down)
  /\ g = "health" =>
       /\ l \in HealthScan => pc[g] \in HealthScan
       /\ l \in Visiting => pc[g] \in Visiting

LEMMA StopGoto ==
  ASSUME TypeInv, TypeInv', StopInv, UNCHANGED <<podMap, owner, chan, phase, loops, down>>,
         NEW g \in Goroutines, NEW l, Onward(g, l), Goto(g, l) \/ \E a \in Args : GotoWith(g, l, a)
  PROVE  StopInv'
<1>1. /\ pc' = [pc EXCEPT ![g] = l] /\ uid' = uid
      /\ \A h \in Goroutines \ {g} : arg'[h] = arg[h]
  BY DEF Goto, GotoWith, TypeInv, TypeOK
<1>2. \A h \in Goroutines : pc'[h] = IF h = g THEN l ELSE pc[h]
  BY <1>1 DEF TypeInv, TypeOK
<1>3. Quiet
  BY <1>1, <1>2 DEF Quiet, Onward, loops, Goroutines, StopInv, StopsWhenDown
<1> QED BY <1>3, StopFrame

LEMMA StopLeave ==
  ASSUME TypeInv, TypeInv', StopInv, UNCHANGED <<owner, chan, phase, loops, down>>,
         podMap' = podMap \/ \E p \in Pods : podMap' = [podMap EXCEPT ![p] = NoArgs],
         NEW g \in Goroutines, NEW l, Onward(g, l), l \notin Doomed \cup Adding, Leave(g, l)
  PROVE  StopInv'
<1>1. /\ pc' = [pc EXCEPT ![g] = l]
      /\ \A h \in Goroutines \ {g} : uid'[h] = uid[h] /\ arg'[h] = arg[h]
  BY DEF Leave, TypeInv, TypeOK
<1>2. \A h \in Goroutines : pc'[h] = IF h = g THEN l ELSE pc[h]
  BY <1>1 DEF TypeInv, TypeOK
<1>3. \A p \in Pods : podMap'[p] # NoArgs => podMap'[p] = podMap[p]
  BY DEF TypeInv, TypeOK
<1>4. Quiet
  BY <1>1, <1>2, <1>3 DEF Quiet, Onward, loops, Goroutines, StopInv, StopsWhenDown
<1> QED BY <1>4, StopFrame

LEMMA StopLookup ==
  ASSUME TypeInv, TypeInv', StopInv, UNCHANGED <<podMap, owner, chan, phase, loops, down>>,
         NEW g \in Goroutines, uid[g] \in Pods, NEW l, NEW back, Onward(g, l), Onward(g, back),
         back \notin Doomed \cup Adding, getPodArgsFromMap(g, l, back)
  PROVE  StopInv'
<1>1. CASE podMap[uid[g]] = NoArgs
  BY <1>1, StopLeave DEF getPodArgsFromMap
<1>2. CASE podMap[uid[g]] # NoArgs
  <2>1. podMap[uid[g]] \in Args
    BY <1>2 DEF TypeInv, TypeOK
  <2> QED BY <1>2, <2>1, StopGoto DEF getPodArgsFromMap
<1> QED BY <1>1, <1>2

LEMMA StopChange ==
  ASSUME TypeInv, TypeInv', StopInv, UNCHANGED <<podMap, owner, chan, phase, loops, down>>,
         NEW g \in Goroutines, NEW l, NEW back, Onward(g, l), Onward(g, back),
         back \notin Doomed \cup Adding, NEW s, NEW allowed,
         changePodTrafficMonitorState(g, s, allowed, l, back)
  PROVE  StopInv'
BY StopGoto, StopLeave DEF changePodTrafficMonitorState

\* Steps that move no goroutine and name no pod.
LEMMA StopRest ==
  ASSUME TypeInv, TypeInv', StopInv, UNCHANGED <<podMap, owner, pc, uid, arg, uids, stat>>,
         todo'["main"] \subseteq todo["main"], todo'["health"] \subseteq todo["health"],
         down => down', \A a \in Args : chan'[a] > 0 => chan[a] > 0,
         \A p \in Pods : phase[p] # "Absent" => phase'[p] # "Absent",
         \A p \in Pods : phase[p] \in Past => phase'[p] \in Past
  PROVE  StopInv'
<1>1. pc["main"] \in Stops => down'
  BY DEF StopInv, StopsWhenDown
<1>2. \A p \in Pods :
        /\ podMap'[p] # NoArgs => podMap'[p] = podMap[p]
        /\ phase[p] # "Absent" => phase'[p] # "Absent"
        /\ phase[p] \in Past => phase'[p] \in Past
  OBVIOUS
<1>3. \A a \in Args : chan'[a] > 0 => chan[a] > 0
  OBVIOUS
<1>4. Quiet
  BY <1>1, <1>2, <1>3 DEF Quiet
<1> QED BY <1>4, StopFrame

LEMMA StopCall ==
  ASSUME TypeInv, TypeInv', StopInv, NEW g \in Goroutines, CallStep(g)
  PROVE  StopInv'
<1> USE DaemonsetAssumption
    DEF DaemonsetAssumption, Goroutines, Onward, Doomed, Adding, Starting, MainScan, HealthScan,
      Visiting, Stops, At, cluster, objects, loops, signals
<1>1. CASE addPodArgsToMap_store(g)
  <2>1. CASE podMap[uid[g]] = NoArgs
    <3>1. PICK a \in Args : /\ a \in FreeArgs
                            /\ NewPodArgs(a, uid[g])
                            /\ podMap' = [podMap EXCEPT ![uid[g]] = a]
                            /\ GotoWith(g, "add_state", a)
      BY <1>1, <2>1 DEF addPodArgsToMap_store, FreeArgs
    <3>2. /\ \A h \in Goroutines : arg[h] # a
          /\ \A p \in Pods : podMap[p] # a
          /\ At(g, "add_store") /\ uid[g] \in Pods
          /\ UNCHANGED <<phase, uids, todo, stat, down>>
      BY <1>1, <3>1 DEF FreeArgs, addPodArgsToMap_store, TypeInv, Working, Busy
    <3> USE DEF TypeInv, TypeOK, NewPodArgs, GotoWith
    <3>3. Present'
      BY <3>1, <3>2 DEF StopInv, Present
    <3>4. StatusRight'
      BY <3>1, <3>2 DEF StopInv, StatusRight
    <3>5. SignalRight'
      BY <3>1, <3>2 DEF StopInv, SignalRight
    <3>6. StopsWhenDown'
      BY <3>1, <3>2 DEF StopInv, StopsWhenDown
    <3>7. RunningPodNotStopped'
      BY <3>1, <3>2 DEF StopInv, RunningPodNotStopped
    <3> QED BY <3>3, <3>4, <3>5, <3>6, <3>7 DEF StopInv
  <2>2. CASE podMap[uid[g]] # NoArgs
    <3>1. /\ pc[g] = "add_store" /\ Leave(g, AfterAdd(g))
          /\ UNCHANGED <<podMap, owner, chan, phase, loops, down>>
      BY <1>1, <2>2 DEF addPodArgsToMap_store
    <3> QED BY <3>1, StopLeave DEF AfterAdd
  <2> QED BY <2>1, <2>2
<1>2. CASE addPodArgsToMap_state(g)
  <2>1. /\ pc[g] = "add_state" /\ uid[g] \in Pods
        /\ UNCHANGED <<podMap, owner, chan, phase, todo, stat, down>>
        /\ uids' = uids \/ uids' = uids \cup {uid[g]}
    BY <1>2 DEF addPodArgsToMap_state, TypeInv, Working, Busy
  <2>2. \A p \in uids' : p \in uids \/ phase[p] # "Absent"
    BY <2>1 DEF StopInv, Present
  <2>3. PICK l \in {"start_load", "scan", "idle"} :
          /\ pc' = [pc EXCEPT ![g] = l]
          /\ l = "start_load" => g = "main"
          /\ l = "idle" => g \notin {"main", "health"}
          /\ \A h \in Goroutines \ {g} : uid'[h] = uid[h] /\ arg'[h] = arg[h]
    BY <1>2 DEF addPodArgsToMap_state, AfterAdd, Goto, Leave, TypeInv, TypeOK
  <2>4. \A h \in Goroutines : pc'[h] = IF h = g THEN l ELSE pc[h]
    BY <2>3 DEF TypeInv, TypeOK
  <2>5. Quiet
    BY <2>1, <2>2, <2>3, <2>4 DEF Quiet, StopInv, StopsWhenDown
  <2> QED BY <2>5, StopFrame
<1>3. CASE StartApiDumpProcess_load(g)
  <2>1. /\ pc[g] = "start_load" /\ getPodArgsFromMap(g, "start_change", AfterStart(g))
        /\ UNCHANGED <<podMap, owner, chan, phase, loops, down>>
    BY <1>3 DEF StartApiDumpProcess_load
  <2>2. uid[g] \in Pods
    BY <2>1 DEF TypeInv, Working, Busy
  <2> QED BY <2>1, <2>2, StopLookup DEF AfterStart
<1>4. CASE StartApiDumpProcess_change(g)
  <2>1. /\ pc[g] = "start_change"
        /\ changePodTrafficMonitorState(g, "TrafficMonitoringRunning", {"PodRunning"},
                                        "start_spawn", AfterStart(g))
        /\ UNCHANGED <<podMap, owner, chan, phase, loops, down>>
    BY <1>4 DEF StartApiDumpProcess_change
  <2> QED BY <2>1, StopChange DEF AfterStart
<1>5. CASE StartApiDumpProcess_spawn(g)
  <2>1. /\ pc[g] = "start_spawn" /\ Leave(g, AfterStart(g))
        /\ UNCHANGED <<podMap, owner, chan, phase, loops, down>>
    BY <1>5 DEF StartApiDumpProcess_spawn
  <2> QED BY <2>1, StopLeave DEF AfterStart
<1>6. CASE SignalApiDumpProcessToStop_load(g)
  <2>1. /\ pc[g] = "sig_load" /\ uid[g] \in Pods
        /\ UNCHANGED <<podMap, owner, chan, phase, loops, down>>
        /\ g = "main" => down
    BY <1>6 DEF SignalApiDumpProcessToStop_load, TypeInv, Working, Busy, StopInv, StopsWhenDown
  <2>2. CASE podMap[uid[g]] = NoArgs
    <3>1. CASE g = "main"
      BY <1>6, <2>1, <2>2, <3>1, StopGoto DEF SignalApiDumpProcessToStop_load, ReturnFromSignal
    <3>2. CASE g # "main"
      BY <1>6, <2>1, <2>2, <3>2, StopLeave
      DEF SignalApiDumpProcessToStop_load, ReturnFromSignal, AfterStart
    <3> QED BY <3>1, <3>2
  <2>3. CASE podMap[uid[g]] # NoArgs
    <3>1. GotoWith(g, "sig_send", podMap[uid[g]])
      BY <1>6, <2>3 DEF SignalApiDumpProcessToStop_load
    <3> USE DEF TypeInv, TypeOK, GotoWith
    <3>2. Present'
      BY <2>1, <3>1 DEF StopInv, Present
    <3>3. StatusRight'
      BY <2>1, <3>1 DEF StopInv, StatusRight
    <3>4. SignalRight'
      BY <2>1, <2>3, <3>1 DEF StopInv, SignalRight
    <3>5. StopsWhenDown' /\ RunningPodNotStopped'
      BY <2>1, <3>1 DEF StopInv, StopsWhenDown, RunningPodNotStopped
    <3> QED BY <3>2, <3>3, <3>4, <3>5 DEF StopInv
  <2> QED BY <2>2, <2>3
<1>7. CASE SignalApiDumpProcessToStop_send(g)
  <2>1. /\ pc[g] = "sig_send" /\ uid[g] \in Pods /\ arg[g] \in Args
        /\ UNCHANGED <<podMap, owner, phase, uids, todo, stat, down>>
        /\ g = "main" => down
    BY <1>7
    DEF SignalApiDumpProcessToStop_send, TypeInv, Working, Holding, Busy, StopInv, StopsWhenDown
  <2>2. /\ owner[arg[g]] = uid[g]
        /\ ~down => phase[uid[g]] \in Past
    BY <2>1 DEF StopInv, SignalRight
  <2>3. \A a \in Args : a # arg[g] => chan'[a] = chan[a]
    BY <1>7 DEF SignalApiDumpProcessToStop_send, TypeInv, TypeOK
  <2>4. PICK l \in {"stop_delete", "visit", "idle"} :
          /\ pc' = [pc EXCEPT ![g] = l]
          /\ l = "stop_delete" => g = "main"
          /\ l = "idle" => g \notin {"main", "health"}
          /\ l = "visit" => g = "health"
          /\ \A h \in Goroutines \ {g} : uid'[h] = uid[h] /\ arg'[h] = arg[h]
    BY <1>7
    DEF SignalApiDumpProcessToStop_send, ReturnFromSignal, AfterStart, Goto, Leave, TypeInv, TypeOK
  <2>5. \A h \in Goroutines : pc'[h] = IF h = g THEN l ELSE pc[h]
    BY <2>4 DEF TypeInv, TypeOK
  <2>6. Present'
    BY <2>1, <2>4, <2>5 DEF StopInv, Present
  <2>7. StatusRight'
    BY <2>1, <2>4, <2>5 DEF StopInv, StatusRight
  <2>8. SignalRight'
    BY <2>1, <2>2, <2>3, <2>4, <2>5 DEF StopInv, SignalRight
  <2>9. StopsWhenDown'
    BY <2>1, <2>4, <2>5 DEF StopInv, StopsWhenDown
  <2>10. RunningPodNotStopped'
    BY <2>1, <2>2, <2>3 DEF StopInv, RunningPodNotStopped, Past
  <2> QED BY <2>6, <2>7, <2>8, <2>9, <2>10 DEF StopInv
<1>8. CASE SignalApiDumpProcessToStop_panic(g)
  <2>1. /\ pc' = [pc EXCEPT !["main"] = "panicked"]
        /\ UNCHANGED <<podMap, owner, chan, phase, uid, arg, uids, todo, stat, down>>
    BY <1>8 DEF SignalApiDumpProcessToStop_panic
  <2>2. \A h \in Goroutines : pc'[h] = IF h = "main" THEN "panicked" ELSE pc[h]
    BY <2>1 DEF TypeInv, TypeOK
  <2>3. Quiet
    BY <2>1, <2>2 DEF Quiet
  <2> QED BY <2>3, StopFrame
<1> QED
  BY <1>1, <1>2, <1>3, <1>4, <1>5, <1>6, <1>7, <1>8 DEF CallStep

LEMMA StopHandler ==
  ASSUME TypeInv, TypeInv', StopInv, NEW g \in Handlers, HandlerStep(g)
  PROVE  StopInv'
<1> USE DaemonsetAssumption
    DEF DaemonsetAssumption, Goroutines, Onward, Doomed, Adding, Starting, MainScan, HealthScan,
      Visiting, Stops, At, cluster, objects, loops, signals
<1>1. CASE handlePodDeleteEvent_load(g)
  <2>1. /\ pc[g] = "del_load" /\ getPodArgsFromMap(g, "del_change", "idle")
        /\ UNCHANGED <<podMap, owner, chan, phase, loops, down>>
    BY <1>1 DEF handlePodDeleteEvent_load
  <2>2. uid[g] \in Pods
    BY <2>1 DEF TypeInv, Working, Busy
  <2> QED BY <2>1, <2>2, StopLookup
<1>2. CASE handlePodDeleteEvent_change(g)
  <2>1. /\ pc[g] = "del_change"
        /\ UNCHANGED <<podMap, owner, chan, phase, loops, down>>
        /\ \E s \in {"PodStopped", "PodTerminated"} :
             changePodTrafficMonitorState(g, s, {"TrafficMonitoringRunning"}, "sig_load", "idle")
    BY <1>2 DEF handlePodDeleteEvent_change
  <2> QED BY <2>1, StopChange
<1>3. CASE handlePodModifyEvent_load(g)
  <2>1. /\ pc[g] = "mod_load" /\ getPodArgsFromMap(g, "mod_check", "idle")
        /\ UNCHANGED <<podMap, owner, chan, phase, loops, down>>
    BY <1>3 DEF handlePodModifyEvent_load
  <2>2. uid[g] \in Pods
    BY <2>1 DEF TypeInv, Working, Busy
  <2> QED BY <2>1, <2>2, StopLookup
<1>4. CASE handlePodModifyEvent_check(g)
  <2>1. /\ pc[g] = "mod_check"
        /\ Goto(g, "mod_inspect") \/ Leave(g, "idle")
        /\ UNCHANGED <<podMap, owner, chan, phase, loops, down>>
    BY <1>4 DEF handlePodModifyEvent_check
  <2> QED BY <2>1, StopGoto, StopLeave
<1>5. CASE handlePodModifyEvent_inspect(g)
  <2>1. /\ pc[g] = "mod_inspect" /\ UNCHANGED <<owner, chan, phase, loops, down>>
        /\ \/ Goto(g, "mod_change") /\ podMap' = podMap
           \/ Leave(g, "idle") /\ podMap' = [podMap EXCEPT ![uid[g]] = NoArgs]
    BY <1>5 DEF handlePodModifyEvent_inspect
  <2>2. uid[g] \in Pods
    BY <2>1 DEF TypeInv, Working, Busy
  <2> QED BY <2>1, <2>2, StopGoto, StopLeave
<1>6. CASE handlePodModifyEvent_change(g)
  <2>1. /\ pc[g] = "mod_change"
        /\ UNCHANGED <<podMap, owner, chan, phase, loops, down>>
        /\ changePodTrafficMonitorState(g, "PodRunning", {"PodPending"}, "start_load", "idle")
    BY <1>6 DEF handlePodModifyEvent_change
  <2> QED BY <2>1, StopChange
<1> QED
  BY <1>1, <1>2, <1>3, <1>4, <1>5, <1>6 DEF HandlerStep

LEMMA StopScan ==
  ASSUME APIMayFail = FALSE, TypeInv, TypeInv', StopInv, NEW g \in Scanners, ScanStep(g)
  PROVE  StopInv'
<1> USE DaemonsetAssumption
    DEF DaemonsetAssumption, Goroutines, Onward, Doomed, Adding, Starting, MainScan, HealthScan,
      Visiting, Stops, At, cluster, objects, loops, signals
<1> USE DEF TypeInv, TypeOK, Scanners
<1>1. CASE GetPodsInAgentNode(g)
  <2>1. /\ UNCHANGED <<podMap, owner, chan, phase, uids, stat, down, uid, arg>>
        /\ pc' = [pc EXCEPT ![g] = "scan"] /\ todo' = [todo EXCEPT ![g] = Listed]
    BY <1>1 DEF GetPodsInAgentNode, PodLists, Goto
  <2>2. Present'
    BY <2>1 DEF StopInv, Present, Listed
  <2>3. StatusRight' /\ SignalRight'
    BY <2>1 DEF StopInv, StatusRight, SignalRight
  <2>4. StopsWhenDown' /\ RunningPodNotStopped'
    BY <2>1 DEF StopInv, StopsWhenDown, RunningPodNotStopped
  <2> QED BY <2>2, <2>3, <2>4 DEF StopInv
<1>2. CASE scan_inspect(g)
  <2>1. PICK p \in todo[g] :
          /\ todo' = [todo EXCEPT ![g] = @ \ {p}]
          /\ Take(g, "add_store", p, NoArgs) \/ UNCHANGED control
    BY <1>2 DEF scan_inspect
  <2>2. /\ UNCHANGED <<podMap, owner, chan, phase, uids, stat, down>>
        /\ pc[g] = "scan"
    BY <1>2 DEF scan_inspect
  <2>3. todo'["main"] \subseteq todo["main"] /\ todo'["health"] \subseteq todo["health"]
    BY <2>1
  <2>4. CASE UNCHANGED control
    <3>1. UNCHANGED <<pc, uid, arg>>
      BY <2>4 DEF control
    <3> QED BY <2>2, <2>3, <3>1, StopRest
  <2>5. CASE Take(g, "add_store", p, NoArgs)
    <3>1. p \in Pods /\ phase[p] # "Absent"
      BY <2>1, <2>2 DEF StopInv, Present
    <3> USE DEF Take
    <3>2. Present'
      BY <2>2, <2>3, <2>5, <3>1 DEF StopInv, Present
    <3>3. StatusRight' /\ SignalRight'
      BY <2>2, <2>3, <2>5 DEF StopInv, StatusRight, SignalRight
    <3>4. StopsWhenDown' /\ RunningPodNotStopped'
      BY <2>2, <2>5 DEF StopInv, StopsWhenDown, RunningPodNotStopped
    <3> QED BY <3>2, <3>3, <3>4 DEF StopInv
  <2> QED BY <2>1, <2>4, <2>5
<1> QED
  BY <1>1, <1>2 DEF ScanStep

LEMMA StopHealth ==
  ASSUME APIMayFail = FALSE, TypeInv, TypeInv', StopInv, HealthStep
  PROVE  StopInv'
<1> USE DaemonsetAssumption
    DEF DaemonsetAssumption, Goroutines, Onward, Doomed, Adding, Starting, MainScan, HealthScan,
      Visiting, Stops, At, cluster, objects, loops, signals
<1>1. CASE checkPodsHealth_begin
  <2>1. /\ UNCHANGED <<podMap, owner, chan, phase, todo, stat, down, uid, arg>>
        /\ pc' = [pc EXCEPT !["health"] = "list"] /\ uids' = Keys
    BY <1>1 DEF checkPodsHealth_begin, Goto
  <2>2. \A g \in Goroutines : pc'[g] = IF g = "health" THEN "list" ELSE pc[g]
    BY <2>1 DEF TypeInv, TypeOK
  <2>3. \A p \in uids' : p \in uids \/ phase[p] # "Absent"
    BY <2>1 DEF Keys, StopInv, Present
  <2>4. Quiet
    BY <2>1, <2>2, <2>3 DEF Quiet, StopInv, StopsWhenDown
  <2> QED BY <2>4, StopFrame
<1>2. CASE PodsHealthWorker_stop
  <2>1. /\ pc["health"] = "idle" /\ Goto("health", "stopped")
        /\ UNCHANGED <<podMap, owner, chan, phase, loops, down>>
    BY <1>2 DEF PodsHealthWorker_stop
  <2> QED BY <2>1, StopGoto
<1>3. CASE checkPodsHealth_scanned
  <2>1. PICK l \in {"prune_start", "status"} : Goto("health", l)
    BY <1>3 DEF checkPodsHealth_scanned
  <2>2. UNCHANGED <<podMap, owner, chan, phase, loops, down>>
    BY <1>3 DEF checkPodsHealth_scanned
  <2> QED BY <2>1, <2>2, StopGoto
<1>4. CASE GetPodsStatusByUIDs
  <2> USE DEF TypeInv, TypeOK
  <2>1. /\ UNCHANGED <<podMap, owner, chan, phase, uids, down, uid, arg>>
        /\ pc' = [pc EXCEPT !["health"] = "visit"] /\ todo' = [todo EXCEPT !["health"] = uids]
        /\ stat' = [p \in Pods |-> IF p \in Listed THEN phase[p] ELSE "Gone"]
    BY <1>4 DEF GetPodsStatusByUIDs, PodLists, Goto
  <2>2. todo'["health"] = uids /\ todo'["main"] = todo["main"]
    BY <2>1 DEF Scanners
  <2>3. \A p \in uids : stat'[p] \in Past => phase[p] \in Past
    BY <2>1 DEF StopInv, Present, Listed, Phases, Past
  <2>4. Present'
    BY <2>1, <2>2 DEF StopInv, Present
  <2>5. StatusRight'
    BY <2>1, <2>2, <2>3 DEF StatusRight
  <2>6. SignalRight' /\ StopsWhenDown' /\ RunningPodNotStopped'
    BY <2>1 DEF StopInv, SignalRight, StopsWhenDown, RunningPodNotStopped
  <2> QED BY <2>4, <2>5, <2>6 DEF StopInv
<1>5. CASE checkPodsHealth_visit
  <2> USE DEF TypeInv, TypeOK, Scanners
  <2>1. PICK p \in todo["health"] :
          /\ todo' = [todo EXCEPT !["health"] = @ \ {p}]
          /\ \/ UNCHANGED control
             \/ Take("health", "unm_load", p, NoArgs)
             \/ stat[p] \in Past /\ Take("health", "term_load", p, NoArgs)
    BY <1>5 DEF checkPodsHealth_visit, Past
  <2>2. UNCHANGED <<podMap, owner, chan, phase, uids, stat, down>> /\ pc["health"] = "visit"
    BY <1>5 DEF checkPodsHealth_visit
  <2>3. todo'["main"] \subseteq todo["main"] /\ todo'["health"] \subseteq todo["health"]
    BY <2>1
  <2>4. CASE UNCHANGED control
    <3>1. UNCHANGED <<pc, uid, arg>>
      BY <2>4 DEF control
    <3> QED BY <2>2, <2>3, <3>1, StopRest
  <2>5. ASSUME NEW l \in {"unm_load", "term_load"}, Take("health", l, p, NoArgs),
               l = "term_load" => stat[p] \in Past
        PROVE  StopInv'
    <3>1. p \in Pods /\ (l = "term_load" => phase[p] \in Past)
      BY <2>1, <2>2, <2>5 DEF StopInv, StatusRight
    <3> USE DEF Take
    <3>2. Present'
      BY <2>2, <2>3, <2>5 DEF StopInv, Present
    <3>3. StatusRight'
      BY <2>2, <2>3, <2>5 DEF StopInv, StatusRight
    <3>4. SignalRight'
      BY <2>2, <2>5, <3>1 DEF StopInv, SignalRight
    <3>5. StopsWhenDown' /\ RunningPodNotStopped'
      BY <2>2, <2>5 DEF StopInv, StopsWhenDown, RunningPodNotStopped
    <3> QED BY <3>2, <3>3, <3>4, <3>5 DEF StopInv
  <2> QED BY <2>1, <2>4, <2>5
<1>6. CASE checkPodsHealth_done
  <2>1. /\ UNCHANGED <<podMap, owner, chan, phase, todo, down, uid, arg>>
        /\ pc' = [pc EXCEPT !["health"] = "prune_start"] /\ uids' = {}
    BY <1>6 DEF checkPodsHealth_done, Goto
  <2>2. \A g \in Goroutines : pc'[g] = IF g = "health" THEN "prune_start" ELSE pc[g]
    BY <2>1 DEF TypeInv, TypeOK
  <2>3. Quiet
    BY <2>1, <2>2 DEF Quiet, StopInv, StopsWhenDown
  <2> QED BY <2>3, StopFrame
<1>7. CASE handleTerminatedPod_load
  <2>1. /\ pc["health"] = "term_load" /\ getPodArgsFromMap("health", "term_change", "visit")
        /\ UNCHANGED <<podMap, owner, chan, phase, loops, down>>
    BY <1>7 DEF handleTerminatedPod_load
  <2>2. uid["health"] \in Pods
    BY <2>1 DEF TypeInv, Working, Busy
  <2> QED BY <2>1, <2>2, StopLookup
<1>8. CASE handleTerminatedPod_change
  <2>1. PICK allowed : changePodTrafficMonitorState("health", "PodTerminated", allowed,
                                                    "sig_load", "visit")
    BY <1>8 DEF handleTerminatedPod_change
  <2>2. pc["health"] = "term_change" /\ UNCHANGED <<podMap, owner, chan, phase, loops, down>>
    BY <1>8 DEF handleTerminatedPod_change
  <2> QED BY <2>1, <2>2, StopChange
<1>9. CASE handleUnmonitoredPod_load
  <2>1. /\ pc["health"] = "unm_load" /\ getPodArgsFromMap("health", "unm_check", "visit")
        /\ UNCHANGED <<podMap, owner, chan, phase, loops, down>>
    BY <1>9 DEF handleUnmonitoredPod_load
  <2>2. uid["health"] \in Pods
    BY <2>1 DEF TypeInv, Working, Busy
  <2> QED BY <2>1, <2>2, StopLookup
<1>10. CASE handleUnmonitoredPod_check
  <2>1. /\ pc["health"] = "unm_check"
        /\ Goto("health", "start_load") \/ Leave("health", "visit")
        /\ UNCHANGED <<podMap, owner, chan, phase, loops, down>>
    BY <1>10 DEF handleUnmonitoredPod_check
  <2> QED BY <2>1, StopGoto, StopLeave
<1>11. CASE pruneStoppedProcesses_begin \/ pruneStoppedProcesses_visit \/ pruneStoppedProcesses_end
  <2>1. PICK l \in {"prune", "prune_check", "idle"} : pc' = [pc EXCEPT !["health"] = l]
    BY <1>11
    DEF pruneStoppedProcesses_begin, pruneStoppedProcesses_visit, pruneStoppedProcesses_end, Goto, Take
  <2>2. /\ UNCHANGED <<podMap, owner, chan, phase, uids, stat, down>>
        /\ todo'["main"] = todo["main"]
        /\ \A g \in Goroutines \ {"health"} : uid'[g] = uid[g] /\ arg'[g] = arg[g]
    BY <1>11
    DEF pruneStoppedProcesses_begin, pruneStoppedProcesses_visit, pruneStoppedProcesses_end, Goto,
      Take, TypeInv, TypeOK, Scanners
  <2>3. \A g \in Goroutines : pc'[g] = IF g = "health" THEN l ELSE pc[g]
    BY <2>1 DEF TypeInv, TypeOK
  <2>4. Quiet
    BY <2>2, <2>3 DEF Quiet, StopInv, StopsWhenDown
  <2> QED BY <2>4, StopFrame
<1>12. CASE pruneStoppedProcesses_check
  <2>1. /\ UNCHANGED <<podMap, owner, chan, phase, loops, down>>
        /\ Leave("health", "prune") \/ Goto("health", "prune_delete")
    BY <1>12 DEF pruneStoppedProcesses_check
  <2> QED BY <2>1, StopGoto, StopLeave
<1>13. CASE pruneStoppedProcesses_delete
  <2>1. /\ pc["health"] = "prune_delete" /\ UNCHANGED <<owner, chan, phase, loops, down>>
        /\ podMap' = [podMap EXCEPT ![uid["health"]] = NoArgs]
        /\ Leave("health", "prune")
    BY <1>13 DEF pruneStoppedProcesses_delete
  <2>2. uid["health"] \in Pods
    BY <2>1 DEF TypeInv, Working, Busy
  <2> QED BY <2>1, <2>2, StopLeave
<1> QED
  BY <1>1, <1>2, <1>3, <1>4, <1>5, <1>6, <1>7, <1>8, <1>9, <1>10, <1>11, <1>12, <1>13
  DEF HealthStep

LEMMA StopMain ==
  ASSUME TypeInv, TypeInv', StopInv, MainStep
  PROVE  StopInv'
<1> USE DaemonsetAssumption
    DEF DaemonsetAssumption, Goroutines, Onward, Doomed, Adding, Starting, MainScan, HealthScan,
      Visiting, Stops, At, cluster, objects, loops, signals
<1>1. CASE StartProcessInExistingPods_done
  <2>1. Goto("main", "wait") /\ UNCHANGED <<podMap, owner, chan, phase, loops, down>>
    BY <1>1 DEF StartProcessInExistingPods_done
  <2> QED BY <2>1, StopGoto
<1>2. CASE Run_signal
  <2>1. /\ UNCHANGED <<podMap, owner, chan, phase, uids, todo, stat, uid, arg>>
        /\ pc' = [pc EXCEPT !["main"] = "stop_start"] /\ down'
    BY <1>2 DEF Run_signal, Goto
  <2>2. \A g \in Goroutines : pc'[g] = IF g = "main" THEN "stop_start" ELSE pc[g]
    BY <2>1 DEF TypeInv, TypeOK
  <2>3. Quiet
    BY <2>1, <2>2 DEF Quiet
  <2> QED BY <2>3, StopFrame
<1>3. CASE \/ StopAllApiDumpProcesses_begin \/ StopAllApiDumpProcesses_visit
           \/ StopAllApiDumpProcesses_visited
  <2>1. PICK l \in {"stop_visit", "stop_change", "wg_wait"} : pc' = [pc EXCEPT !["main"] = l]
    BY <1>3
    DEF StopAllApiDumpProcesses_begin, StopAllApiDumpProcesses_visit,
      StopAllApiDumpProcesses_visited, Goto, Take
  <2>2. /\ UNCHANGED <<podMap, owner, chan, phase, uids, stat, down>>
        /\ todo'["health"] = todo["health"]
        /\ \A g \in Goroutines \ {"main"} : uid'[g] = uid[g] /\ arg'[g] = arg[g]
        /\ down
    BY <1>3
    DEF StopAllApiDumpProcesses_begin, StopAllApiDumpProcesses_visit,
      StopAllApiDumpProcesses_visited, Goto, Take, TypeInv, TypeOK, Scanners, StopInv, StopsWhenDown
  <2>3. \A g \in Goroutines : pc'[g] = IF g = "main" THEN l ELSE pc[g]
    BY <2>1 DEF TypeInv, TypeOK
  <2>4. Quiet
    BY <2>2, <2>3 DEF Quiet
  <2> QED BY <2>4, StopFrame
<1>4. CASE StopAllApiDumpProcesses_change
  <2>1. /\ changePodTrafficMonitorState("main", "DaemonSetShutdown", {}, "sig_load", "stop_visit")
        /\ UNCHANGED <<podMap, owner, chan, phase, loops, down>>
        /\ pc["main"] = "stop_change"
    BY <1>4 DEF StopAllApiDumpProcesses_change
  <2>2. down
    BY <2>1 DEF StopInv, StopsWhenDown
  <2>3. CASE Goto("main", "sig_load")
    <3>1. \A g \in Goroutines : pc'[g] = IF g = "main" THEN "sig_load" ELSE pc[g]
      BY <2>3 DEF Goto, TypeInv, TypeOK
    <3>2. Present'
      BY <2>1, <2>3, <3>1 DEF Goto, StopInv, Present
    <3>3. StatusRight' /\ SignalRight'
      BY <2>1, <2>2, <2>3, <3>1 DEF Goto, StopInv, StatusRight, SignalRight
    <3>4. StopsWhenDown' /\ RunningPodNotStopped'
      BY <2>1, <2>2 DEF StopInv, StopsWhenDown, RunningPodNotStopped
    <3> QED BY <3>2, <3>3, <3>4 DEF StopInv
  <2>4. CASE Leave("main", "stop_visit")
    BY <2>1, <2>2, <2>4, StopLeave
  <2> QED BY <2>1, <2>3, <2>4 DEF changePodTrafficMonitorState
<1>5. CASE StopAllApiDumpProcesses_delete
  <2>1. /\ pc["main"] = "stop_delete" /\ UNCHANGED <<owner, chan, phase, loops, down>>
        /\ podMap' = [podMap EXCEPT ![uid["main"]] = NoArgs]
        /\ Leave("main", "stop_visit")
    BY <1>5 DEF StopAllApiDumpProcesses_delete
  <2>2. uid["main"] \in Pods /\ down
    BY <2>1 DEF TypeInv, Working, Busy, StopInv, StopsWhenDown
  <2> QED BY <2>1, <2>2, StopLeave
<1>6. CASE StopAllApiDumpProcesses_wait
  <2>1. Goto("main", "exited") /\ UNCHANGED <<podMap, owner, chan, phase, loops, down>>
    BY <1>6 DEF StopAllApiDumpProcesses_wait
  <2> QED BY <2>1, StopGoto
<1> QED
  BY <1>1, <1>2, <1>3, <1>4, <1>5, <1>6 DEF MainStep

LEMMA StopProcess ==
  ASSUME TypeInv, TypeInv', StopInv, NEW a \in Args, ProcessStep(a) \/ apidump_finish(a)
  PROVE  StopInv'
<1>1. UNCHANGED <<podMap, owner, phase, pc, uid, arg, uids, todo, stat, down>>
  BY DEF ProcessStep, apidump_begin, apidump_receive, apidump_finish, apidump_signal,
    apidump_return, apidump_final, cluster, objects, loops, control, signals
<1>2. \A b \in Args : chan'[b] > 0 => chan[b] > 0
  <2>1. CASE chan' = chan
    BY <2>1
  <2>2. CASE chan' = [chan EXCEPT ![a] = IF @ > 0 THEN @ - 1 ELSE 0]
    BY <2>2 DEF TypeInv, TypeOK
  <2> QED BY <2>1, <2>2
    DEF ProcessStep, apidump_begin, apidump_receive, apidump_finish, apidump_signal,
      apidump_return, apidump_final, objects
<1> QED BY <1>1, <1>2, StopRest

LEMMA StopNode ==
  ASSUME TypeInv, TypeInv', StopInv, NodeStep
  PROVE  StopInv'
<1> USE DaemonsetAssumption
    DEF DaemonsetAssumption, Goroutines, Onward, Doomed, Adding, Starting, MainScan, HealthScan,
      Visiting, Stops, At, cluster, objects, loops, signals
<1>1. ASSUME NEW p \in Pods, PodAdded(p) \/ PodModified(p) \/ PodDeleted(p)
      PROVE  StopInv'
  <2>1. /\ UNCHANGED <<podMap, owner, chan, uids, todo, stat, down>>
        /\ phase' = [phase EXCEPT ![p] = phase'[p]] /\ phase'[p] # "Absent"
        /\ phase[p] \in Past => phase'[p] \in Past
    BY <1>1 DEF PodAdded, PodModified, PodDeleted, PodEvent, Past, TypeInv, TypeOK
  <2>2. \A q \in Pods : /\ phase[q] # "Absent" => phase'[q] # "Absent"
                        /\ phase[q] \in Past => phase'[q] \in Past
    BY <2>1 DEF TypeInv, TypeOK
  <2>3. CASE UNCHANGED control
    <3>1. UNCHANGED <<pc, uid, arg>>
      BY <2>3 DEF control
    <3> QED BY <2>1, <2>2, <3>1, StopRest
  <2>4. CASE ~UNCHANGED control
    <3>1. PICK h \in Handlers, l \in {"add_store", "mod_load", "del_load"} :
            /\ Take(h, l, p, NoArgs)
            /\ l = "del_load" => phase'[p] \in Past
      BY <1>1, <2>4
      DEF PodAdded, PodModified, PodDeleted, PodEvent, KubernetesPodEventsWorker, Past, TypeInv,
        TypeOK
    <3> USE DEF Take, TypeInv, TypeOK
    <3>2. Present'
      <4>1. \A q \in Pods : podMap'[q] # NoArgs => phase'[q] # "Absent"
        BY <2>1, <2>2 DEF StopInv, Present
      <4>2. \A q \in uids' : phase'[q] # "Absent"
        BY <2>1, <2>2 DEF StopInv, Present
      <4>3. \A g \in Goroutines : pc'[g] \in Adding => phase'[uid'[g]] # "Absent"
        BY <2>1, <2>2, <3>1 DEF StopInv, Present, Working, Busy
      <4>4. /\ pc'["main"] \in MainScan => \A q \in todo'["main"] : phase'[q] # "Absent"
            /\ pc'["health"] \in HealthScan => \A q \in todo'["health"] : phase'[q] # "Absent"
        BY <2>1, <2>2, <3>1 DEF StopInv, Present, Scanners
      <4> QED BY <4>1, <4>2, <4>3, <4>4 DEF Present
    <3>3. StatusRight'
      BY <2>1, <2>2, <3>1 DEF StopInv, StatusRight, Scanners
    <3>4. SignalRight'
      <4>1. \A q \in Pods : podMap'[q] # NoArgs => owner'[podMap'[q]] = q
        BY <2>1 DEF StopInv, SignalRight
      <4>2. \A a \in Args : chan'[a] > 0 => owner'[a] \in Pods
        BY <2>1 DEF StopInv, SignalRight
      <4>3. \A g \in Goroutines : ~down' /\ pc'[g] \in Doomed => phase'[uid'[g]] \in Past
        BY <2>1, <2>2, <3>1 DEF StopInv, SignalRight, Working, Busy
      <4>4. \A g \in Goroutines : pc'[g] = "sig_send" => owner'[arg'[g]] = uid'[g]
        BY <2>1, <3>1 DEF StopInv, SignalRight
      <4> QED BY <4>1, <4>2, <4>3, <4>4 DEF SignalRight
    <3>5. StopsWhenDown'
      BY <2>1, <3>1 DEF StopInv, StopsWhenDown
    <3>6. RunningPodNotStopped'
      BY <2>1, <2>2 DEF StopInv, SignalRight, RunningPodNotStopped, Past
    <3> QED BY <3>2, <3>3, <3>4, <3>5, <3>6 DEF StopInv
  <2> QED BY <2>3, <2>4
<1>2. ASSUME NEW p \in Pods, PodStopped(p)
      PROVE  StopInv'
  <2>1. UNCHANGED <<podMap, owner, chan, pc, uid, arg, uids, todo, stat, down>>
    BY <1>2 DEF PodStopped, control
  <2>2. \A q \in Pods : /\ phase[q] # "Absent" => phase'[q] # "Absent"
                        /\ phase[q] \in Past => phase'[q] \in Past
    BY <1>2 DEF PodStopped, Past, TypeInv, TypeOK
  <2> QED BY <2>1, <2>2, StopRest
<1>3. CASE KubernetesPodEventsWorker_stop
  <2>1. UNCHANGED <<podMap, owner, chan, phase, pc, uid, arg, uids, todo, stat, down>>
    BY <1>3 DEF KubernetesPodEventsWorker_stop, control
  <2> QED BY <2>1, StopRest
<1>4. CASE SIGTERM
  <2>1. UNCHANGED <<podMap, owner, chan, phase, loops, down>>
    BY <1>4 DEF SIGTERM
  <2>2. CASE UNCHANGED control
    <3>1. UNCHANGED <<pc, uid, arg, uids, todo, stat>>
      BY <2>1, <2>2 DEF control
    <3> QED BY <2>1, <3>1, StopRest
  <2>3. CASE Leave("main", "exited")
    BY <2>1, <2>3, StopLeave
  <2> QED BY <1>4, <2>2, <2>3 DEF SIGTERM
<1> QED
  BY <1>1, <1>2, <1>3, <1>4 DEF NodeStep

LEMMA StopNext ==
  ASSUME APIMayFail = FALSE, TypeInv, TypeInv', StopInv, [Next]_vars
  PROVE  StopInv'
<1>1. CASE UNCHANGED vars
  BY <1>1, StopRest DEF vars
<1>2. CASE Next
  BY <1>2, StopCall, StopHandler, StopScan, StopHealth, StopMain, StopProcess, StopNode
  DEF Next, Goroutine, Process
<1> QED BY <1>1, <1>2

\* As long as the list calls to the Kubernetes API succeed, a stop signal is sent before
\* the shutdown only to the process of a pod that has stopped or is gone: the statuses
\* checkPodsHealth acts on and the events handlePodDeleteEvent handles may be outdated, but
\* no pod runs again, and SignalApiDumpProcessToStop finds the pod's own object.
THEOREM StopTheorem ==
  ASSUME APIMayFail = FALSE
  PROVE  Spec => []RunningPodNotStopped
<1>1. Init => TypeInv /\ StopInv
  <2>1. Init => StopInv
    BY DaemonsetAssumption
    DEF DaemonsetAssumption, Init, StopInv, Present, StatusRight, SignalRight, StopsWhenDown,
      RunningPodNotStopped, Goroutines, MainScan, HealthScan, Visiting, Adding, Starting, Doomed,
      Stops
  <2> QED BY <2>1, TypeInit
<1>2. (TypeInv /\ StopInv) /\ [Next]_vars => (TypeInv /\ StopInv)'
  <2> SUFFICES ASSUME TypeInv, StopInv, [Next]_vars
               PROVE  (TypeInv /\ StopInv)'
    OBVIOUS
  <2>1. TypeInv'
    BY TypeNext
  <2>2. StopInv'
    BY <2>1, StopNext
  <2> QED BY <2>1, <2>2
<1>3. StopInv => RunningPodNotStopped
  BY DEF StopInv
<1> QED BY <1>1, <1>2, <1>3, PTL DEF Spec

(***************************************************************************)
(* The stop channels: as long as no goroutine stays with one pod for a     *)
(* whole interval between two passes of pruneStoppedProcesses, only a      *)
(* sender that is blocked already sees a channel closed.                   *)
(***************************************************************************)
\* What markAsPruneReady has been called for.
Marked(a) == mon[a] = "RemovePodFromMap"

Pruning == {"prune", "prune_check", "prune_delete"}
Deciding == {"del_change", "term_change", "stop_change"}
Sending == {"sig_send", "sig_load"} \cup Deciding

\* May goroutine g, with the pod it is working on, come to send to a, which is marked?  It
\* is at the send, or it will look its pod up and find a.  (The state of an a that it holds
\* already does not change any more, so that it gives up.)
MaySend(g, a) ==
  \/ At(g, "sig_send") /\ arg[g] = a
  \/ At(g, "sig_load") /\ podMap[uid[g]] = a
  \/ pc[g] \in Deciding /\ podMap[uid[g]] = a /\ arg[g] # a

\* All senders are blocked on the full channel.
Stuck(a) ==
  \A g \in Goroutines : MaySend(g, a) => At(g, "sig_send") /\ chan[a] = StopChanCap

\* Between two rounds: those that may send are left over from the last one.
Leaving(a) ==
  /\ pc["health"] \in {"idle", "stopped"}
  /\ \A g \in Goroutines : MaySend(g, a) => g \in late

\* Marked in this very pass, which does not come to it again.
FreshlyMarked(a) ==
  /\ pc["health"] \in Pruning
  /\ owner[a] \notin todo["health"] /\ arg["health"] # a

PruneInv ==
  /\ \A p \in Pods : podMap[p] # NoArgs => owner[podMap[p]] = p
  /\ At("health", "prune_check") =>
       owner[arg["health"]] = uid["health"] /\ uid["health"] \notin todo["health"]
  /\ \A a \in Args : Marked(a) =>
       Stuck(a) \/ (~closed[a] /\ (Leaving(a) \/ FreshlyMarked(a)))

LEMMA PruneInit == Init => PruneInv
BY DaemonsetAssumption DEF DaemonsetAssumption, Init, PruneInv, Marked, At, Goroutines

\* One goroutine goes on, and is not the health worker at a point of its rounds that the
\* invariant is about: it gets to no send that it was not on the way to.
LEMMA PruneMove ==
  ASSUME TypeInv, PruneInv, NEW g \in Goroutines,
         \A h \in Goroutines :
           h # g => pc'[h] = pc[h] /\ uid'[h] = uid[h] /\ arg'[h] = arg[h],
         late' = late \/ (late' = late \ {g} /\ pc'[g] \notin Sending),
         \A q \in Pods : podMap'[q] # NoArgs => owner'[podMap'[q]] = q,
         \A a \in Args : Marked(a)' =>
           /\ Marked(a)
           /\ closed'[a] = closed[a]
           /\ owner'[a] = owner[a]
           /\ \/ chan'[a] = chan[a]
              \/ At(g, "sig_send") /\ arg[g] = a /\ chan[a] # StopChanCap
           /\ \A q \in Pods : podMap'[q] = a => podMap[q] = a,
         \/ pc'[g] \notin Sending
         \/ /\ UNCHANGED podMap
            /\ \/ pc'[g] \in Deciding /\ arg'[g] = podMap[uid'[g]]
               \/ /\ pc[g] \in Deciding /\ pc'[g] = "sig_load"
                  /\ uid'[g] = uid[g] /\ ~Marked(arg[g])
               \/ /\ pc[g] = "sig_load" /\ pc'[g] = "sig_send"
                  /\ arg'[g] = podMap[uid[g]],
         IF g = "health"
         THEN pc["health"] \notin {"idle", "stopped"} \cup Pruning /\ pc'[g] # "prune_check"
         ELSE /\ todo'["health"] = todo["health"]
              /\ pc["health"] = "prune_check" => owner'[arg["health"]] = owner[arg["health"]]
  PROVE  PruneInv'
<1> USE DaemonsetAssumption DEF DaemonsetAssumption, TypeInv, TypeOK, Goroutines
<1>1. At("health", "prune_check")' =>
        owner'[arg'["health"]] = uid'["health"] /\ uid'["health"] \notin todo'["health"]
  BY DEF PruneInv, At
<1>2. ASSUME NEW a \in Args, Marked(a)'
      PROVE  (Stuck(a) \/ (~closed[a] /\ (Leaving(a) \/ FreshlyMarked(a))))'
  <2>1. \A h \in Goroutines : MaySend(h, a)' => MaySend(h, a) /\ (h = g => pc[g] # "sig_send")
    <3> SUFFICES ASSUME NEW h \in Goroutines, MaySend(h, a)'
                 PROVE  MaySend(h, a) /\ (h = g => pc[g] # "sig_send")
      OBVIOUS
    <3>1. CASE h = g
      BY <1>2, <3>1 DEF MaySend, At, Sending, Deciding, Marked
    <3>2. CASE h # g
      <4>1. pc'[h] = pc[h] /\ uid'[h] = uid[h] /\ arg'[h] = arg[h]
        BY <3>2
      <4>2. pc[h] \in Busy => uid[h] \in Pods
        BY DEF Working
      <4>3. QED
        BY <1>2, <3>2, <4>1, <4>2 DEF MaySend, At, Deciding, Busy
    <3>3. QED
      BY <3>1, <3>2
  <2>2. CASE Stuck(a)
    <3> SUFFICES ASSUME NEW h \in Goroutines, MaySend(h, a)'
                 PROVE  (At(h, "sig_send") /\ chan[a] = StopChanCap)'
      BY DEF Stuck
    <3>1. MaySend(h, a) /\ At(h, "sig_send") /\ chan[a] = StopChanCap
      BY <2>1, <2>2 DEF Stuck
    <3>2. h # g
      BY <2>1, <3>1 DEF At
    <3>3. chan'[a] = chan[a]
      BY <1>2, <3>1 DEF At
    <3>4. QED
      BY <3>1, <3>2, <3>3 DEF At
  <2>3. CASE ~closed[a] /\ Leaving(a)
    <3>1. g # "health" /\ pc'["health"] = pc["health"]
      BY <2>3 DEF Leaving
    <3>2. \A h \in Goroutines : MaySend(h, a)' => h \in late'
      BY <2>1, <2>3 DEF Leaving, MaySend, Sending, At
    <3>3. QED
      BY <1>2, <2>3, <3>1, <3>2 DEF Leaving
  <2>4. CASE ~closed[a] /\ FreshlyMarked(a)
    BY <1>2, <2>4 DEF FreshlyMarked
  <2>5. QED
    BY <1>2, <2>2, <2>3, <2>4 DEF PruneInv
<1>3. QED
  BY <1>1, <1>2 DEF PruneInv

\* No goroutine goes on.
LEMMA PruneStay ==
  ASSUME TypeInv, PruneInv, UNCHANGED <<pc, uid, arg, late, podMap, owner, closed>>,
         \A a \in Args : Marked(a)' => Marked(a) /\ chan'[a] = chan[a],
         pc["health"] \in Pruning => todo'["health"] = todo["health"]
  PROVE  PruneInv'
<1> USE DEF TypeInv, TypeOK
<1>1. ASSUME NEW a \in Args, Marked(a)'
      PROVE  (Stuck(a) \/ (~closed[a] /\ (Leaving(a) \/ FreshlyMarked(a))))'
  BY <1>1 DEF PruneInv, Stuck, Leaving, FreshlyMarked, MaySend, At
<1>2. QED
  BY <1>1 DEF PruneInv, At, Pruning

\* A goroutine goes on towards a send: it looks its pod up, changes the state of the
\* object it holds, which is not in a final state, or looks the pod up again.
LEMMA PruneOnward ==
  ASSUME TypeInv, PruneInv, NEW g \in Goroutines,
         pc[g] \in {"del_load", "term_load", "stop_visit", "sig_load"} \cup Deciding,
         UNCHANGED <<podMap, owner, chan, closed, late>>,
         \A a \in Args : Marked(a)' => Marked(a),
         g # "health" => todo'["health"] = todo["health"],
         \A h \in Goroutines :
           h # g => pc'[h] = pc[h] /\ uid'[h] = uid[h] /\ arg'[h] = arg[h],
         \/ pc'[g] \in Deciding /\ arg'[g] = podMap[uid'[g]]
         \/ /\ pc[g] \in Deciding /\ pc'[g] = "sig_load"
            /\ uid'[g] = uid[g] /\ ~Marked(arg[g])
         \/ pc[g] = "sig_load" /\ pc'[g] = "sig_send" /\ arg'[g] = podMap[uid[g]]
  PROVE  PruneInv'
<1>1. pc'[g] # "prune_check" /\ pc[g] \notin {"idle", "stopped"} \cup Pruning
  BY DEF Deciding, Pruning
<1>2. \A q \in Pods : podMap'[q] # NoArgs => owner'[podMap'[q]] = q
  BY DEF PruneInv
<1>3. \A a \in Args : Marked(a)' =>
        /\ Marked(a) /\ closed'[a] = closed[a] /\ owner'[a] = owner[a]
        /\ chan'[a] = chan[a]
        /\ \A q \in Pods : podMap'[q] = a => podMap[q] = a
  OBVIOUS
<1>4. IF g = "health"
      THEN pc["health"] \notin {"idle", "stopped"} \cup Pruning /\ pc'[g] # "prune_check"
      ELSE /\ todo'["health"] = todo["health"]
           /\ pc["health"] = "prune_check" => owner'[arg["health"]] = owner[arg["health"]]
  BY <1>1
<1>5. QED
  BY <1>2, <1>3, <1>4, PruneMove

LEMMA PruneCall ==
  ASSUME TypeInv, ProcessInv, PruneInv, NEW g \in Goroutines, CallStep(g)
  PROVE  PruneInv'
<1> USE DaemonsetAssumption, AfterIsResting DEF DaemonsetAssumption, TypeInv, TypeOK,
      Working, Holding, Busy, Pruning, Deciding, Sending, MaySend, Marked, At, Goto,
      GotoWith, Take, Leave, Goroutines, Scanners, cluster, objects, loops, control, signals
<1>1. CASE addPodArgsToMap_store(g)
  <2>1. CASE podMap[uid[g]] = NoArgs
    <3>1. PICK a \in Args : /\ a \in FreeArgs
                            /\ NewPodArgs(a, uid[g])
                            /\ podMap' = [podMap EXCEPT ![uid[g]] = a]
                            /\ GotoWith(g, "add_state", a)
      BY <1>1, <2>1 DEF addPodArgsToMap_store, FreeArgs
    <3>2. /\ \A h \in Goroutines : arg[h] # a
          /\ \A q \in Pods : podMap[q] # a
      BY <3>1 DEF FreeArgs
    <3>3. UNCHANGED todo /\ At(g, "add_store")
      BY <1>1 DEF addPodArgsToMap_store
    <3>4. \A q \in Pods : podMap'[q] # NoArgs => owner'[podMap'[q]] = q
      BY <3>1, <3>2, <3>3 DEF NewPodArgs, PruneInv
    <3>5. \A b \in Args : Marked(b)' =>
            /\ Marked(b) /\ closed'[b] = closed[b] /\ owner'[b] = owner[b]
            /\ chan'[b] = chan[b]
            /\ \A q \in Pods : podMap'[q] = b => podMap[q] = b
      BY <3>1, <3>3 DEF NewPodArgs
    <3>6. pc'[g] = "add_state" /\ late' = late /\ (g = "health" => pc["health"] = "add_store")
      BY <3>1, <3>3
    <3>7. \A h \in Goroutines :
            h # g => pc'[h] = pc[h] /\ uid'[h] = uid[h] /\ arg'[h] = arg[h]
      BY <3>1
    <3>8. pc["health"] = "prune_check" => owner'[arg["health"]] = owner[arg["health"]]
      BY <3>1, <3>2 DEF NewPodArgs
    <3>9. QED
      BY <3>3, <3>4, <3>5, <3>6, <3>7, <3>8, PruneMove
  <2>2. CASE podMap[uid[g]] # NoArgs
    BY <1>1, <2>2, PruneMove DEF addPodArgsToMap_store, PruneInv
  <2>3. QED
    BY <2>1, <2>2
<1>2. CASE addPodArgsToMap_state(g)
  BY <1>2, PruneMove DEF addPodArgsToMap_state, StartingState, PruneInv
<1>3. CASE StartApiDumpProcess_load(g)
  BY <1>3, PruneMove DEF StartApiDumpProcess_load, getPodArgsFromMap, PruneInv
<1>4. CASE StartApiDumpProcess_change(g)
  BY <1>4, PruneMove DEF StartApiDumpProcess_change, changePodTrafficMonitorState, PruneInv
<1>5. CASE StartApiDumpProcess_spawn(g)
  BY <1>5, PruneMove DEF StartApiDumpProcess_spawn, PruneInv
<1>6. CASE SignalApiDumpProcessToStop_load(g)
  <2>1. At(g, "sig_load") /\ UNCHANGED <<podMap, objects, loops>>
    BY <1>6 DEF SignalApiDumpProcessToStop_load
  <2>2. CASE GotoWith(g, "sig_send", podMap[uid[g]])
    BY <2>1, <2>2, PruneOnward
  <2>3. CASE ReturnFromSignal(g)
    BY <2>1, <2>3, PruneMove DEF ReturnFromSignal, PruneInv
  <2>4. QED
    BY <1>6, <2>2, <2>3 DEF SignalApiDumpProcessToStop_load
<1>7. CASE SignalApiDumpProcessToStop_send(g)
  BY <1>7, PruneMove DEF SignalApiDumpProcessToStop_send, ReturnFromSignal, PruneInv
<1>8. CASE SignalApiDumpProcessToStop_panic(g)
  BY <1>8, PruneMove DEF SignalApiDumpProcessToStop_panic, PruneInv
<1>9. QED
  BY <1>1, <1>2, <1>3, <1>4, <1>5, <1>6, <1>7, <1>8 DEF CallStep

LEMMA PruneHandler ==
  ASSUME TypeInv, ProcessInv, PruneInv, NEW g \in Handlers, HandlerStep(g)
  PROVE  PruneInv'
<1> USE DaemonsetAssumption, AfterIsResting DEF DaemonsetAssumption, TypeInv, TypeOK,
      Working, Holding, Busy, Pruning, Deciding, Sending, MaySend, Marked, At, Goto,
      GotoWith, Take, Leave, Goroutines, Scanners, cluster, objects, loops, control, signals
<1>1. CASE handlePodDeleteEvent_load(g)
  <2>1. At(g, "del_load") /\ UNCHANGED <<podMap, objects, loops>>
    BY <1>1 DEF handlePodDeleteEvent_load
  <2>2. CASE GotoWith(g, "del_change", podMap[uid[g]])
    BY <2>1, <2>2, PruneOnward
  <2>3. CASE Leave(g, "idle")
    BY <2>1, <2>3, PruneMove DEF PruneInv
  <2>4. QED
    BY <1>1, <2>2, <2>3 DEF handlePodDeleteEvent_load, getPodArgsFromMap
<1>2. CASE handlePodDeleteEvent_change(g)
  <2>1. At(g, "del_change") /\ UNCHANGED <<podMap, owner, chan, closed, loops>>
    BY <1>2 DEF handlePodDeleteEvent_change
  <2>2. PICK s \in {"PodStopped", "PodTerminated"} :
          changePodTrafficMonitorState(g, s, {"TrafficMonitoringRunning"}, "sig_load", "idle")
    BY <1>2 DEF handlePodDeleteEvent_change
  <2>3. CASE Goto(g, "sig_load")
    <3>1. mon' = [mon EXCEPT ![arg[g]] = s] /\ mon[arg[g]] # "RemovePodFromMap"
      BY <2>1, <2>2, <2>3 DEF changePodTrafficMonitorState, MayChange,
         isTrafficMonitoringInFinalState, FinalStates
    <3>2. QED
      BY <2>1, <2>3, <3>1, PruneOnward
  <2>4. CASE Leave(g, "idle") /\ UNCHANGED mon
    BY <2>1, <2>4, PruneMove DEF PruneInv
  <2>5. QED
    BY <2>2, <2>3, <2>4 DEF changePodTrafficMonitorState
<1>3. CASE handlePodModifyEvent_load(g)
  BY <1>3, PruneMove DEF handlePodModifyEvent_load, getPodArgsFromMap, PruneInv
<1>4. CASE handlePodModifyEvent_check(g)
  BY <1>4, PruneMove DEF handlePodModifyEvent_check, PruneInv
<1>5. CASE handlePodModifyEvent_inspect(g)
  BY <1>5, PruneMove DEF handlePodModifyEvent_inspect, PruneInv
<1>6. CASE handlePodModifyEvent_change(g)
  BY <1>6, PruneMove DEF handlePodModifyEvent_change, changePodTrafficMonitorState,
     MayChange, isTrafficMonitoringInFinalState, FinalStates, PruneInv
<1>7. QED
  BY <1>1, <1>2, <1>3, <1>4, <1>5, <1>6 DEF HandlerStep

LEMMA PruneScan ==
  ASSUME TypeInv, ProcessInv, PruneInv, NEW g \in Scanners, ScanStep(g)
  PROVE  PruneInv'
<1> USE DaemonsetAssumption, AfterIsResting DEF DaemonsetAssumption, TypeInv, TypeOK,
      Working, Holding, Busy, Pruning, Deciding, Sending, MaySend, Marked, At, Goto,
      GotoWith, Take, Leave, Goroutines, Scanners, cluster, objects, loops, control, signals
<1>1. CASE GetPodsInAgentNode(g)
  BY <1>1, PruneMove DEF GetPodsInAgentNode, PruneInv
<1>2. CASE scan_inspect(g)
  <2>1. At(g, "scan") /\ UNCHANGED <<podMap, objects>>
    BY <1>2 DEF scan_inspect
  <2>2. PICK p \in Pods : /\ todo' = [todo EXCEPT ![g] = @ \ {p}]
                          /\ Take(g, "add_store", p, NoArgs) \/ UNCHANGED control
    BY <1>2 DEF scan_inspect
  <2>3. CASE Take(g, "add_store", p, NoArgs)
    BY <2>1, <2>2, <2>3, PruneMove DEF PruneInv
  <2>4. CASE UNCHANGED control
    BY <2>1, <2>2, <2>4, PruneStay
  <2>5. QED
    BY <2>2, <2>3, <2>4
<1>3. QED
  BY <1>1, <1>2 DEF ScanStep

LEMMA PruneHealth ==
  ASSUME TypeInv, ProcessInv, PruneInv, MayLag = FALSE, HealthStep
  PROVE  PruneInv'
<1> USE DaemonsetAssumption, AfterIsResting DEF DaemonsetAssumption, TypeInv, TypeOK,
      Working, Holding, Busy, Pruning, Deciding, Sending, MaySend, Marked, At, Goto,
      GotoWith, Take, Leave, Goroutines, Scanners, cluster, objects, loops, control, signals
<1>1. CASE checkPodsHealth_begin
  <2>1. /\ At("health", "idle") /\ \A g \in late : Blocked(g)
        /\ pc' = [pc EXCEPT !["health"] = "list"]
        /\ UNCHANGED <<podMap, objects, todo, uid, arg, late>>
    BY <1>1 DEF checkPodsHealth_begin
  <2>2. ASSUME NEW a \in Args, Marked(a)
        PROVE  Stuck(a)'
    <3> SUFFICES ASSUME NEW h \in Goroutines, MaySend(h, a)'
                 PROVE  (At(h, "sig_send") /\ chan[a] = StopChanCap)'
      BY DEF Stuck
    <3>1. MaySend(h, a) /\ h # "health"
      BY <2>1
    <3>2. At(h, "sig_send") /\ chan[a] = StopChanCap
      BY <2>1, <2>2, <3>1 DEF PruneInv, Stuck, Leaving, FreshlyMarked, Blocked
    <3>3. QED
      BY <2>1, <3>1, <3>2
  <2>3. QED
    BY <2>1, <2>2 DEF PruneInv
<1>2. CASE PodsHealthWorker_stop
  <2>1. /\ At("health", "idle")
        /\ pc' = [pc EXCEPT !["health"] = "stopped"]
        /\ UNCHANGED <<podMap, objects, todo, uid, arg, late>>
    BY <1>2 DEF PodsHealthWorker_stop
  <2>2. ASSUME NEW a \in Args, Marked(a)
        PROVE  (Stuck(a) \/ (~closed[a] /\ Leaving(a)))'
    BY <2>1, <2>2 DEF PruneInv, Stuck, Leaving, FreshlyMarked
  <2>3. QED
    BY <2>1, <2>2 DEF PruneInv
<1>3. CASE checkPodsHealth_scanned
  BY <1>3, PruneMove DEF checkPodsHealth_scanned, PruneInv
<1>4. CASE GetPodsStatusByUIDs
  BY <1>4, PruneMove DEF GetPodsStatusByUIDs, PruneInv
<1>5. CASE checkPodsHealth_visit
  <2>1. At("health", "visit") /\ UNCHANGED <<podMap, objects>>
    BY <1>5 DEF checkPodsHealth_visit
  <2>2. \/ \E p \in Pods, l \in {"unm_load", "term_load"} : Take("health", l, p, NoArgs)
        \/ UNCHANGED control
    BY <1>5 DEF checkPodsHealth_visit
  <2>3. CASE \E p \in Pods, l \in {"unm_load", "term_load"} : Take("health", l, p, NoArgs)
    BY <2>1, <2>3, PruneMove DEF PruneInv
  <2>4. CASE UNCHANGED control
    BY <2>1, <2>4, PruneStay
  <2>5. QED
    BY <2>2, <2>3, <2>4
<1>6. CASE checkPodsHealth_done
  BY <1>6, PruneMove DEF checkPodsHealth_done, PruneInv
<1>7. CASE handleTerminatedPod_load
  <2>1. At("health", "term_load") /\ UNCHANGED <<podMap, objects, loops>>
    BY <1>7 DEF handleTerminatedPod_load
  <2>2. CASE GotoWith("health", "term_change", podMap[uid["health"]])
    BY <2>1, <2>2, PruneOnward
  <2>3. CASE Leave("health", "visit")
    BY <2>1, <2>3, PruneMove DEF PruneInv
  <2>4. QED
    BY <1>7, <2>2, <2>3 DEF handleTerminatedPod_load, getPodArgsFromMap
<1>8. CASE handleTerminatedPod_change
  <2>1. At("health", "term_change") /\ UNCHANGED <<podMap, owner, chan, closed, loops>>
    BY <1>8 DEF handleTerminatedPod_change
  <2>2. CASE Goto("health", "sig_load") /\ mon' = [mon EXCEPT ![arg["health"]] = "PodTerminated"]
    <3>1. mon[arg["health"]] # "RemovePodFromMap"
      BY <1>8, <2>1, <2>2 DEF handleTerminatedPod_change, changePodTrafficMonitorState,
         MayChange, isTrafficMonitoringInFinalState, FinalStates
    <3>2. QED
      BY <2>1, <2>2, <3>1, PruneOnward
  <2>3. CASE Leave("health", "visit") /\ UNCHANGED mon
    BY <2>1, <2>3, PruneMove DEF PruneInv
  <2>4. QED
    BY <1>8, <2>2, <2>3 DEF handleTerminatedPod_change, changePodTrafficMonitorState
<1>9. CASE handleUnmonitoredPod_load
  BY <1>9, PruneMove DEF handleUnmonitoredPod_load, getPodArgsFromMap, PruneInv
<1>10. CASE handleUnmonitoredPod_check
  BY <1>10, PruneMove DEF handleUnmonitoredPod_check, PruneInv
<1>11. CASE pruneStoppedProcesses_begin
  <2>1. /\ At("health", "prune_start") /\ pc' = [pc EXCEPT !["health"] = "prune"]
        /\ UNCHANGED <<podMap, objects, uid, arg, late>>
    BY <1>11 DEF pruneStoppedProcesses_begin
  <2>2. \A a \in Args : Marked(a) => Stuck(a)'
    BY <2>1 DEF PruneInv, Stuck, Leaving, FreshlyMarked
  <2>3. QED
    BY <2>1, <2>2 DEF PruneInv
<1>12. CASE pruneStoppedProcesses_visit
  <2>1. At("health", "prune") /\ UNCHANGED <<podMap, objects>>
    BY <1>12 DEF pruneStoppedProcesses_visit
  <2>2. PICK p \in Pods : /\ p \in todo["health"] /\ podMap[p] # NoArgs
                          /\ todo' = [todo EXCEPT !["health"] = @ \ {p}]
                          /\ Take("health", "prune_check", p, podMap[p])
    BY <1>12 DEF pruneStoppedProcesses_visit, Keys
  <2>3. owner[podMap[p]] = p
    BY <2>2 DEF PruneInv
  <2>4. ASSUME NEW a \in Args, Marked(a)
        PROVE  (Stuck(a) \/ (~closed[a] /\ FreshlyMarked(a)))'
    <3>1. Stuck(a) => Stuck(a)'
      BY <2>1, <2>2 DEF Stuck
    <3>2. FreshlyMarked(a) => FreshlyMarked(a)'
      BY <2>1, <2>2, <2>3 DEF FreshlyMarked
    <3>3. QED
      BY <2>1, <2>4, <3>1, <3>2 DEF PruneInv, Leaving
  <2>5. QED
    BY <2>1, <2>2, <2>3, <2>4 DEF PruneInv
<1>13. CASE pruneStoppedProcesses_check
  <2>1. /\ At("health", "prune_check") /\ arg["health"] \in Args
        /\ UNCHANGED <<podMap, owner, chan, loops>>
    BY <1>13 DEF pruneStoppedProcesses_check
  <2>2. /\ owner[arg["health"]] = uid["health"] /\ uid["health"] \notin todo["health"]
        /\ \A a \in Args : Marked(a) => Stuck(a) \/ (~closed[a] /\ FreshlyMarked(a))
    BY <2>1 DEF PruneInv, Leaving
  <2>3. CASE /\ mon[arg["health"]] \in {"TrafficMonitoringEnded", "TrafficMonitoringFailed"}
             /\ mon' = [mon EXCEPT ![arg["health"]] = "RemovePodFromMap"]
             /\ Leave("health", "prune") /\ UNCHANGED closed
    <3>1. ~closed[arg["health"]]
      BY <2>1, <2>3 DEF ProcessInv, ObjectOK
    <3>2. ASSUME NEW a \in Args, Marked(a)'
          PROVE  (Stuck(a) \/ (~closed[a] /\ FreshlyMarked(a)))'
      <4>1. CASE a = arg["health"]
        BY <2>1, <2>2, <2>3, <3>1, <4>1 DEF FreshlyMarked
      <4>2. CASE a # arg["health"]
        <5>1. Stuck(a) => Stuck(a)'
          BY <2>1, <2>3 DEF Stuck
        <5>2. FreshlyMarked(a) => FreshlyMarked(a)'
          BY <2>1, <2>3 DEF FreshlyMarked
        <5>3. QED
          BY <2>2, <2>3, <3>2, <4>2, <5>1, <5>2
      <4>3. QED
        BY <4>1, <4>2
    <3>3. QED
      BY <2>1, <2>3, <3>2 DEF PruneInv
  <2>4. CASE /\ mon[arg["health"]] = "RemovePodFromMap"
             /\ closed' = [closed EXCEPT ![arg["health"]] = TRUE]
             /\ Goto("health", "prune_delete") /\ UNCHANGED mon
    <3>1. ASSUME NEW a \in Args, Marked(a)
          PROVE  (Stuck(a) \/ (~closed[a] /\ FreshlyMarked(a)))'
      <4>1. Stuck(a) => Stuck(a)'
        BY <2>1, <2>4 DEF Stuck
      <4>2. FreshlyMarked(a) => a # arg["health"] /\ FreshlyMarked(a)'
        BY <2>1, <2>4 DEF FreshlyMarked
      <4>3. QED
        BY <2>2, <2>4, <3>1, <4>1, <4>2
    <3>2. QED
      BY <2>1, <2>4, <3>1 DEF PruneInv
  <2>5. CASE Leave("health", "prune") /\ UNCHANGED <<mon, closed>>
    <3>1. ASSUME NEW a \in Args, Marked(a)
          PROVE  (Stuck(a) \/ (~closed[a] /\ FreshlyMarked(a)))'
      <4>1. Stuck(a) => Stuck(a)'
        BY <2>1, <2>5 DEF Stuck
      <4>2. FreshlyMarked(a) => FreshlyMarked(a)'
        BY <2>1, <2>5 DEF FreshlyMarked
      <4>3. QED
        BY <2>2, <2>5, <3>1, <4>1, <4>2
    <3>2. QED
      BY <2>1, <2>5, <3>1 DEF PruneInv
  <2>6. QED
    BY <1>13, <2>3, <2>4, <2>5 DEF pruneStoppedProcesses_check
<1>14. CASE pruneStoppedProcesses_delete
  <2>1. /\ At("health", "prune_delete") /\ uid["health"] \in Pods
        /\ podMap' = [podMap EXCEPT ![uid["health"]] = NoArgs]
        /\ Leave("health", "prune") /\ UNCHANGED <<objects, loops>>
    BY <1>14 DEF pruneStoppedProcesses_delete
  <2>2. ASSUME NEW a \in Args, Marked(a)
        PROVE  (Stuck(a) \/ (~closed[a] /\ FreshlyMarked(a)))'
    <3>1. Stuck(a) => Stuck(a)'
      BY <2>1 DEF Stuck
    <3>2. FreshlyMarked(a) => FreshlyMarked(a)'
      BY <2>1 DEF FreshlyMarked
    <3>3. QED
      BY <2>1, <2>2, <3>1, <3>2 DEF PruneInv, Leaving
  <2>3. QED
    BY <2>1, <2>2 DEF PruneInv
<1>15. CASE pruneStoppedProcesses_end
  <2>1. /\ At("health", "prune") /\ pc' = [pc EXCEPT !["health"] = "idle"]
        /\ late' = {g \in Goroutines : pc[g] \in Busy}
        /\ UNCHANGED <<podMap, objects, uid, arg>>
    BY <1>15 DEF pruneStoppedProcesses_end
  <2>2. \A a \in Args, h \in Goroutines : MaySend(h, a)' => MaySend(h, a) /\ h \in late'
    BY <2>1
  <2>3. ASSUME NEW a \in Args, Marked(a)
        PROVE  (Stuck(a) \/ (~closed[a] /\ Leaving(a)))'
    <3>1. Stuck(a) => Stuck(a)'
      BY <2>1 DEF Stuck
    <3>2. Leaving(a)'
      BY <2>1, <2>2 DEF Leaving
    <3>3. QED
      BY <2>1, <2>3, <3>1, <3>2 DEF PruneInv
  <2>4. QED
    BY <2>1, <2>3 DEF PruneInv
<1>16. QED
  BY <1>1, <1>2, <1>3, <1>4, <1>5, <1>6, <1>7, <1>8, <1>9, <1>10, <1>11,
     <1>12, <1>13, <1>14, <1>15 DEF HealthStep

LEMMA PruneMain ==
  ASSUME TypeInv, ProcessInv, PruneInv, MainStep
  PROVE  PruneInv'
<1> USE DaemonsetAssumption, AfterIsResting DEF DaemonsetAssumption, TypeInv, TypeOK,
      Working, Holding, Busy, Pruning, Deciding, Sending, MaySend, Marked, At, Goto,
      GotoWith, Take, Leave, Goroutines, Scanners, cluster, objects, loops, control, signals
<1>1. CASE StartProcessInExistingPods_done
  BY <1>1, PruneMove DEF StartProcessInExistingPods_done, PruneInv
<1>2. CASE Run_signal
  BY <1>2, PruneMove DEF Run_signal, PruneInv
<1>3. CASE StopAllApiDumpProcesses_begin
  BY <1>3, PruneMove DEF StopAllApiDumpProcesses_begin, PruneInv
<1>4. CASE StopAllApiDumpProcesses_visit
  BY <1>4, PruneOnward DEF StopAllApiDumpProcesses_visit
<1>5. CASE StopAllApiDumpProcesses_change
  <2>1. At("main", "stop_change") /\ UNCHANGED <<podMap, owner, chan, closed, loops>>
    BY <1>5 DEF StopAllApiDumpProcesses_change
  <2>2. CASE Goto("main", "sig_load") /\ mon' = [mon EXCEPT ![arg["main"]] = "DaemonSetShutdown"]
    <3>1. mon[arg["main"]] # "RemovePodFromMap"
      BY <1>5, <2>1, <2>2 DEF StopAllApiDumpProcesses_change, changePodTrafficMonitorState,
         MayChange, isTrafficMonitoringInFinalState, FinalStates
    <3>2. QED
      BY <2>1, <2>2, <3>1, PruneOnward
  <2>3. CASE Leave("main", "stop_visit") /\ UNCHANGED mon
    BY <2>1, <2>3, PruneMove DEF PruneInv
  <2>4. QED
    BY <1>5, <2>2, <2>3 DEF StopAllApiDumpProcesses_change, changePodTrafficMonitorState
<1>6. CASE StopAllApiDumpProcesses_delete
  BY <1>6, PruneMove DEF StopAllApiDumpProcesses_delete, PruneInv
<1>7. CASE StopAllApiDumpProcesses_visited
  BY <1>7, PruneMove DEF StopAllApiDumpProcesses_visited, PruneInv
<1>8. CASE StopAllApiDumpProcesses_wait
  BY <1>8, PruneMove DEF StopAllApiDumpProcesses_wait, PruneInv
<1>9. QED
  BY <1>1, <1>2, <1>3, <1>4, <1>5, <1>6, <1>7, <1>8 DEF MainStep

LEMMA PruneProcess ==
  ASSUME TypeInv, ProcessInv, PruneInv, NEW a \in Args, ProcessStep(a) \/ apidump_finish(a)
  PROVE  PruneInv'
<1> USE DEF TypeInv, TypeOK, Marked, ProcStep, objects, control, loops
<1>1. CASE apidump_begin(a)
  BY <1>1, PruneStay DEF apidump_begin
<1>2. CASE apidump_receive(a)
  <2>1. ~Marked(a)
    BY <1>2 DEF apidump_receive, ProcessInv, ObjectOK, FinalStates
  <2>2. QED
    BY <1>2, <2>1, PruneStay DEF apidump_receive
<1>3. CASE apidump_finish(a)
  BY <1>3, PruneStay DEF apidump_finish
<1>4. CASE apidump_signal(a)
  BY <1>4, PruneStay DEF apidump_signal
<1>5. CASE apidump_return(a)
  BY <1>5, PruneStay DEF apidump_return
<1>6. CASE apidump_final(a)
  BY <1>6, PruneStay DEF apidump_final
<1>7. QED
  BY <1>1, <1>2, <1>3, <1>4, <1>5, <1>6 DEF ProcessStep

LEMMA PruneNode ==
  ASSUME TypeInv, ProcessInv, PruneInv, NodeStep
  PROVE  PruneInv'
<1> USE DaemonsetAssumption DEF DaemonsetAssumption, TypeInv, TypeOK, Pruning, Deciding,
      Sending, Marked, At, Take, Leave, Goroutines, objects, loops, control
<1>1. CASE \E p \in Pods : PodAdded(p) \/ PodModified(p) \/ PodDeleted(p)
  <2>1. PICK p \in Pods, l \in {"add_store", "mod_load", "del_load"} :
          KubernetesPodEventsWorker(p, l)
    BY <1>1 DEF PodAdded, PodModified, PodDeleted, PodEvent
  <2>2. UNCHANGED <<podMap, objects, proc, loops>>
    BY <1>1 DEF PodAdded, PodModified, PodDeleted, PodEvent
  <2>3. CASE UNCHANGED control
    BY <2>2, <2>3, PruneStay
  <2>4. CASE \E h \in Handlers : At(h, "idle") /\ Take(h, l, p, NoArgs)
    BY <2>2, <2>4, PruneMove DEF PruneInv
  <2>5. QED
    BY <2>1, <2>3, <2>4 DEF KubernetesPodEventsWorker
<1>2. CASE \E p \in Pods : PodStopped(p)
  BY <1>2, PruneStay DEF PodStopped
<1>3. CASE KubernetesPodEventsWorker_stop
  BY <1>3, PruneStay DEF KubernetesPodEventsWorker_stop
<1>4. CASE SIGTERM
  <2>1. UNCHANGED <<podMap, objects, loops>>
    BY <1>4 DEF SIGTERM
  <2>2. CASE UNCHANGED control
    BY <2>1, <2>2, PruneStay
  <2>3. CASE Leave("main", "exited")
    BY <2>1, <2>3, PruneMove DEF PruneInv
  <2>4. QED
    BY <1>4, <2>2, <2>3 DEF SIGTERM
<1>5. QED
  BY <1>1, <1>2, <1>3, <1>4 DEF NodeStep

LEMMA PruneNext ==
  ASSUME TypeInv, ProcessInv, PruneInv, MayLag = FALSE, [Next]_vars
  PROVE  PruneInv'
<1>1. CASE UNCHANGED vars
  BY <1>1, PruneStay DEF vars, Marked
<1>2. CASE Next
  BY <1>2, PruneCall, PruneHandler, PruneScan, PruneHealth, PruneMain, PruneProcess,
     PruneNode DEF Next, Goroutine, Process
<1>3. QED
  BY <1>1, <1>2

\* The two passes of pruneStoppedProcesses: no goroutine that decides to signal a process
\* finds its stop channel closed, other than one that was blocked on it before, as long as
\* none stays with one pod for a whole interval between two passes.
THEOREM SenderTheorem ==
  ASSUME MayLag = FALSE
  PROVE  Spec => []PromptSenderSafe
<1>1. Spec => []PruneInv
  <2>1. TypeInv /\ ProcessInv /\ PruneInv /\ [Next]_vars => PruneInv'
    BY PruneNext
  <2>2. QED
    BY PruneInit, ProcessInvariant, <2>1, PTL DEF Spec
<1>2. TypeInv /\ ProcessInv /\ PruneInv => PromptSenderSafe
  <2> SUFFICES ASSUME TypeInv, ProcessInv, PruneInv, NEW g \in Goroutines,
                      At(g, "sig_send"), closed[arg[g]]
               PROVE  chan[arg[g]] = StopChanCap
    BY DEF PromptSenderSafe
  <2>1. arg[g] \in Args
    BY DEF TypeInv, Working, Holding, Busy, At
  <2>2. Stuck(arg[g])
    BY <2>1 DEF ProcessInv, ObjectOK, PruneInv, Marked
  <2>3. QED
    BY <2>2 DEF Stuck, MaySend
<1>3. QED
  BY <1>1, <1>2, ProcessInvariant, PTL
=============================================================================
