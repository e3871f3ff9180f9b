------------------------------ MODULE Daemonset ------------------------------
(***************************************************************************)
(* The DaemonSet agent (cmd/internal/kube/daemonset): one agent per node   *)
(* watches the node's pods and runs one apidump process (a goroutine) per  *)
(* instrumented pod.  The state shared by its goroutines is the map        *)
(* PodArgsByNameMap from pod UIDs to PodArgs objects, and in each object a *)
(* traffic monitoring state behind a mutex and a stop channel.             *)
(*                                                                         *)
(* Goroutines: "main" (Daemonset.Run), "health" (PodsHealthWorker), one    *)
(* per delivered pod event (Handlers), and one per apidump process, whose  *)
(* progress is kept in proc, indexed by the PodArgs object it works for.   *)
(* Each step is one access to shared state: one operation on the map, one  *)
(* critical section of StateChangeMutex, one channel operation or one call *)
(* to the Kubernetes or CRI API.                                           *)
(***************************************************************************)
EXTENDS Naturals, FiniteSets

CONSTANTS
  Pods,          \* UIDs of pods that pass the sidecar and discovery filters
  Instrumented,  \* the pods whose containers carry the required configuration
  Handlers,      \* event handler goroutines that can be in flight at once
  Args,          \* PodArgs objects that can be in use at once
  NoArgs,        \* the nil *PodArgs
  NoPod,         \* no pod UID
  APIMayFail,    \* may a list call to the Kubernetes API fail?
  CRIMayFail,    \* may a container inspection fail for no lasting reason?
  WatchMayFail,  \* may the pod watch stop delivering events?
  MayTerminate,  \* may the agent be sent SIGTERM?
  MayLag,        \* may a goroutine stay with one pod for a whole prune period?
  StopChanCap    \* the capacity of PodArgs.StopChan (2 in NewPodArgs)

Goroutines == Handlers \cup {"main", "health"}

ASSUME DaemonsetAssumption ==
  /\ Instrumented \subseteq Pods
  /\ NoArgs \notin Args
  /\ NoPod \notin Pods
  /\ "main" \notin Handlers
  /\ "health" \notin Handlers
  /\ APIMayFail \in BOOLEAN
  /\ CRIMayFail \in BOOLEAN
  /\ WatchMayFail \in BOOLEAN
  /\ MayTerminate \in BOOLEAN
  /\ MayLag \in BOOLEAN
  /\ StopChanCap \in Nat

VARIABLES
  phase,     \* cluster: the phase of each pod, "Absent" before and "Gone" after
  podMap,    \* PodArgsByNameMap: pod UID -> PodArgs object or NoArgs
  owner,     \* the pod each PodArgs object was made for
  mon,       \* PodArgs.PodTrafficMonitorState
  chan,      \* number of stop signals buffered in PodArgs.StopChan
  closed,    \* has PodArgs.StopChan been closed?
  proc,      \* progress of the apidump goroutine of each PodArgs object
  pc,        \* where each goroutine is
  uid,       \* the pod each goroutine is working on
  arg,       \* the *PodArgs each goroutine holds
  todo,      \* pods left in the loop of "main" and of "health"
  uids,      \* podUIDs of checkPodsHealth
  stat,      \* podStatuses of checkPodsHealth; "Gone" for no entry
  watching,  \* is KubernetesPodEventsWorker receiving events?
  down,      \* has Run closed the done channel?
  sig,       \* SIGTERM to the agent: "none", "sent", or "lost" on Run
  notified,  \* has any goroutine called signal.Notify?
  late       \* goroutines still busy with a pod since the last prune pass

vars == <<phase, podMap, owner, mon, chan, closed, proc, pc, uid, arg, todo,
          uids, stat, watching, down, sig, notified, late>>

cluster == <<phase, watching>>
objects == <<owner, mon, chan, closed>>
loops   == <<todo, uids, stat>>
control == <<pc, uid, arg, late>>
signals == <<down, sig, notified>>

(***************************************************************************)
(* Values.                                                                 *)
(***************************************************************************)
\* "Stopped" stands for Succeeded and Failed, which the agent treats alike.
Phases == {"Absent", "Pending", "Running", "Stopped", "Gone"}

FinalStates ==
  {"TrafficMonitoringEnded", "TrafficMonitoringFailed", "RemovePodFromMap"}

\* "Unset" is the zero value "" of a new object, until addPodArgsToMap sets a state;
\* "PodStopped" stands for PodSucceeded and PodFailed.
MonStates ==
  {"Unset", "PodPending", "PodRunning", "PodStopped", "PodTerminated",
   "TrafficMonitoringRunning", "DaemonSetShutdown"}
  \cup FinalStates

\* Mutant: the final state change does not allow for a deleted pod.
EndableStates_Mutant == {"TrafficMonitoringRunning", "PodStopped", "DaemonSetShutdown"}

\* The states in which the deferred function of an apidump goroutine may put
\* the pod into its final state.
EndableStates ==
  {"TrafficMonitoringRunning", "PodStopped", "PodTerminated",
   "DaemonSetShutdown"}

\* "starting": before the select loop of apidump.Run; "listening": in it;
\* "signalled": in it, with a process signal pending; "stopping": past it;
\* "ended": after WaitGroup.Done, before the final state change.
ProcStates ==
  {"none", "starting", "listening", "signalled", "stopping", "ended", "done"}

\* Between ApidumpProcessesWG.Add and ApidumpProcessesWG.Done.
LiveStates == {"starting", "listening", "signalled", "stopping"}
Live(a) == proc[a] \in LiveStates

\* Control points at which a goroutine is not in the middle of a pod.
Resting == {"idle", "list", "scan", "wait", "status", "visit", "prune_start",
            "prune", "stopped", "stop_start", "stop_visit", "wg_wait",
            "exited", "panicked"}

Busy ==
  {"add_store", "add_state", "start_load", "start_change", "start_spawn",
   "del_load", "del_change", "mod_load", "mod_check", "mod_inspect",
   "mod_change", "term_load", "term_change", "unm_load", "unm_check",
   "prune_check", "prune_delete", "sig_load", "sig_send", "stop_change",
   "stop_delete"}

PCs == Resting \cup Busy

Keys == {p \in Pods : podMap[p] # NoArgs}

\* Objects no goroutine, map entry or apidump process refers to any more.
FreeArgs ==
  {a \in Args : /\ \A p \in Pods : podMap[p] # a
                /\ \A g \in Goroutines : arg[g] # a
                /\ proc[a] \in {"none", "done"}}

(***************************************************************************)
(* Control of the goroutines.                                              *)
(***************************************************************************)
At(g, l) == pc[g] = l

\* Goroutine g goes on to l with the same pod and the same object.
Goto(g, l) == pc' = [pc EXCEPT ![g] = l] /\ UNCHANGED <<uid, arg, late>>

\* Goroutine g goes on to l, now holding the object a.
GotoWith(g, l, a) ==
  /\ pc' = [pc EXCEPT ![g] = l]
  /\ arg' = [arg EXCEPT ![g] = a]
  /\ UNCHANGED <<uid, late>>

\* Goroutine g takes up pod p, with object a (or NoArgs), at l.
Take(g, l, p, a) ==
  /\ pc' = [pc EXCEPT ![g] = l]
  /\ uid' = [uid EXCEPT ![g] = p]
  /\ arg' = [arg EXCEPT ![g] = a]
  /\ UNCHANGED late

\* Goroutine g is through with its pod and goes to the resting point l.
Leave(g, l) ==
  /\ pc' = [pc EXCEPT ![g] = l]
  /\ arg' = [arg EXCEPT ![g] = NoArgs]
  /\ uid' = [uid EXCEPT ![g] = NoPod]
  /\ late' = late \ {g}

\* Where the callers of addPodArgsToMap, StartApiDumpProcess and
\* SignalApiDumpProcessToStop go on when those functions return.
AfterAdd(g) == IF g \in {"main", "health"} THEN "scan" ELSE "idle"
AfterStart(g) ==
  CASE g = "main" -> "scan" [] g = "health" -> "visit" [] OTHER -> "idle"

\* getPodArgsFromMap, then on to l; without an entry the caller returns.
getPodArgsFromMap(g, l, back) ==
  IF podMap[uid[g]] = NoArgs THEN Leave(g, back)
                             ELSE GotoWith(g, l, podMap[uid[g]])

(***************************************************************************)
(* PodArgs (pod_args.go).                                                  *)
(***************************************************************************)

isTrafficMonitoringInFinalState(a) == mon[a] \in FinalStates

\* Would changePodTrafficMonitorState succeed?  allowed = {} allows any state.
MayChange(a, next, allowed) ==
  /\ ~isTrafficMonitoringInFinalState(a)
  /\ allowed # {} => mon[a] \in allowed
  /\ mon[a] # next

\* One critical section of StateChangeMutex: on success g goes to l, on an
\* error it gives the pod up and goes to back.
changePodTrafficMonitorState(g, next, allowed, l, back) ==
  IF MayChange(arg[g], next, allowed)
  THEN mon' = [mon EXCEPT ![arg[g]] = next] /\ Goto(g, l)
  ELSE UNCHANGED mon /\ Leave(g, back)

NewPodArgs(a, p) ==
  /\ owner' = [owner EXCEPT ![a] = p]
  /\ mon' = [mon EXCEPT ![a] = "Unset"]
  /\ chan' = [chan EXCEPT ![a] = 0]
  /\ closed' = [closed EXCEPT ![a] = FALSE]
  /\ proc' = [proc EXCEPT ![a] = "none"]

(***************************************************************************)
(* addPodArgsToMap: LoadOrStore of a new object, then, in a second step,   *)
(* its first state.  The Load that checkPodsHealth makes first decides     *)
(* nothing that LoadOrStore does not decide again.                         *)
(***************************************************************************)
\* Mutant: Store instead of LoadOrStore.
addPodArgsToMap_store_Mutant(g) ==
  /\ At(g, "add_store")
  /\ FreeArgs # {}
  /\ LET a == CHOOSE x \in FreeArgs : TRUE
     IN /\ NewPodArgs(a, uid[g])
        /\ podMap' = [podMap EXCEPT ![uid[g]] = a]
        /\ GotoWith(g, "add_state", a)
  /\ UNCHANGED <<cluster, loops, signals>>

addPodArgsToMap_store(g) ==
  /\ At(g, "add_store")
  /\ \/ /\ podMap[uid[g]] = NoArgs
        /\ FreeArgs # {}
        /\ LET a == CHOOSE x \in FreeArgs : TRUE
           IN /\ NewPodArgs(a, uid[g])
              /\ podMap' = [podMap EXCEPT ![uid[g]] = a]
              /\ GotoWith(g, "add_state", a)
     \/ /\ podMap[uid[g]] # NoArgs
        /\ Leave(g, AfterAdd(g))
        /\ UNCHANGED <<podMap, objects, proc>>
  /\ UNCHANGED <<cluster, loops, signals>>

StartingState(g) == IF g \in Handlers THEN "PodPending" ELSE "PodRunning"

\* The object is the one g stored, but others may have changed its state.
addPodArgsToMap_state(g) ==
  /\ At(g, "add_state")
  /\ IF MayChange(arg[g], StartingState(g), {})
     THEN /\ mon' = [mon EXCEPT ![arg[g]] = StartingState(g)]
          /\ uids' = IF g = "health" THEN uids \cup {uid[g]} ELSE uids
          /\ IF g = "main" THEN Goto(g, "start_load")
                           ELSE Leave(g, AfterAdd(g))
     ELSE UNCHANGED <<mon, uids>> /\ Leave(g, AfterAdd(g))
  /\ UNCHANGED <<cluster, podMap, owner, chan, closed, proc, todo, stat,
                 signals>>

(***************************************************************************)
(* StartApiDumpProcess (apidump_process.go).                               *)
(***************************************************************************)
StartApiDumpProcess_load(g) ==
  /\ At(g, "start_load")
  /\ getPodArgsFromMap(g, "start_change", AfterStart(g))
  /\ UNCHANGED <<cluster, podMap, objects, proc, loops, signals>>

StartApiDumpProcess_change(g) ==
  /\ At(g, "start_change")
  /\ changePodTrafficMonitorState(g, "TrafficMonitoringRunning",
                                  {"PodRunning"}, "start_spawn", AfterStart(g))
  /\ UNCHANGED <<cluster, podMap, owner, chan, closed, proc, loops, signals>>

\* ApidumpProcessesWG.Add and the go statement.
StartApiDumpProcess_spawn(g) ==
  /\ At(g, "start_spawn")
  /\ proc' = [proc EXCEPT ![arg[g]] = "starting"]
  /\ Leave(g, AfterStart(g))
  /\ UNCHANGED <<cluster, podMap, objects, loops, signals>>

(***************************************************************************)
(* SignalApiDumpProcessToStop: looks the pod up again, then sends on the   *)
(* stop channel.  The send blocks while the buffer is full and panics,     *)
(* ending the agent, when the channel is closed.                           *)
(***************************************************************************)
\* StopAllApiDumpProcesses deletes the map entry after the signal; the other
\* callers are through with the pod.
ReturnFromSignal(g) ==
  IF g = "main" THEN Goto(g, "stop_delete") ELSE Leave(g, AfterStart(g))

SignalApiDumpProcessToStop_load(g) ==
  /\ At(g, "sig_load")
  /\ IF podMap[uid[g]] = NoArgs
     THEN ReturnFromSignal(g)
     ELSE GotoWith(g, "sig_send", podMap[uid[g]])
  /\ UNCHANGED <<cluster, podMap, objects, proc, loops, signals>>

\* Mutant: the stop channel has no capacity limit.
SignalApiDumpProcessToStop_send_Mutant(g) ==
  /\ At(g, "sig_send")
  /\ ~closed[arg[g]]
  /\ chan' = [chan EXCEPT ![arg[g]] = @ + 1]
  /\ ReturnFromSignal(g)
  /\ UNCHANGED <<cluster, podMap, owner, mon, closed, proc, loops, signals>>

SignalApiDumpProcessToStop_send(g) ==
  /\ At(g, "sig_send")
  /\ ~closed[arg[g]]
  /\ chan[arg[g]] < StopChanCap
  /\ chan' = [chan EXCEPT ![arg[g]] = @ + 1]
  /\ ReturnFromSignal(g)
  /\ UNCHANGED <<cluster, podMap, owner, mon, closed, proc, loops, signals>>

\* A send on a closed channel panics, also for a sender that was blocked.
SignalApiDumpProcessToStop_panic(g) ==
  /\ At(g, "sig_send")
  /\ closed[arg[g]]
  /\ pc' = [pc EXCEPT !["main"] = "panicked"]
  /\ UNCHANGED <<cluster, podMap, objects, proc, uid, arg, late, loops,
                 signals>>

(***************************************************************************)
(* The apidump goroutine of object a: apidump.Run as the daemonset sees    *)
(* it, and the deferred function of StartApiDumpProcess.                   *)
(***************************************************************************)
ProcStep(a, from, to) ==
  /\ proc[a] \in from
  /\ proc' = [proc EXCEPT ![a] = to]

\* GetNetworkNamespace and the set-up of apidump.Run, which registers for
\* signals just before its select loop, or an error return or panic in them.
apidump_begin(a) ==
  /\ \/ ProcStep(a, {"starting"}, "listening") /\ notified' = TRUE
     \/ ProcStep(a, {"starting"}, "stopping") /\ UNCHANGED notified
  /\ UNCHANGED <<cluster, podMap, objects, control, loops, down, sig>>

\* The loop ends on a stop message, or on the closed stop channel.
apidump_receive(a) ==
  /\ ProcStep(a, {"listening", "signalled"}, "stopping")
  /\ chan[a] > 0 \/ closed[a]
  /\ chan' = [chan EXCEPT ![a] = IF @ > 0 THEN @ - 1 ELSE 0]
  /\ UNCHANGED <<cluster, podMap, owner, mon, closed, control, loops, signals>>

\* Mutant: the final state is set before the processors have stopped.
apidump_finish_Mutant(a) ==
  /\ ProcStep(a, {"listening", "signalled"}, "stopping")
  /\ mon' = [mon EXCEPT ![a] = "TrafficMonitoringEnded"]
  /\ UNCHANGED <<cluster, podMap, owner, chan, closed, control, loops, signals>>

\* The loop ends by itself: the discovery TTL expires, or all interfaces fail.
apidump_finish(a) ==
  /\ ProcStep(a, {"listening", "signalled"}, "stopping")
  /\ UNCHANGED <<cluster, podMap, objects, control, loops, signals>>

\* A signal to the agent process ends the loop too.
apidump_signal(a) ==
  /\ ProcStep(a, {"signalled"}, "stopping")
  /\ UNCHANGED <<cluster, podMap, objects, control, loops, signals>>

\* The processors stop and Run returns (or panics); the deferred function
\* calls WaitGroup.Done.
apidump_return(a) ==
  /\ ProcStep(a, {"stopping"}, "ended")
  /\ UNCHANGED <<cluster, podMap, objects, control, loops, signals>>

\* The final state: TrafficMonitoringFailed after an error or a panic.  When
\* the change is refused the error is only logged.
apidump_final(a) ==
  /\ ProcStep(a, {"ended"}, "done")
  /\ \E next \in {"TrafficMonitoringEnded", "TrafficMonitoringFailed"} :
       mon' = IF MayChange(a, next, EndableStates)
              THEN [mon EXCEPT ![a] = next] ELSE mon
  /\ UNCHANGED <<cluster, podMap, owner, chan, closed, control, loops, signals>>

(***************************************************************************)
(* Event handlers (kube_events_worker.go), one goroutine per event.  The   *)
(* sidecar and discovery filters have passed: Pods holds no other pod.     *)
(***************************************************************************)
handlePodDeleteEvent_load(g) ==
  /\ At(g, "del_load")
  /\ getPodArgsFromMap(g, "del_change", "idle")
  /\ UNCHANGED <<cluster, podMap, objects, proc, loops, signals>>

\* The phase the event carries is the pod's last one.
handlePodDeleteEvent_change(g) ==
  /\ At(g, "del_change")
  /\ \E s \in {"PodStopped", "PodTerminated"} :
       changePodTrafficMonitorState(g, s, {"TrafficMonitoringRunning"},
                                    "sig_load", "idle")
  /\ UNCHANGED <<cluster, podMap, owner, chan, closed, proc, loops, signals>>

handlePodModifyEvent_load(g) ==
  /\ At(g, "mod_load")
  /\ getPodArgsFromMap(g, "mod_check", "idle")
  /\ UNCHANGED <<cluster, podMap, objects, proc, loops, signals>>

\* The unlocked read of PodTrafficMonitorState; the event says Running.
handlePodModifyEvent_check(g) ==
  /\ At(g, "mod_check")
  /\ IF mon[arg[g]] = "PodPending" THEN Goto(g, "mod_inspect")
                                   ELSE Leave(g, "idle")
  /\ UNCHANGED <<cluster, podMap, objects, proc, loops, signals>>

\* inspectPodForEnvVars: reads the containers through the CRI.  It can succeed
\* only for a pod with the required configuration, and is bound to succeed for
\* such a pod while its containers run, unless the CRI fails.
InspectionMayPass(p) == p \in Instrumented
InspectionMayFail(p) ==
  p \notin Instrumented \/ CRIMayFail \/ phase[p] # "Running"

\* A failed inspection removes whatever the map holds for the pod.
handlePodModifyEvent_inspect(g) ==
  /\ At(g, "mod_inspect")
  /\ \/ /\ InspectionMayPass(uid[g])
        /\ Goto(g, "mod_change")
        /\ UNCHANGED podMap
     \/ /\ InspectionMayFail(uid[g])
        /\ podMap' = [podMap EXCEPT ![uid[g]] = NoArgs]
        /\ Leave(g, "idle")
  /\ UNCHANGED <<cluster, objects, proc, loops, signals>>

handlePodModifyEvent_change(g) ==
  /\ At(g, "mod_change")
  /\ changePodTrafficMonitorState(g, "PodRunning", {"PodPending"},
                                  "start_load", "idle")
  /\ UNCHANGED <<cluster, podMap, owner, chan, closed, proc, loops, signals>>

(***************************************************************************)
(* Listing the node's pods and adding the new ones: the first half of      *)
(* checkPodsHealth ("health") and StartProcessInExistingPods ("main").     *)
(* GetPodsInAgentNode can fail; checkPodsHealth then goes on with no pods. *)
(***************************************************************************)
\* Mutant: the list leaves out pods that do not run yet.
Listed_Mutant == {p \in Pods : phase[p] \in {"Running", "Stopped"}}

Listed == {p \in Pods : phase[p] \in {"Pending", "Running", "Stopped"}}

\* What GetPodsInAgentNode returns, {} also standing for a failure.
PodLists == {Listed} \cup (IF APIMayFail THEN {{}} ELSE {})

Scanners == {"main", "health"}

GetPodsInAgentNode(g) ==
  /\ At(g, "list")
  /\ \E ps \in PodLists : todo' = [todo EXCEPT ![g] = ps]
  /\ Goto(g, "scan")
  /\ UNCHANGED <<cluster, podMap, objects, proc, uids, stat, signals>>

scan_inspect(g) ==
  /\ At(g, "scan")
  /\ \E p \in todo[g] :
       /\ todo' = [todo EXCEPT ![g] = @ \ {p}]
       /\ \/ InspectionMayPass(p) /\ Take(g, "add_store", p, NoArgs)
          \/ InspectionMayFail(p) /\ UNCHANGED control
  /\ UNCHANGED <<cluster, podMap, objects, proc, uids, stat, signals>>

\* Run now registers for signals and waits for one.
StartProcessInExistingPods_done ==
  /\ At("main", "scan")
  /\ todo["main"] = {}
  /\ notified' = TRUE
  /\ Goto("main", "wait")
  /\ UNCHANGED <<cluster, podMap, objects, proc, loops, down, sig>>

(***************************************************************************)
(* PodsHealthWorker (pods_healthcheck_worker.go).                          *)
(***************************************************************************)
\* A sender that waits for room in a stop channel.
Blocked(g) == At(g, "sig_send") /\ chan[arg[g]] >= StopChanCap

\* The ticker fires; checkPodsHealth collects the UIDs in the map.  The select
\* may still choose the tick after the done channel is closed.
\* Ticks are PodHealthCheckInterval (5 minutes) apart.  Unless MayLag, a
\* goroutine that was busy with a pod at the end of the last round is through
\* with it by then, or blocked on a full stop channel.
checkPodsHealth_begin ==
  /\ At("health", "idle")
  /\ MayLag \/ \A g \in late : Blocked(g)
  /\ uids' = Keys
  /\ Goto("health", "list")
  /\ UNCHANGED <<cluster, podMap, objects, proc, todo, stat, signals>>

PodsHealthWorker_stop ==
  /\ At("health", "idle")
  /\ down
  /\ Goto("health", "stopped")
  /\ UNCHANGED <<cluster, podMap, objects, proc, loops, signals>>

checkPodsHealth_scanned ==
  /\ At("health", "scan")
  /\ todo["health"] = {}
  /\ Goto("health", IF uids = {} THEN "prune_start" ELSE "status")
  /\ UNCHANGED <<cluster, podMap, objects, proc, loops, signals>>

\* GetPodsStatusByUIDs: a pod that is not listed has no entry, and after a
\* failure of the list call no pod has one.
GetPodsStatusByUIDs ==
  /\ At("health", "status")
  /\ \E ps \in PodLists :
       stat' = [p \in Pods |-> IF p \in ps THEN phase[p] ELSE "Gone"]
  /\ todo' = [todo EXCEPT !["health"] = uids]
  /\ Goto("health", "visit")
  /\ UNCHANGED <<cluster, podMap, objects, proc, uids, signals>>

\* Mutant: a pod without a status is skipped.
checkPodsHealth_visit_Mutant ==
  /\ At("health", "visit")
  /\ \E p \in todo["health"] :
       /\ todo' = [todo EXCEPT !["health"] = @ \ {p}]
       /\ \/ stat[p] \in {"Pending", "Gone"} /\ UNCHANGED control
          \/ stat[p] = "Running" /\ Take("health", "unm_load", p, NoArgs)
          \/ stat[p] = "Stopped" /\ Take("health", "term_load", p, NoArgs)
  /\ UNCHANGED <<cluster, podMap, objects, proc, uids, stat, signals>>

checkPodsHealth_visit ==
  /\ At("health", "visit")
  /\ \E p \in todo["health"] :
       /\ todo' = [todo EXCEPT !["health"] = @ \ {p}]
       /\ \/ stat[p] = "Pending" /\ UNCHANGED control
          \/ stat[p] = "Running" /\ Take("health", "unm_load", p, NoArgs)
          \/ /\ stat[p] \in {"Stopped", "Gone"}
             /\ Take("health", "term_load", p, NoArgs)
  /\ UNCHANGED <<cluster, podMap, objects, proc, uids, stat, signals>>

checkPodsHealth_done ==
  /\ At("health", "visit")
  /\ todo["health"] = {}
  /\ uids' = {}
  /\ stat' = [p \in Pods |-> "Gone"]
  /\ Goto("health", "prune_start")
  /\ UNCHANGED <<cluster, podMap, objects, proc, todo, signals>>

handleTerminatedPod_load ==
  /\ At("health", "term_load")
  /\ getPodArgsFromMap("health", "term_change", "visit")
  /\ UNCHANGED <<cluster, podMap, objects, proc, loops, signals>>

\* A pod that no longer exists is terminated from any state, one that has
\* stopped running only while its traffic is monitored.
handleTerminatedPod_change ==
  /\ At("health", "term_change")
  /\ changePodTrafficMonitorState("health", "PodTerminated",
       IF stat[uid["health"]] = "Gone" THEN {} ELSE {"TrafficMonitoringRunning"},
       "sig_load", "visit")
  /\ UNCHANGED <<cluster, podMap, owner, chan, closed, proc, loops, signals>>

handleUnmonitoredPod_load ==
  /\ At("health", "unm_load")
  /\ getPodArgsFromMap("health", "unm_check", "visit")
  /\ UNCHANGED <<cluster, podMap, objects, proc, loops, signals>>

\* Mutant: the worker waits for the state PodPending instead of PodRunning.
handleUnmonitoredPod_check_Mutant ==
  /\ At("health", "unm_check")
  /\ IF mon[arg["health"]] = "PodPending" THEN Goto("health", "start_load")
                                          ELSE Leave("health", "visit")
  /\ UNCHANGED <<cluster, podMap, objects, proc, loops, signals>>

handleUnmonitoredPod_check ==
  /\ At("health", "unm_check")
  /\ IF mon[arg["health"]] = "PodRunning" THEN Goto("health", "start_load")
                                          ELSE Leave("health", "visit")
  /\ UNCHANGED <<cluster, podMap, objects, proc, loops, signals>>

\* sync.Map.Range visits each key that is in the map all the time, and perhaps
\* some that are added meanwhile, with the value the key has at the visit.
RangeSets == {T \in SUBSET Pods : Keys \subseteq T}

pruneStoppedProcesses_begin ==
  /\ At("health", "prune_start")
  /\ \E T \in RangeSets : todo' = [todo EXCEPT !["health"] = T]
  /\ Goto("health", "prune")
  /\ UNCHANGED <<cluster, podMap, objects, proc, uids, stat, signals>>

pruneStoppedProcesses_visit ==
  /\ At("health", "prune")
  /\ \E p \in todo["health"] \cap Keys :
       /\ todo' = [todo EXCEPT !["health"] = @ \ {p}]
       /\ Take("health", "prune_check", p, podMap[p])
  /\ UNCHANGED <<cluster, podMap, objects, proc, uids, stat, signals>>

\* Mutant: one pass closes the channel of an ended process at once.
pruneStoppedProcesses_check_OnePass ==
  /\ At("health", "prune_check")
  /\ IF mon[arg["health"]] \in FinalStates
     THEN /\ mon' = [mon EXCEPT ![arg["health"]] = "RemovePodFromMap"]
          /\ closed' = [closed EXCEPT ![arg["health"]] = TRUE]
          /\ Goto("health", "prune_delete")
     ELSE Leave("health", "prune") /\ UNCHANGED <<mon, closed>>
  /\ UNCHANGED <<cluster, podMap, owner, chan, proc, loops, signals>>

\* Mutant: entries of terminated pods are pruned, too.
pruneStoppedProcesses_check_Terminated ==
  /\ At("health", "prune_check")
  /\ IF mon[arg["health"]] \in {"PodTerminated", "RemovePodFromMap"}
     THEN /\ closed' = [closed EXCEPT ![arg["health"]] = TRUE]
          /\ Goto("health", "prune_delete")
     ELSE Leave("health", "prune") /\ UNCHANGED closed
  /\ UNCHANGED <<cluster, podMap, owner, mon, chan, proc, loops, signals>>

\* First pass: markAsPruneReady.  Second pass: close the stop channel, then
\* delete the entry.  A final state changes here only, so that the unlocked
\* read and the locked change of markAsPruneReady are one step.
pruneStoppedProcesses_check ==
  /\ At("health", "prune_check")
  /\ LET a == arg["health"]
     IN \/ /\ mon[a] \in {"TrafficMonitoringEnded", "TrafficMonitoringFailed"}
           /\ mon' = [mon EXCEPT ![a] = "RemovePodFromMap"]
           /\ Leave("health", "prune")
           /\ UNCHANGED closed
        \/ /\ mon[a] = "RemovePodFromMap"
           /\ closed' = [closed EXCEPT ![a] = TRUE]
           /\ Goto("health", "prune_delete")
           /\ UNCHANGED mon
        \/ /\ mon[a] \notin FinalStates
           /\ Leave("health", "prune")
           /\ UNCHANGED <<mon, closed>>
  /\ UNCHANGED <<cluster, podMap, owner, chan, proc, loops, signals>>

\* Mutant: the entry stays in the map after its channel is closed.
pruneStoppedProcesses_delete_Mutant ==
  /\ At("health", "prune_delete")
  /\ Leave("health", "prune")
  /\ UNCHANGED <<cluster, podMap, objects, proc, loops, signals>>

pruneStoppedProcesses_delete ==
  /\ At("health", "prune_delete")
  /\ podMap' = [podMap EXCEPT ![uid["health"]] = NoArgs]
  /\ Leave("health", "prune")
  /\ UNCHANGED <<cluster, objects, proc, loops, signals>>

pruneStoppedProcesses_end ==
  /\ At("health", "prune")
  /\ todo["health"] \cap Keys = {}
  /\ todo' = [todo EXCEPT !["health"] = {}]
  /\ pc' = [pc EXCEPT !["health"] = "idle"]
  /\ late' = IF MayLag THEN {} ELSE {g \in Goroutines : pc[g] \in Busy}
  /\ UNCHANGED <<cluster, podMap, objects, proc, uid, arg, uids, stat, signals>>

(***************************************************************************)
(* The end of Run: signal, close(done), StopAllApiDumpProcesses.           *)
(***************************************************************************)
Run_signal ==
  /\ At("main", "wait")
  /\ sig = "sent"
  /\ down' = TRUE
  /\ Goto("main", "stop_start")
  /\ UNCHANGED <<cluster, podMap, objects, proc, loops, sig, notified>>

StopAllApiDumpProcesses_begin ==
  /\ At("main", "stop_start")
  /\ \E T \in RangeSets : todo' = [todo EXCEPT !["main"] = T]
  /\ Goto("main", "stop_visit")
  /\ UNCHANGED <<cluster, podMap, objects, proc, uids, stat, signals>>

StopAllApiDumpProcesses_visit ==
  /\ At("main", "stop_visit")
  /\ \E p \in todo["main"] \cap Keys :
       /\ todo' = [todo EXCEPT !["main"] = @ \ {p}]
       /\ Take("main", "stop_change", p, podMap[p])
  /\ UNCHANGED <<cluster, podMap, objects, proc, uids, stat, signals>>

StopAllApiDumpProcesses_change ==
  /\ At("main", "stop_change")
  /\ changePodTrafficMonitorState("main", "DaemonSetShutdown", {},
                                  "sig_load", "stop_visit")
  /\ UNCHANGED <<cluster, podMap, owner, chan, closed, proc, loops, signals>>

StopAllApiDumpProcesses_delete ==
  /\ At("main", "stop_delete")
  /\ podMap' = [podMap EXCEPT ![uid["main"]] = NoArgs]
  /\ Leave("main", "stop_visit")
  /\ UNCHANGED <<cluster, objects, proc, loops, signals>>

StopAllApiDumpProcesses_visited ==
  /\ At("main", "stop_visit")
  /\ todo["main"] \cap Keys = {}
  /\ todo' = [todo EXCEPT !["main"] = {}]
  /\ Goto("main", "wg_wait")
  /\ UNCHANGED <<cluster, podMap, objects, proc, uids, stat, signals>>

\* ApidumpProcessesWG.Wait returns; then Run, and the agent, ends.
StopAllApiDumpProcesses_wait ==
  /\ At("main", "wg_wait")
  /\ \A a \in Args : ~Live(a)
  /\ Goto("main", "exited")
  /\ UNCHANGED <<cluster, podMap, objects, proc, loops, signals>>

(***************************************************************************)
(* The node: pods come and go, the watch delivers events, and SIGTERM may  *)
(* reach the agent.  Events that no handler acts on (a modification of a   *)
(* pod that does not run, an addition or modification while the watch is   *)
(* broken) are changes of phase only.                                      *)
(***************************************************************************)
\* KubernetesPodEventsWorker starts a handler at l for an event about p.
KubernetesPodEventsWorker(p, l) ==
  IF watching
  THEN \E h \in Handlers : At(h, "idle") /\ Take(h, l, p, NoArgs)
  ELSE UNCHANGED control

PodEvent(p, from, to, l) ==
  /\ phase[p] \in from
  /\ phase' = [phase EXCEPT ![p] = to]
  /\ KubernetesPodEventsWorker(p, l)
  /\ UNCHANGED <<watching, podMap, objects, proc, loops, signals>>

PodAdded(p) == PodEvent(p, {"Absent"}, "Pending", "add_store")
PodModified(p) == PodEvent(p, {"Pending", "Running"}, "Running", "mod_load")
PodDeleted(p) ==
  PodEvent(p, {"Pending", "Running", "Stopped"}, "Gone", "del_load")

PodStopped(p) ==
  /\ phase[p] \in {"Pending", "Running"}
  /\ phase' = [phase EXCEPT ![p] = "Stopped"]
  /\ UNCHANGED <<watching, podMap, objects, proc, control, loops, signals>>

\* The worker sees done closed, or the watch ends for good: from then on the
\* closed result channel yields events of no type.
KubernetesPodEventsWorker_stop ==
  /\ watching
  /\ down \/ WatchMayFail
  /\ watching' = FALSE
  /\ UNCHANGED <<phase, podMap, objects, proc, control, loops, signals>>

\* Before any call of signal.Notify the signal kills the agent.  Afterwards it
\* goes to the goroutines that have registered, which Run is not until
\* StartProcessInExistingPods has returned.
SIGTERM ==
  /\ MayTerminate
  /\ sig = "none"
  /\ sig' = IF At("main", "wait") THEN "sent" ELSE "lost"
  /\ IF notified
     THEN /\ proc' = [a \in Args |-> IF proc[a] = "listening" THEN "signalled"
                                                             ELSE proc[a]]
          /\ UNCHANGED control
     ELSE /\ Leave("main", "exited")
          /\ UNCHANGED proc
  /\ UNCHANGED <<cluster, podMap, objects, loops, down, notified>>

(***************************************************************************)
(* The specification.                                                      *)
(***************************************************************************)
Init ==
  /\ phase \in [Pods -> {"Absent", "Pending", "Running", "Stopped"}]
  /\ podMap = [p \in Pods |-> NoArgs]
  /\ owner = [a \in Args |-> NoPod]
  /\ mon = [a \in Args |-> "Unset"]
  /\ chan = [a \in Args |-> 0]
  /\ closed = [a \in Args |-> FALSE]
  /\ proc = [a \in Args |-> "none"]
  /\ pc = [g \in Goroutines |-> IF g = "main" THEN "list" ELSE "idle"]
  /\ uid = [g \in Goroutines |-> NoPod]
  /\ arg = [g \in Goroutines |-> NoArgs]
  /\ todo = [g \in Scanners |-> {}]
  /\ uids = {}
  /\ stat = [p \in Pods |-> "Gone"]
  /\ watching = TRUE
  /\ down = FALSE
  /\ sig = "none"
  /\ notified = FALSE
  /\ late = {}

\* Functions that several goroutines call.
CallStep(g) ==
  \/ addPodArgsToMap_store(g)
  \/ addPodArgsToMap_state(g)
  \/ StartApiDumpProcess_load(g)
  \/ StartApiDumpProcess_change(g)
  \/ StartApiDumpProcess_spawn(g)
  \/ SignalApiDumpProcessToStop_load(g)
  \/ SignalApiDumpProcessToStop_send(g)
  \/ SignalApiDumpProcessToStop_panic(g)

HandlerStep(h) ==
  \/ handlePodDeleteEvent_load(h)
  \/ handlePodDeleteEvent_change(h)
  \/ handlePodModifyEvent_load(h)
  \/ handlePodModifyEvent_check(h)
  \/ handlePodModifyEvent_inspect(h)
  \/ handlePodModifyEvent_change(h)

ScanStep(g) ==
  \/ GetPodsInAgentNode(g)
  \/ scan_inspect(g)

HealthStep ==
  \/ checkPodsHealth_begin
  \/ PodsHealthWorker_stop
  \/ checkPodsHealth_scanned
  \/ GetPodsStatusByUIDs
  \/ checkPodsHealth_visit
  \/ checkPodsHealth_done
  \/ handleTerminatedPod_load
  \/ handleTerminatedPod_change
  \/ handleUnmonitoredPod_load
  \/ handleUnmonitoredPod_check
  \/ pruneStoppedProcesses_begin
  \/ pruneStoppedProcesses_visit
  \/ pruneStoppedProcesses_check
  \/ pruneStoppedProcesses_delete
  \/ pruneStoppedProcesses_end

MainStep ==
  \/ StartProcessInExistingPods_done
  \/ Run_signal
  \/ StopAllApiDumpProcesses_begin
  \/ StopAllApiDumpProcesses_visit
  \/ StopAllApiDumpProcesses_change
  \/ StopAllApiDumpProcesses_delete
  \/ StopAllApiDumpProcesses_visited
  \/ StopAllApiDumpProcesses_wait

\* What an apidump goroutine does of its own accord once it can.
ProcessStep(a) ==
  \/ apidump_begin(a)
  \/ apidump_receive(a)
  \/ apidump_signal(a)
  \/ apidump_return(a)
  \/ apidump_final(a)

NodeStep ==
  \/ \E p \in Pods : PodAdded(p) \/ PodModified(p) \/ PodStopped(p) \/ PodDeleted(p)
  \/ KubernetesPodEventsWorker_stop
  \/ SIGTERM

\* The agent's process is there; afterwards no goroutine of it runs.
Alive == pc["main"] \notin {"exited", "panicked"}

Goroutine(g) ==
  /\ Alive
  /\ \/ CallStep(g)
     \/ g \in Handlers /\ HandlerStep(g)
     \/ g \in Scanners /\ ScanStep(g)
     \/ g = "health" /\ HealthStep
     \/ g = "main" /\ MainStep

Process(a) == Alive /\ ProcessStep(a)

Next ==
  \/ \E g \in Goroutines : Goroutine(g)
  \/ \E a \in Args : Process(a) \/ (Alive /\ apidump_finish(a))
  \/ Alive /\ NodeStep

Spec == Init /\ [][Next]_vars

\* Go's scheduler runs every goroutine that can run; calls to the Kubernetes
\* and CRI APIs return, the ticker ticks, and an apidump process that is told
\* to stop does stop.  Nothing is assumed of the node.
Fairness ==
  /\ \A g \in Goroutines : WF_vars(Goroutine(g))
  /\ \A a \in Args : WF_vars(Process(a))

FairSpec == Spec /\ Fairness

(***************************************************************************)
(* Properties.                                                             *)
(***************************************************************************)

\* The values of the variables: what PodArgsByNameMap, the PodArgs objects and
\* the goroutines' locals of cmd/internal/kube/daemonset can hold.
TypeOK ==
  /\ phase \in [Pods -> Phases]
  /\ podMap \in [Pods -> Args \cup {NoArgs}]
  /\ owner \in [Args -> Pods \cup {NoPod}]
  /\ mon \in [Args -> MonStates]
  /\ chan \in [Args -> 0..StopChanCap]
  /\ closed \in [Args -> BOOLEAN]
  /\ proc \in [Args -> ProcStates]
  /\ pc \in [Goroutines -> PCs]
  /\ uid \in [Goroutines -> Pods \cup {NoPod}]
  /\ arg \in [Goroutines -> Args \cup {NoArgs}]
  /\ todo \in [Scanners -> SUBSET Pods]
  /\ uids \in SUBSET Pods
  /\ stat \in [Pods -> Phases]
  /\ watching \in BOOLEAN
  /\ down \in BOOLEAN
  /\ sig \in {"none", "sent", "lost"}
  /\ notified \in BOOLEAN
  /\ late \in SUBSET Goroutines

\* An apidump goroutine that is about to start, runs, or is ending.
Committed(a) ==
  Live(a) \/ proc[a] = "ended"
  \/ \E g \in Goroutines : At(g, "start_spawn") /\ arg[g] = a

\* The state change that the deferred function of StartApiDumpProcess makes is
\* never refused: whatever the event handlers, the health check and the
\* shutdown did to the state meanwhile, it is one from which TrafficMonitoring-
\* Ended or -Failed is allowed.  Otherwise the entry could never be pruned.
LiveProcessCanFinish == \A a \in Args : Committed(a) => mon[a] \in EndableStates

\* The map entry of a pod that still runs stays while an apidump process
\* captures its traffic, so that SignalApiDumpProcessToStop and
\* StopAllApiDumpProcesses can find the process.  (The shutdown itself deletes
\* entries of processes that are still stopping.)
LiveIsMapped ==
  \A a \in Args :
    ~down /\ Live(a) /\ phase[owner[a]] = "Running" => podMap[owner[a]] = a

\* StartApiDumpProcess never runs two apidump processes for one running pod,
\* which would report its traffic twice.
NoDuplicateCapture ==
  \A a, b \in Args :
    /\ ~down
    /\ Live(a) /\ Live(b)
    /\ owner[a] = owner[b]
    /\ phase[owner[a]] = "Running"
    => a = b

\* pruneStoppedProcesses closes a stop channel only after the apidump process
\* is through: a closed channel would end a running capture, since a receive
\* from it succeeds at once.
ClosedAfterProcess ==
  \A a \in Args : closed[a] => ~Committed(a) /\ mon[a] = "RemovePodFromMap"

\* The two iterations of pruneStoppedProcesses keep a goroutine that has
\* decided to signal a process from sending on its closed channel.  Only one
\* that is already blocked on the full channel can see it closed.
PromptSenderSafe ==
  \A g \in Goroutines :
    At(g, "sig_send") /\ closed[arg[g]] => chan[arg[g]] = StopChanCap

\* A stop signal is sent only for a pod that has stopped or is gone, and a
\* running pod keeps its capture until the shutdown: handlePodDeleteEvent and
\* checkPodsHealth agree with the cluster.
RunningPodNotStopped ==
  \A a \in Args :
    ~down /\ chan[a] > 0 => phase[owner[a]] \in {"Stopped", "Gone"}

\* An entry whose apidump process has ended is pruned by pruneStopped-
\* Processes, so that the pod can be monitored again, as long as the health
\* worker does not hang on a full stop channel.
EndedIsPruned ==
  \A p \in Pods, a \in Args :
    (podMap[p] = a /\ mon[a] \in FinalStates)
      ~> (podMap[p] # a \/ Blocked("health"))

\* The traffic of a pod that is gone is not captured for ever, even if no event
\* tells so: checkPodsHealth stops the process.
GoneIsReleased ==
  \A p \in Pods :
    phase[p] = "Gone" ~> (\A a \in Args : owner[a] = p => ~Live(a))

\* handleUnmonitoredPod starts the process of a running pod whose entry was
\* left in PodRunning by the goroutine that added it.
RunningEntryIsStarted ==
  \A p \in Pods :
    (podMap[p] # NoArgs /\ mon[podMap[p]] = "PodRunning")
      ~> (\/ phase[p] # "Running"
          \/ podMap[p] = NoArgs
          \/ mon[podMap[p]] # "PodRunning"
          \/ Blocked("health"))
=============================================================================
