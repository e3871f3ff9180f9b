------------------------------- MODULE Apidump -------------------------------
(***************************************************************************)
(* One capture session: apidump.Run, the capture goroutine it starts for   *)
(* every interface and filter (pcap.Collect and the packet counters it     *)
(* runs through), and the telemetry worker.                                *)
(*                                                                         *)
(* The goroutines meet in errChan, in the WaitGroup doneWG, in the channel *)
(* stop, which is closed once, and in the unbuffered channel of the        *)
(* success telemetry.  Packets are abstracted to what the counters tell    *)
(* apart: requests, responses and the rest.                                *)
(***************************************************************************)
EXTENDS Naturals, FiniteSets

CONSTANTS Interfaces,  \* the network interfaces
          Sessions     \* the arguments a session may be started with

Reasons == {"signal", "external", "ttl"}

\* The arguments that matter: the eligible interfaces, whether the negated
\* filters are captured as well (debug), whether host or path filters are given,
\* whether there is a subcommand, which reasons to stop can come up ("external"
\* under the daemonset, "ttl" in discovery mode), whether the discovery traffic
\* has expired beforehand, and the telemetry interval.
Args == [interfaces : SUBSET Interfaces \ {{}}, debug : BOOLEAN,
         userFilters : BOOLEAN, exec : BOOLEAN, reasons : SUBSET Reasons,
         expired : BOOLEAN, TelemetryInterval : Nat]

ASSUME ApidumpAssumption ==
  /\ IsFiniteSet(Interfaces)
  /\ Sessions # {} /\ Sessions \subseteq Args

VARIABLES args,     \* the arguments of the session, which never change
          pc,       \* where Run is
          pending,  \* the reason to stop that has come up and was not received
          received, \* the one that was received
          subcmd,   \* whether the subcommand has failed
          stop,     \* whether stop is closed
          errChan,  \* the collectors whose error is in errChan
          errors,   \* the keys of errorsByInterface
          doneWG,   \* the counter of the WaitGroup
          coll,     \* coll[c]: where the goroutine of collector c is
          seen,     \* seen[s]: requests or responses counted by PacketCounter s
          once,     \* the state of successTelemetry.Once
          worker,   \* where the TelemetryWorker is
          sentStats,\* its subsequentTelemetrySent
          panicked, \* whether a goroutine has panicked: the agent is gone
          result    \* what Run returned

runVars == <<pc, received, subcmd, errors, result>>
workerVars == <<worker, sentStats>>
vars == <<args, pending, runVars, stop, errChan, doneWG, coll, seen, once,
          workerVars, panicked>>

Kinds == {"request", "response", "other"}
Summaries == {"prefilter", "filter", "negation"}

\* One collector for each interface and filter; those of the negated filters
\* exist while debugging only.
AllCollectors == Interfaces \X {"filter", "negation"}
InterfaceOf(c) == c[1]
SummaryOf(c) == c[2]
userFilters == args.interfaces \X {"filter"}
negationFilters == IF args.debug THEN args.interfaces \X {"negation"} ELSE {}
Collectors == userFilters \cup negationFilters
numCollectors == Cardinality(Collectors)

\* A mutant: one place for each interface.
errChanSize_Mutant == Cardinality(args.interfaces)

\* The length that errChan is made with, "buffered enough so it never blocks".
errChanSize == Cardinality(userFilters) + Cardinality(negationFilters)

\* A mutant: the collectors of the negated filters are forgotten.
doneWGAdd_Mutant == Cardinality(userFilters)

\* A mutant: the collectors of the negated filters are counted when not debugging, too.
doneWGAdd_Both == 2 * Cardinality(args.interfaces)

\* What doneWG is increased by before the first goroutine is started.
doneWGAdd == Cardinality(userFilters) + Cardinality(negationFilters)

CollectorStates ==
  {"off",       \* not started
   "capturing", \* in the loop over the parsed packets
   "telling",   \* at Once.Do in SendSuccessTelemetry
   "sending",   \* at the send inside it
   "failing",   \* Collect has returned an error, to be sent on errChan
   "reported",  \* the error is sent
   "ending",    \* Collect has returned nil
   "failed", "done"}   \* ended, after doneWG.Done

Init ==
  /\ args \in Sessions
  /\ pc = "setup" /\ received = "none" /\ subcmd = FALSE /\ result = "none"
  /\ pending = "none" /\ errors = {} /\ errChan = {}
  /\ stop = FALSE
  /\ doneWG = 0
  /\ coll = [c \in AllCollectors |-> "off"]
  /\ seen = [s \in Summaries |-> {}]
  /\ once = "new"
  /\ worker = "off" /\ sentStats = FALSE
  /\ panicked = FALSE

-----------------------------------------------------------------------------
(***************************************************************************)
(* Run: set up                                                             *)
(***************************************************************************)
Return(r) == pc' = "returned" /\ result' = r

\* The service, the interfaces, a filter, the output URI or the trace is not
\* to be had.  Nothing has been started.
Run_setup_fails ==
  /\ pc = "setup"
  /\ Return("setup")
  /\ UNCHANGED <<args, pending, received, subcmd, errors, stop, errChan, doneWG,
                 coll, seen, once, workerVars, panicked>>

\* The traffic of the discovered service has expired already.
Run_expired ==
  /\ pc = "setup" /\ args.expired
  /\ doneWG' = doneWGAdd
  /\ Return("ok")
  /\ UNCHANGED <<args, pending, received, subcmd, errors, stop, errChan,
                 coll, seen, once, workerVars, panicked>>

\* The telemetry worker is started, then the redactor is made.  If that fails,
\* Run returns and leaves stop open.
Run_setup ==
  /\ pc = "setup" /\ ~args.expired
  /\ doneWG' = doneWGAdd
  /\ worker' = "start"
  /\ \/ pc' = "spawn" /\ UNCHANGED result
     \/ Return("redactor")
  /\ UNCHANGED <<args, pending, received, subcmd, errors, stop, errChan,
                 coll, seen, once, sentStats, panicked>>

\* The collectors of the user's filters are started before those of the
\* negated filters.
Run_spawn(c) ==
  /\ pc = "spawn" /\ coll[c] = "off"
  /\ c \in negationFilters => \A d \in userFilters : coll[d] # "off"
  /\ coll' = [coll EXCEPT ![c] = "capturing"]
  /\ UNCHANGED <<args, pending, runVars, stop, errChan, doneWG, seen, once,
                 workerVars, panicked>>

Run_spawned ==
  /\ pc = "spawn" /\ \A c \in Collectors : coll[c] # "off"
  /\ pc' = IF args.exec THEN "exec" ELSE "select"
  /\ UNCHANGED <<args, pending, received, subcmd, errors, result, stop, errChan,
                 doneWG, coll, seen, once, workerVars, panicked>>

-----------------------------------------------------------------------------
(***************************************************************************)
(* Run: wait for a reason to stop                                          *)
(***************************************************************************)
\* The subcommand ends.  If it failed, the errors of the collectors are not
\* looked at.
Run_exec ==
  /\ pc = "exec"
  /\ \/ pc' = "drain" /\ UNCHANGED subcmd
     \/ pc' = "stopping" /\ subcmd' = TRUE
  /\ UNCHANGED <<args, pending, received, errors, result, stop, errChan, doneWG,
                 coll, seen, once, workerVars, panicked>>

\* Takes what is in errChan, without waiting for more.
Run_drain ==
  /\ pc = "drain"
  /\ \/ \E c \in errChan :
          /\ errors' = errors \cup {InterfaceOf(c)}
          /\ errChan' = errChan \ {c}
          /\ UNCHANGED pc
     \/ errChan = {} /\ pc' = "stopping" /\ UNCHANGED <<errors, errChan>>
  /\ UNCHANGED <<args, pending, received, subcmd, result, stop, doneWG, coll,
                 seen, once, workerVars, panicked>>

\* A mutant: off by one.
MoreToCome_Mutant(e) == Cardinality(e) <= numCollectors

\* After an error the loop goes on while fewer interfaces than collectors have
\* failed.
MoreToCome(e) == Cardinality(e) < numCollectors

Run_error ==
  /\ pc = "select"
  /\ \E c \in errChan :
       /\ errChan' = errChan \ {c}
       /\ errors' = errors \cup {InterfaceOf(c)}
       /\ pc' = IF MoreToCome(errors') THEN "select" ELSE "stopping"
  /\ UNCHANGED <<args, pending, received, subcmd, result, stop, doneWG, coll,
                 seen, once, workerVars, panicked>>

\* The cases of the signal, of the daemonset's stop channel and of the timer.
Run_receive(r) ==
  /\ pc = "select" /\ r = pending
  /\ pending' = "none"
  /\ received' = r
  /\ pc' = "stopping"
  /\ UNCHANGED <<args, subcmd, errors, result, stop, errChan, doneWG, coll,
                 seen, once, workerVars, panicked>>

-----------------------------------------------------------------------------
(***************************************************************************)
(* Run: stop                                                               *)
(***************************************************************************)
Run_close ==
  /\ pc = "stopping"
  /\ stop' = TRUE
  /\ pc' = "waiting"
  /\ UNCHANGED <<args, pending, received, subcmd, errors, result, errChan,
                 doneWG, coll, seen, once, workerVars, panicked>>

\* As many interfaces as there are collectors have reported an error.
AllFailed == Cardinality(errors) = numCollectors

\* doneWG.Wait, and the result.  Errors that are still in errChan are not
\* looked at.
Run_return ==
  /\ pc = "waiting" /\ doneWG = 0
  /\ Return(IF AllFailed THEN "failed"
            ELSE IF subcmd THEN "subcmd"
            ELSE IF received = "signal" THEN "signal" ELSE "ok")
  /\ UNCHANGED <<args, pending, received, subcmd, errors, stop, errChan, doneWG,
                 coll, seen, once, workerVars, panicked>>

RunStep ==
  \/ Run_setup_fails \/ Run_expired \/ Run_setup
  \/ \E c \in Collectors : Run_spawn(c)
  \/ Run_spawned \/ Run_exec \/ Run_drain \/ Run_error
  \/ \E r \in Reasons : Run_receive(r)
  \/ Run_close \/ Run_return

-----------------------------------------------------------------------------
(***************************************************************************)
(* The goroutine of a collector                                            *)
(***************************************************************************)
HasRequestAndResponse(s, counts) == {"request", "response"} \subseteq counts[s]

Update(s, counts, kind) ==
  [counts EXCEPT ![s] = @ \cup ({kind} \cap {"request", "response"})]

\* PacketCountCollector.Process of the statistics: counts the packet and, once
\* a request and a response were counted, goes on to SendSuccessTelemetry, which
\* does nothing when it was run before.
Count(c, kind, counts) ==
  /\ seen' = Update(SummaryOf(c), counts, kind)
  /\ coll' = [coll EXCEPT ![c] =
                IF HasRequestAndResponse(SummaryOf(c), seen') /\ once # "done"
                THEN "telling" ELSE @]
  /\ UNCHANGED panicked

\* PacketCountCollector.Process before the user's filters, made without a
\* SuccessTelemetry: SendSuccessTelemetry dereferences a nil pointer.
CountBeforeFilters(c, kind) ==
  /\ c \in userFilters /\ args.userFilters
  /\ LET counts == Update("prefilter", seen, kind) IN
     IF HasRequestAndResponse("prefilter", counts)
     THEN seen' = counts /\ panicked' = TRUE /\ UNCHANGED coll
     ELSE \/ Count(c, kind, counts)
          \/ seen' = counts /\ UNCHANGED <<coll, panicked>>   \* filtered out

\* One packet runs through the collectors of one interface.  The counters have
\* locks of their own and only grow, so that the whole is one step; subsampling
\* and the rate limit can keep a packet from the statistics.
Process(c, kind) ==
  /\ coll[c] = "capturing"
  /\ IF c \in userFilters /\ args.userFilters
     THEN CountBeforeFilters(c, kind)
     ELSE Count(c, kind, seen)
  /\ UNCHANGED <<args, pending, runVars, stop, errChan, doneWG, once, workerVars>>

\* sync.Once: one caller runs the function, the others wait until it is done.
SendSuccessTelemetry_once(c) ==
  /\ coll[c] = "telling"
  /\ \/ once = "new" /\ once' = "running" /\ coll' = [coll EXCEPT ![c] = "sending"]
     \/ once = "done" /\ coll' = [coll EXCEPT ![c] = "capturing"] /\ UNCHANGED once
  /\ UNCHANGED <<args, pending, runVars, stop, errChan, doneWG, seen, workerVars,
                 panicked>>

\* What the worker does when it receives the success message.
AfterSuccess == IF sentStats THEN "select" ELSE "success"

\* The send on the unbuffered channel, received in the worker's select.
SendSuccessTelemetry_send(c) ==
  /\ coll[c] = "sending" /\ worker = "select"
  /\ coll' = [coll EXCEPT ![c] = "capturing"]
  /\ once' = "done"
  /\ worker' = AfterSuccess
  /\ UNCHANGED <<args, pending, runVars, stop, errChan, doneWG, seen, sentStats,
                 panicked>>

\* Collect cannot start, or a collector cannot go on, and returns the error.
Collect_fail(c) ==
  /\ coll[c] = "capturing"
  /\ coll' = [coll EXCEPT ![c] = "failing"]
  /\ UNCHANGED <<args, pending, runVars, stop, errChan, doneWG, seen, once,
                 workerVars, panicked>>

\* The packets end by themselves.
Collect_eof(c) ==
  /\ coll[c] = "capturing"
  /\ coll' = [coll EXCEPT ![c] = "ending"]
  /\ UNCHANGED <<args, pending, runVars, stop, errChan, doneWG, seen, once,
                 workerVars, panicked>>

\* The packets end because stop is closed.
Collect_stop(c) == stop /\ Collect_eof(c)

collect_report(c) ==
  /\ coll[c] = "failing" /\ Cardinality(errChan) < errChanSize
  /\ errChan' = errChan \cup {c}
  /\ coll' = [coll EXCEPT ![c] = "reported"]
  /\ UNCHANGED <<args, pending, runVars, stop, doneWG, seen, once, workerVars,
                 panicked>>

\* doneWG.Done, deferred: a counter below zero is a panic.
collect_done(c) ==
  /\ coll[c] \in {"reported", "ending"}
  /\ coll' = [coll EXCEPT ![c] = IF @ = "reported" THEN "failed" ELSE "done"]
  /\ IF doneWG = 0 THEN panicked' = TRUE /\ UNCHANGED doneWG
                   ELSE doneWG' = doneWG - 1 /\ UNCHANGED panicked
  /\ UNCHANGED <<args, pending, runVars, stop, errChan, seen, once, workerVars>>

CollectorStep(c) ==
  \/ SendSuccessTelemetry_once(c) \/ SendSuccessTelemetry_send(c)
  \/ collect_report(c) \/ collect_done(c)

-----------------------------------------------------------------------------
(***************************************************************************)
(* The telemetry worker                                                    *)
(***************************************************************************)
\* Without an interval there is no worker; else the initial telemetry is sent.
TelemetryWorker_start ==
  /\ worker = "start"
  /\ worker' = IF args.TelemetryInterval = 0 THEN "done" ELSE "select"
  /\ UNCHANGED <<args, pending, runVars, stop, errChan, doneWG, coll, seen, once,
                 sentStats, panicked>>

TelemetryWorker_tick ==
  /\ worker = "select" /\ worker' = "stats"
  /\ UNCHANGED <<args, pending, runVars, stop, errChan, doneWG, coll, seen, once,
                 sentStats, panicked>>

\* The telemetry is sent or its time is up.
SendPacketTelemetry ==
  /\ worker \in {"stats", "success"}
  /\ worker' = "select"
  /\ sentStats' = (sentStats \/ worker = "stats")
  /\ UNCHANGED <<args, pending, runVars, stop, errChan, doneWG, coll, seen, once,
                 panicked>>

TelemetryWorker_stop ==
  /\ worker = "select" /\ stop
  /\ worker' = "done"
  /\ UNCHANGED <<args, pending, runVars, stop, errChan, doneWG, coll, seen, once,
                 sentStats, panicked>>

WorkerStep ==
  TelemetryWorker_start \/ TelemetryWorker_tick \/ SendPacketTelemetry
    \/ TelemetryWorker_stop

-----------------------------------------------------------------------------
(***************************************************************************)
(* The environment: a signal, the daemonset, the discovery timer           *)
(***************************************************************************)
\* A signal that comes before Run waits for one ends the agent at once and is
\* left out, as are a second reason and one that Run no longer waits for.
ReasonToStop(r) ==
  /\ pc = "select" /\ pending = "none" /\ r \in args.reasons
  /\ pending' = r
  /\ UNCHANGED <<args, runVars, stop, errChan, doneWG, coll, seen, once,
                 workerVars, panicked>>

Next ==
  /\ ~panicked
  /\ \/ RunStep
     \/ \E c \in Collectors :
          \/ \E kind \in Kinds : Process(c, kind)
          \/ Collect_fail(c) \/ Collect_eof(c)
          \/ CollectorStep(c)
     \/ WorkerStep
     \/ \E r \in Reasons : ReasonToStop(r)

Spec == Init /\ [][Next]_vars

(***************************************************************************)
(* Run goes on whenever it can, except that a subcommand need not end, and *)
(* so do the goroutines of the collectors; those see the end of their      *)
(* packets when stop is closed.  The worker sends its telemetry, and its   *)
(* select, which chooses among its ready cases at random, chooses a case   *)
(* that is ready again and again: strong fairness.                         *)
(***************************************************************************)
WorkerReceives ==
  TelemetryWorker_stop \/ \E c \in Collectors : SendSuccessTelemetry_send(c)

Fairness ==
  /\ WF_vars(~panicked /\ RunStep /\ pc # "exec")
  /\ WF_vars(~panicked /\ (TelemetryWorker_start \/ SendPacketTelemetry))
  /\ SF_vars(~panicked /\ WorkerReceives)
  /\ \A c \in AllCollectors :
       WF_vars(/\ ~panicked /\ c \in Collectors
               /\ \/ SendSuccessTelemetry_once(c) \/ collect_report(c)
                  \/ collect_done(c) \/ Collect_stop(c))

FairSpec == Spec /\ Fairness

-----------------------------------------------------------------------------
(***************************************************************************)
(* Properties                                                              *)
(***************************************************************************)
\* The values the variables take.
TypeOK ==
  /\ args \in Sessions
  /\ pc \in {"setup", "spawn", "exec", "drain", "select", "stopping", "waiting",
             "returned"}
  /\ pending \in Reasons \cup {"none"}
  /\ received \in Reasons \cup {"none"}
  /\ subcmd \in BOOLEAN /\ stop \in BOOLEAN /\ panicked \in BOOLEAN
  /\ errChan \subseteq AllCollectors
  /\ errors \subseteq Interfaces
  /\ doneWG \in 0..numCollectors
  /\ coll \in [AllCollectors -> CollectorStates]
  /\ seen \in [Summaries -> SUBSET {"request", "response"}]
  /\ once \in {"new", "running", "done"}
  /\ worker \in {"off", "start", "select", "stats", "success", "done"}
  /\ sentStats \in BOOLEAN
  /\ result \in {"none", "setup", "redactor", "ok", "failed", "subcmd", "signal"}

\* A goroutine that has an error to report never waits for room in errChan, also
\* when Run has stopped to read it (apidump.go:827).
ErrChanRoom ==
  \A c \in Collectors : coll[c] = "failing" => Cardinality(errChan) < errChanSize

\* Once captures were told to stop, Run returns only when every collector is
\* closed: witnesses still in the caches have been handed to the upload
\* (apidump.go:1139-1140).
ClosedBeforeReturn ==
  pc = "returned" /\ stop => \A c \in Collectors : coll[c] \in {"failed", "done"}

\* When every collector has failed Run ends; while debugging it does not, see
\* the README (apidump.go:1106).
AllFailedEnds ==
  (~args.debug /\ pc = "select" /\ \A c \in Collectors : coll[c] = "failed")
    ~> pc = "returned"

\* A goroutine waits in the send of the success message, and Run behind it in
\* doneWG.Wait, for a worker that has gone.
Stuck == worker = "done" /\ \E c \in Collectors : coll[c] = "sending"

\* A reason to stop makes Run return, unless a goroutine is stuck
\* (apidump.go:1107-1140).
StopReturns ==
  ((pc = "select" /\ pending # "none") \/ pc = "stopping")
    ~> (pc = "returned" \/ Stuck \/ panicked)

\* Run ends for these causes.
RunEnds == AllFailedEnds /\ StopReturns

\* Captures end when Run has closed stop: "This blocks until stop is closed or an
\* error occurs" (apidump.go:990).
CapturesEnd == (pc = "waiting") ~> (pc = "returned" \/ panicked)
=============================================================================
