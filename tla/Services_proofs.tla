--------------------------- MODULE Services_proofs ---------------------------
(***************************************************************************)
(* Theorems about Apidump, for any set of interfaces and any session:      *)
(* there is room for every error, and Run returns after the last collector *)
(* is closed; about Supervisor, for any limit of the number of runs; and   *)
(* the types of both.                                                      *)
(***************************************************************************)
EXTENDS Services, FiniteSetTheorems, TLAPS

\* The collectors that have still to call doneWG.Done.
Unfinished == {c \in Collectors : coll[c] \notin {"failed", "done"}}

\* The collectors that have sent an error.
Reporters == {c \in Collectors : coll[c] \in {"reported", "failed"}}

SessionOK == args \in Sessions /\ coll \in [AllCollectors -> CollectorStates]

\* An error in errChan was sent by a collector that sends no other.
ErrorsOK == errChan \subseteq Reporters

Untouched == ~stop /\ \A c \in Collectors : coll[c] = "off"

\* doneWG counts the collectors from its Add on, which the first collector is
\* started after.
WaitOK ==
  /\ pc = "setup" => Untouched
  /\ \/ doneWG = Cardinality(Unfinished)
     \/ pc \in {"setup", "returned"} /\ Untouched
  /\ stop => pc \in {"waiting", "returned"}
  /\ pc = "returned" /\ stop => Unfinished = {}

SessionInv == SessionOK /\ ErrorsOK /\ WaitOK

-----------------------------------------------------------------------------
\* The sets of collectors are finite, and those of the user's filters and of the
\* negated filters are disjoint.
LEMMA CollectorsFinite ==
  ASSUME args \in Sessions
  PROVE  /\ userFilters \subseteq AllCollectors
         /\ Collectors \subseteq AllCollectors
         /\ IsFiniteSet(Collectors)
         /\ Cardinality(Collectors) \in Nat
         /\ Cardinality(Collectors)
              = Cardinality(userFilters) + Cardinality(negationFilters)
<1>1. args.interfaces \subseteq Interfaces /\ IsFiniteSet(Interfaces)
  BY ApidumpAssumption DEF ApidumpAssumption, Args
<1>2. IsFiniteSet(args.interfaces)
  BY <1>1, FS_Subset
<1>3. \A x : IsFiniteSet({x}) /\ IsFiniteSet({})
  BY FS_Singleton, FS_EmptySet
<1>4. IsFiniteSet(userFilters)
  <2>1. IsFiniteSet(args.interfaces \X {"filter"})
    BY <1>2, <1>3, FS_Product
  <2> QED BY <2>1 DEF userFilters
<1>5. IsFiniteSet(negationFilters)
  <2>1. IsFiniteSet(args.interfaces \X {"negation"})
    BY <1>2, <1>3, FS_Product
  <2> QED BY <2>1, <1>3 DEF negationFilters
<1>6. userFilters \cap negationFilters = {}
  BY DEF userFilters, negationFilters
<1>7. /\ Cardinality(userFilters) \in Nat
      /\ Cardinality(negationFilters) \in Nat
  BY <1>4, <1>5, FS_CardinalityType
<1>8. /\ IsFiniteSet(Collectors)
      /\ Cardinality(Collectors)
           = Cardinality(userFilters) + Cardinality(negationFilters)
             - Cardinality(userFilters \cap negationFilters)
  BY <1>4, <1>5, FS_Union DEF Collectors
<1>9. Cardinality(Collectors)
        = Cardinality(userFilters) + Cardinality(negationFilters)
  BY <1>6, <1>7, <1>8, FS_EmptySet
<1>10. userFilters \subseteq AllCollectors /\ Collectors \subseteq AllCollectors
  BY <1>1 DEF AllCollectors, Collectors, userFilters, negationFilters
<1> QED BY <1>7, <1>8, <1>9, <1>10

\* A collector that has not yet sent its error finds room for it.
LEMMA RoomForError ==
  ASSUME SessionInv, NEW c \in Collectors, coll[c] \notin {"reported", "failed"}
  PROVE  Cardinality(errChan) < errChanSize
<1>1. args \in Sessions /\ errChan \subseteq Collectors \ {c}
  BY DEF SessionInv, SessionOK, ErrorsOK, Reporters
<1>2. /\ IsFiniteSet(Collectors) /\ Cardinality(Collectors) \in Nat
      /\ Cardinality(Collectors) = errChanSize
  BY <1>1, CollectorsFinite DEF errChanSize
<1>3. /\ IsFiniteSet(Collectors \ {c})
      /\ Cardinality(Collectors \ {c}) = Cardinality(Collectors) - 1
  BY <1>2, FS_RemoveElement
<1>4. Cardinality(errChan) \in Nat
      /\ Cardinality(errChan) <= Cardinality(Collectors \ {c})
  BY <1>1, <1>3, FS_Subset, FS_CardinalityType
<1> QED BY <1>2, <1>3, <1>4

\* A step of one collector that stays unfinished, which is none of Run's.
LEMMA CollectorMoves ==
  ASSUME SessionInv, NEW c \in Collectors, coll[c] \notin {"off", "failed", "done"},
         NEW s \in CollectorStates \ {"off", "failed", "done"},
         coll' = [coll EXCEPT ![c] = s],
         s = "reported" \/ coll[c] # "reported",
         errChan' = errChan \/ (s = "reported" /\ errChan' = errChan \cup {c}),
         UNCHANGED <<args, pc, stop, doneWG>>
  PROVE  SessionInv'
<1>1. args \in Sessions /\ c \in AllCollectors
  BY CollectorsFinite DEF SessionInv, SessionOK
<1>2. SessionOK' /\ Collectors' = Collectors
  BY <1>1 DEF SessionInv, SessionOK, Collectors, userFilters, negationFilters,
             AllCollectors
<1>3. Collectors \subseteq AllCollectors
  BY <1>1, CollectorsFinite
<1>4. \A d \in Collectors : coll'[d] = IF d = c THEN s ELSE coll[d]
  BY <1>3 DEF SessionInv, SessionOK
<1>5. Unfinished' = Unfinished
  BY <1>2, <1>4 DEF Unfinished
<1>6. ErrorsOK'
  BY <1>2, <1>4 DEF SessionInv, ErrorsOK, Reporters
<1>7. ~ Untouched
  BY DEF Untouched
<1> QED BY <1>2, <1>5, <1>6, <1>7 DEF SessionInv, WaitOK

\* doneWG.Done, which never finds the counter at zero.
LEMMA CollectorEnds ==
  ASSUME SessionInv, NEW c \in Collectors, collect_done(c)
  PROVE  SessionInv' /\ doneWG # 0
<1> DEFINE s == IF coll[c] = "reported" THEN "failed" ELSE "done"
<1>1. args \in Sessions /\ c \in AllCollectors /\ Collectors \subseteq AllCollectors
  BY CollectorsFinite DEF SessionInv, SessionOK
<1>2. coll' = [coll EXCEPT ![c] = s] /\ coll[c] \in {"reported", "ending"}
  BY DEF collect_done
<1>3. UNCHANGED <<args, pc, stop, errChan>>
  BY DEF collect_done, runVars
<1>4. SessionOK' /\ Collectors' = Collectors
  BY <1>1, <1>2, <1>3 DEF SessionInv, SessionOK, Collectors, userFilters,
             negationFilters, AllCollectors, CollectorStates
<1>5. \A d \in Collectors : coll'[d] = IF d = c THEN s ELSE coll[d]
  BY <1>1, <1>2 DEF SessionInv, SessionOK
<1>6. ErrorsOK'
  BY <1>2, <1>3, <1>4, <1>5 DEF SessionInv, ErrorsOK, Reporters
<1>7. Unfinished' = Unfinished \ {c} /\ c \in Unfinished
  BY <1>2, <1>4, <1>5 DEF Unfinished
<1>8. IsFiniteSet(Unfinished)
  BY <1>1, CollectorsFinite, FS_Subset DEF Unfinished
<1>9. /\ Cardinality(Unfinished) \in Nat
      /\ Cardinality(Unfinished') = Cardinality(Unfinished) - 1
      /\ Cardinality(Unfinished) # 0
  BY <1>7, <1>8, FS_RemoveElement, FS_CardinalityType, FS_EmptySet
<1>10. ~ Untouched
  BY <1>2 DEF Untouched
<1>11. doneWG = Cardinality(Unfinished)
  BY <1>10 DEF SessionInv, WaitOK
<1>12. doneWG # 0 /\ doneWG' = Cardinality(Unfinished')
  BY <1>9, <1>11 DEF collect_done
<1>13. WaitOK'
  BY <1>3, <1>7, <1>10, <1>12 DEF SessionInv, WaitOK
<1> QED BY <1>4, <1>6, <1>12, <1>13 DEF SessionInv

-----------------------------------------------------------------------------
LEMMA SessionInit == Init => SessionInv
<1> SUFFICES ASSUME Init PROVE SessionInv
  OBVIOUS
<1>1. SessionOK
  BY DEF Init, SessionOK, CollectorStates
<1>2. Collectors \subseteq AllCollectors
  BY <1>1, CollectorsFinite DEF SessionOK
<1>3. Untouched
  BY <1>2 DEF Init, Untouched
<1>4. ErrorsOK /\ WaitOK
  BY <1>3 DEF Init, ErrorsOK, WaitOK
<1> QED BY <1>1, <1>4 DEF SessionInv

\* What a step that changes no collector, and starts nothing, leaves as it is.
LEMMA CollectorsStay ==
  ASSUME UNCHANGED <<args, coll>>
  PROVE  /\ Collectors' = Collectors /\ Unfinished' = Unfinished
         /\ Reporters' = Reporters
         /\ SessionOK' = SessionOK
BY DEF Collectors, userFilters, negationFilters, Unfinished, Reporters, SessionOK

\* The set-up: doneWG counts every collector before the first one is started.
LEMMA SetupStep ==
  ASSUME SessionInv, Run_setup_fails \/ Run_expired \/ Run_setup
  PROVE  SessionInv'
<1>1. UNCHANGED <<args, coll, errChan, stop>> /\ pc = "setup"
  BY DEF Run_setup_fails, Run_expired, Run_setup
<1>2. Untouched /\ args \in Sessions
  BY <1>1 DEF SessionInv, WaitOK, SessionOK
<1>3. /\ Collectors' = Collectors /\ Unfinished' = Unfinished
      /\ SessionOK' /\ ErrorsOK'
  BY <1>1, CollectorsStay DEF SessionInv, ErrorsOK
<1>4. Untouched'
  BY <1>1, <1>2, <1>3 DEF Untouched
<1>5. Unfinished = Collectors
  BY <1>2 DEF Untouched, Unfinished
<1>6. CASE Run_setup_fails \/ Run_expired
  <2>1. pc' = "returned"
    BY <1>6 DEF Run_setup_fails, Run_expired, Return
  <2> QED BY <1>3, <1>4, <2>1 DEF SessionInv, WaitOK, Untouched
<1>7. CASE Run_setup
  <2>1. doneWG' = Cardinality(Unfinished')
    BY <1>2, <1>3, <1>5, <1>7, CollectorsFinite DEF Run_setup, doneWGAdd
  <2>2. pc' \in {"spawn", "returned"}
    BY <1>7 DEF Run_setup, Return
  <2> QED BY <1>3, <1>4, <2>1, <2>2 DEF SessionInv, WaitOK, Untouched
<1> QED BY <1>6, <1>7

LEMMA SpawnStep ==
  ASSUME SessionInv, NEW c \in Collectors, Run_spawn(c)
  PROVE  SessionInv'
<1>1. args \in Sessions /\ Collectors \subseteq AllCollectors
  BY CollectorsFinite DEF SessionInv, SessionOK
<1>2. /\ coll' = [coll EXCEPT ![c] = "capturing"] /\ coll[c] = "off"
      /\ UNCHANGED <<args, pc, stop, errChan, doneWG>> /\ pc = "spawn"
  BY DEF Run_spawn, runVars
<1>3. SessionOK' /\ Collectors' = Collectors
  BY <1>1, <1>2 DEF SessionInv, SessionOK, Collectors, userFilters,
             negationFilters, AllCollectors, CollectorStates
<1>4. \A d \in Collectors : coll'[d] = IF d = c THEN "capturing" ELSE coll[d]
  BY <1>1, <1>2 DEF SessionInv, SessionOK
<1>5. Unfinished' = Unfinished
  BY <1>2, <1>3, <1>4 DEF Unfinished
<1>6. ErrorsOK'
  BY <1>2, <1>3, <1>4 DEF SessionInv, ErrorsOK, Reporters
<1> QED BY <1>2, <1>3, <1>5, <1>6 DEF SessionInv, WaitOK

\* Run waits: errors are taken out of errChan.
LEMMA WaitStep ==
  ASSUME SessionInv,
         \/ Run_spawned \/ Run_exec \/ Run_drain \/ Run_error
         \/ \E r \in Reasons : Run_receive(r)
  PROVE  SessionInv'
<1>1. /\ UNCHANGED <<args, coll, stop, doneWG>>
      /\ errChan' \subseteq errChan
      /\ pc \in {"spawn", "exec", "drain", "select"}
      /\ pc' \in {"exec", "drain", "select", "stopping"}
  BY DEF Run_spawned, Run_exec, Run_drain, Run_error, Run_receive
<1>2. Unfinished' = Unfinished /\ SessionOK' /\ ErrorsOK'
  BY <1>1, CollectorsStay DEF SessionInv, ErrorsOK
<1> QED BY <1>1, <1>2 DEF SessionInv, WaitOK

\* Run stops: with the counter at zero no collector is left.
LEMMA StopStep ==
  ASSUME SessionInv, Run_close \/ Run_return
  PROVE  SessionInv'
<1>1. UNCHANGED <<args, coll, errChan, doneWG>>
  BY DEF Run_close, Run_return
<1>2. Unfinished' = Unfinished /\ SessionOK' /\ ErrorsOK'
  BY <1>1, CollectorsStay DEF SessionInv, ErrorsOK
<1>3. CASE Run_close
  BY <1>1, <1>2, <1>3 DEF SessionInv, WaitOK, Run_close
<1>4. CASE Run_return
  <2>1. /\ pc = "waiting" /\ doneWG = 0 /\ pc' = "returned" /\ stop' = stop
    BY <1>4 DEF Run_return, Return
  <2>2. doneWG = Cardinality(Unfinished)
    BY <2>1 DEF SessionInv, WaitOK
  <2>3. args \in Sessions
    BY DEF SessionInv, SessionOK
  <2>4. IsFiniteSet(Unfinished)
    BY <2>3, CollectorsFinite, FS_Subset DEF Unfinished
  <2>5. Unfinished = {}
    BY <2>1, <2>2, <2>4, FS_EmptySet
  <2> QED BY <1>1, <1>2, <2>1, <2>2, <2>5 DEF SessionInv, WaitOK
<1> QED BY <1>3, <1>4

\* A step that touches neither the collectors nor Run.
LEMMA OtherStep ==
  ASSUME SessionInv, UNCHANGED <<args, pc, coll, stop, errChan, doneWG>>
  PROVE  SessionInv'
<1>1. /\ Unfinished' = Unfinished /\ SessionOK' /\ ErrorsOK'
      /\ Collectors' = Collectors
  BY CollectorsStay DEF SessionInv, ErrorsOK
<1> QED BY <1>1 DEF SessionInv, WaitOK, Untouched

LEMMA ProcessStep ==
  ASSUME SessionInv, NEW c \in Collectors, NEW kind \in Kinds, Process(c, kind)
  PROVE  SessionInv'
<1>1. /\ coll[c] = "capturing"
      /\ UNCHANGED <<args, pc, stop, errChan, doneWG>>
  BY DEF Process, runVars
<1>2. c \in AllCollectors /\ coll \in [AllCollectors -> CollectorStates]
  BY CollectorsFinite DEF SessionInv, SessionOK
<1>3. \/ coll' = coll
      \/ coll' = [coll EXCEPT ![c] = "telling"]
  <2>1. ASSUME NEW counts, Count(c, kind, counts)
        PROVE  coll' = coll \/ coll' = [coll EXCEPT ![c] = "telling"]
    BY <1>2, <2>1 DEF Count
  <2>2. ASSUME CountBeforeFilters(c, kind)
        PROVE  coll' = coll \/ coll' = [coll EXCEPT ![c] = "telling"]
    BY <2>1, <2>2 DEF CountBeforeFilters
  <2> QED BY <2>1, <2>2 DEF Process
<1>4. CASE coll' = coll
  BY <1>1, <1>4, OtherStep
<1>5. CASE coll' = [coll EXCEPT ![c] = "telling"]
  <2>1. "telling" \in CollectorStates \ {"off", "failed", "done"}
    BY DEF CollectorStates
  <2> QED BY <1>1, <1>5, <2>1, CollectorMoves
<1> QED BY <1>3, <1>4, <1>5

LEMMA CollectorStepInv ==
  ASSUME SessionInv, NEW c \in Collectors,
         Collect_fail(c) \/ Collect_eof(c) \/ CollectorStep(c)
  PROVE  SessionInv'
<1>1. {"capturing", "sending", "failing", "reported", "ending"}
        \subseteq CollectorStates \ {"off", "failed", "done"}
  BY DEF CollectorStates
<1>2. CASE Collect_fail(c)
  <2>1. /\ coll[c] = "capturing" /\ coll' = [coll EXCEPT ![c] = "failing"]
        /\ UNCHANGED <<args, pc, stop, errChan, doneWG>>
    BY <1>2 DEF Collect_fail, runVars
  <2> QED BY <1>1, <2>1, CollectorMoves
<1>3. CASE Collect_eof(c)
  <2>1. /\ coll[c] = "capturing" /\ coll' = [coll EXCEPT ![c] = "ending"]
        /\ UNCHANGED <<args, pc, stop, errChan, doneWG>>
    BY <1>3 DEF Collect_eof, runVars
  <2> QED BY <1>1, <2>1, CollectorMoves
<1>4. CASE SendSuccessTelemetry_once(c)
  <2>1. /\ coll[c] = "telling"
        /\ \/ coll' = [coll EXCEPT ![c] = "sending"]
           \/ coll' = [coll EXCEPT ![c] = "capturing"]
        /\ UNCHANGED <<args, pc, stop, errChan, doneWG>>
    BY <1>4 DEF SendSuccessTelemetry_once, runVars
  <2>2. CASE coll' = [coll EXCEPT ![c] = "sending"]
    BY <1>1, <2>1, <2>2, CollectorMoves
  <2>3. CASE coll' = [coll EXCEPT ![c] = "capturing"]
    BY <1>1, <2>1, <2>3, CollectorMoves
  <2> QED BY <2>1, <2>2, <2>3
<1>5. CASE SendSuccessTelemetry_send(c)
  <2>1. /\ coll[c] = "sending" /\ coll' = [coll EXCEPT ![c] = "capturing"]
        /\ UNCHANGED <<args, pc, stop, errChan, doneWG>>
    BY <1>5 DEF SendSuccessTelemetry_send, runVars
  <2> QED BY <1>1, <2>1, CollectorMoves
<1>6. CASE collect_report(c)
  <2>1. /\ coll[c] = "failing" /\ coll' = [coll EXCEPT ![c] = "reported"]
        /\ errChan' = errChan \cup {c}
        /\ UNCHANGED <<args, pc, stop, doneWG>>
    BY <1>6 DEF collect_report, runVars
  <2> QED BY <1>1, <2>1, CollectorMoves
<1>7. CASE collect_done(c)
  BY <1>7, CollectorEnds
<1> QED BY <1>2, <1>3, <1>4, <1>5, <1>6, <1>7 DEF CollectorStep

LEMMA SessionNext == SessionInv /\ [Next]_vars => SessionInv'
<1> SUFFICES ASSUME SessionInv, [Next]_vars PROVE SessionInv'
  OBVIOUS
<1>1. CASE RunStep
  BY <1>1, SetupStep, SpawnStep, WaitStep, StopStep DEF RunStep
<1>2. ASSUME NEW c \in Collectors, NEW kind \in Kinds, Process(c, kind)
      PROVE  SessionInv'
  BY <1>2, ProcessStep
<1>3. ASSUME NEW c \in Collectors,
             Collect_fail(c) \/ Collect_eof(c) \/ CollectorStep(c)
      PROVE  SessionInv'
  BY <1>3, CollectorStepInv
<1>4. CASE WorkerStep
  <2>1. UNCHANGED <<args, pc, coll, stop, errChan, doneWG>>
    BY <1>4 DEF WorkerStep, TelemetryWorker_start, TelemetryWorker_tick,
                SendPacketTelemetry, TelemetryWorker_stop, runVars
  <2> QED BY <2>1, OtherStep
<1>5. ASSUME NEW r \in Reasons, ReasonToStop(r) PROVE SessionInv'
  <2>1. UNCHANGED <<args, pc, coll, stop, errChan, doneWG>>
    BY <1>5 DEF ReasonToStop, runVars
  <2> QED BY <2>1, OtherStep
<1>6. CASE UNCHANGED vars
  <2>1. UNCHANGED <<args, pc, coll, stop, errChan, doneWG>>
    BY <1>6 DEF vars, runVars
  <2> QED BY <2>1, OtherStep
<1> QED BY <1>1, <1>2, <1>3, <1>4, <1>5, <1>6 DEF Next

-----------------------------------------------------------------------------
\* SessionInv holds throughout (the goroutines of apidump.Run).
THEOREM SessionTheorem == Spec => []SessionInv
<1> QED BY SessionInit, SessionNext, PTL DEF Spec

\* "Buffered enough so it never blocks" (apidump.go:827): whenever a capture
\* fails, before or after Run has stopped to read errChan, its error has room.
THEOREM RoomTheorem == Spec => []ErrChanRoom
<1>1. SessionInv => ErrChanRoom
  BY RoomForError DEF ErrChanRoom
<1> QED BY <1>1, SessionTheorem, PTL

\* Run returns from a session that it has told to stop only after every
\* collector was closed (apidump.go:1139-1140), for any number of interfaces,
\* with and without negated filters, whatever failed before.
THEOREM CloseTheorem == Spec => []ClosedBeforeReturn
<1>1. SessionInv => ClosedBeforeReturn
  BY DEF SessionInv, WaitOK, ClosedBeforeReturn, Unfinished
<1> QED BY <1>1, SessionTheorem, PTL

(***************************************************************************)
(* The supervisor.                                                         *)
(***************************************************************************)
\* A child is waited for only while there is one, and another one is started only
\* when there is none and no other start is scheduled.
Waiting ==
  /\ supPc \in {"kill", "collect"} => pid # 0
  /\ supPc = "spawn" => pid = 0 /\ Sup!Unreaped = {} /\ delaying = 0

\* With no child left, another run is permitted: collectStatus has exited otherwise.
MayRun == MaxRuns > 0 /\ pid = 0 /\ supPc # "exited" => numRuns < MaxRuns

RunInv == Sup!TypeOK /\ Waiting /\ Sup!OneChild /\ Sup!RunsBounded /\ MayRun

-----------------------------------------------------------------------------
\* Runs are numbered from one.
LEMMA RunNumbers ==
  ASSUME MaxRuns \in Nat, RunBound \in Nat
  PROVE  Sup!Limit \in Nat \ {0} /\ Sup!Runs \subseteq Nat \ {0}
BY DEF Sup!Limit, Sup!Runs

LEMMA RunInit ==
  ASSUME MaxRuns \in Nat, RunBound \in Nat, Sup!Init
  PROVE  RunInv
<1>1. Sup!TypeOK
  <2>1. pid \in {0} \cup Sup!Runs /\ numRuns \in 0 .. Sup!Limit /\ delaying \in {0, 1}
    BY RunNumbers DEF Sup!Init
  <2>2. child \in [Sup!Runs -> Sup!ChildStates]
    BY DEF Sup!Init, Sup!ChildStates
  <2>3. termed \in BOOLEAN
    BY DEF Sup!Init
  <2> QED BY <2>1, <2>2, <2>3 DEF Sup!Init, Sup!TypeOK
<1>2. Sup!Unreaped = {}
  BY DEF Sup!Init, Sup!Unreaped, Sup!Zombies
<1> QED
  BY <1>1, <1>2 DEF Sup!Init, RunInv, Waiting, Sup!OneChild, Sup!RunsBounded, MayRun

\* The status of the current child is collected: none is left.
LEMMA Collected ==
  ASSUME MaxRuns \in Nat, RunBound \in Nat, RunInv, pid # 0, supPc # "exited",
         child' = [child EXCEPT ![pid] = "reaped"]
  PROVE  /\ child' \in [Sup!Runs -> Sup!ChildStates]
         /\ Sup!Unreaped' = {}
         /\ delaying = 0
<1>1. pid \in Sup!Runs /\ Sup!Unreaped = {pid}
  BY DEF RunInv, Sup!TypeOK, Sup!OneChild
<1>2. delaying = 0
  BY <1>1 DEF RunInv, Sup!TypeOK, Sup!OneChild
<1>3. child \in [Sup!Runs -> Sup!ChildStates]
  BY DEF RunInv, Sup!TypeOK
<1>4. child' \in [Sup!Runs -> Sup!ChildStates]
  BY <1>1, <1>3 DEF Sup!ChildStates
<1>5. Sup!Unreaped' = {}
  BY <1>1, <1>3 DEF Sup!Unreaped, Sup!Zombies
<1> QED BY <1>2, <1>4, <1>5

LEMMA RunNext ==
  ASSUME MaxRuns \in Nat, RunBound \in Nat, RunInv, [Sup!Next]_(Sup!vars)
  PROVE  RunInv'
<1> USE RunNumbers DEF RunInv
<1>1. CASE Sup!runChild
  <2>1. pid = 0 /\ Sup!Unreaped = {} /\ delaying = 0
    BY <1>1 DEF Sup!runChild, Waiting
  <2>2. numRuns' \in Sup!Runs
    BY <1>1 DEF Sup!runChild, Sup!TypeOK, Sup!Runs
  <2>3. MaxRuns > 0 => numRuns' <= MaxRuns
    BY <1>1, <2>1 DEF Sup!runChild, MayRun, Sup!TypeOK
  <2>4. CASE /\ child' = [child EXCEPT ![numRuns'] = "running"]
             /\ pid' = numRuns' /\ supPc' = "loop" /\ code' = code
    <3>1. Sup!TypeOK'
      BY <1>1, <2>2, <2>4 DEF Sup!runChild, Sup!TypeOK, Sup!ChildStates, Sup!Runs
    <3>2. Sup!Unreaped' = {pid'}
      BY <1>1, <2>1, <2>2, <2>4 DEF Sup!runChild, Sup!TypeOK, Sup!Unreaped, Sup!Zombies
    <3> QED
      BY <1>1, <2>1, <2>2, <2>3, <2>4, <3>1, <3>2
      DEF Sup!runChild, Waiting, Sup!OneChild, Sup!RunsBounded, MayRun
  <2>5. CASE Sup!Exit("fork") /\ pid' = 0 /\ child' = child
    <3>1. Sup!TypeOK'
      BY <1>1, <2>2, <2>5 DEF Sup!runChild, Sup!Exit, Sup!TypeOK, Sup!Runs
    <3>2. Sup!Unreaped' = {}
      BY <2>1, <2>5 DEF Sup!Unreaped
    <3> QED
      BY <1>1, <2>1, <2>3, <2>5, <3>1, <3>2
      DEF Sup!runChild, Sup!Exit, Waiting, Sup!OneChild, Sup!RunsBounded, MayRun
  <2> QED BY <1>1, <2>4, <2>5 DEF Sup!runChild
<1>2. CASE Sup!receive_TERM
  <2>1. Sup!TypeOK'
    BY <1>2 DEF Sup!receive_TERM, Sup!Exit, Sup!TypeOK
  <2>2. Sup!Unreaped' = Sup!Unreaped /\ (pid = 0 => Sup!Unreaped = {})
    BY <1>2 DEF Sup!receive_TERM, Sup!OneChild, Sup!Unreaped, Sup!TypeOK
  <2> QED
    BY <1>2, <2>1, <2>2 DEF Sup!receive_TERM, Sup!Exit, Waiting, Sup!OneChild,
      Sup!RunsBounded, MayRun
<1>3. CASE Sup!enter_select \/ Sup!receive_CHLD
  <2>1. Sup!TypeOK'
    BY <1>3 DEF Sup!enter_select, Sup!receive_CHLD, Sup!TypeOK
  <2>2. Sup!Unreaped' = Sup!Unreaped
    BY <1>3 DEF Sup!enter_select, Sup!receive_CHLD, Sup!Unreaped
  <2> QED
    BY <1>3, <2>1, <2>2
    DEF Sup!enter_select, Sup!receive_CHLD, Waiting, Sup!OneChild, Sup!RunsBounded, MayRun
<1>4. CASE Sup!collectStatus_killed
  <2>1. child' \in [Sup!Runs -> Sup!ChildStates] /\ Sup!Unreaped' = {} /\ delaying = 0
    BY <1>4, Collected DEF Sup!collectStatus_killed, Waiting
  <2>2. Sup!TypeOK'
    BY <1>4, <2>1 DEF Sup!collectStatus_killed, Sup!Exit, Sup!TypeOK
  <2> QED
    BY <1>4, <2>1, <2>2
    DEF Sup!collectStatus_killed, Sup!Exit, Waiting, Sup!OneChild, Sup!RunsBounded, MayRun
<1>5. CASE Sup!collectStatus
  <2>1. child' \in [Sup!Runs -> Sup!ChildStates] /\ Sup!Unreaped' = {} /\ delaying = 0
    BY <1>5, Collected DEF Sup!collectStatus, Waiting
  <2>2. Sup!TypeOK'
    BY <1>5, <2>1 DEF Sup!collectStatus, Sup!Exit, Sup!TypeOK
  <2>3. MaxRuns > 0 /\ numRuns # MaxRuns => numRuns < MaxRuns
    BY DEF Sup!RunsBounded, Sup!TypeOK
  <2> QED
    BY <1>5, <2>1, <2>2, <2>3
    DEF Sup!collectStatus, Sup!Exit, Waiting, Sup!OneChild, Sup!RunsBounded, MayRun
<1>6. CASE Sup!spawnSignal
  <2>1. delaying = 1 /\ Sup!Unreaped = {} /\ pid = 0
    BY <1>6 DEF Sup!spawnSignal, Sup!OneChild, Sup!TypeOK
  <2>2. Sup!TypeOK'
    BY <1>6, <2>1 DEF Sup!spawnSignal, Sup!TypeOK
  <2>3. Sup!Unreaped' = {} /\ delaying' = 0
    BY <1>6, <2>1 DEF Sup!spawnSignal, Sup!Unreaped
  <2> QED
    BY <1>6, <2>1, <2>2, <2>3
    DEF Sup!spawnSignal, Waiting, Sup!OneChild, Sup!RunsBounded, MayRun
<1>7. CASE \E r \in Sup!Runs, s \in Sup!Zombies : Sup!ChildEnds(r, s)
  <2>1. PICK r \in Sup!Runs, s \in Sup!Zombies : Sup!ChildEnds(r, s)
    BY <1>7
  <2>2. Sup!TypeOK'
    BY <2>1 DEF Sup!ChildEnds, Sup!TypeOK, Sup!ChildStates
  <2>3. Sup!Unreaped' = Sup!Unreaped
    BY <2>1 DEF Sup!ChildEnds, Sup!TypeOK, Sup!Unreaped, Sup!Zombies
  <2> QED
    BY <2>1, <2>2, <2>3 DEF Sup!ChildEnds, Waiting, Sup!OneChild, Sup!RunsBounded, MayRun
<1>8. CASE Sup!OrphanEnds \/ Sup!SIGTERM \/ Sup!SignalLost \/ UNCHANGED Sup!vars
  <2>1. /\ UNCHANGED <<supPc, pid, numRuns, delaying, child, code>>
        /\ Sup!TypeOK'
    BY <1>8 DEF Sup!OrphanEnds, Sup!SIGTERM, Sup!SignalLost, Sup!vars, Sup!TypeOK
  <2>2. Sup!Unreaped' = Sup!Unreaped
    BY <2>1 DEF Sup!Unreaped
  <2> QED
    BY <2>1, <2>2 DEF Waiting, Sup!OneChild, Sup!RunsBounded, MayRun
<1> QED
  BY <1>1, <1>2, <1>3, <1>4, <1>5, <1>6, <1>7, <1>8 DEF Sup!Next, Sup!SupervisorStep

\* Whatever order child signals, orphans' signals and the delayed start come in, one
\* agent runs at a time, the one that the supervisor waits for, and there are no more
\* runs than permitted (cmd/supervisor.go: runSupervisor).
THEOREM RunsTheorem ==
  ASSUME MaxRuns \in Nat, RunBound \in Nat
  PROVE  Sup!Spec => []RunsInOrder
<1>1. Sup!Init => RunInv
  BY RunInit
<1>2. RunInv /\ [Sup!Next]_(Sup!vars) => RunInv'
  BY RunNext
<1>3. RunInv => RunsInOrder
  BY DEF RunInv, RunsInOrder, Sup!RunsInOrder
<1> QED BY <1>1, <1>2, <1>3, PTL DEF Sup!Spec

(***************************************************************************)
(* The types of both.                                                      *)
(***************************************************************************)
\* The values of what Run, the collectors and the worker keep, but for the counter.
RunTypes ==
  /\ pc \in {"setup", "spawn", "exec", "drain", "select", "stopping", "waiting", "returned"}
  /\ pending \in Reasons \cup {"none"} /\ received \in Reasons \cup {"none"}
  /\ subcmd \in BOOLEAN /\ stop \in BOOLEAN
  /\ errors \subseteq Interfaces
  /\ result \in {"none", "setup", "redactor", "ok", "failed", "subcmd", "signal"}

CountTypes ==
  /\ seen \in [Summaries -> SUBSET {"request", "response"}]
  /\ panicked \in BOOLEAN

WorkerTypes ==
  /\ once \in {"new", "running", "done"}
  /\ worker \in {"off", "start", "select", "stats", "success", "done"}
  /\ sentStats \in BOOLEAN

LEMMA TypesInit == Init => RunTypes /\ CountTypes /\ WorkerTypes
BY DEF Init, RunTypes, CountTypes, WorkerTypes

LEMMA RunTypesNext ==
  ASSUME SessionInv, RunTypes, [Next]_vars
  PROVE  RunTypes'
<1> USE DEF RunTypes, runVars, Return
<1>1. errChan \subseteq AllCollectors
  BY CollectorsFinite DEF SessionInv, SessionOK, ErrorsOK, Reporters
<1>2. \A c \in errChan : InterfaceOf(c) \in Interfaces
  BY <1>1 DEF AllCollectors, InterfaceOf
<1>3. CASE Run_setup_fails \/ Run_expired \/ Run_setup
  BY <1>3 DEF Run_setup_fails, Run_expired, Run_setup
<1>4. CASE Run_spawned \/ Run_exec \/ Run_close \/ Run_return
  BY <1>4 DEF Run_spawned, Run_exec, Run_close, Run_return
<1>5. CASE Run_drain \/ Run_error
  BY <1>2, <1>5 DEF Run_drain, Run_error
<1>6. ASSUME NEW r \in Reasons, Run_receive(r) \/ ReasonToStop(r)
      PROVE  RunTypes'
  BY <1>6 DEF Run_receive, ReasonToStop, Reasons
<1>7. CASE UNCHANGED <<runVars, pending, stop>>
  BY <1>7
<1>8. ASSUME NEW c, Run_spawn(c) \/ Collect_fail(c) \/ Collect_eof(c) \/ CollectorStep(c)
      PROVE  UNCHANGED <<runVars, pending, stop>>
  BY <1>8 DEF Run_spawn, Collect_fail, Collect_eof, CollectorStep, SendSuccessTelemetry_once,
     SendSuccessTelemetry_send, collect_report, collect_done
<1>9. ASSUME NEW c, NEW kind, Process(c, kind)
      PROVE  UNCHANGED <<runVars, pending, stop>>
  BY <1>9 DEF Process
<1>10. ASSUME WorkerStep \/ UNCHANGED vars
       PROVE  UNCHANGED <<runVars, pending, stop>>
  BY <1>10 DEF WorkerStep, TelemetryWorker_start, TelemetryWorker_tick, SendPacketTelemetry,
     TelemetryWorker_stop, vars
<1> HIDE DEF RunTypes, runVars, Return
<1> QED
  BY <1>3, <1>4, <1>5, <1>6, <1>7, <1>8, <1>9, <1>10 DEF Next, RunStep

LEMMA CountTypesNext ==
  ASSUME CountTypes, [Next]_vars
  PROVE  CountTypes'
<1> USE DEF CountTypes
<1>1. ASSUME NEW c \in Collectors, NEW kind \in Kinds, Process(c, kind)
      PROVE  CountTypes'
  <2>1. \A s \in Summaries, counts \in [Summaries -> SUBSET {"request", "response"}] :
          Update(s, counts, kind) \in [Summaries -> SUBSET {"request", "response"}]
    BY DEF Update
  <2>2. SummaryOf(c) \in Summaries /\ "prefilter" \in Summaries
    BY DEF Collectors, userFilters, negationFilters, SummaryOf, Summaries
  <2>3. ASSUME NEW counts \in [Summaries -> SUBSET {"request", "response"}],
               Count(c, kind, counts)
        PROVE  CountTypes'
    BY <2>1, <2>2, <2>3 DEF Count
  <2>4. Update("prefilter", seen, kind) \in [Summaries -> SUBSET {"request", "response"}]
    BY <2>1, <2>2
  <2>5. CASE CountBeforeFilters(c, kind)
    BY <2>3, <2>4, <2>5 DEF CountBeforeFilters
  <2>6. QED
    BY <1>1, <2>3, <2>5 DEF Process
<1>2. ASSUME NEW c, collect_done(c)
      PROVE  CountTypes'
  BY <1>2 DEF collect_done
<1>3. CASE UNCHANGED <<seen, panicked>>
  BY <1>3
<1>4. ASSUME NEW c, \/ Run_spawn(c) \/ Collect_fail(c) \/ Collect_eof(c)
                    \/ SendSuccessTelemetry_once(c) \/ SendSuccessTelemetry_send(c)
                    \/ collect_report(c)
      PROVE  UNCHANGED <<seen, panicked>>
  BY <1>4 DEF Run_spawn, Collect_fail, Collect_eof, SendSuccessTelemetry_once,
     SendSuccessTelemetry_send, collect_report
<1>5. ASSUME NEW r, Run_receive(r) \/ ReasonToStop(r)
      PROVE  UNCHANGED <<seen, panicked>>
  BY <1>5 DEF Run_receive, ReasonToStop
<1>6. ASSUME \/ Run_setup_fails \/ Run_expired \/ Run_setup \/ Run_spawned \/ Run_exec
             \/ Run_drain \/ Run_error \/ Run_close \/ Run_return
      PROVE  UNCHANGED <<seen, panicked>>
  BY <1>6 DEF Run_setup_fails, Run_expired, Run_setup, Run_spawned, Run_exec, Run_drain,
     Run_error, Run_close, Run_return
<1>7. ASSUME WorkerStep \/ UNCHANGED vars
      PROVE  UNCHANGED <<seen, panicked>>
  BY <1>7 DEF WorkerStep, TelemetryWorker_start, TelemetryWorker_tick, SendPacketTelemetry,
     TelemetryWorker_stop, vars
<1> HIDE DEF CountTypes
<1> QED
  BY <1>1, <1>2, <1>3, <1>4, <1>5, <1>6, <1>7 DEF Next, RunStep, CollectorStep

LEMMA WorkerTypesNext ==
  ASSUME WorkerTypes, [Next]_vars
  PROVE  WorkerTypes'
<1> USE DEF WorkerTypes, workerVars
<1>1. ASSUME NEW c, SendSuccessTelemetry_once(c) \/ SendSuccessTelemetry_send(c)
      PROVE  WorkerTypes'
  BY <1>1 DEF SendSuccessTelemetry_once, SendSuccessTelemetry_send, AfterSuccess
<1>2. CASE WorkerStep
  BY <1>2 DEF WorkerStep, TelemetryWorker_start, TelemetryWorker_tick, SendPacketTelemetry,
     TelemetryWorker_stop
<1>3. CASE Run_setup
  BY <1>3 DEF Run_setup
<1>4. CASE UNCHANGED <<once, workerVars>>
  BY <1>4
<1>5. ASSUME NEW c, \/ Run_spawn(c) \/ Collect_fail(c) \/ Collect_eof(c)
                    \/ collect_report(c) \/ collect_done(c)
      PROVE  UNCHANGED <<once, workerVars>>
  BY <1>5 DEF Run_spawn, Collect_fail, Collect_eof, collect_report, collect_done
<1>6. ASSUME NEW r, Run_receive(r) \/ ReasonToStop(r)
      PROVE  UNCHANGED <<once, workerVars>>
  BY <1>6 DEF Run_receive, ReasonToStop
<1>7. ASSUME \/ Run_setup_fails \/ Run_expired \/ Run_spawned \/ Run_exec
             \/ Run_drain \/ Run_error \/ Run_close \/ Run_return \/ UNCHANGED vars
      PROVE  UNCHANGED <<once, workerVars>>
  BY <1>7 DEF Run_setup_fails, Run_expired, Run_spawned, Run_exec, Run_drain,
     Run_error, Run_close, Run_return, vars
<1>8. ASSUME NEW c, NEW kind, Process(c, kind)
      PROVE  UNCHANGED <<once, workerVars>>
  BY <1>8 DEF Process
<1> HIDE DEF WorkerTypes, workerVars
<1> QED
  BY <1>1, <1>2, <1>3, <1>4, <1>5, <1>6, <1>7, <1>8 DEF Next, RunStep, CollectorStep

\* doneWG counts no more than the collectors, and is never taken below zero.
CountedOK == doneWG \in 0 .. numCollectors

LEMMA CountedNext ==
  ASSUME SessionInv, CountedOK, [Next]_vars
  PROVE  CountedOK'
<1>1. args \in Sessions
  BY DEF SessionInv, SessionOK
<1>2. numCollectors \in Nat /\ numCollectors = doneWGAdd
  BY <1>1, CollectorsFinite DEF numCollectors, doneWGAdd
<1>3. CASE args' = args /\ doneWG' = doneWGAdd
  BY <1>2, <1>3 DEF CountedOK, numCollectors, Collectors, userFilters, negationFilters
<1>4. CASE args' = args /\ doneWG' \in {doneWG, doneWG - 1} /\ (doneWG = 0 => doneWG' = doneWG)
  <2>1. numCollectors' = numCollectors
    BY <1>4 DEF numCollectors, Collectors, userFilters, negationFilters
  <2>2. QED
    BY <1>2, <1>4, <2>1 DEF CountedOK
<1>5. ASSUME Run_expired \/ Run_setup
      PROVE  args' = args /\ doneWG' = doneWGAdd
  BY <1>5 DEF Run_expired, Run_setup
<1>6. ASSUME NEW c, collect_done(c)
      PROVE  args' = args /\ doneWG' \in {doneWG, doneWG - 1} /\ (doneWG = 0 => doneWG' = doneWG)
  BY <1>6 DEF collect_done
<1>7. ASSUME NEW c, \/ Run_spawn(c) \/ Collect_fail(c) \/ Collect_eof(c) \/ collect_report(c)
                    \/ SendSuccessTelemetry_once(c) \/ SendSuccessTelemetry_send(c)
      PROVE  UNCHANGED <<args, doneWG>>
  BY <1>7 DEF Run_spawn, Collect_fail, Collect_eof, collect_report, SendSuccessTelemetry_once,
     SendSuccessTelemetry_send
<1>8. ASSUME NEW r, Run_receive(r) \/ ReasonToStop(r)
      PROVE  UNCHANGED <<args, doneWG>>
  BY <1>8 DEF Run_receive, ReasonToStop
<1>9. ASSUME \/ Run_setup_fails \/ Run_spawned \/ Run_exec \/ Run_drain \/ Run_error
             \/ Run_close \/ Run_return
      PROVE  UNCHANGED <<args, doneWG>>
  BY <1>9 DEF Run_setup_fails, Run_spawned, Run_exec, Run_drain, Run_error, Run_close,
     Run_return
<1>10. ASSUME WorkerStep \/ UNCHANGED vars
       PROVE  UNCHANGED <<args, doneWG>>
  BY <1>10 DEF WorkerStep, TelemetryWorker_start, TelemetryWorker_tick, SendPacketTelemetry,
     TelemetryWorker_stop, vars
<1>11. ASSUME NEW c, NEW kind, Process(c, kind)
       PROVE  UNCHANGED <<args, doneWG>>
  BY <1>11 DEF Process
<1> QED
  BY <1>3, <1>4, <1>5, <1>6, <1>7, <1>8, <1>9, <1>10, <1>11
  DEF Next, RunStep, CollectorStep

\* The two processes keep to their types, whatever each does: the wait group's counter to
\* the number of the collectors, the supervisor's count of runs to its limit.
THEOREM TypesTheorem ==
  ASSUME MaxRuns \in Nat, RunBound \in Nat
  PROVE  Spec /\ Sup!Spec => []Types
<1> DEFINE Inv == SessionInv /\ RunTypes /\ CountTypes /\ WorkerTypes /\ CountedOK
<1>1. Init => Inv
  <2> SUFFICES ASSUME Init PROVE Inv
    OBVIOUS
  <2>1. SessionInv
    BY SessionInit
  <2>2. CountedOK
    BY <2>1, CollectorsFinite DEF SessionInv, SessionOK, Init, CountedOK, numCollectors
  <2>3. QED
    BY <2>1, <2>2, TypesInit
<1>2. Inv /\ [Next]_vars => Inv'
  BY SessionNext, RunTypesNext, CountTypesNext, WorkerTypesNext, CountedNext
<1>3. Inv => TypeOK
  <2> SUFFICES ASSUME Inv PROVE TypeOK
    OBVIOUS
  <2>1. args \in Sessions /\ coll \in [AllCollectors -> CollectorStates]
    BY DEF SessionInv, SessionOK
  <2>2. errChan \subseteq AllCollectors
    BY <2>1, CollectorsFinite DEF SessionInv, ErrorsOK, Reporters
  <2>3. doneWG \in 0 .. numCollectors
    BY DEF CountedOK
  <2>4. QED
    BY <2>1, <2>2, <2>3 DEF TypeOK, RunTypes, CountTypes, WorkerTypes
<1>4. Spec => []TypeOK
  <2> HIDE DEF Inv
  <2>1. QED
    BY <1>1, <1>2, <1>3, PTL DEF Spec
<1>5. Sup!Spec => []Sup!TypeOK
  <2>1. Sup!Init => RunInv
    BY RunInit
  <2>2. RunInv /\ [Sup!Next]_(Sup!vars) => RunInv'
    BY RunNext
  <2>3. RunInv => Sup!TypeOK
    BY DEF RunInv
  <2>4. QED
    BY <2>1, <2>2, <2>3, PTL DEF Sup!Spec
<1>6. TypeOK /\ Sup!TypeOK => Types
  BY DEF Types
<1> QED BY <1>4, <1>5, <1>6, PTL
=============================================================================
