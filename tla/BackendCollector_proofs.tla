----------------------- MODULE BackendCollector_proofs -----------------------
(***************************************************************************)
(* Theorems about BackendCollector, for any messages, keys, buffers and    *)
(* batch sizes, whether or not witnesses expire or are dropped.            *)
(***************************************************************************)
EXTENDS BackendCollector, FiniteSetTheorems, TLAPS

(***************************************************************************)
(* The values of the fields, and where each goroutine can be.              *)
(***************************************************************************)
Reports == [id : Messages \cup Conns, parts : SUBSET Messages,
            redacted : SUBSET Messages]

Fields ==
  /\ cache \in [PairKeys -> Witnesses \cup {None}]
  /\ parts \in [Witnesses -> SUBSET Messages]
  /\ redacted \in [Witnesses -> SUBSET Messages]
  /\ flushed \in [Witnesses -> BOOLEAN]
  /\ mutex \in [Witnesses -> CacheOwners]
  /\ pc \in [Goroutines -> PCs]
  /\ wit \in [Goroutines -> Witnesses \cup {None}]
  /\ msg \in Messages \cup {None}
  /\ todo \in [{"capture", "flusher"} -> SUBSET PairKeys]
  /\ stage \in {"open", "flushing", "batch", "returned"}
  /\ batch \in CacheOwners
  /\ active \in Buffers \cup {None}
  /\ free \in SUBSET Buffers
  /\ uploading \in SUBSET Buffers
  /\ content \in [Buffers -> SUBSET Reports]
  /\ seen \in SUBSET (Messages \cup Conns)
  /\ dropped \in SUBSET Messages
  /\ copies \in [Messages -> Nat]
  /\ late \in SUBSET Messages

InBatcher == {"flush", "await"}
InReport == {"lock", "queue", "add", "release"} \cup InBatcher

\* The stage of Close tells where the capture goroutine can be.
Places ==
  /\ stage = "open" => pc["capture"] \in InReport \cup {"idle", "store", "merge"}
  /\ stage = "flushing" => pc["capture"] \in InReport \cup {"range"}
  /\ stage = "batch" => pc["capture"] \in InBatcher \cup {"closed"}
  /\ stage = "returned" => pc["capture"] = "closed"
  /\ pc["flusher"] \in InReport \cup {"idle", "range", "stopped"}
  /\ pc["ticker"] \in InBatcher \cup {"idle"}
  /\ pc["tracker"] \in InBatcher \cup {"idle"}

\* A goroutine that has a witness to report.
Reporting(g) ==
  \/ pc[g] \in {"lock", "merge", "queue", "add", "release"}
  \/ /\ pc[g] \in InBatcher
     /\ g = "flusher" \/ (g = "capture" /\ stage # "batch")

\* The locals are set while they are needed.
Locals ==
  /\ \A g \in Goroutines : wit[g] # None <=> Reporting(g)
  /\ msg # None <=> \/ pc["capture"] \in {"store", "merge"}
                    \/ pc["capture"] = "lock" /\ stage = "open"

\* The goroutine in Flush holds the batcher's mutex; only while it waits for an
\* upload request there is no active one.
Holder ==
  /\ \A g \in Goroutines : batch = g <=> pc[g] \in InBatcher
  /\ active = None <=> \E g \in Goroutines : pc[g] = "await"

TypeInv == Fields /\ Places /\ Locals /\ Holder

\* The goroutines that pair and flush witnesses.
Workers == {"capture", "flusher"}

\* None is neither a message, nor a goroutine, nor an upload request.
LEMMA NoneIsNew ==
  /\ None \notin Messages /\ None \notin Goroutines /\ None \notin Buffers
  /\ 1 \in Buffers
  /\ key \in [Messages -> PairKeys]
  /\ BatchSize \in Nat /\ BatchSize >= 1
  BY BackendCollectorAssumption DEF BackendCollectorAssumption, Buffers

\* Where a goroutine goes on after a Flush is told by whether it has a witness.
LEMMA AfterFlushIs ==
  ASSUME TypeInv, NEW g \in Goroutines, pc[g] \in InBatcher
  PROVE  AfterFlush(g) = IF wit[g] # None THEN "release"
                         ELSE IF g = "capture" THEN "closed" ELSE "idle"
  BY DEF TypeInv, Fields, Places, Locals, Reporting, AfterFlush, Goroutines, InBatcher

\* At first everything is empty and every goroutine idle.
LEMMA TypeInit == Init => TypeInv
  <1> SUFFICES ASSUME Init PROVE TypeInv
    OBVIOUS
  <1> USE NoneIsNew DEF Init
  <1>1. Fields
    BY DEF Fields, Witnesses, CacheOwners, PCs, Goroutines
  <1>2. Places /\ Locals
    BY DEF Places, Locals, Reporting, Goroutines, InBatcher, InReport
  <1>3. Holder
    BY DEF Holder, Goroutines, InBatcher
  <1> QED BY <1>1, <1>2, <1>3 DEF TypeInv

\* Process: the pair key is looked up and its witness taken.
LEMMA Type_Process_load ==
  ASSUME NEW m \in Messages, TypeInv, Process_load(m)
  PROVE  TypeInv'
  <1> USE NoneIsNew DEF TypeInv, Process_load, witnesses, batcher, history, At, Goto,
          Workers, Witnesses
  <1>1. Fields'
    BY SMT DEF Fields, CacheOwners, PCs, Goroutines, InBatcher
  <1>2. Places'
    BY SMT DEF Fields, Places, Locals, Reporting, Goroutines, InBatcher, InReport
  <1>3. Locals'
    BY SMT DEF Fields, Places, Locals, Reporting, Goroutines, InBatcher, InReport
  <1>4. Holder'
    BY SMT DEF Fields, Holder, Goroutines, InBatcher
  <1> QED BY <1>1, <1>2, <1>3, <1>4

\* Process: a new witness is put into the cache.
LEMMA Type_Process_store ==
  ASSUME TypeInv, Process_store
  PROVE  TypeInv'
  <1> USE NoneIsNew DEF TypeInv, Process_store, witnesses, batcher, history, At, Goto,
          Workers, Witnesses
  <1>1. Fields'
    <2>1. msg \in Messages
      BY DEF Locals, Fields
    <2>2. parts' \in [Witnesses -> SUBSET Messages]
      BY <2>1 DEF Fields
    <2>3. cache' \in [PairKeys -> Messages \cup {None}]
      BY <2>1 DEF Fields
    <2>4. late' \in SUBSET Messages
      BY <2>1 DEF Fields
    <2>5. pc' \in [Goroutines -> PCs]
      BY DEF Fields, PCs, Goroutines
    <2> QED BY <2>1, <2>2, <2>3, <2>4, <2>5 DEF Fields
  <1>2. Places'
    BY SMT DEF Fields, Places, Locals, Reporting, Goroutines, InBatcher, InReport
  <1>3. Locals'
    BY SMT DEF Fields, Places, Locals, Reporting, Goroutines, InBatcher, InReport
  <1>4. Holder'
    BY SMT DEF Fields, Holder, Goroutines, InBatcher
  <1> QED BY <1>1, <1>2, <1>3, <1>4

\* Process: the message joins the witness of its pair.
LEMMA Type_Process_merge ==
  ASSUME TypeInv, Process_merge
  PROVE  TypeInv'
  <1> USE NoneIsNew DEF TypeInv, Process_merge, witnesses, batcher, history, At, Goto,
          Workers, Witnesses
  <1>1. Fields'
    <2>1. msg \in Messages /\ wit["capture"] \in Messages
      BY DEF Fields, Locals, Reporting, Goroutines
    <2>2. parts' \in [Witnesses -> SUBSET Messages]
      BY <2>1 DEF Fields
    <2>3. pc' \in [Goroutines -> PCs]
      BY DEF Fields, PCs, Goroutines
    <2> QED BY <2>1, <2>2, <2>3 DEF Fields
  <1>2. Places'
    BY SMT DEF Fields, Places, Locals, Reporting, Goroutines, InBatcher, InReport
  <1>3. Locals'
    BY SMT DEF Fields, Places, Locals, Reporting, Goroutines, InBatcher, InReport
  <1>4. Holder'
    BY SMT DEF Fields, Holder, Goroutines, InBatcher
  <1> QED BY <1>1, <1>2, <1>3, <1>4

\* The mutex of a witness in hand is taken.
LEMMA Type_witnessMutex_Lock ==
  ASSUME NEW g \in Workers, TypeInv, witnessMutex_Lock(g)
  PROVE  TypeInv'
  <1> USE NoneIsNew DEF TypeInv, witnessMutex_Lock, witnesses, batcher, history, At, Goto,
          Workers, Witnesses
  <1>1. Fields'
    <2>1. g \in Goroutines /\ wit[g] \in Messages
      BY DEF Fields, Locals, Reporting, Goroutines
    <2>2. mutex' \in [Witnesses -> CacheOwners]
      BY <2>1 DEF Fields, CacheOwners
    <2>3. pc' \in [Goroutines -> PCs]
      BY <2>1 DEF Fields, PCs
    <2> QED BY <2>1, <2>2, <2>3 DEF Fields
  <1>2. Places'
    BY SMT DEF Fields, Places, Locals, Reporting, Goroutines, InBatcher, InReport
  <1>3. Locals'
    BY SMT DEF Fields, Places, Locals, Reporting, Goroutines, InBatcher, InReport
  <1>4. Holder'
    BY SMT DEF Fields, Holder, Goroutines, InBatcher
  <1> QED BY <1>1, <1>2, <1>3, <1>4

\* The witness is redacted, dropped, or was flushed before.
LEMMA Type_queueUpload ==
  ASSUME NEW g \in Workers, TypeInv, queueUpload(g)
  PROVE  TypeInv'
  <1> USE NoneIsNew DEF TypeInv, queueUpload, witnesses, batcher, history, At, Goto,
          Workers, Witnesses
  <1>1. Fields'
    <2>1. g \in Goroutines /\ wit[g] \in Messages
      BY DEF Fields, Locals, Reporting, Goroutines
    <2>2. parts[wit[g]] \in SUBSET Messages
      BY <2>1 DEF Fields
    <2>3. redacted' \in [Witnesses -> SUBSET Messages]
      BY <2>1, <2>2 DEF Fields
    <2>4. flushed' \in [Witnesses -> BOOLEAN]
      BY <2>1 DEF Fields
    <2>5. dropped' \in SUBSET Messages
      BY <2>2 DEF Fields
    <2>6. pc' \in [Goroutines -> PCs]
      BY <2>1 DEF Fields, PCs
    <2> QED BY <2>1, <2>2, <2>3, <2>4, <2>5, <2>6 DEF Fields
  <1>2. Places'
    BY SMT DEF Fields, Places, Locals, Reporting, Goroutines, InBatcher, InReport
  <1>3. Locals'
    BY SMT DEF Fields, Places, Locals, Reporting, Goroutines, InBatcher, InReport
  <1>4. Holder'
    BY SMT DEF Fields, Holder, Goroutines, InBatcher
  <1> QED BY <1>1, <1>2, <1>3, <1>4

\* The witness is marked as flushed and let go.
LEMMA Type_release ==
  ASSUME NEW g \in Workers, TypeInv, release(g)
  PROVE  TypeInv'
  <1> USE NoneIsNew DEF TypeInv, release, witnesses, batcher, history, At, Goto,
          Workers, Witnesses
  <1>1. Fields'
    <2>1. g \in Goroutines /\ wit[g] \in Messages
      BY DEF Fields, Locals, Reporting, Goroutines
    <2>2. flushed' \in [Witnesses -> BOOLEAN]
      BY <2>1 DEF Fields
    <2>3. mutex' \in [Witnesses -> CacheOwners]
      BY <2>1 DEF Fields, CacheOwners
    <2>4. wit' \in [Goroutines -> Messages \cup {None}]
      BY <2>1 DEF Fields
    <2>5. cache' \in [PairKeys -> Messages \cup {None}]
      BY <2>1 DEF Fields
    <2>6. pc' \in [Goroutines -> PCs]
      BY <2>1 DEF Fields, PCs
    <2> QED BY <2>1, <2>2, <2>3, <2>4, <2>5, <2>6 DEF Fields
  <1>2. Places'
    BY SMT DEF Fields, Places, Locals, Reporting, Goroutines, InBatcher, InReport
  <1>3. Locals'
    BY SMT DEF Fields, Places, Locals, Reporting, Goroutines, InBatcher, InReport
  <1>4. Holder'
    BY SMT DEF Fields, Holder, Goroutines, InBatcher
  <1> QED BY <1>1, <1>2, <1>3, <1>4

\* The witness becomes a report of the active request.
LEMMA Type_addWitness ==
  ASSUME NEW g \in Workers, TypeInv, addWitness(g)
  PROVE  TypeInv'
  <1> USE NoneIsNew DEF TypeInv, addWitness, witnesses, batcher, history, At, Goto,
          Workers, Witnesses, AfterAdd, Report
  <1>1. Fields'
    <2>1. g \in Goroutines /\ wit[g] \in Messages
      BY DEF Fields, Locals, Reporting, Goroutines
    <2>2. parts[wit[g]] \in SUBSET Messages /\ redacted[wit[g]] \in SUBSET Messages
      BY <2>1 DEF Fields
    <2>3. Report(wit[g]) \in Reports
      BY <2>1, <2>2 DEF Report, Reports
    <2>4. content' \in [Buffers -> SUBSET Reports]
      BY <2>3 DEF Fields
    <2>5. copies' \in [Messages -> Nat]
      BY DEF Fields
    <2>6. dropped' \in SUBSET Messages
      BY <2>2 DEF Fields
    <2>7. batch' \in CacheOwners
      BY <2>1 DEF Fields, CacheOwners
    <2>8. pc' \in [Goroutines -> PCs]
      BY <2>1 DEF Fields, PCs
    <2> QED BY <2>1, <2>2, <2>3, <2>4, <2>5, <2>6, <2>7, <2>8 DEF Fields
  <1>2. Places'
    BY SMT DEF Fields, Places, Locals, Reporting, Goroutines, InBatcher, InReport
  <1>3. Locals'
    BY SMT DEF Fields, Places, Locals, Reporting, Goroutines, InBatcher, InReport
  <1>4. Holder'
    BY SMT DEF Fields, Holder, Goroutines, InBatcher
  <1> QED BY <1>1, <1>2, <1>3, <1>4

\* A connection becomes a report of the active request.
LEMMA Type_processConnection ==
  ASSUME NEW c \in Conns, TypeInv, processConnection(c)
  PROVE  TypeInv'
  <1> USE NoneIsNew DEF TypeInv, processConnection, witnesses, batcher, history, At, Goto,
          Workers, Witnesses, AfterAdd, ConnReport
  <1>1. Fields'
    <2>1. ConnReport(c) \in Reports
      BY DEF ConnReport, Reports
    <2>2. content' \in [Buffers -> SUBSET Reports]
      BY <2>1 DEF Fields
    <2>3. batch' \in CacheOwners
      BY DEF Fields, CacheOwners, Goroutines
    <2>4. pc' \in [Goroutines -> PCs]
      BY DEF Fields, PCs, Goroutines
    <2>5. seen' \in SUBSET (Messages \cup Conns)
      BY DEF Fields
    <2> QED BY <2>1, <2>2, <2>3, <2>4, <2>5 DEF Fields
  <1>2. Places'
    BY SMT DEF Fields, Places, Locals, Reporting, Goroutines, InBatcher, InReport
  <1>3. Locals'
    BY SMT DEF Fields, Places, Locals, Reporting, Goroutines, InBatcher, InReport
  <1>4. Holder'
    BY SMT DEF Fields, Holder, Goroutines, InBatcher
  <1> QED BY <1>1, <1>2, <1>3, <1>4

\* The periodic flush takes the mutex of the batcher.
LEMMA Type_ticker_flush ==
  ASSUME TypeInv, ticker_flush
  PROVE  TypeInv'
  <1> USE NoneIsNew DEF TypeInv, ticker_flush, witnesses, batcher, history, At, Goto,
          Workers, Witnesses
  <1>1. Fields'
    BY SMT DEF Fields, CacheOwners, PCs, Goroutines, InBatcher
  <1>2. Places'
    BY SMT DEF Fields, Places, Locals, Reporting, Goroutines, InBatcher, InReport
  <1>3. Locals'
    BY SMT DEF Fields, Places, Locals, Reporting, Goroutines, InBatcher, InReport
  <1>4. Holder'
    BY SMT DEF Fields, Holder, Goroutines, InBatcher
  <1> QED BY <1>1, <1>2, <1>3, <1>4

\* The active request goes to its upload.
LEMMA Type_Flush ==
  ASSUME NEW g \in Goroutines, TypeInv, Flush(g)
  PROVE  TypeInv'
  <1> USE NoneIsNew DEF TypeInv, Flush, witnesses, batcher, history, At, Goto,
          Workers, Witnesses
  <1>1. Fields'
    <2>1. AfterFlush(g) \in PCs
      BY AfterFlushIs DEF PCs, InBatcher
    <2>2. active' \in Buffers \cup {None} /\ uploading' \in SUBSET Buffers
      BY DEF Fields, Holder, InBatcher
    <2>3. batch' \in CacheOwners
      BY DEF Fields, CacheOwners
    <2>4. pc' \in [Goroutines -> PCs]
      BY <2>1 DEF Fields, PCs
    <2> QED BY <2>1, <2>2, <2>3, <2>4 DEF Fields
  <1>2. Places'
    BY AfterFlushIs, SMT DEF Fields, Places, Locals, Reporting, Goroutines, InBatcher, InReport
  <1>3. Locals'
    BY AfterFlushIs, SMT DEF Fields, Places, Locals, Reporting, Goroutines, InBatcher, InReport
  <1>4. Holder'
    BY AfterFlushIs, SMT DEF Fields, Holder, Goroutines, InBatcher
  <1> QED BY <1>1, <1>2, <1>3, <1>4

\* A free request becomes the active one.
LEMMA Type_Flush_await ==
  ASSUME NEW g \in Goroutines, TypeInv, Flush_await(g)
  PROVE  TypeInv'
  <1> USE NoneIsNew DEF TypeInv, Flush_await, witnesses, batcher, history, At, Goto,
          Workers, Witnesses
  <1>1. Fields'
    BY AfterFlushIs, SMT DEF Fields, CacheOwners, PCs, Goroutines, InBatcher
  <1>2. Places'
    BY AfterFlushIs, SMT DEF Fields, Places, Locals, Reporting, Goroutines, InBatcher, InReport
  <1>3. Locals'
    BY AfterFlushIs, SMT DEF Fields, Places, Locals, Reporting, Goroutines, InBatcher, InReport
  <1>4. Holder'
    BY AfterFlushIs, SMT DEF Fields, Holder, Goroutines, InBatcher
  <1> QED BY <1>1, <1>2, <1>3, <1>4

\* An upload ends and gives its request back.
LEMMA Type_Upload ==
  ASSUME NEW b \in Buffers, TypeInv, Upload(b)
  PROVE  TypeInv'
  <1> USE NoneIsNew DEF TypeInv, Upload, witnesses, batcher, history, At, Goto,
          Workers, Witnesses
  <1>1. Fields'
    BY SMT DEF Fields, CacheOwners, PCs, Goroutines, InBatcher
  <1>2. Places'
    BY SMT DEF Fields, Places, Locals, Reporting, Goroutines, InBatcher, InReport
  <1>3. Locals'
    BY SMT DEF Fields, Places, Locals, Reporting, Goroutines, InBatcher, InReport
  <1>4. Holder'
    BY SMT DEF Fields, Holder, Goroutines, InBatcher
  <1> QED BY <1>1, <1>2, <1>3, <1>4

\* The flusher begins to go through the cache.
LEMMA Type_periodicFlush_tick ==
  ASSUME TypeInv, periodicFlush_tick
  PROVE  TypeInv'
  <1> USE NoneIsNew DEF TypeInv, periodicFlush_tick, witnesses, batcher, history, At, Goto,
          Workers, Witnesses
  <1>1. Fields'
    BY SMT DEF Fields, CacheOwners, PCs, Goroutines, InBatcher
  <1>2. Places'
    BY SMT DEF Fields, Places, Locals, Reporting, Goroutines, InBatcher, InReport
  <1>3. Locals'
    BY SMT DEF Fields, Places, Locals, Reporting, Goroutines, InBatcher, InReport
  <1>4. Holder'
    BY SMT DEF Fields, Holder, Goroutines, InBatcher
  <1> QED BY <1>1, <1>2, <1>3, <1>4

\* The flusher stops once Close has begun.
LEMMA Type_periodicFlush_stop ==
  ASSUME TypeInv, periodicFlush_stop
  PROVE  TypeInv'
  <1> USE NoneIsNew DEF TypeInv, periodicFlush_stop, witnesses, batcher, history, At, Goto,
          Workers, Witnesses
  <1>1. Fields'
    BY SMT DEF Fields, CacheOwners, PCs, Goroutines, InBatcher
  <1>2. Places'
    BY SMT DEF Fields, Places, Locals, Reporting, Goroutines, InBatcher, InReport
  <1>3. Locals'
    BY SMT DEF Fields, Places, Locals, Reporting, Goroutines, InBatcher, InReport
  <1>4. Holder'
    BY SMT DEF Fields, Holder, Goroutines, InBatcher
  <1> QED BY <1>1, <1>2, <1>3, <1>4

\* A witness is taken up from the cache.
LEMMA Type_flushPairCache_visit ==
  ASSUME NEW g \in Workers, NEW k \in PairKeys, TypeInv, flushPairCache_visit(g, k)
  PROVE  TypeInv'
  <1> USE NoneIsNew DEF TypeInv, flushPairCache_visit, witnesses, batcher, history, At, Goto,
          Workers, Witnesses
  <1>1. Fields'
    BY SMT DEF Fields, CacheOwners, PCs, Goroutines, InBatcher
  <1>2. Places'
    BY SMT DEF Fields, Places, Locals, Reporting, Goroutines, InBatcher, InReport
  <1>3. Locals'
    BY SMT DEF Fields, Places, Locals, Reporting, Goroutines, InBatcher, InReport
  <1>4. Holder'
    BY SMT DEF Fields, Holder, Goroutines, InBatcher
  <1> QED BY <1>1, <1>2, <1>3, <1>4

\* A pair key is passed over.
LEMMA Type_flushPairCache_pass ==
  ASSUME NEW g \in Workers, NEW k \in PairKeys, TypeInv, flushPairCache_pass(g, k)
  PROVE  TypeInv'
  <1> USE NoneIsNew DEF TypeInv, flushPairCache_pass, witnesses, batcher, history, At, Goto,
          Workers, Witnesses
  <1>1. Fields'
    BY SMT DEF Fields, CacheOwners, PCs, Goroutines, InBatcher
  <1>2. Places'
    BY SMT DEF Fields, Places, Locals, Reporting, Goroutines, InBatcher, InReport
  <1>3. Locals'
    BY SMT DEF Fields, Places, Locals, Reporting, Goroutines, InBatcher, InReport
  <1>4. Holder'
    BY SMT DEF Fields, Holder, Goroutines, InBatcher
  <1> QED BY <1>1, <1>2, <1>3, <1>4

\* The flusher has been through the cache.
LEMMA Type_periodicFlush_end ==
  ASSUME TypeInv, periodicFlush_end
  PROVE  TypeInv'
  <1> USE NoneIsNew DEF TypeInv, periodicFlush_end, witnesses, batcher, history, At, Goto,
          Workers, Witnesses
  <1>1. Fields'
    BY SMT DEF Fields, CacheOwners, PCs, Goroutines, InBatcher
  <1>2. Places'
    BY SMT DEF Fields, Places, Locals, Reporting, Goroutines, InBatcher, InReport
  <1>3. Locals'
    BY SMT DEF Fields, Places, Locals, Reporting, Goroutines, InBatcher, InReport
  <1>4. Holder'
    BY SMT DEF Fields, Holder, Goroutines, InBatcher
  <1> QED BY <1>1, <1>2, <1>3, <1>4

\* Close begins to go through the cache.
LEMMA Type_Close_begin ==
  ASSUME TypeInv, Close_begin
  PROVE  TypeInv'
  <1> USE NoneIsNew DEF TypeInv, Close_begin, witnesses, batcher, history, At, Goto,
          Workers, Witnesses
  <1>1. Fields'
    BY SMT DEF Fields, CacheOwners, PCs, Goroutines, InBatcher
  <1>2. Places'
    BY SMT DEF Fields, Places, Locals, Reporting, Goroutines, InBatcher, InReport
  <1>3. Locals'
    BY SMT DEF Fields, Places, Locals, Reporting, Goroutines, InBatcher, InReport
  <1>4. Holder'
    BY SMT DEF Fields, Holder, Goroutines, InBatcher
  <1> QED BY <1>1, <1>2, <1>3, <1>4

\* Close goes on to the batcher.
LEMMA Type_Close_batch ==
  ASSUME TypeInv, Close_batch
  PROVE  TypeInv'
  <1> USE NoneIsNew DEF TypeInv, Close_batch, witnesses, batcher, history, At, Goto,
          Workers, Witnesses
  <1>1. Fields'
    BY SMT DEF Fields, CacheOwners, PCs, Goroutines, InBatcher
  <1>2. Places'
    BY SMT DEF Fields, Places, Locals, Reporting, Goroutines, InBatcher, InReport
  <1>3. Locals'
    BY SMT DEF Fields, Places, Locals, Reporting, Goroutines, InBatcher, InReport
  <1>4. Holder'
    BY SMT DEF Fields, Holder, Goroutines, InBatcher
  <1> QED BY <1>1, <1>2, <1>3, <1>4

\* Close returns.
LEMMA Type_Close_return ==
  ASSUME TypeInv, Close_return
  PROVE  TypeInv'
  <1> USE NoneIsNew DEF TypeInv, Close_return, witnesses, batcher, history, At, Goto,
          Workers, Witnesses
  <1>1. Fields'
    BY SMT DEF Fields, CacheOwners, PCs, Goroutines, InBatcher
  <1>2. Places'
    BY SMT DEF Fields, Places, Locals, Reporting, Goroutines, InBatcher, InReport
  <1>3. Locals'
    BY SMT DEF Fields, Places, Locals, Reporting, Goroutines, InBatcher, InReport
  <1>4. Holder'
    BY SMT DEF Fields, Holder, Goroutines, InBatcher
  <1> QED BY <1>1, <1>2, <1>3, <1>4

\* Every step keeps the types.
LEMMA TypeStutter == TypeInv /\ UNCHANGED vars => TypeInv'
  BY DEF vars, witnesses, batcher, history, TypeInv, Fields, Places, Locals,
         Holder, Reporting

\* The steps of the two workers and of those that only flush, one by one.
LEMMA StepCases ==
  ASSUME Next
  PROVE  \/ \E m \in Messages : Process_load(m)
         \/ Process_store \/ Process_merge
         \/ \E g \in Workers :
              \/ witnessMutex_Lock(g) \/ queueUpload(g) \/ release(g)
              \/ addWitness(g)
              \/ \E k \in PairKeys : \/ flushPairCache_visit(g, k)
                                     \/ flushPairCache_pass(g, k)
         \/ \E g \in Goroutines : Flush(g) \/ Flush_await(g)
         \/ \E c \in Conns : processConnection(c)
         \/ ticker_flush
         \/ \E b \in Buffers : Upload(b)
         \/ periodicFlush_tick \/ periodicFlush_stop \/ periodicFlush_end
         \/ Close_begin \/ Close_batch \/ Close_return
  <1>1. "capture" \in Workers /\ "flusher" \in Workers
    BY DEF Workers
  <1>2. /\ "capture" \in Goroutines /\ "flusher" \in Goroutines
        /\ "ticker" \in Goroutines /\ "tracker" \in Goroutines
    BY DEF Goroutines
  <1>3. ASSUME NEW g \in Workers, QueueStep(g)
        PROVE  \/ witnessMutex_Lock(g) \/ queueUpload(g) \/ release(g)
               \/ addWitness(g)
               \/ \E k \in PairKeys : \/ flushPairCache_visit(g, k)
                                      \/ flushPairCache_pass(g, k)
    BY <1>3 DEF QueueStep
  <1>4. ASSUME NEW g \in Goroutines, FlushStep(g)
        PROVE  Flush(g) \/ Flush_await(g)
    BY <1>4 DEF FlushStep
  <1> QED BY <1>1, <1>2, <1>3, <1>4 DEF Next, CaptureStep, FlusherStep

\* Every step keeps the types, the places, the locals and the holder.
LEMMA TypeNext == TypeInv /\ [Next]_vars => TypeInv'
  <1> SUFFICES ASSUME TypeInv, Next PROVE TypeInv'
    BY TypeStutter
  <1> QED
    BY StepCases, Type_Process_load, Type_Process_store, Type_Process_merge,
       Type_witnessMutex_Lock, Type_queueUpload, Type_release, Type_addWitness,
       Type_processConnection, Type_ticker_flush, Type_Flush, Type_Flush_await,
       Type_Upload, Type_periodicFlush_tick, Type_periodicFlush_stop,
       Type_flushPairCache_visit, Type_flushPairCache_pass,
       Type_periodicFlush_end, Type_Close_begin, Type_Close_batch,
       Type_Close_return

(***************************************************************************)
(* The upload requests.                                                    *)
(***************************************************************************)
\* Each request is active, free or being uploaded, and only one of these.
Requests ==
  /\ active \notin free \cup uploading
  /\ free \cap uploading = {}
  /\ \A b \in Buffers : b \in free \/ b \in uploading \/ b = active
  /\ \A b \in free : content[b] = {}

\* A request that is full is flushed before the batcher is left.
Sizes ==
  /\ \A b \in Buffers :
       IsFiniteSet(content[b]) /\ Cardinality(content[b]) <= BatchSize
  /\ batch = None => Cardinality(content[active]) < BatchSize

BatchInv == Requests /\ Sizes

\* newReportBuffer takes the first request and puts the others into the channel.
LEMMA BatchInit == Init => BatchInv
  <1> SUFFICES ASSUME Init PROVE BatchInv
    OBVIOUS
  <1>1. Requests
    BY DEF Init, Requests
  <1>2. IsFiniteSet({}) /\ Cardinality({}) = 0
    BY FS_EmptySet
  <1>3. Sizes
    BY <1>2, NoneIsNew DEF Init, Sizes
  <1> QED BY <1>1, <1>3 DEF BatchInv

\* While nobody is in Flush there is an active request.
LEMMA ActiveIsThere ==
  ASSUME TypeInv, batch = None \/ \E g \in Goroutines : pc[g] = "flush"
  PROVE  active \in Buffers
  <1> USE DEF TypeInv, Fields, Holder, InBatcher
  <1>1. CASE batch = None
    BY <1>1, NoneIsNew
  <1>2. CASE \E g \in Goroutines : pc[g] = "flush"
    BY <1>2
  <1> QED BY <1>1, <1>2

\* Add puts one report into the active request, which has room for it.
LEMMA BatchAdd ==
  ASSUME TypeInv, BatchInv, batch = None, NEW g \in Goroutines, NEW l, NEW r,
         \/ content' = [content EXCEPT ![active] = @ \cup {r}]
         \/ UNCHANGED content,
         AfterAdd(g, l), UNCHANGED <<active, free, uploading>>
  PROVE  BatchInv'
  <1> DEFINE old == content[active]
             new == content'[active]
  <1>1. active \in Buffers
    BY ActiveIsThere
  <1>2. content \in [Buffers -> SUBSET Reports]
    BY DEF TypeInv, Fields
  <1>3. \A b \in Buffers : b # active => content'[b] = content[b]
    BY <1>1, <1>2
  <1>4. new = old \cup {r} \/ new = old
    BY <1>1, <1>2
  <1>5. IsFiniteSet(old) /\ Cardinality(old) < BatchSize
    BY <1>1 DEF BatchInv, Sizes
  <1> HIDE DEF old, new
  <1>6. Cardinality(old) \in Nat
    BY <1>5, FS_CardinalityType
  <1>7. IsFiniteSet(new) /\ Cardinality(new) \in Nat /\ Cardinality(new) <= BatchSize
    <2>1. CASE new = old
      BY <1>5, <1>6, <2>1, NoneIsNew
    <2>2. CASE new = old \cup {r}
      <3>1. /\ IsFiniteSet(new)
            /\ Cardinality(new) = Cardinality(old) \/ Cardinality(new) = Cardinality(old) + 1
        BY <1>5, <2>2, FS_AddElement
      <3> QED BY <1>5, <1>6, <3>1, NoneIsNew
    <2> QED BY <1>4, <2>1, <2>2
  <1>8. batch' = None => Cardinality(new) < BatchSize
    <2>1. batch' = None => ~(Cardinality(new) >= BatchSize)
      BY NoneIsNew DEF AfterAdd, isFull, new
    <2> QED BY <1>7, <2>1, NoneIsNew
  <1>9. Requests'
    BY <1>1, <1>3 DEF BatchInv, Requests, TypeInv, Fields
  <1>10. Sizes'
    BY <1>3, <1>7, <1>8 DEF BatchInv, Sizes, new
  <1> QED BY <1>9, <1>10 DEF BatchInv

\* Flush and the end of an upload move requests, and empty them.
LEMMA BatchFlush ==
  ASSUME TypeInv, BatchInv, NEW g \in Goroutines, Flush(g) \/ Flush_await(g)
  PROVE  BatchInv'
  <1> USE NoneIsNew DEF BatchInv, Requests, Sizes
  <1>1. UNCHANGED content
    BY DEF Flush, Flush_await
  <1>2. Cardinality({}) = 0
    BY FS_EmptySet
  <1>3. CASE Flush(g) /\ content[active] = {}
    BY <1>1, <1>2, <1>3 DEF Flush
  <1>4. CASE Flush(g) /\ content[active] # {}
    <2>1. /\ uploading' = uploading \cup {active} /\ active' = None
          /\ free' = free /\ batch' = batch /\ batch = g
      BY <1>4 DEF Flush, At, TypeInv, Holder, InBatcher
    <2>2. free \subseteq Buffers /\ uploading \subseteq Buffers
      BY DEF TypeInv, Fields
    <2>3. active \in Buffers
      BY <1>4, ActiveIsThere DEF Flush, At
    <2> QED BY <1>1, <2>1, <2>2, <2>3
  <1>5. CASE Flush_await(g)
    <2>1. PICK b \in free : active' = b /\ free' = free \ {b}
      BY <1>5 DEF Flush_await
    <2>2. active = None /\ uploading' = uploading
      BY <1>5 DEF Flush_await, At, TypeInv, Holder
    <2>3. free \subseteq Buffers /\ content[b] = {}
      BY DEF TypeInv, Fields
    <2>4. \A d \in Buffers : d \in free' \/ d \in uploading' \/ d = active'
      BY <2>1, <2>2
    <2>5. active' \notin free' \cup uploading' /\ free' \cap uploading' = {}
      BY <2>1, <2>2
    <2>6. Cardinality(content'[active']) < BatchSize
      BY <1>1, <1>2, <2>1, <2>3
    <2> QED BY <1>1, <2>1, <2>3, <2>4, <2>5, <2>6
  <1> QED BY <1>3, <1>4, <1>5

\* An upload empties its request before it gives it back.
LEMMA BatchUpload ==
  ASSUME TypeInv, BatchInv, NEW b \in Buffers, Upload(b)
  PROVE  BatchInv'
  <1>1. IsFiniteSet({}) /\ Cardinality({}) = 0
    BY FS_EmptySet
  <1>2. content \in [Buffers -> SUBSET Reports]
    BY DEF TypeInv, Fields
  <1>3. /\ b \in uploading /\ uploading' = uploading \ {b}
        /\ free' = free \cup {b} /\ active' = active /\ batch' = batch
        /\ content' = [content EXCEPT ![b] = {}]
    BY DEF Upload
  <1>4. content'[b] = {} /\ \A d \in Buffers : d # b => content'[d] = content[d]
    BY <1>2, <1>3
  <1>5. Requests'
    BY <1>2, <1>3, <1>4 DEF BatchInv, Requests, TypeInv, Fields
  <1>6. batch = None => active \in Buffers /\ active # b
    BY <1>3, ActiveIsThere DEF BatchInv, Requests
  <1>7. Sizes'
    BY <1>1, <1>3, <1>4, <1>6, NoneIsNew DEF BatchInv, Sizes
  <1> QED BY <1>5, <1>7 DEF BatchInv

\* Everybody else leaves the requests alone.
LEMMA BatchFrame ==
  ASSUME BatchInv, UNCHANGED <<active, free, uploading, content>>,
         batch' = batch \/ batch' # None
  PROVE  BatchInv'
  BY DEF BatchInv, Requests, Sizes

\* Every step keeps the requests apart and the active one within its size.
LEMMA BatchNext == TypeInv /\ BatchInv /\ [Next]_vars => BatchInv'
  <1> SUFFICES ASSUME TypeInv, BatchInv, [Next]_vars PROVE BatchInv'
    OBVIOUS
  <1>1. ASSUME UNCHANGED batcher PROVE BatchInv'
    BY <1>1, BatchFrame DEF batcher
  <1>2. CASE UNCHANGED vars
    BY <1>1, <1>2 DEF vars, batcher
  <1>3. ASSUME NEW m \in Messages, Process_load(m) PROVE BatchInv'
    BY <1>1, <1>3 DEF Process_load
  <1>4. CASE Process_store \/ Process_merge
    BY <1>1, <1>4 DEF Process_store, Process_merge
  <1>5. ASSUME NEW g \in Workers,
               witnessMutex_Lock(g) \/ queueUpload(g) \/ release(g)
        PROVE  BatchInv'
    BY <1>1, <1>5 DEF witnessMutex_Lock, queueUpload, release
  <1>6. ASSUME NEW g \in Workers, NEW k \in PairKeys,
               flushPairCache_visit(g, k) \/ flushPairCache_pass(g, k)
        PROVE  BatchInv'
    BY <1>1, <1>6 DEF flushPairCache_visit, flushPairCache_pass
  <1>7. CASE \/ periodicFlush_tick \/ periodicFlush_stop \/ periodicFlush_end
             \/ Close_begin \/ Close_return
    BY <1>1, <1>7 DEF periodicFlush_tick, periodicFlush_stop, periodicFlush_end,
                      Close_begin, Close_return
  <1>8. CASE ticker_flush \/ Close_batch
    <2>1. batch' # None /\ UNCHANGED <<active, free, uploading, content>>
      BY <1>8, NoneIsNew DEF ticker_flush, Close_batch, Goroutines
    <2> QED BY <2>1, BatchFrame
  <1>9. ASSUME NEW g \in Workers, addWitness(g) PROVE BatchInv'
    <2>1. /\ batch = None /\ UNCHANGED <<active, free, uploading>>
          /\ AfterAdd(g, "release") /\ g \in Goroutines
      BY <1>9 DEF addWitness, Workers, Goroutines
    <2>2. \E r : \/ content' = [content EXCEPT ![active] = @ \cup {r}]
                 \/ UNCHANGED content
      BY <1>9 DEF addWitness
    <2> QED BY <2>1, <2>2, BatchAdd
  <1>10. ASSUME NEW c \in Conns, processConnection(c) PROVE BatchInv'
    <2>1. /\ batch = None /\ UNCHANGED <<active, free, uploading>>
          /\ AfterAdd("tracker", "idle") /\ "tracker" \in Goroutines
      BY <1>10 DEF processConnection, Goroutines
    <2>2. content' = [content EXCEPT ![active] = @ \cup {ConnReport(c)}]
      BY <1>10 DEF processConnection
    <2> QED BY <2>1, <2>2, BatchAdd
  <1> QED BY StepCases, <1>2, <1>3, <1>4, <1>5, <1>6, <1>7, <1>8, <1>9, <1>10,
             BatchFlush, BatchUpload

\* The fields keep their types, and no upload request grows beyond BatchSize
\* (reportBuffer.Add, isFull).
THEOREM CollectorTypeTheorem == Spec => []TypeOK
  <1>1. TypeInv /\ BatchInv => TypeOK
    BY DEF TypeInv, Fields, BatchInv, Sizes, TypeOK
  <1> QED BY <1>1, TypeInit, TypeNext, BatchInit, BatchNext, PTL DEF Spec

\* A request does not change while its upload reads it: Add writes only to the
\* active one, which is not given to an upload (reportBuffer.Flush).
THEOREM UploadStableTheorem == Spec => UploadStable
  <1>1. TypeInv /\ BatchInv /\ [Next]_vars =>
          [\A b \in uploading : content'[b] = content[b] \/ b \notin uploading']_vars
    <2> SUFFICES ASSUME TypeInv, BatchInv, Next, NEW b \in uploading,
                        b \in uploading'
        PROVE  content'[b] = content[b]
      OBVIOUS
    <2>1. b \in Buffers /\ b # active /\ content \in [Buffers -> SUBSET Reports]
      BY DEF TypeInv, Fields, BatchInv, Requests
    <2>2. ASSUME UNCHANGED content PROVE content'[b] = content[b]
      BY <2>2
    <2>3. ASSUME NEW r, content' = [content EXCEPT ![active] = @ \cup {r}]
          PROVE  content'[b] = content[b]
      BY <2>1, <2>3
    <2>4. ASSUME NEW g \in Workers, addWitness(g)
          PROVE  content'[b] = content[b]
      BY <2>2, <2>3, <2>4 DEF addWitness
    <2>5. ASSUME NEW c \in Conns, processConnection(c)
          PROVE  content'[b] = content[b]
      BY <2>3, <2>5 DEF processConnection
    <2>6. ASSUME NEW d \in Buffers, Upload(d) PROVE content'[b] = content[b]
      BY <2>1, <2>6 DEF Upload
    <2>7. ASSUME UNCHANGED batcher PROVE content'[b] = content[b]
      BY <2>7 DEF batcher
    <2>8. ASSUME NEW m \in Messages, Process_load(m)
          PROVE  content'[b] = content[b]
      BY <2>7, <2>8 DEF Process_load
    <2>9. ASSUME NEW g \in Workers,
                 \/ witnessMutex_Lock(g) \/ queueUpload(g) \/ release(g)
                 \/ \E k \in PairKeys : \/ flushPairCache_visit(g, k)
                                        \/ flushPairCache_pass(g, k)
          PROVE  content'[b] = content[b]
      BY <2>7, <2>9 DEF witnessMutex_Lock, queueUpload, release,
                        flushPairCache_visit, flushPairCache_pass
    <2>10. ASSUME NEW g \in Goroutines, Flush(g) \/ Flush_await(g)
           PROVE  content'[b] = content[b]
      BY <2>2, <2>10 DEF Flush, Flush_await
    <2>11. CASE \/ Process_store \/ Process_merge \/ ticker_flush
                \/ periodicFlush_tick \/ periodicFlush_stop \/ periodicFlush_end
                \/ Close_begin \/ Close_batch \/ Close_return
      BY <2>2, <2>7, <2>11
      DEF Process_store, Process_merge, ticker_flush, periodicFlush_tick,
          periodicFlush_stop, periodicFlush_end, Close_begin, Close_batch,
          Close_return
    <2> QED BY StepCases, <2>4, <2>5, <2>6, <2>8, <2>9, <2>10, <2>11
  <1> QED BY <1>1, TypeInit, TypeNext, BatchInit, BatchNext, PTL
          DEF Spec, UploadStable

(***************************************************************************)
(* Witnesses and the messages in them.                                     *)
(***************************************************************************)
\* A witness holds the message that it was created for, and a message is in no
\* other witness.
Separate ==
  /\ \A w \in Witnesses : parts[w] # {} => w \in parts[w]
  /\ \A v, w \in Witnesses : v # w => parts[v] \cap parts[w] = {}

\* The message that Process works on has not been put into a witness.
NewMessage ==
  /\ \A w \in Witnesses : parts[w] \subseteq seen
  /\ msg # None => msg \in seen /\ \A w \in Witnesses : msg \notin parts[w]

\* A witness is in the cache under its key, until its first merge.
Cached ==
  /\ \A k \in PairKeys : cache[k] # None =>
       key[cache[k]] = k /\ parts[cache[k]] = {cache[k]}
  /\ stage = "open" /\ wit["capture"] # None =>
       cache[key[wit["capture"]]] # wit["capture"]

\* Only what was created is worked on and flushed.
Created ==
  /\ \A g \in Goroutines : wit[g] # None => parts[wit[g]] # {}
  /\ \A w \in Witnesses : flushed[w] => parts[w] # {}

PartsInv == Separate /\ NewMessage /\ Cached /\ Created

\* There are no witnesses at the start.
LEMMA PartsInit == Init => PartsInv
  BY NoneIsNew
  DEF Init, PartsInv, Separate, NewMessage, Cached, Created, Goroutines, Witnesses

\* Steps that leave the witnesses alone.
LEMMA PartsFrame ==
  ASSUME PartsInv, UNCHANGED <<cache, parts, flushed, wit, msg>>,
         seen \subseteq seen', stage' = "open" => stage = "open"
  PROVE  PartsInv'
  BY DEF PartsInv, Separate, NewMessage, Cached, Created

\* The message that Process takes up is in no witness.
LEMMA PartsLoad ==
  ASSUME TypeInv, PartsInv, NEW m \in Messages, Process_load(m)
  PROVE  PartsInv'
  <1> USE NoneIsNew DEF TypeInv, Fields, Witnesses, Goroutines
  <1>1. /\ m \notin seen /\ seen' = seen \cup {m} /\ msg' = m
        /\ wit' = [wit EXCEPT !["capture"] = cache[key[m]]]
        /\ cache' = [cache EXCEPT ![key[m]] = None]
        /\ UNCHANGED <<parts, flushed, stage>>
    BY DEF Process_load, witnesses
  <1>2. key[m] \in PairKeys /\ cache[key[m]] \in Messages \cup {None}
    OBVIOUS
  <1>3. Separate' /\ NewMessage'
    BY <1>1 DEF PartsInv, Separate, NewMessage
  <1>4. Cached'
    BY <1>1, <1>2 DEF PartsInv, Cached
  <1>5. cache[key[m]] # None => parts[cache[key[m]]] # {}
    <2>1. cache[key[m]] # None => cache[key[m]] \in parts[cache[key[m]]]
      BY <1>2 DEF PartsInv, Cached
    <2> QED BY <2>1
  <1>6. \A g \in Goroutines : wit'[g] = wit[g] \/ wit'[g] = cache[key[m]]
    BY <1>1
  <1>7. Created'
    BY <1>1, <1>5, <1>6 DEF PartsInv, Created
  <1> QED BY <1>3, <1>4, <1>7 DEF PartsInv

\* A new witness holds its own message, which no other witness does.
LEMMA PartsStore ==
  ASSUME TypeInv, PartsInv, Process_store
  PROVE  PartsInv'
  <1> USE NoneIsNew DEF TypeInv, Fields, Witnesses, Goroutines
  <1>1. /\ msg \in Messages /\ msg # None /\ wit["capture"] = None
        /\ parts' = [parts EXCEPT ![msg] = {msg}]
        /\ cache' = [cache EXCEPT ![key[msg]] = msg] /\ msg' = None
        /\ UNCHANGED <<flushed, wit, seen, stage>>
    BY DEF Process_store, At, Locals, Reporting, InBatcher
  <1>2. /\ parts[msg] = {} /\ msg \in seen
        /\ \A w \in Messages : msg \notin parts[w]
    BY <1>1 DEF PartsInv, NewMessage, Separate
  <1>3. parts'[msg] = {msg} /\ \A w \in Messages : w # msg => parts'[w] = parts[w]
    BY <1>1
  <1>4. Separate' /\ NewMessage'
    BY <1>1, <1>2, <1>3 DEF PartsInv, Separate, NewMessage
  <1>5. Cached'
    <2>1. \A k \in PairKeys : k # key[msg] => cache'[k] = cache[k] /\ cache[k] # msg
      BY <1>1, <1>2 DEF PartsInv, Cached
    <2>2. cache'[key[msg]] = msg
      BY <1>1
    <2> QED BY <1>1, <1>3, <2>1, <2>2 DEF PartsInv, Cached
  <1>6. \A w \in Messages : parts[w] # {} => parts'[w] # {}
    BY <1>3
  <1>7. Created'
    BY <1>1, <1>6 DEF PartsInv, Created
  <1> QED BY <1>4, <1>5, <1>7 DEF PartsInv

\* A message joins one witness, which has left the cache.
LEMMA PartsMerge ==
  ASSUME TypeInv, PartsInv, Process_merge
  PROVE  PartsInv'
  <1> USE NoneIsNew DEF TypeInv, Fields, Witnesses, Goroutines
  <1> DEFINE v == wit["capture"]
  <1>1. /\ msg \in Messages /\ msg # None /\ v \in Messages /\ v # None
        /\ stage = "open"
        /\ parts' = [parts EXCEPT ![v] = @ \cup {msg}] /\ msg' = None
        /\ UNCHANGED <<cache, flushed, wit, seen, stage>>
    BY DEF Process_merge, At, Locals, Places, Reporting, InBatcher, InReport, history
  <1>2. /\ v \in parts[v] /\ msg \in seen
        /\ \A w \in Messages : msg \notin parts[w]
    BY <1>1 DEF PartsInv, NewMessage, Separate, Created
  <1> HIDE DEF v
  <1>3. /\ parts'[v] = parts[v] \cup {msg}
        /\ \A w \in Messages : w # v => parts'[w] = parts[w]
    BY <1>1
  <1>4. Separate' /\ NewMessage'
    BY <1>1, <1>2, <1>3 DEF PartsInv, Separate, NewMessage
  <1>5. \A k \in PairKeys : cache[k] # v
    BY <1>1 DEF PartsInv, Cached, v
  <1>6. Cached'
    BY <1>1, <1>3, <1>5 DEF PartsInv, Cached
  <1>7. Created'
    BY <1>1, <1>3 DEF PartsInv, Created
  <1> QED BY <1>4, <1>6, <1>7 DEF PartsInv

\* What a worker has in hand may be flushed, and leaves its hands.
LEMMA PartsWork ==
  ASSUME TypeInv, PartsInv, NEW g \in Workers, queueUpload(g) \/ release(g)
  PROVE  PartsInv'
  <1> USE NoneIsNew DEF TypeInv, Fields, Witnesses, Goroutines, Workers
  <1>1. wit[g] \in Messages /\ wit[g] # None /\ parts[wit[g]] # {}
    BY DEF queueUpload, release, At, Locals, Reporting, PartsInv, Created
  <1>2. /\ flushed' = [flushed EXCEPT ![wit[g]] = TRUE] \/ flushed' = flushed
        /\ wit' = wit \/ wit' = [wit EXCEPT ![g] = None]
        /\ cache' = cache \/ cache' = [cache EXCEPT ![key[wit[g]]] = None]
        /\ UNCHANGED <<parts, msg, seen, stage>>
    BY DEF queueUpload, release, witnesses, history
  <1>3. Separate' /\ NewMessage'
    BY <1>2 DEF PartsInv, Separate, NewMessage
  <1>4. \A k \in PairKeys : cache'[k] \in {None, cache[k]}
    BY <1>2
  <1>5. \A h \in Goroutines : wit'[h] \in {None, wit[h]}
    BY <1>2
  <1>6. wit["capture"] # None => key[wit["capture"]] \in PairKeys
    OBVIOUS
  <1>7. Cached'
    BY <1>2, <1>4, <1>5, <1>6 DEF PartsInv, Cached
  <1>8. Created'
    BY <1>1, <1>2, <1>5 DEF PartsInv, Created
  <1> QED BY <1>3, <1>7, <1>8 DEF PartsInv

\* Close and the flusher take up only what Process has created.
LEMMA PartsVisit ==
  ASSUME TypeInv, PartsInv, NEW g \in Workers, NEW k \in PairKeys,
         flushPairCache_visit(g, k)
  PROVE  PartsInv'
  <1> USE NoneIsNew DEF TypeInv, Fields, Witnesses, Goroutines, Workers
  <1>1. /\ cache[k] # None /\ wit' = [wit EXCEPT ![g] = cache[k]]
        /\ UNCHANGED <<cache, parts, flushed, msg, seen, stage>>
    BY DEF flushPairCache_visit, witnesses, history
  <1>2. stage = "open" => wit'["capture"] = wit["capture"]
    BY <1>1 DEF flushPairCache_visit, At, Places, InReport, InBatcher
  <1>3. Separate' /\ NewMessage'
    BY <1>1 DEF PartsInv, Separate, NewMessage
  <1>4. Cached'
    BY <1>1, <1>2 DEF PartsInv, Cached
  <1>5. parts[cache[k]] # {}
    <2>1. cache[k] \in parts[cache[k]]
      BY <1>1 DEF PartsInv, Cached
    <2> QED BY <2>1
  <1>6. \A h \in Goroutines : wit'[h] = wit[h] \/ wit'[h] = cache[k]
    BY <1>1
  <1>7. Created'
    BY <1>1, <1>5, <1>6 DEF PartsInv, Created
  <1> QED BY <1>3, <1>4, <1>7 DEF PartsInv

\* Every step keeps each message in at most one witness.
LEMMA PartsNext == TypeInv /\ PartsInv /\ [Next]_vars => PartsInv'
  <1> SUFFICES ASSUME TypeInv, PartsInv, [Next]_vars PROVE PartsInv'
    OBVIOUS
  <1>1. CASE UNCHANGED vars
    BY <1>1, PartsFrame DEF vars
  <1>2. ASSUME NEW g \in Workers, witnessMutex_Lock(g) \/ addWitness(g)
        PROVE  PartsInv'
    BY <1>2, PartsFrame DEF witnessMutex_Lock, addWitness, witnesses, history
  <1>3. ASSUME NEW g \in Workers, NEW k \in PairKeys, flushPairCache_pass(g, k)
        PROVE  PartsInv'
    BY <1>3, PartsFrame DEF flushPairCache_pass, witnesses, history
  <1>4. ASSUME NEW g \in Goroutines, Flush(g) \/ Flush_await(g) PROVE PartsInv'
    BY <1>4, PartsFrame DEF Flush, Flush_await, witnesses, history
  <1>5. ASSUME NEW c \in Conns, processConnection(c) PROVE PartsInv'
    BY <1>5, PartsFrame DEF processConnection, witnesses
  <1>6. ASSUME NEW b \in Buffers, Upload(b) PROVE PartsInv'
    BY <1>6, PartsFrame DEF Upload, witnesses, history
  <1>7. CASE \/ ticker_flush
             \/ periodicFlush_tick \/ periodicFlush_stop \/ periodicFlush_end
             \/ Close_begin \/ Close_batch \/ Close_return
    BY <1>7, PartsFrame
    DEF ticker_flush, periodicFlush_tick, periodicFlush_stop, periodicFlush_end,
        Close_begin, Close_batch, Close_return, witnesses, history
  <1> QED BY StepCases, <1>1, <1>2, <1>3, <1>4, <1>5, <1>6, <1>7, PartsLoad,
             PartsStore, PartsMerge, PartsWork, PartsVisit

(***************************************************************************)
(* One goroutine at a time works on a witness.                             *)
(***************************************************************************)
\* A goroutine has a witness's mutex from the lock to the release.
Holds(g, w) == wit[g] = w /\ pc[g] # "lock"

MutexInv ==
  \A w \in Witnesses, g \in Goroutines : mutex[w] = g <=> Holds(g, w)

\* No mutex is held at the start.
LEMMA MutexInit == Init => MutexInv
  BY NoneIsNew DEF Init, MutexInv, Holds, Goroutines, Witnesses

\* Steps of a goroutine that keeps its witness, or has none.
LEMMA MutexFrame ==
  ASSUME TypeInv, MutexInv, UNCHANGED <<mutex, wit>>,
         \A g \in Goroutines : wit[g] # None => (pc'[g] = "lock" <=> pc[g] = "lock")
  PROVE  MutexInv'
  BY NoneIsNew DEF MutexInv, Holds, Witnesses

\* Every step keeps a mutex with the goroutine that has locked it.
LEMMA MutexNext == TypeInv /\ MutexInv /\ [Next]_vars => MutexInv'
  <1> SUFFICES ASSUME TypeInv, MutexInv, [Next]_vars PROVE MutexInv'
    OBVIOUS
  <1> USE NoneIsNew
  <1>1. ASSUME UNCHANGED <<mutex, wit, pc>> PROVE MutexInv'
    BY <1>1, MutexFrame
  <1>2. ASSUME NEW g \in Goroutines, NEW l \in PCs, pc' = [pc EXCEPT ![g] = l],
               UNCHANGED <<mutex, wit>>,
               wit[g] # None => pc[g] # "lock" /\ l # "lock"
        PROVE  MutexInv'
    BY <1>2, MutexFrame DEF TypeInv, Fields
  <1>3. ASSUME NEW m \in Messages, Process_load(m) PROVE MutexInv'
    <2>1. /\ wit["capture"] = None
          /\ wit' = [wit EXCEPT !["capture"] = cache[key[m]]]
          /\ pc' = [pc EXCEPT !["capture"] = IF cache[key[m]] = None
                                             THEN "store" ELSE "lock"]
          /\ mutex' = mutex
      BY <1>3 DEF Process_load, At, Goto, TypeInv, Locals, Reporting, Goroutines, InBatcher
    <2> QED
      BY <2>1 DEF MutexInv, Holds, TypeInv, Fields, Goroutines, Witnesses
  <1>4. CASE Process_store \/ Process_merge
    <2>1. /\ pc["capture"] \in {"store", "merge"} /\ UNCHANGED <<mutex, wit>>
          /\ \E l \in {"idle", "queue"} : pc' = [pc EXCEPT !["capture"] = l]
      BY <1>4 DEF Process_store, Process_merge, At, Goto
    <2> QED BY <2>1, <1>2 DEF Goroutines, PCs
  <1>5. ASSUME NEW g \in Workers, witnessMutex_Lock(g) PROVE MutexInv'
    <2>1. /\ pc[g] = "lock" /\ mutex[wit[g]] = None
          /\ mutex' = [mutex EXCEPT ![wit[g]] = g] /\ wit' = wit
          /\ \E l \in {"merge", "queue"} : pc' = [pc EXCEPT ![g] = l]
      BY <1>5 DEF witnessMutex_Lock, At, Goto
    <2>2. g \in Goroutines /\ wit[g] \in Witnesses
      BY <2>1 DEF Workers, Goroutines, TypeInv, Fields, Locals, Reporting
    <2>3. /\ pc'[g] # "lock" /\ mutex'[wit[g]] = g
          /\ \A h \in Goroutines : h # g => pc'[h] = pc[h]
          /\ \A w \in Witnesses : w # wit[g] => mutex'[w] = mutex[w]
      BY <2>1, <2>2 DEF TypeInv, Fields
    <2> QED BY <2>1, <2>2, <2>3 DEF MutexInv, Holds
  <1>6. ASSUME NEW g \in Workers, queueUpload(g) PROVE MutexInv'
    <2>1. /\ pc[g] = "queue" /\ UNCHANGED <<mutex, wit>>
          /\ \E l \in {"add", "release"} : pc' = [pc EXCEPT ![g] = l]
      BY <1>6 DEF queueUpload, At, Goto
    <2> QED BY <2>1, <1>2 DEF Workers, Goroutines, PCs
  <1>7. ASSUME NEW g \in Workers, release(g) PROVE MutexInv'
    <2>1. /\ pc[g] = "release"
          /\ mutex' = [mutex EXCEPT ![wit[g]] = None]
          /\ wit' = [wit EXCEPT ![g] = None]
          /\ \E l \in {"idle", "range"} : pc' = [pc EXCEPT ![g] = l]
      BY <1>7 DEF release, At, Goto
    <2>2. g \in Goroutines /\ wit[g] \in Witnesses
      BY <2>1 DEF Workers, Goroutines, TypeInv, Fields, Locals, Reporting
    <2>3. mutex[wit[g]] = g
      BY <2>1, <2>2 DEF MutexInv, Holds
    <2>4. /\ wit'[g] = None /\ mutex'[wit[g]] = None
          /\ \A h \in Goroutines : h # g => pc'[h] = pc[h] /\ wit'[h] = wit[h]
          /\ \A w \in Witnesses : w # wit[g] => mutex'[w] = mutex[w]
      BY <2>1, <2>2 DEF TypeInv, Fields
    <2> QED BY <2>1, <2>2, <2>3, <2>4 DEF MutexInv, Holds, Witnesses
  <1>8. ASSUME NEW g \in Workers, addWitness(g) PROVE MutexInv'
    <2>1. /\ pc[g] = "add" /\ UNCHANGED <<mutex, wit>>
          /\ \E l \in {"flush", "release"} : pc' = [pc EXCEPT ![g] = l]
      BY <1>8 DEF addWitness, AfterAdd, At, Goto
    <2> QED BY <2>1, <1>2 DEF Workers, Goroutines, PCs
  <1>9. ASSUME NEW g \in Workers, NEW k \in PairKeys, flushPairCache_visit(g, k)
        PROVE  MutexInv'
    <2>1. /\ wit[g] = None /\ mutex' = mutex /\ g \in Goroutines
          /\ wit' = [wit EXCEPT ![g] = cache[k]]
          /\ pc' = [pc EXCEPT ![g] = "lock"]
      BY <1>9 DEF flushPairCache_visit, At, Goto, TypeInv, Locals, Reporting,
                  Workers, Goroutines, InBatcher
    <2> QED BY <2>1 DEF MutexInv, Holds, TypeInv, Fields, Witnesses
  <1>10. ASSUME NEW g \in Workers, NEW k \in PairKeys, flushPairCache_pass(g, k)
         PROVE  MutexInv'
    BY <1>1, <1>10 DEF flushPairCache_pass
  <1>11. ASSUME NEW g \in Goroutines, Flush(g) \/ Flush_await(g) PROVE MutexInv'
    <2>1. /\ pc[g] \in InBatcher /\ UNCHANGED <<mutex, wit>>
          /\ \E l \in {"await", "release", "idle", "closed"} :
               pc' = [pc EXCEPT ![g] = l]
      BY <1>11, AfterFlushIs DEF Flush, Flush_await, At, Goto, InBatcher
    <2> QED BY <2>1, <1>2 DEF InBatcher, PCs
  <1>12. ASSUME NEW c \in Conns, processConnection(c) PROVE MutexInv'
    <2>1. /\ pc["tracker"] = "idle" /\ UNCHANGED <<mutex, wit>>
          /\ \E l \in {"flush", "idle"} : pc' = [pc EXCEPT !["tracker"] = l]
      BY <1>12 DEF processConnection, AfterAdd, At, Goto
    <2> QED BY <2>1, <1>2 DEF Goroutines, PCs
  <1>13. ASSUME NEW b \in Buffers, Upload(b) PROVE MutexInv'
    BY <1>1, <1>13 DEF Upload
  <1>14. CASE \/ ticker_flush \/ periodicFlush_tick \/ periodicFlush_stop
              \/ periodicFlush_end \/ Close_begin \/ Close_batch
    <2>1. PICK g \in Goroutines :
            /\ pc[g] \in {"idle", "range"}
            /\ \E l \in {"flush", "range", "idle", "stopped"} :
                 pc' = [pc EXCEPT ![g] = l]
            /\ UNCHANGED <<mutex, wit>>
      BY <1>14 DEF ticker_flush, periodicFlush_tick, periodicFlush_stop,
                   periodicFlush_end, Close_begin, Close_batch, At, Goto, Goroutines
    <2> QED BY <2>1, <1>2 DEF PCs
  <1>15. CASE Close_return \/ UNCHANGED vars
    BY <1>1, <1>15 DEF Close_return, vars
  <1> QED BY StepCases, <1>3, <1>4, <1>5, <1>6, <1>7, <1>8, <1>9, <1>10, <1>11,
             <1>12, <1>13, <1>14, <1>15

\* Two goroutines do not work on one witness at the same time.
LEMMA MutualExclusion ==
  ASSUME MutexInv, NEW w \in Witnesses, NEW g \in Goroutines,
         NEW h \in Goroutines, Holds(g, w), Holds(h, w)
  PROVE  g = h
  BY DEF MutexInv

(***************************************************************************)
(* What is reported has been redacted.                                     *)
(***************************************************************************)
\* A witness that is about to be added has been redacted as it is, and has not
\* been flushed.
ReadyToAdd ==
  \A g \in Goroutines : pc[g] = "add" =>
    redacted[wit[g]] = parts[wit[g]] /\ ~flushed[wit[g]]

RedactInv == ReadyToAdd /\ ReportedRedacted

\* There are no reports at the start.
LEMMA RedactInit == Init => RedactInv
  BY DEF Init, RedactInv, ReadyToAdd, ReportedRedacted

\* Steps that touch no witness that is about to be added, and no report.
LEMMA RedactFrame ==
  ASSUME RedactInv, UNCHANGED content,
         \A g \in Goroutines : pc'[g] = "add" =>
           /\ pc[g] = "add" /\ wit'[g] = wit[g]
           /\ parts'[wit[g]] = parts[wit[g]]
           /\ redacted'[wit[g]] = redacted[wit[g]]
           /\ flushed'[wit[g]] = flushed[wit[g]]
  PROVE  RedactInv'
  BY DEF RedactInv, ReadyToAdd, ReportedRedacted

\* No witness but the one in hand is touched, and nobody else is about to add
\* the one in hand.
LEMMA RedactWork ==
  ASSUME TypeInv, MutexInv, RedactInv, UNCHANGED content,
         NEW g \in Workers, pc[g] \in {"merge", "queue", "release"},
         NEW l \in PCs, l # "add", pc' = [pc EXCEPT ![g] = l],
         \A h \in Goroutines : h # g => wit'[h] = wit[h],
         \A w \in Witnesses : w # wit[g] =>
           /\ parts'[w] = parts[w] /\ redacted'[w] = redacted[w]
           /\ flushed'[w] = flushed[w]
  PROVE  RedactInv'
  <1>1. g \in Goroutines /\ Holds(g, wit[g])
    BY DEF Workers, Goroutines, Holds
  <1>2. ASSUME NEW h \in Goroutines, pc'[h] = "add"
        PROVE  pc[h] = "add" /\ h # g /\ wit[h] # wit[g] /\ wit[h] \in Witnesses
    <2>1. pc[h] = "add" /\ h # g
      BY <1>1, <1>2 DEF TypeInv, Fields
    <2>2. wit[h] \in Witnesses /\ Holds(h, wit[h])
      BY <2>1 DEF TypeInv, Fields, Locals, Reporting, Holds
    <2>3. wit[h] # wit[g]
      BY <1>1, <2>1, <2>2, MutualExclusion
    <2> QED BY <2>1, <2>2, <2>3
  <1> QED BY <1>2, RedactFrame

\* Every step keeps what is about to be added redacted as it is.
LEMMA RedactNext ==
  TypeInv /\ BatchInv /\ PartsInv /\ MutexInv /\ RedactInv /\ [Next]_vars => RedactInv'
  <1> SUFFICES ASSUME TypeInv, BatchInv, PartsInv, MutexInv, RedactInv, [Next]_vars
      PROVE  RedactInv'
    OBVIOUS
  <1> USE NoneIsNew
  <1>1. ASSUME UNCHANGED <<witnesses, content>>,
               NEW g \in Goroutines, NEW l \in PCs, l # "add",
               pc' = [pc EXCEPT ![g] = l],
               \A h \in Goroutines : h # g => wit'[h] = wit[h]
        PROVE  RedactInv'
    BY <1>1, RedactFrame DEF witnesses, TypeInv, Fields
  <1>2. ASSUME UNCHANGED <<witnesses, content, pc, wit>> PROVE RedactInv'
    BY <1>2, RedactFrame DEF witnesses
  <1>3. ASSUME NEW m \in Messages, Process_load(m) PROVE RedactInv'
    <2>1. /\ UNCHANGED <<witnesses, content>>
          /\ \E l \in {"store", "lock"} : pc' = [pc EXCEPT !["capture"] = l]
          /\ \A h \in Goroutines : h # "capture" => wit'[h] = wit[h]
      BY <1>3 DEF Process_load, Goto, batcher, TypeInv, Fields
    <2> QED BY <1>1, <2>1 DEF Goroutines, PCs
  <1>4. CASE Process_store
    <2>1. /\ msg # None /\ msg \in Messages /\ parts' = [parts EXCEPT ![msg] = {msg}]
          /\ UNCHANGED <<redacted, flushed, wit, content>>
          /\ pc' = [pc EXCEPT !["capture"] = "idle"]
      BY <1>4 DEF Process_store, At, Goto, batcher, TypeInv, Fields, Locals
    <2>2. parts[msg] = {}
      BY <2>1 DEF PartsInv, NewMessage, Separate, Witnesses
    <2>3. ASSUME NEW h \in Goroutines, pc'[h] = "add"
          PROVE  pc[h] = "add" /\ wit[h] # msg /\ wit[h] \in Witnesses
      <3>1. pc[h] = "add"
        BY <2>1, <2>3 DEF TypeInv, Fields
      <3>2. wit[h] \in Witnesses /\ parts[wit[h]] # {}
        BY <3>1 DEF TypeInv, Fields, Locals, Reporting, PartsInv, Created
      <3> QED BY <2>2, <3>1, <3>2
    <2> QED BY <2>1, <2>3, RedactFrame DEF TypeInv, Fields
  <1>5. CASE Process_merge
    <2>1. /\ "capture" \in Workers /\ pc["capture"] = "merge" /\ "queue" \in PCs
          /\ pc' = [pc EXCEPT !["capture"] = "queue"]
          /\ UNCHANGED <<redacted, flushed, wit, content>>
      BY <1>5 DEF Process_merge, At, Goto, Workers, PCs, batcher
    <2>2. \A w \in Witnesses : w # wit["capture"] => parts'[w] = parts[w]
      BY <1>5 DEF Process_merge, TypeInv, Fields
    <2> QED BY <2>1, <2>2, RedactWork
  <1>6. ASSUME NEW g \in Workers, witnessMutex_Lock(g) PROVE RedactInv'
    <2>1. /\ g \in Goroutines /\ UNCHANGED <<witnesses, content, wit>>
          /\ \E l \in {"merge", "queue"} : pc' = [pc EXCEPT ![g] = l]
      BY <1>6 DEF witnessMutex_Lock, Goto, batcher, Workers, Goroutines
    <2> QED BY <1>1, <2>1 DEF PCs
  <1>7. ASSUME NEW g \in Workers, queueUpload(g) PROVE RedactInv'
    <2> DEFINE w == wit[g]
    <2>1. /\ pc[g] = "queue" /\ g \in Goroutines /\ w \in Witnesses
          /\ UNCHANGED <<parts, wit, content>>
      BY <1>7 DEF queueUpload, At, batcher, TypeInv, Fields, Locals, Reporting,
                  Workers, Goroutines
    <2>2. \A v \in Witnesses : v # w => redacted'[v] = redacted[v] /\ flushed'[v] = flushed[v]
      BY <1>7, <2>1 DEF queueUpload, TypeInv, Fields
    <2>3. CASE pc' = [pc EXCEPT ![g] = "release"]
      BY <2>1, <2>2, <2>3, RedactWork DEF PCs
    <2>4. CASE /\ ~flushed[w] /\ redacted' = [redacted EXCEPT ![w] = parts[w]]
               /\ pc' = [pc EXCEPT ![g] = "add"] /\ UNCHANGED flushed
      <3>1. /\ Holds(g, w) /\ redacted'[w] = parts'[w] /\ ~flushed'[w]
        BY <2>1, <2>4 DEF Holds, TypeInv, Fields
      <3>2. ASSUME NEW h \in Goroutines, h # g, pc'[h] = "add"
            PROVE  redacted'[wit[h]] = parts'[wit[h]] /\ ~flushed'[wit[h]]
        <4>1. pc[h] = "add"
          BY <2>4, <3>2 DEF TypeInv, Fields
        <4>2. wit[h] \in Witnesses /\ Holds(h, wit[h])
          BY <4>1 DEF TypeInv, Fields, Locals, Reporting, Holds
        <4>3. wit[h] # w
          BY <2>1, <3>1, <3>2, <4>2, MutualExclusion
        <4> QED BY <2>1, <2>2, <4>1, <4>2, <4>3 DEF RedactInv, ReadyToAdd
      <3>3. ReadyToAdd'
        BY <2>1, <3>1, <3>2 DEF ReadyToAdd
      <3>4. ReportedRedacted'
        BY <2>1 DEF RedactInv, ReportedRedacted
      <3> QED BY <3>3, <3>4 DEF RedactInv
    <2> QED BY <1>7, <2>3, <2>4 DEF queueUpload, Goto
  <1>8. ASSUME NEW g \in Workers, release(g) PROVE RedactInv'
    <2>1. /\ pc[g] = "release" /\ UNCHANGED <<parts, redacted, content>>
          /\ \E l \in {"idle", "range"} : pc' = [pc EXCEPT ![g] = l]
          /\ \A h \in Goroutines : h # g => wit'[h] = wit[h]
          /\ \A v \in Witnesses : v # wit[g] => flushed'[v] = flushed[v]
      BY <1>8 DEF release, At, Goto, batcher, TypeInv, Fields
    <2> QED BY <2>1, RedactWork DEF PCs
  <1>9. ASSUME NEW g \in Workers, addWitness(g) PROVE RedactInv'
    <2> DEFINE w == wit[g]
    <2>1. /\ pc[g] = "add" /\ g \in Goroutines /\ batch = None
          /\ UNCHANGED <<witnesses, wit>>
          /\ \E l \in {"flush", "release"} : pc' = [pc EXCEPT ![g] = l]
          /\ \/ content' = [content EXCEPT ![active] = @ \cup {Report(w)}]
             \/ UNCHANGED content
      BY <1>9 DEF addWitness, AfterAdd, At, Goto, Workers, Goroutines
    <2>2. active \in Buffers
      BY <2>1, ActiveIsThere
    <2>3. Report(w).parts \subseteq Report(w).redacted
      BY <2>1 DEF RedactInv, ReadyToAdd, Report
    <2>4. \A b \in Buffers : content'[b] \subseteq content[b] \cup {Report(w)}
      BY <2>1, <2>2 DEF TypeInv, Fields
    <2>5. ReportedRedacted'
      BY <2>3, <2>4 DEF RedactInv, ReportedRedacted
    <2>6. \A h \in Goroutines : pc'[h] = "add" => pc[h] = "add"
      BY <2>1 DEF TypeInv, Fields
    <2>7. ReadyToAdd'
      BY <2>1, <2>6 DEF RedactInv, ReadyToAdd, witnesses
    <2> QED BY <2>5, <2>7 DEF RedactInv
  <1>10. ASSUME NEW c \in Conns, processConnection(c) PROVE RedactInv'
    <2>1. /\ batch = None /\ UNCHANGED <<witnesses, wit>>
          /\ \E l \in {"flush", "idle"} : pc' = [pc EXCEPT !["tracker"] = l]
          /\ content' = [content EXCEPT ![active] = @ \cup {ConnReport(c)}]
      BY <1>10 DEF processConnection, AfterAdd, Goto
    <2>2. active \in Buffers
      BY <2>1, ActiveIsThere
    <2>3. ConnReport(c).parts \subseteq ConnReport(c).redacted
      BY DEF ConnReport
    <2>4. \A b \in Buffers : content'[b] \subseteq content[b] \cup {ConnReport(c)}
      BY <2>1, <2>2 DEF TypeInv, Fields
    <2>5. ReportedRedacted'
      BY <2>3, <2>4 DEF RedactInv, ReportedRedacted
    <2>6. \A h \in Goroutines : pc'[h] = "add" => pc[h] = "add"
      BY <2>1 DEF TypeInv, Fields
    <2>7. ReadyToAdd'
      BY <2>1, <2>6 DEF RedactInv, ReadyToAdd, witnesses
    <2> QED BY <2>5, <2>7 DEF RedactInv
  <1>11. ASSUME NEW b \in Buffers, Upload(b) PROVE RedactInv'
    <2>1. /\ content' = [content EXCEPT ![b] = {}]
          /\ UNCHANGED <<witnesses, pc, wit>>
      BY <1>11 DEF Upload
    <2>2. \A d \in Buffers : content'[d] \subseteq content[d]
      BY <2>1 DEF TypeInv, Fields
    <2> QED BY <2>1, <2>2 DEF RedactInv, ReadyToAdd, ReportedRedacted, witnesses
  <1>12. ASSUME NEW g \in Goroutines, Flush(g) \/ Flush_await(g) PROVE RedactInv'
    <2>1. /\ UNCHANGED <<witnesses, content, wit>>
          /\ \E l \in {"await", "release", "idle", "closed"} :
               pc' = [pc EXCEPT ![g] = l]
      BY <1>12, AfterFlushIs DEF Flush, Flush_await, At, Goto, InBatcher
    <2> QED BY <1>1, <2>1 DEF PCs
  <1>13. ASSUME NEW g \in Workers, NEW k \in PairKeys, flushPairCache_visit(g, k)
         PROVE  RedactInv'
    <2>1. /\ UNCHANGED <<witnesses, content>> /\ g \in Goroutines
          /\ pc' = [pc EXCEPT ![g] = "lock"]
          /\ \A h \in Goroutines : h # g => wit'[h] = wit[h]
      BY <1>13 DEF flushPairCache_visit, Goto, batcher, Workers, Goroutines,
                   TypeInv, Fields
    <2> QED BY <1>1, <2>1 DEF PCs
  <1>14. ASSUME NEW g \in Workers, NEW k \in PairKeys, flushPairCache_pass(g, k)
         PROVE  RedactInv'
    BY <1>2, <1>14 DEF flushPairCache_pass, batcher
  <1>15. CASE \/ ticker_flush \/ periodicFlush_tick \/ periodicFlush_stop
              \/ periodicFlush_end \/ Close_begin \/ Close_batch
    <2>1. PICK g \in Goroutines :
            /\ \E l \in {"flush", "range", "idle", "stopped"} :
                 pc' = [pc EXCEPT ![g] = l]
            /\ UNCHANGED <<witnesses, content, wit>>
      BY <1>15 DEF ticker_flush, periodicFlush_tick, periodicFlush_stop, batcher,
                   periodicFlush_end, Close_begin, Close_batch, Goto, Goroutines
    <2> QED BY <1>1, <2>1 DEF PCs
  <1>16. CASE Close_return \/ UNCHANGED vars
    BY <1>2, <1>16 DEF Close_return, vars, witnesses, batcher
  <1> QED BY StepCases, <1>3, <1>4, <1>5, <1>6, <1>7, <1>8, <1>9, <1>10, <1>11,
             <1>12, <1>13, <1>14, <1>15, <1>16

\* Nothing is put into a report that was not redacted: whoever takes a witness
\* from pairCache, no message joins it between queueUpload and addWitness.
THEOREM ReportedRedactedTheorem == Spec => []ReportedRedacted
  <1>1. RedactInv => ReportedRedacted
    BY DEF RedactInv
  <1> QED BY <1>1, TypeInit, TypeNext, BatchInit, BatchNext, PartsInit, PartsNext,
             MutexInit, MutexNext, RedactInit, RedactNext, PTL DEF Spec

(***************************************************************************)
(* A message is reported once.                                             *)
(***************************************************************************)
\* The places from which a witness is not added any more.
Added == {"flush", "await", "release"}

\* What holds a witness back from being reported again.
Done(w) ==
  flushed[w] \/ \E g \in Goroutines : wit[g] = w /\ pc[g] \in Added

OnceInv ==
  \A m \in Messages : copies[m] # 0 =>
    copies[m] = 1 /\ \E w \in Witnesses : m \in parts[w] /\ Done(w)

\* Nothing has been reported at the start.
LEMMA OnceInit == Init => OnceInv
  BY DEF Init, OnceInv

\* Witnesses grow, and stay done.
LEMMA OnceFrame ==
  ASSUME TypeInv, OnceInv, UNCHANGED copies,
         \A w \in Witnesses :
           parts[w] \subseteq parts'[w] /\ (flushed[w] => flushed'[w]),
         \A g \in Goroutines : wit[g] # None /\ pc[g] \in Added =>
           \/ flushed'[wit[g]]
           \/ pc'[g] \in Added /\ wit'[g] = wit[g]
  PROVE  OnceInv'
  <1>1. ASSUME NEW w \in Witnesses, Done(w) PROVE Done(w)'
    BY <1>1, NoneIsNew DEF Done, Witnesses
  <1>2. \A w \in Witnesses : parts[w] \subseteq parts'[w]
    OBVIOUS
  <1> QED BY <1>1, <1>2 DEF OnceInv

\* The messages of the witness that is added have not been reported: they are
\* in no other witness, and this one is not done.
LEMMA OnceAdd ==
  ASSUME TypeInv, PartsInv, MutexInv, RedactInv, OnceInv,
         NEW g \in Workers, addWitness(g)
  PROVE  OnceInv'
  <1> DEFINE w == wit[g]
  <1>1. /\ pc[g] = "add" /\ g \in Goroutines /\ w \in Witnesses /\ Holds(g, w)
        /\ UNCHANGED <<witnesses, wit>>
        /\ \E l \in {"flush", "release"} : pc' = [pc EXCEPT ![g] = l]
        /\ \/ copies' = [m \in Messages |-> IF m \in parts[w]
                                            THEN copies[m] + 1 ELSE copies[m]]
           \/ UNCHANGED copies
    BY DEF addWitness, AfterAdd, At, Goto, Workers, Goroutines, TypeInv, Fields,
           Locals, Reporting, Holds
  <1>2. ~Done(w)
    <2>1. ~flushed[w]
      BY <1>1 DEF RedactInv, ReadyToAdd
    <2>2. ASSUME NEW h \in Goroutines, wit[h] = w, pc[h] \in Added PROVE FALSE
      <3>1. Holds(h, w)
        BY <2>2 DEF Holds, Added
      <3>2. h = g
        BY <1>1, <3>1, MutualExclusion
      <3> QED BY <1>1, <2>2, <3>2 DEF Added
    <2> QED BY <2>1, <2>2 DEF Done
  <1>3. \A m \in parts[w] : copies[m] = 0
    <2>1. ASSUME NEW m \in parts[w], NEW v \in Witnesses, m \in parts[v], Done(v)
          PROVE  FALSE
      BY <1>1, <1>2, <2>1 DEF PartsInv, Separate
    <2>2. parts[w] \subseteq Messages
      BY <1>1 DEF TypeInv, Fields
    <2> QED BY <2>1, <2>2 DEF OnceInv
  <1>4. pc'[g] \in Added /\ \A h \in Goroutines : h # g => pc'[h] = pc[h]
    BY <1>1 DEF TypeInv, Fields, Added
  <1>5. Done(w)' /\ \A v \in Witnesses : Done(v) => Done(v)'
    BY <1>1, <1>4 DEF Done, witnesses
  <1>6. ASSUME NEW m \in Messages, copies'[m] # 0
        PROVE  copies'[m] = 1 /\ \E v \in Witnesses : m \in parts'[v] /\ Done(v)'
    <2>1. CASE m \in parts[w] /\ copies' # copies
      <3>1. copies'[m] = 1
        BY <1>1, <1>3, <2>1
      <3> QED BY <1>1, <1>5, <2>1, <3>1 DEF witnesses
    <2>2. CASE m \notin parts[w] \/ copies' = copies
      <3>1. copies'[m] = copies[m]
        BY <1>1, <2>2 DEF TypeInv, Fields
      <3> QED BY <1>1, <1>5, <1>6, <3>1 DEF OnceInv, witnesses
    <2> QED BY <2>1, <2>2
  <1> QED BY <1>6 DEF OnceInv

\* Every step keeps a message that is reported in a witness that is done.
LEMMA OnceNext ==
  TypeInv /\ PartsInv /\ MutexInv /\ RedactInv /\ OnceInv /\ [Next]_vars => OnceInv'
  <1> SUFFICES ASSUME TypeInv, PartsInv, MutexInv, RedactInv, OnceInv, [Next]_vars
      PROVE  OnceInv'
    OBVIOUS
  <1> USE NoneIsNew
  <1>1. ASSUME UNCHANGED <<witnesses, copies>>,
               NEW g \in Goroutines, NEW l \in PCs, pc' = [pc EXCEPT ![g] = l],
               wit[g] # None /\ pc[g] \in Added => l \in Added,
               \A h \in Goroutines : wit[h] # None => wit'[h] = wit[h]
        PROVE  OnceInv'
    BY <1>1, OnceFrame DEF witnesses, TypeInv, Fields
  <1>2. ASSUME UNCHANGED <<witnesses, copies, pc, wit>> PROVE OnceInv'
    BY <1>2, OnceFrame DEF witnesses
  <1>3. ASSUME NEW m \in Messages, Process_load(m) PROVE OnceInv'
    <2>1. /\ UNCHANGED <<witnesses, copies>> /\ wit["capture"] = None
          /\ \E l \in {"store", "lock"} : pc' = [pc EXCEPT !["capture"] = l]
          /\ \A h \in Goroutines : h # "capture" => wit'[h] = wit[h]
      BY <1>3 DEF Process_load, At, Goto, TypeInv, Fields, Locals, Reporting,
                  Goroutines, InBatcher
    <2> QED BY <1>1, <2>1 DEF Goroutines, PCs
  <1>4. CASE Process_store \/ Process_merge
    <2>1. /\ pc["capture"] \in {"store", "merge"}
          /\ \E l \in {"idle", "queue"} : pc' = [pc EXCEPT !["capture"] = l]
          /\ UNCHANGED <<flushed, wit, copies>>
      BY <1>4 DEF Process_store, Process_merge, At, Goto, history
    <2>2. \A w \in Witnesses : parts[w] \subseteq parts'[w]
      <3>1. CASE Process_store
        <4>1. msg \in Messages /\ parts[msg] = {}
          BY <3>1 DEF Process_store, At, TypeInv, Fields, Locals, PartsInv,
                      NewMessage, Separate, Witnesses
        <4> QED BY <3>1, <4>1 DEF Process_store, TypeInv, Fields
      <3>2. CASE Process_merge
        BY <3>2 DEF Process_merge, TypeInv, Fields
      <3> QED BY <1>4, <3>1, <3>2
    <2>3. \A h \in Goroutines : pc[h] \in Added => pc'[h] = pc[h]
      BY <2>1 DEF Added, TypeInv, Fields
    <2> QED BY <2>1, <2>2, <2>3, OnceFrame
  <1>5. ASSUME NEW g \in Workers, witnessMutex_Lock(g) PROVE OnceInv'
    <2>1. /\ g \in Goroutines /\ UNCHANGED <<witnesses, copies, wit>>
          /\ pc[g] = "lock"
          /\ \E l \in {"merge", "queue"} : pc' = [pc EXCEPT ![g] = l]
      BY <1>5 DEF witnessMutex_Lock, At, Goto, history, Workers, Goroutines
    <2> QED BY <1>1, <2>1 DEF PCs, Added
  <1>6. ASSUME NEW g \in Workers, queueUpload(g) PROVE OnceInv'
    <2>1. /\ pc[g] = "queue" /\ g \in Goroutines /\ wit[g] \in Witnesses
          /\ \E l \in {"add", "release"} : pc' = [pc EXCEPT ![g] = l]
          /\ UNCHANGED <<parts, wit, copies>>
          /\ flushed' = flushed \/ flushed' = [flushed EXCEPT ![wit[g]] = TRUE]
      BY <1>6 DEF queueUpload, At, Goto, Workers, Goroutines, TypeInv, Fields,
                  Locals, Reporting
    <2>2. \A w \in Witnesses : flushed[w] => flushed'[w]
      BY <2>1 DEF TypeInv, Fields
    <2>3. \A h \in Goroutines : pc[h] \in Added => pc'[h] = pc[h]
      BY <2>1 DEF Added, TypeInv, Fields
    <2> QED BY <2>1, <2>2, <2>3, OnceFrame
  <1>7. ASSUME NEW g \in Workers, release(g) PROVE OnceInv'
    <2>1. /\ g \in Goroutines /\ wit[g] \in Witnesses
          /\ \E l \in {"idle", "range"} : pc' = [pc EXCEPT ![g] = l]
          /\ wit' = [wit EXCEPT ![g] = None]
          /\ flushed' = [flushed EXCEPT ![wit[g]] = TRUE]
          /\ UNCHANGED <<parts, copies>>
      BY <1>7 DEF release, At, Goto, history, Workers, Goroutines, TypeInv,
                  Fields, Locals, Reporting
    <2>2. flushed'[wit[g]] /\ \A w \in Witnesses : flushed[w] => flushed'[w]
      BY <2>1 DEF TypeInv, Fields
    <2>3. \A h \in Goroutines : h # g => pc'[h] = pc[h] /\ wit'[h] = wit[h]
      BY <2>1 DEF TypeInv, Fields
    <2> QED BY <2>1, <2>2, <2>3, OnceFrame
  <1>8. ASSUME NEW g \in Goroutines, Flush(g) \/ Flush_await(g) PROVE OnceInv'
    <2>1. /\ UNCHANGED <<witnesses, copies, wit>>
          /\ \E l \in {"await", "release", "idle", "closed"} :
               pc' = [pc EXCEPT ![g] = l] /\ (wit[g] # None => l \in Added)
      BY <1>8, AfterFlushIs DEF Flush, Flush_await, At, Goto, InBatcher, Added,
                                history
    <2> QED BY <1>1, <2>1 DEF PCs
  <1>9. ASSUME NEW c \in Conns, processConnection(c) PROVE OnceInv'
    <2>1. /\ UNCHANGED <<witnesses, copies, wit>> /\ pc["tracker"] = "idle"
          /\ \E l \in {"flush", "idle"} : pc' = [pc EXCEPT !["tracker"] = l]
      BY <1>9 DEF processConnection, AfterAdd, At, Goto
    <2> QED BY <1>1, <2>1 DEF Goroutines, PCs, Added
  <1>10. ASSUME NEW b \in Buffers, Upload(b) PROVE OnceInv'
    BY <1>2, <1>10 DEF Upload, history
  <1>11. ASSUME NEW g \in Workers, NEW k \in PairKeys, flushPairCache_visit(g, k)
         PROVE  OnceInv'
    <2>1. /\ UNCHANGED <<witnesses, copies>> /\ g \in Goroutines /\ wit[g] = None
          /\ pc' = [pc EXCEPT ![g] = "lock"]
          /\ \A h \in Goroutines : h # g => wit'[h] = wit[h]
      BY <1>11 DEF flushPairCache_visit, At, Goto, history, Workers, Goroutines,
                   TypeInv, Fields, Locals, Reporting, InBatcher
    <2> QED BY <1>1, <2>1 DEF PCs
  <1>12. ASSUME NEW g \in Workers, NEW k \in PairKeys, flushPairCache_pass(g, k)
         PROVE  OnceInv'
    BY <1>2, <1>12 DEF flushPairCache_pass, history
  <1>13. CASE \/ ticker_flush \/ periodicFlush_tick \/ periodicFlush_stop
              \/ periodicFlush_end \/ Close_begin \/ Close_batch
    <2>1. PICK g \in Goroutines :
            /\ pc[g] \in {"idle", "range"}
            /\ \E l \in {"flush", "range", "idle", "stopped"} :
                 pc' = [pc EXCEPT ![g] = l]
            /\ UNCHANGED <<witnesses, copies, wit>>
      BY <1>13 DEF ticker_flush, periodicFlush_tick, periodicFlush_stop, history,
                   periodicFlush_end, Close_begin, Close_batch, At, Goto, Goroutines
    <2> QED BY <1>1, <2>1 DEF PCs, Added
  <1>14. CASE Close_return \/ UNCHANGED vars
    BY <1>2, <1>14 DEF Close_return, vars, witnesses, history
  <1> QED BY StepCases, <1>3, <1>4, <1>5, <1>6, <1>7, <1>8, <1>9, <1>10, <1>11,
             <1>12, <1>13, <1>14, OnceAdd

(***************************************************************************)
(* No message is lost.                                                     *)
(***************************************************************************)
\* What each step on a witness does to the maps, entry by entry.
LEMMA LoadDoes ==
  ASSUME TypeInv, NEW m \in Messages, Process_load(m)
  PROVE  /\ stage = "open" /\ stage' = "open" /\ todo' = todo
         /\ pc["capture"] = "idle" /\ pc'["capture"] \in {"store", "lock"}
         /\ pc'["capture"] = "store" <=> cache[key[m]] = None
         /\ \A h \in Goroutines : h # "capture" => pc'[h] = pc[h] /\ wit'[h] = wit[h]
         /\ wit["capture"] = None /\ wit'["capture"] = cache[key[m]]
         /\ key[m] \in PairKeys /\ cache'[key[m]] = None
         /\ \A k \in PairKeys : k # key[m] => cache'[k] = cache[k]
         /\ msg = None /\ msg' = m /\ m \notin seen /\ seen' = seen \cup {m}
         /\ late' = IF InHand(key[m]) THEN late \cup {m} ELSE late
         /\ UNCHANGED <<parts, flushed, dropped, copies>>
  BY NoneIsNew
  DEF Process_load, At, Goto, witnesses, TypeInv, Fields, Locals, Reporting,
      Goroutines, Witnesses, InBatcher

\* Process_store puts a witness of the one message into the cache.
LEMMA StoreDoes ==
  ASSUME TypeInv, PartsInv, Process_store
  PROVE  /\ stage = "open" /\ stage' = "open" /\ todo' = todo
         /\ pc["capture"] = "store" /\ pc'["capture"] = "idle"
         /\ \A h \in Goroutines : h # "capture" => pc'[h] = pc[h]
         /\ wit["capture"] = None /\ wit' = wit
         /\ msg \in Messages /\ msg' = None /\ msg \in seen
         /\ parts[msg] = {} /\ parts'[msg] = {msg} /\ ~flushed[msg]
         /\ \A w \in Witnesses : w # msg => parts'[w] = parts[w]
         /\ key[msg] \in PairKeys /\ cache'[key[msg]] = msg
         /\ \A k \in PairKeys : k # key[msg] => cache'[k] = cache[k]
         /\ late' = IF InHand(key[msg]) THEN late \cup {msg} ELSE late
         /\ UNCHANGED <<flushed, seen, dropped, copies>>
  <1> USE NoneIsNew DEF TypeInv, Fields, Goroutines, Witnesses
  <1>1. /\ msg \in Messages /\ msg # None /\ wit["capture"] = None
        /\ pc["capture"] = "store" /\ stage = "open"
    BY DEF Process_store, At, Locals, Reporting, InBatcher, InReport, Places
  <1>2. /\ parts' = [parts EXCEPT ![msg] = {msg}]
        /\ cache' = [cache EXCEPT ![key[msg]] = msg] /\ msg' = None
        /\ pc' = [pc EXCEPT !["capture"] = "idle"]
        /\ late' = IF InHand(key[msg]) THEN late \cup {msg} ELSE late
        /\ UNCHANGED <<flushed, wit, seen, stage, todo, dropped, copies>>
    BY DEF Process_store, Goto
  <1>3. parts[msg] = {} /\ msg \in seen /\ ~flushed[msg]
    BY <1>1 DEF PartsInv, NewMessage, Separate, Created
  <1> QED BY <1>1, <1>2, <1>3

\* Process_merge adds the message to the witness that the capture goroutine has.
LEMMA MergeDoes ==
  ASSUME TypeInv, PartsInv, Process_merge
  PROVE  /\ stage = "open" /\ pc["capture"] = "merge" /\ pc'["capture"] = "queue"
         /\ \A h \in Goroutines : h # "capture" => pc'[h] = pc[h]
         /\ msg \in Messages /\ msg' = None
         /\ wit["capture"] \in Witnesses
         /\ parts'[wit["capture"]] = parts[wit["capture"]] \cup {msg}
         /\ \A w \in Witnesses : w # wit["capture"] => parts'[w] = parts[w]
         /\ UNCHANGED <<cache, flushed, wit, seen, stage, todo, dropped, copies, late>>
  BY NoneIsNew
  DEF Process_merge, At, Goto, TypeInv, Fields, Locals, Reporting, Places,
      InReport, InBatcher, Goroutines, Witnesses, history

\* What a release leaves behind.
Released(g) ==
  /\ g \in Goroutines /\ wit[g] \in Witnesses /\ wit[g] # None
  /\ pc[g] = "release" /\ pc'[g] \in {"idle", "range"}
  /\ \A h \in Goroutines : h # g => pc'[h] = pc[h] /\ wit'[h] = wit[h]
  /\ wit'[g] = None /\ flushed'[wit[g]] = TRUE
  /\ \A w \in Witnesses : w # wit[g] => flushed'[w] = flushed[w]
  /\ key[wit[g]] \in PairKeys /\ cache'[key[wit[g]]] # wit[g]
  /\ cache'[key[wit[g]]] \in {None, cache[key[wit[g]]]}
  /\ \A k \in PairKeys : k # key[wit[g]] => cache'[k] = cache[k]
  /\ g = "capture" /\ stage = "open" => cache' = cache
  /\ g # "capture" \/ stage # "open" => cache'[key[wit[g]]] = None
  /\ UNCHANGED <<parts, msg, stage, todo, seen, dropped, copies, late>>

\* What release leaves behind is Released.
LEMMA ReleaseDoes ==
  ASSUME TypeInv, PartsInv, NEW g \in Workers, release(g)
  PROVE  Released(g)
  <1> USE NoneIsNew DEF Released, TypeInv, Fields, Goroutines, Workers, Witnesses
  <1>1. /\ wit[g] \in Messages /\ g \in Goroutines /\ pc[g] = "release"
    BY DEF release, At, Locals, Reporting
  <1>2. /\ wit' = [wit EXCEPT ![g] = None]
        /\ flushed' = [flushed EXCEPT ![wit[g]] = TRUE]
        /\ UNCHANGED <<parts, msg, stage, todo, seen, dropped, copies, late>>
    BY DEF release, history
  <1>3. CASE g = "capture" /\ stage = "open"
    <2>1. cache' = cache /\ pc' = [pc EXCEPT ![g] = "idle"]
      BY <1>3 DEF release, Goto
    <2>2. cache[key[wit[g]]] # wit[g]
      BY <1>1, <1>3 DEF PartsInv, Cached
    <2> QED BY <1>1, <1>2, <1>3, <2>1, <2>2
  <1>4. CASE ~(g = "capture" /\ stage = "open")
    <2>1. /\ cache' = [cache EXCEPT ![key[wit[g]]] = None]
          /\ pc' = [pc EXCEPT ![g] = "range"]
      BY <1>4 DEF release, Goto
    <2> QED BY <1>1, <1>2, <1>4, <2>1
  <1> QED BY <1>3, <1>4

\* A visit takes the witness up and leaves it in the cache.
LEMMA VisitDoes ==
  ASSUME TypeInv, NEW g \in Workers, NEW k \in PairKeys, flushPairCache_visit(g, k)
  PROVE  /\ g \in Goroutines /\ wit[g] = None /\ cache[k] \in Witnesses
         /\ g = "capture" => stage = "flushing"
         /\ pc[g] = "range" /\ pc'[g] = "lock"
         /\ \A h \in Goroutines : h # g => pc'[h] = pc[h] /\ wit'[h] = wit[h]
         /\ wit'[g] = cache[k]
         /\ todo'[g] = todo[g] \ {k}
         /\ \A h \in Workers : h # g => todo'[h] = todo[h]
         /\ UNCHANGED <<cache, parts, flushed, msg, stage, seen, dropped, copies, late>>
  <1> USE NoneIsNew DEF TypeInv, Fields, Goroutines, Workers, Witnesses
  <1>1. /\ wit[g] = None /\ pc[g] = "range" /\ cache[k] \in Messages
        /\ g = "capture" => stage = "flushing"
    BY DEF flushPairCache_visit, At, Places, Locals, Reporting, InReport, InBatcher
  <1> QED BY <1>1 DEF flushPairCache_visit, Goto, witnesses, history

\* queueUpload marks a witness that it drops as flushed.
LEMMA QueueDoes ==
  ASSUME TypeInv, NEW g \in Workers, queueUpload(g)
  PROVE  /\ g \in Goroutines /\ wit[g] \in Witnesses /\ pc[g] = "queue"
         /\ \A h \in Goroutines : h # g => pc'[h] = pc[h]
         /\ \/ pc'[g] = "add" /\ flushed' = flushed /\ dropped' = dropped
            \/ /\ pc'[g] = "release" /\ flushed'[wit[g]]
               /\ \/ dropped' = dropped /\ flushed' = flushed
                  \/ dropped' = dropped \cup parts[wit[g]]
         /\ \A w \in Witnesses : w # wit[g] => flushed'[w] = flushed[w]
         /\ flushed[wit[g]] => flushed'[wit[g]]
         /\ UNCHANGED <<cache, parts, wit, msg, stage, todo, seen, copies, late>>
  <1> USE NoneIsNew DEF TypeInv, Fields, Goroutines, Workers, Witnesses
  <1>1. wit[g] \in Messages /\ g \in Goroutines /\ pc[g] = "queue"
    BY DEF queueUpload, At, Locals, Reporting
  <1>2. UNCHANGED <<cache, parts, wit, msg, stage, todo, seen, copies, late>>
    BY DEF queueUpload
  <1>3. CASE /\ flushed[wit[g]] /\ pc' = [pc EXCEPT ![g] = "release"]
             /\ UNCHANGED <<flushed, dropped>>
    BY <1>1, <1>2, <1>3
  <1>4. CASE /\ flushed' = [flushed EXCEPT ![wit[g]] = TRUE]
             /\ dropped' = dropped \cup parts[wit[g]]
             /\ pc' = [pc EXCEPT ![g] = "release"]
    BY <1>1, <1>2, <1>4
  <1>5. CASE pc' = [pc EXCEPT ![g] = "add"] /\ UNCHANGED <<flushed, dropped>>
    BY <1>1, <1>2, <1>5
  <1> QED BY <1>3, <1>4, <1>5 DEF queueUpload, Goto

\* addWitness counts every message of the witness as reported or dropped.
LEMMA AddDoes ==
  ASSUME TypeInv, NEW g \in Workers, addWitness(g)
  PROVE  /\ g \in Goroutines /\ wit[g] \in Witnesses /\ pc[g] = "add"
         /\ pc'[g] \in {"flush", "release"}
         /\ \A h \in Goroutines : h # g => pc'[h] = pc[h]
         /\ dropped \subseteq dropped'
         /\ \A m \in Messages : copies[m] >= 1 => copies'[m] >= 1
         /\ \A m \in parts[wit[g]] : copies'[m] >= 1 \/ m \in dropped'
         /\ UNCHANGED <<cache, parts, flushed, wit, msg, stage, todo, seen, late>>
  <1> USE NoneIsNew DEF TypeInv, Fields, Goroutines, Workers, Witnesses
  <1>1. /\ wit[g] \in Messages /\ g \in Goroutines /\ pc[g] = "add"
        /\ parts[wit[g]] \subseteq Messages
    BY DEF addWitness, At, Locals, Reporting
  <1>2. /\ UNCHANGED <<cache, parts, flushed, wit, msg, stage, todo, seen, late>>
        /\ \E l \in {"flush", "release"} : pc' = [pc EXCEPT ![g] = l]
    BY DEF addWitness, AfterAdd, Goto, witnesses
  <1>3. CASE /\ copies' = [m \in Messages |-> IF m \in parts[wit[g]]
                                              THEN copies[m] + 1 ELSE copies[m]]
             /\ UNCHANGED dropped
    BY <1>1, <1>2, <1>3
  <1>4. CASE dropped' = dropped \cup parts[wit[g]] /\ UNCHANGED copies
    BY <1>1, <1>2, <1>4
  <1> QED BY <1>3, <1>4 DEF addWitness

\* Who takes a message that the flusher leaves behind: the cache, in which the
\* flusher or Close finds it again, or the capture goroutine.
Owned(w) == cache[key[w]] = w \/ wit["capture"] = w

\* Nothing is stored over another witness.
StoreFree == pc["capture"] = "store" => cache[key[msg]] = None

\* What else is in the cache under the key of a witness that the flusher has in
\* hand came late; Close has in hand what is in the cache.
UnderItsKey ==
  /\ \A k \in PairKeys : cache[k] # None /\ InHand(k) =>
       cache[k] = wit["flusher"] \/ cache[k] \in late
  /\ stage # "open" /\ wit["capture"] # None =>
       cache[key[wit["capture"]]] \in {None, wit["capture"]}

\* A witness in the cache is flushed only by who has it in hand.
CachedUnflushed ==
  \A k \in PairKeys :
    cache[k] # None /\ cache[k] \notin {wit["capture"], wit["flusher"]} =>
      ~flushed[cache[k]]

\* A message that is not late joins a witness that has not been flushed.
JoinsUnflushed ==
  pc["capture"] \in {"lock", "merge"} /\ stage = "open" /\ msg \notin late =>
    ~flushed[wit["capture"]] /\ wit["flusher"] # wit["capture"]

\* What the flusher has yet to flush, somebody else can flush too.
FlusherShares ==
  wit["flusher"] # None /\ ~flushed[wit["flusher"]] => Owned(wit["flusher"])

\* Close goes through the whole cache.
CloseEmpties ==
  /\ stage \in {"batch", "returned"} => \A k \in PairKeys : cache[k] = None
  /\ stage = "flushing" =>
       \A k \in PairKeys \ todo["capture"] :
         cache[k] = None \/ cache[k] = wit["capture"]

HandInv ==
  /\ StoreFree /\ UnderItsKey /\ CachedUnflushed /\ JoinsUnflushed
  /\ FlusherShares /\ CloseEmpties

\* A pair key is in hand while the flusher has a witness of it.
LEMMA InHandIs ==
  ASSUME TypeInv, NEW k \in PairKeys
  PROVE  InHand(k) <=> wit["flusher"] # None /\ key[wit["flusher"]] = k
  BY NoneIsNew DEF InHand, TypeInv, Fields, Goroutines, Witnesses

\* The same in the next state.
LEMMA InHandNext ==
  ASSUME TypeInv', NEW k \in PairKeys
  PROVE  InHand(k)' <=> wit'["flusher"] # None /\ key[wit'["flusher"]] = k
  BY NoneIsNew DEF InHand, TypeInv, Fields, Goroutines, Witnesses

\* Nothing is in hand at the start.
LEMMA HandInit == Init => HandInv
  <1> SUFFICES ASSUME Init PROVE HandInv
    OBVIOUS
  <1> USE NoneIsNew DEF Init, Goroutines, Witnesses
  <1>1. StoreFree /\ CachedUnflushed /\ JoinsUnflushed
    BY DEF StoreFree, CachedUnflushed, JoinsUnflushed
  <1>2. UnderItsKey /\ FlusherShares /\ CloseEmpties
    BY DEF UnderItsKey, FlusherShares, CloseEmpties
  <1> QED BY <1>1, <1>2 DEF HandInv

\* Steps that leave the cache and what is in hand alone.
LEMMA HandFrame ==
  ASSUME TypeInv, HandInv, UNCHANGED <<cache, flushed, wit, msg, late>>,
         pc'["capture"] = "store" => pc["capture"] = "store",
         pc'["capture"] \in {"lock", "merge"} /\ stage' = "open" =>
           pc["capture"] \in {"lock", "merge"} /\ stage = "open",
         stage' # "open" => stage # "open" \/ wit["capture"] = None,
         CloseEmpties'
  PROVE  HandInv'
  <1>1. StoreFree' /\ JoinsUnflushed'
    BY DEF HandInv, StoreFree, JoinsUnflushed
  <1>2. UnderItsKey'
    BY DEF HandInv, UnderItsKey, InHand
  <1>3. CachedUnflushed' /\ FlusherShares'
    BY DEF HandInv, CachedUnflushed, FlusherShares, Owned
  <1> QED BY <1>1, <1>2, <1>3 DEF HandInv

\* Process_load takes the witness over from the cache; if the flusher has its key
\* in hand, the message is late.
LEMMA HandLoad ==
  ASSUME TypeInv, TypeInv', PartsInv, HandInv, NEW m \in Messages, Process_load(m)
  PROVE  HandInv'
  <1> DEFINE k == key[m]
  <1> USE NoneIsNew, LoadDoes DEF Goroutines
  <1>1. k \in PairKeys /\ wit'["flusher"] = wit["flusher"]
    OBVIOUS
  <1>2. \A j \in PairKeys : InHand(j)' <=> InHand(j)
    BY <1>1, InHandIs, InHandNext
  <1>3. StoreFree'
    BY DEF StoreFree
  <1>4. UnderItsKey'
    BY <1>2 DEF HandInv, UnderItsKey
  <1>5. CachedUnflushed'
    BY DEF HandInv, CachedUnflushed
  <1>6. JoinsUnflushed'
    <2> SUFFICES ASSUME pc'["capture"] = "lock", m \notin late'
        PROVE  ~flushed[cache[k]] /\ wit["flusher"] # cache[k]
      BY DEF JoinsUnflushed
    <2>1. ~InHand(k) /\ cache[k] # None
      OBVIOUS
    <2>2. key[cache[k]] = k
      BY <1>1, <2>1 DEF PartsInv, Cached
    <2>3. wit["flusher"] # cache[k]
      BY <1>1, <2>1, <2>2, InHandIs
    <2> QED BY <1>1, <2>1, <2>3 DEF HandInv, CachedUnflushed
  <1>7. FlusherShares'
    <2>1. wit["flusher"] # None => key[wit["flusher"]] \in PairKeys
      BY DEF TypeInv, Fields, Witnesses
    <2> QED BY <2>1 DEF HandInv, FlusherShares, Owned
  <1>8. CloseEmpties'
    BY DEF CloseEmpties
  <1> QED BY <1>3, <1>4, <1>5, <1>6, <1>7, <1>8 DEF HandInv

\* Process_store finds its key free.
LEMMA HandStore ==
  ASSUME TypeInv, PartsInv, HandInv, Process_store
  PROVE  HandInv'
  <1> DEFINE k == key[msg]
  <1> USE NoneIsNew, StoreDoes DEF Goroutines
  <1>1. k \in PairKeys /\ cache[k] = None /\ msg # None /\ msg \in Witnesses
    BY DEF HandInv, StoreFree, Witnesses
  <1>2. \A j \in PairKeys : InHand(j)' <=> InHand(j)
    BY DEF InHand
  <1>3. StoreFree'
    BY DEF StoreFree
  <1>4. UnderItsKey'
    BY <1>1, <1>2 DEF HandInv, UnderItsKey
  <1>5. CachedUnflushed'
    BY <1>1 DEF HandInv, CachedUnflushed
  <1>6. JoinsUnflushed'
    BY DEF JoinsUnflushed
  <1>7. FlusherShares'
    <2>1. wit["flusher"] # None => key[wit["flusher"]] \in PairKeys
      BY DEF TypeInv, Fields, Witnesses
    <2> QED BY <1>1, <2>1 DEF HandInv, FlusherShares, Owned
  <1>8. CloseEmpties'
    BY DEF CloseEmpties
  <1> QED BY <1>3, <1>4, <1>5, <1>6, <1>7, <1>8 DEF HandInv

\* Only who holds a witness marks it as flushed.
LEMMA HandQueue ==
  ASSUME TypeInv, MutexInv, HandInv, NEW g \in Workers, queueUpload(g)
  PROVE  HandInv'
  <1> USE NoneIsNew, QueueDoes DEF Goroutines
  <1>1. pc'["capture"] \in {"lock", "merge", "store"} => g # "capture" /\ pc'["capture"] = pc["capture"]
    OBVIOUS
  <1>2. StoreFree'
    BY <1>1 DEF HandInv, StoreFree
  <1>3. UnderItsKey'
    BY DEF HandInv, UnderItsKey, InHand
  <1>4. g = "capture" \/ g = "flusher"
    BY DEF Workers
  <1>5. CachedUnflushed'
    <2> SUFFICES ASSUME NEW k \in PairKeys, cache[k] # None,
                        cache[k] \notin {wit["capture"], wit["flusher"]}
        PROVE  ~flushed'[cache[k]]
      BY DEF CachedUnflushed
    <2>1. cache[k] \in Witnesses /\ cache[k] # wit[g]
      BY <1>4 DEF TypeInv, Fields
    <2> QED BY <2>1 DEF HandInv, CachedUnflushed
  <1>6. JoinsUnflushed'
    <2> SUFFICES ASSUME pc'["capture"] \in {"lock", "merge"}, stage = "open",
                        msg \notin late
        PROVE  ~flushed'[wit["capture"]] /\ wit["flusher"] # wit["capture"]
      BY DEF JoinsUnflushed
    <2>1. ~flushed[wit["capture"]] /\ wit["flusher"] # wit["capture"]
      BY <1>1 DEF HandInv, JoinsUnflushed
    <2>2. g = "flusher" /\ wit["capture"] \in Witnesses
      BY <1>1, <1>4 DEF TypeInv, Fields, Locals, Reporting
    <2> QED BY <2>1, <2>2
  <1>7. FlusherShares'
    BY DEF HandInv, FlusherShares, Owned, TypeInv, Fields
  <1>8. CloseEmpties'
    BY DEF HandInv, CloseEmpties
  <1> QED BY <1>2, <1>3, <1>5, <1>6, <1>7, <1>8 DEF HandInv

\* A witness that is released is flushed, and no more in the cache.
LEMMA HandRelease ==
  ASSUME TypeInv, TypeInv', PartsInv, HandInv, NEW g \in Workers, release(g)
  PROVE  HandInv'
  <1> DEFINE w == wit[g]
  <1> USE NoneIsNew DEF Goroutines
  <1>0. Released(g)
    BY ReleaseDoes
  <1> USE <1>0 DEF Released
  <1>1. g = "capture" \/ g = "flusher"
    BY DEF Workers
  <1>2. \A k \in PairKeys : cache'[k] = None \/ (cache'[k] = cache[k] /\ cache'[k] # w)
    <2>1. ASSUME NEW k \in PairKeys, cache[k] = w PROVE k = key[w]
      BY <2>1 DEF PartsInv, Cached
    <2> QED BY <2>1
  <1>3. \A k \in PairKeys : InHand(k)' => InHand(k) /\ g # "flusher"
    BY <1>1, InHandIs, InHandNext
  <1>4. StoreFree'
    <2>1. pc'["capture"] = "store" => pc["capture"] = "store" /\ msg \in Messages
      BY DEF TypeInv, Fields, Locals
    <2>2. pc'["capture"] = "store" => key[msg] \in PairKeys /\ cache[key[msg]] = None
      BY <2>1 DEF HandInv, StoreFree
    <2> QED BY <1>2, <2>2 DEF StoreFree
  <1>5. UnderItsKey'
    <2>1. ASSUME NEW k \in PairKeys, cache'[k] # None, InHand(k)'
          PROVE  cache'[k] = wit'["flusher"] \/ cache'[k] \in late
      BY <1>1, <1>2, <1>3, <2>1 DEF HandInv, UnderItsKey
    <2>2. ASSUME stage # "open", wit'["capture"] # None
          PROVE  cache'[key[wit'["capture"]]] \in {None, wit'["capture"]}
      <3>1. g # "capture" /\ wit'["capture"] = wit["capture"]
        BY <1>1, <2>2
      <3>2. key[wit["capture"]] \in PairKeys
        BY <2>2, <3>1 DEF TypeInv, Fields, Witnesses
      <3> QED BY <1>2, <2>2, <3>1, <3>2 DEF HandInv, UnderItsKey
    <2> QED BY <2>1, <2>2 DEF UnderItsKey
  <1>6. CachedUnflushed'
    <2> SUFFICES ASSUME NEW k \in PairKeys, cache'[k] # None,
                        cache'[k] \notin {wit'["capture"], wit'["flusher"]}
        PROVE  ~flushed'[cache'[k]]
      BY DEF CachedUnflushed
    <2>1. cache'[k] = cache[k] /\ cache[k] # w /\ cache[k] \in Witnesses
      BY <1>2 DEF TypeInv, Fields
    <2>2. cache[k] \notin {wit["capture"], wit["flusher"]}
      BY <1>1, <2>1
    <2>3. ~flushed[cache[k]]
      BY <2>1, <2>2 DEF HandInv, CachedUnflushed
    <2> QED BY <2>1, <2>3
  <1>7. JoinsUnflushed'
    <2> SUFFICES ASSUME pc'["capture"] \in {"lock", "merge"}, stage = "open",
                        msg \notin late
        PROVE  ~flushed'[wit'["capture"]] /\ wit'["flusher"] # wit'["capture"]
      BY DEF JoinsUnflushed
    <2>1. g = "flusher" /\ pc["capture"] = pc'["capture"] /\ wit'["capture"] = wit["capture"]
      BY <1>1
    <2>2. ~flushed[wit["capture"]] /\ wit["flusher"] # wit["capture"]
      BY <2>1 DEF HandInv, JoinsUnflushed
    <2>3. wit["capture"] \in Witnesses
      BY <2>1 DEF TypeInv, Fields, Locals, Reporting
    <2>4. flushed'[wit["capture"]] = flushed[wit["capture"]]
      BY <2>1, <2>2, <2>3
    <2>5. wit'["flusher"] = None
      BY <2>1
    <2>6. ~flushed'[wit'["capture"]]
      BY <2>1, <2>2, <2>4
    <2> QED BY <2>1, <2>3, <2>5, <2>6 DEF Witnesses
  <1>8. FlusherShares'
    <2> SUFFICES ASSUME wit'["flusher"] # None, ~flushed'[wit'["flusher"]]
        PROVE  Owned(wit["flusher"])' /\ wit'["flusher"] = wit["flusher"]
      BY DEF FlusherShares, Owned
    <2>1. /\ g = "capture" /\ wit'["flusher"] = wit["flusher"]
          /\ wit["flusher"] # w /\ wit["flusher"] \in Witnesses
      BY <1>1 DEF TypeInv, Fields
    <2>2. Owned(wit["flusher"])
      BY <2>1 DEF HandInv, FlusherShares
    <2>3. cache[key[wit["flusher"]]] = wit["flusher"]
      BY <2>1, <2>2 DEF Owned
    <2>4. key[wit["flusher"]] \in PairKeys
      BY <2>1 DEF Witnesses
    <2>5. cache'[key[wit["flusher"]]] = wit["flusher"]
      <3>1. CASE stage = "open"
        BY <2>1, <2>3, <3>1
      <3>2. CASE stage # "open"
        BY <2>1, <2>3, <2>4, <3>2 DEF HandInv, UnderItsKey
      <3> QED BY <3>1, <3>2
    <2> QED BY <2>1, <2>5 DEF Owned
  <1>9. CloseEmpties'
    <2>1. ASSUME stage = "flushing", NEW k \in PairKeys \ todo["capture"]
          PROVE  cache'[k] = None \/ cache'[k] = wit'["capture"]
      BY <1>1, <1>2, <2>1 DEF HandInv, CloseEmpties
    <2>2. ASSUME stage \in {"batch", "returned"}, NEW k \in PairKeys
          PROVE  cache'[k] = None
      BY <1>2, <2>2 DEF HandInv, CloseEmpties
    <2> QED BY <2>1, <2>2 DEF CloseEmpties
  <1> QED BY <1>4, <1>5, <1>6, <1>7, <1>8, <1>9 DEF HandInv

\* Range hands out what is in the cache.
LEMMA HandVisit ==
  ASSUME TypeInv, TypeInv', PartsInv, HandInv, NEW g \in Workers,
         NEW k \in PairKeys, flushPairCache_visit(g, k)
  PROVE  HandInv'
  <1> USE NoneIsNew, VisitDoes DEF Goroutines
  <1>1. g = "capture" \/ g = "flusher"
    BY DEF Workers
  <1>2. key[cache[k]] = k /\ cache[k] # None
    BY DEF PartsInv, Cached, Witnesses
  <1>3. StoreFree'
    BY DEF HandInv, StoreFree
  <1>4. UnderItsKey'
    <2>1. ASSUME NEW j \in PairKeys, cache[j] # None, InHand(j)'
          PROVE  cache[j] = wit'["flusher"] \/ cache[j] \in late
      <3>1. wit'["flusher"] # None /\ key[wit'["flusher"]] = j
        BY <2>1, InHandNext
      <3>2. CASE g = "flusher"
        BY <1>2, <3>1, <3>2
      <3>3. CASE g = "capture"
        <4>1. InHand(j) /\ wit'["flusher"] = wit["flusher"]
          BY <3>1, <3>3, InHandIs
        <4> QED BY <2>1, <4>1 DEF HandInv, UnderItsKey
      <3> QED BY <1>1, <3>2, <3>3
    <2>2. ASSUME stage # "open", wit'["capture"] # None
          PROVE  cache[key[wit'["capture"]]] \in {None, wit'["capture"]}
      BY <1>1, <1>2, <2>2 DEF HandInv, UnderItsKey
    <2> QED BY <2>1, <2>2 DEF UnderItsKey
  <1>5. CachedUnflushed'
    BY <1>1 DEF HandInv, CachedUnflushed
  <1>6. JoinsUnflushed'
    <2> SUFFICES ASSUME pc'["capture"] \in {"lock", "merge"}, stage = "open",
                        msg \notin late
        PROVE  ~flushed[wit'["capture"]] /\ wit'["flusher"] # wit'["capture"]
      BY DEF JoinsUnflushed
    <2>1. g = "flusher" /\ pc'["capture"] = pc["capture"] /\ wit'["capture"] = wit["capture"]
      BY <1>1
    <2>2. ~flushed[wit["capture"]]
      BY <2>1 DEF HandInv, JoinsUnflushed
    <2>3. wit["capture"] # None
      BY <2>1 DEF TypeInv, Locals, Reporting
    <2>4. cache[k] # wit["capture"]
      BY <1>2, <2>3 DEF PartsInv, Cached
    <2> QED BY <2>1, <2>2, <2>4
  <1>7. FlusherShares'
    <2>1. CASE g = "flusher"
      BY <1>2, <2>1 DEF FlusherShares, Owned
    <2>2. CASE g = "capture"
      BY <2>2 DEF HandInv, FlusherShares, Owned
    <2> QED BY <1>1, <2>1, <2>2
  <1>8. CloseEmpties'
    BY <1>1 DEF HandInv, CloseEmpties, Workers
  <1> QED BY <1>3, <1>4, <1>5, <1>6, <1>7, <1>8 DEF HandInv

\* What the steps that work on no witness leave alone.
Aside ==
  /\ UNCHANGED <<cache, parts, flushed, wit, msg, dropped, copies, late>>
  /\ \A m \in Messages : m \in seen' <=> m \in seen

\* The steps that are left, by what they do to the places and to Close.
OtherStep ==
  \/ \E g \in Workers :
       witnessMutex_Lock(g) \/ \E k \in PairKeys : flushPairCache_pass(g, k)
  \/ \E g \in Goroutines : Flush(g) \/ Flush_await(g)
  \/ \E c \in Conns : processConnection(c)
  \/ \E b \in Buffers : Upload(b)
  \/ ticker_flush
  \/ periodicFlush_tick \/ periodicFlush_stop \/ periodicFlush_end
  \/ Close_begin \/ Close_batch \/ Close_return
  \/ UNCHANGED vars

\* A step works on a witness, or is one of the others.
LEMMA WitnessCases ==
  ASSUME [Next]_vars
  PROVE  \/ OtherStep
         \/ \E m \in Messages : Process_load(m)
         \/ Process_store \/ Process_merge
         \/ \E g \in Workers :
              \/ queueUpload(g) \/ release(g) \/ addWitness(g)
              \/ \E k \in PairKeys : flushPairCache_visit(g, k)
  <1>1. CASE Next
    BY <1>1, StepCases DEF OtherStep
  <1> QED BY <1>1 DEF OtherStep

\* The other steps leave the witnesses alone.
LEMMA OtherAside == OtherStep => Aside
  <1> SUFFICES ASSUME OtherStep PROVE Aside
    OBVIOUS
  <1> USE DEF Aside, witnesses, history, batcher
  <1>1. ASSUME NEW g \in Workers,
               witnessMutex_Lock(g) \/ \E k \in PairKeys : flushPairCache_pass(g, k)
        PROVE  Aside
    BY <1>1 DEF witnessMutex_Lock, flushPairCache_pass
  <1>2. ASSUME NEW g \in Goroutines, Flush(g) \/ Flush_await(g) PROVE Aside
    BY <1>2 DEF Flush, Flush_await
  <1>3. ASSUME NEW c \in Conns, processConnection(c) PROVE Aside
    <2>1. Messages \cap Conns = {}
      BY BackendCollectorAssumption DEF BackendCollectorAssumption
    <2> QED BY <1>3, <2>1 DEF processConnection
  <1>4. ASSUME NEW b \in Buffers, Upload(b) PROVE Aside
    BY <1>4 DEF Upload
  <1>5. CASE \/ ticker_flush
             \/ periodicFlush_tick \/ periodicFlush_stop \/ periodicFlush_end
             \/ Close_begin \/ Close_batch \/ Close_return
    BY <1>5 DEF ticker_flush, periodicFlush_tick, periodicFlush_stop,
                periodicFlush_end, Close_begin, Close_batch, Close_return
  <1>6. CASE UNCHANGED vars
    BY <1>6 DEF vars
  <1> QED BY <1>1, <1>2, <1>3, <1>4, <1>5, <1>6 DEF OtherStep

\* Nobody comes to a place at which a message or a witness is in hand, but from
\* another such place.
PlacesKept ==
  /\ pc'["capture"] = "store" => pc["capture"] = "store"
  /\ pc'["capture"] \in {"lock", "merge"} /\ stage' = "open" =>
       pc["capture"] \in {"lock", "merge"} /\ stage = "open"
  /\ stage' # "open" => stage # "open" \/ wit["capture"] = None
  /\ \A g \in Goroutines : wit[g] # None /\ pc'[g] \in Added => pc[g] \in Added

\* The other steps bring nobody to such a place.
LEMMA OtherPlaces ==
  TypeInv /\ OtherStep => PlacesKept
  <1> SUFFICES ASSUME TypeInv, OtherStep PROVE PlacesKept
    OBVIOUS
  <1>1. ASSUME UNCHANGED stage, NEW g \in Goroutines, NEW l \in PCs,
               pc' = [pc EXCEPT ![g] = l],
               l # "store", l # "lock",
               l = "merge" => pc[g] = "lock",
               wit[g] # None /\ l \in Added => pc[g] \in Added
        PROVE  PlacesKept
    BY <1>1 DEF TypeInv, Fields, PlacesKept
  <1>2. ASSUME UNCHANGED <<stage, pc>> PROVE PlacesKept
    BY <1>2 DEF PlacesKept
  <1>3. ASSUME NEW g \in Workers, witnessMutex_Lock(g) PROVE PlacesKept
    <2>1. /\ g \in Goroutines /\ stage' = stage /\ pc[g] = "lock"
          /\ \E l \in {"merge", "queue"} : pc' = [pc EXCEPT ![g] = l]
      BY <1>3 DEF witnessMutex_Lock, At, Goto, Workers, Goroutines
    <2> QED BY <1>1, <2>1 DEF PCs, Added
  <1>4. ASSUME NEW g \in Workers, \E k \in PairKeys : flushPairCache_pass(g, k)
        PROVE  PlacesKept
    BY <1>2, <1>4 DEF flushPairCache_pass
  <1>5. ASSUME NEW g \in Goroutines, Flush(g) \/ Flush_await(g) PROVE PlacesKept
    <2>1. /\ pc[g] \in InBatcher /\ stage' = stage
          /\ \E l \in {"await", "release", "idle", "closed"} :
               pc' = [pc EXCEPT ![g] = l]
      BY <1>5, AfterFlushIs DEF Flush, Flush_await, At, Goto, InBatcher
    <2> QED BY <1>1, <2>1 DEF PCs, Added, InBatcher
  <1>6. ASSUME NEW c \in Conns, processConnection(c) PROVE PlacesKept
    <2>1. /\ stage' = stage /\ wit["tracker"] = None
          /\ \E l \in {"flush", "idle"} : pc' = [pc EXCEPT !["tracker"] = l]
      BY <1>6 DEF processConnection, AfterAdd, At, Goto, TypeInv, Locals,
                  Reporting, Goroutines, InBatcher
    <2> QED BY <1>1, <2>1 DEF PCs, Goroutines
  <1>7. ASSUME NEW b \in Buffers, Upload(b) PROVE PlacesKept
    BY <1>2, <1>7 DEF Upload
  <1>8. CASE ticker_flush \/ periodicFlush_tick \/ periodicFlush_stop \/ periodicFlush_end
    <2>1. PICK g \in Goroutines :
            /\ wit[g] = None /\ stage' = stage
            /\ \E l \in {"flush", "range", "idle", "stopped"} :
                 pc' = [pc EXCEPT ![g] = l]
      BY <1>8 DEF ticker_flush, periodicFlush_tick, periodicFlush_stop,
                  periodicFlush_end, At, Goto, TypeInv, Locals, Reporting,
                  Goroutines, InBatcher
    <2>2. PICK l \in {"flush", "range", "idle", "stopped"} : pc' = [pc EXCEPT ![g] = l]
      BY <2>1
    <2>3. /\ l \in PCs /\ l # "store" /\ l # "lock" /\ l # "merge"
          /\ ~(wit[g] # None /\ l \in Added)
      BY <2>1 DEF PCs
    <2> QED BY <1>1, <2>1, <2>2, <2>3
  <1>9. CASE Close_begin \/ Close_batch
    <2>1. /\ wit["capture"] = None /\ stage' # "open"
          /\ \E l \in {"flush", "range"} : pc' = [pc EXCEPT !["capture"] = l]
      BY <1>9 DEF Close_begin, Close_batch, At, Goto, TypeInv, Locals, Reporting,
                  Goroutines, InBatcher
    <2> QED BY <2>1 DEF TypeInv, Fields, PlacesKept, Goroutines
  <1>10. CASE Close_return
    BY <1>10 DEF Close_return, PlacesKept
  <1>11. CASE UNCHANGED vars
    BY <1>2, <1>11 DEF vars
  <1>12. CASE \E g \in Workers :
                 witnessMutex_Lock(g) \/ \E k \in PairKeys : flushPairCache_pass(g, k)
    BY <1>3, <1>4, <1>12
  <1>13. CASE \E g \in Goroutines : Flush(g) \/ Flush_await(g)
    BY <1>5, <1>13
  <1> QED
    BY <1>6, <1>7, <1>8, <1>9, <1>10, <1>11, <1>12, <1>13 DEF OtherStep

\* Close passes over a key only if there is nothing in the cache under it.
LEMMA OtherClose ==
  ASSUME TypeInv, CloseEmpties, OtherStep
  PROVE  CloseEmpties'
  <1> USE DEF CloseEmpties
  <1>1. UNCHANGED <<cache, wit>>
    BY OtherAside DEF Aside
  <1>2. ASSUME UNCHANGED <<stage, todo>> PROVE CloseEmpties'
    BY <1>1, <1>2
  <1>3. ASSUME NEW g \in Workers, NEW k \in PairKeys, flushPairCache_pass(g, k)
        PROVE  CloseEmpties'
    <2>1. /\ stage' = stage /\ todo' = [todo EXCEPT ![g] = @ \ {k}]
          /\ cache[k] = None \/ g = "flusher"
      BY <1>3 DEF flushPairCache_pass
    <2>2. \A j \in PairKeys \ todo'["capture"] :
            j \in PairKeys \ todo["capture"] \/ cache[j] = None
      BY <2>1 DEF TypeInv, Fields
    <2> QED BY <1>1, <2>1, <2>2
  <1>4. CASE periodicFlush_tick
    BY <1>1, <1>4 DEF periodicFlush_tick, TypeInv, Fields
  <1>5. CASE Close_begin
    BY <1>1, <1>5 DEF Close_begin, TypeInv, Fields
  <1>6. CASE Close_batch
    <2>1. /\ stage = "flushing" /\ todo["capture"] = {} /\ wit["capture"] = None
          /\ stage' = "batch"
      BY <1>6 DEF Close_batch, At, TypeInv, Fields, Places, Locals, Reporting,
                  InReport, InBatcher, Goroutines
    <2> QED BY <1>1, <2>1
  <1>7. CASE Close_return
    BY <1>1, <1>7 DEF Close_return
  <1>8. ASSUME NEW g \in Workers, witnessMutex_Lock(g) PROVE CloseEmpties'
    BY <1>2, <1>8 DEF witnessMutex_Lock
  <1>9. ASSUME NEW g \in Goroutines, Flush(g) \/ Flush_await(g) PROVE CloseEmpties'
    BY <1>2, <1>9 DEF Flush, Flush_await
  <1>10. ASSUME NEW c \in Conns, processConnection(c) PROVE CloseEmpties'
    BY <1>2, <1>10 DEF processConnection
  <1>11. ASSUME NEW b \in Buffers, Upload(b) PROVE CloseEmpties'
    BY <1>2, <1>11 DEF Upload
  <1>12. CASE ticker_flush \/ periodicFlush_stop \/ periodicFlush_end \/ UNCHANGED vars
    BY <1>2, <1>12 DEF ticker_flush, periodicFlush_stop, periodicFlush_end, vars
  <1> QED BY <1>3, <1>4, <1>5, <1>6, <1>7, <1>8, <1>9, <1>10, <1>11, <1>12
          DEF OtherStep

\* Every step keeps the cache and the hands of the two workers in accord.
LEMMA HandNext ==
  TypeInv /\ TypeInv' /\ PartsInv /\ MutexInv /\ HandInv /\ [Next]_vars => HandInv'
  <1> SUFFICES ASSUME TypeInv, TypeInv', PartsInv, MutexInv, HandInv, [Next]_vars
      PROVE  HandInv'
    OBVIOUS
  <1>1. CASE OtherStep
    <2>1. CloseEmpties'
      BY <1>1, OtherClose DEF HandInv
    <2> QED BY <1>1, <2>1, OtherAside, OtherPlaces, HandFrame DEF Aside, PlacesKept
  <1>2. CASE Process_merge
    <2>1. CloseEmpties'
      BY <1>2, MergeDoes DEF CloseEmpties
    <2>2. /\ UNCHANGED <<cache, flushed, wit, late, stage>> /\ stage = "open"
          /\ pc'["capture"] = "queue"
      BY <1>2, MergeDoes
    <2>3. StoreFree' /\ JoinsUnflushed'
      BY <2>2 DEF StoreFree, JoinsUnflushed
    <2>4. UnderItsKey' /\ CachedUnflushed' /\ FlusherShares'
      BY <2>2 DEF HandInv, UnderItsKey, InHand, CachedUnflushed, FlusherShares, Owned
    <2> QED BY <2>1, <2>3, <2>4 DEF HandInv
  <1>3. ASSUME NEW g \in Workers, addWitness(g) PROVE HandInv'
    <2>1. CloseEmpties'
      BY <1>3, AddDoes DEF HandInv, CloseEmpties
    <2>2. /\ UNCHANGED <<cache, flushed, wit, msg, late, stage>>
          /\ pc'["capture"] \in {"store", "lock", "merge"} => pc'["capture"] = pc["capture"]
      BY <1>3, AddDoes DEF Goroutines
    <2> QED BY <2>1, <2>2, HandFrame
  <1> QED BY WitnessCases, <1>1, <1>2, <1>3, HandLoad, HandStore, HandQueue,
             HandRelease, HandVisit

(***************************************************************************)
(* Each message is reported.                                               *)
(***************************************************************************)
\* Who has added a witness has counted its messages.
Counted ==
  \A g \in Goroutines : wit[g] # None /\ pc[g] \in Added =>
    \/ flushed[wit[g]]
    \/ \A m \in parts[wit[g]] : copies[m] >= 1 \/ m \in dropped

\* A message is in hand, reported, or in a witness that will be.
Kept(m) ==
  \/ m = msg
  \/ copies[m] >= 1
  \/ \E w \in Witnesses : m \in parts[w] /\ ~flushed[w] /\ Owned(w)

AllKept == \A m \in Messages : m \in seen => m \in dropped \/ m \in late \/ Kept(m)

KeepInv == Counted /\ AllKept

\* No witness has been added and no message taken up at the start.
LEMMA KeepInit == Init => KeepInv
  BY DEF Init, KeepInv, Counted, AllKept

\* A witness is counted by who adds it, and no message joins it afterwards.
LEMMA CountedNext ==
  TypeInv /\ PartsInv /\ MutexInv /\ Counted /\ [Next]_vars => Counted'
  <1> SUFFICES ASSUME TypeInv, PartsInv, MutexInv, Counted, [Next]_vars
      PROVE  Counted'
    OBVIOUS
  <1> USE NoneIsNew
  <1>0. /\ \A g \in Goroutines : wit[g] # None => wit[g] \in Witnesses
        /\ "capture" \in Goroutines
    BY DEF TypeInv, Fields, Goroutines
  <1>1. CASE OtherStep
    BY <1>1, OtherAside, OtherPlaces DEF Aside, PlacesKept, Counted
  <1>2. ASSUME NEW m \in Messages, Process_load(m) PROVE Counted'
    BY <1>2, LoadDoes DEF Counted, Added
  <1>3. CASE Process_store
    <2>1. \A h \in Goroutines : wit[h] # None => wit[h] # msg
      BY <1>3, StoreDoes DEF PartsInv, Created
    <2> QED BY <1>0, <1>3, <2>1, StoreDoes DEF Counted, Added
  <1>4. CASE Process_merge
    <2>1. Holds("capture", wit["capture"]) /\ wit["capture"] \in Witnesses
      BY <1>4, MergeDoes DEF Holds
    <2>2. ASSUME NEW h \in Goroutines, h # "capture", wit[h] # None, pc[h] \in Added
          PROVE  wit[h] # wit["capture"]
      BY <1>0, <2>1, <2>2, MutualExclusion DEF Holds, Added
    <2> QED BY <1>0, <1>4, <2>2, MergeDoes DEF Counted, Added
  <1>5. ASSUME NEW g \in Workers, queueUpload(g) PROVE Counted'
    <2>1. ASSUME NEW h \in Goroutines, wit[h] # None, pc'[h] \in Added
          PROVE  \/ flushed'[wit[h]]
                 \/ \A m \in parts[wit[h]] : copies[m] >= 1 \/ m \in dropped'
      BY <1>0, <1>5, <2>1, QueueDoes DEF Counted, Added
    <2> QED BY <1>5, <2>1, QueueDoes DEF Counted
  <1>6. ASSUME NEW g \in Workers, release(g) PROVE Counted'
    <2>1. Released(g)
      BY <1>6, ReleaseDoes
    <2> QED BY <1>0, <2>1 DEF Released, Counted
  <1>7. ASSUME NEW g \in Workers, addWitness(g) PROVE Counted'
    <2>1. ASSUME NEW h \in Goroutines, h # g, wit[h] # None, pc[h] \in Added
          PROVE  \/ flushed[wit[h]]
                 \/ \A m \in parts[wit[h]] : copies'[m] >= 1 \/ m \in dropped'
      <3>1. parts[wit[h]] \subseteq Messages
        BY <1>0, <2>1 DEF TypeInv, Fields
      <3> QED BY <1>7, <2>1, <3>1, AddDoes DEF Counted
    <2> QED BY <1>7, <2>1, AddDoes DEF Counted
  <1>8. ASSUME NEW g \in Workers, NEW k \in PairKeys, flushPairCache_visit(g, k)
        PROVE  Counted'
    BY <1>8, VisitDoes DEF Counted, Added
  <1> QED BY WitnessCases, <1>1, <1>2, <1>3, <1>4, <1>5, <1>6, <1>7, <1>8

\* The witness that a message is in changes hands, but is not forgotten before
\* the message is counted.
LEMMA AllKeptNext ==
  TypeInv /\ PartsInv /\ HandInv /\ KeepInv /\ [Next]_vars => AllKept'
  <1> SUFFICES ASSUME TypeInv, PartsInv, HandInv, KeepInv, [Next]_vars
      PROVE  AllKept'
    OBVIOUS
  <1> USE NoneIsNew
  <1>0. /\ \A w \in Witnesses : w # None /\ key[w] \in PairKeys
        /\ \A g \in Goroutines : wit[g] # None => wit[g] \in Witnesses
        /\ "capture" \in Goroutines /\ "flusher" \in Goroutines
    BY DEF TypeInv, Fields, Goroutines, Witnesses
  <1>1. CASE OtherStep
    BY <1>1, OtherAside DEF Aside, KeepInv, AllKept, Kept, Owned
  <1>2. ASSUME NEW n \in Messages, Process_load(n) PROVE AllKept'
    <2>1. ASSUME NEW w \in Witnesses, Owned(w) PROVE Owned(w)'
      BY <1>0, <1>2, <2>1, LoadDoes DEF Owned
    <2>2. ASSUME NEW m \in Messages, m # n, Kept(m) PROVE Kept(m)'
      BY <1>2, <2>1, <2>2, LoadDoes DEF Kept
    <2>3. Kept(n)'
      BY <1>2, LoadDoes DEF Kept
    <2> QED BY <1>2, <2>2, <2>3, LoadDoes DEF KeepInv, AllKept
  <1>3. CASE Process_store
    <2>1. ASSUME NEW w \in Witnesses, Owned(w) PROVE Owned(w)'
      BY <1>0, <1>3, <2>1, StoreDoes DEF Owned, HandInv, StoreFree
    <2>2. ASSUME NEW m \in Messages, m # msg, Kept(m) PROVE Kept(m)'
      BY <1>3, <2>1, <2>2, StoreDoes DEF Kept
    <2>3. ASSUME NEW m \in Messages, m = msg PROVE Kept(m)'
      BY <1>3, <2>3, StoreDoes DEF Kept, Owned, Witnesses
    <2> QED BY <1>3, <2>2, <2>3, StoreDoes DEF KeepInv, AllKept
  <1>4. CASE Process_merge
    <2>1. ASSUME NEW m \in Messages, m # msg, Kept(m) PROVE Kept(m)'
      BY <1>4, <2>1, MergeDoes DEF Kept, Owned
    <2>2. ASSUME NEW m \in Messages, m = msg, m \notin late PROVE Kept(m)'
      <3>1. ~flushed[wit["capture"]]
        BY <1>4, <2>2, MergeDoes DEF HandInv, JoinsUnflushed
      <3> QED BY <1>4, <2>2, <3>1, MergeDoes DEF Kept, Owned
    <2> QED BY <1>4, <2>1, <2>2, MergeDoes DEF KeepInv, AllKept
  <1>5. ASSUME NEW g \in Workers, queueUpload(g) PROVE AllKept'
    <2>1. ASSUME NEW m \in Messages, m \notin dropped', Kept(m) PROVE Kept(m)'
      BY <1>5, <2>1, QueueDoes DEF Kept, Owned
    <2> QED BY <1>5, <2>1, QueueDoes DEF KeepInv, AllKept
  <1>6. ASSUME NEW g \in Workers, release(g) PROVE AllKept'
    <2>1. Released(g)
      BY <1>6, ReleaseDoes
    <2>2. ASSUME NEW m \in Messages, m \notin dropped, m \notin late, Kept(m)
          PROVE  Kept(m)'
      <3> DEFINE w == wit[g]
      <3>1. CASE m = msg \/ copies[m] >= 1
        BY <2>1, <3>1 DEF Released, Kept
      <3>2. ASSUME NEW v \in Witnesses, m \in parts[v], ~flushed[v], Owned(v),
                   ~ copies[m] >= 1
            PROVE  Kept(m)'
        <4>1. v # w
          BY <2>1, <2>2, <3>2 DEF Released, KeepInv, Counted, Added
        <4>2. ~flushed'[v] /\ parts' = parts
          BY <2>1, <3>2, <4>1 DEF Released
        <4>3. CASE wit["capture"] = v
          BY <2>1, <3>2, <4>1, <4>2, <4>3, <1>0 DEF Released, Kept, Owned
        <4>4. CASE cache[key[v]] = v /\ cache'[key[v]] = cache[key[v]]
          BY <3>2, <4>2, <4>4 DEF Kept, Owned
        <4>5. CASE cache[key[v]] = v /\ cache'[key[v]] # cache[key[v]]
          <5>1. key[v] = key[w] /\ cache[key[w]] = v /\ w # None
                /\ (g = "capture" => stage # "open")
            BY <1>0, <2>1, <4>5 DEF Released
          <5>2. CASE g = "capture"
            BY <1>0, <4>1, <5>1, <5>2 DEF HandInv, UnderItsKey
          <5>3. CASE g = "flusher"
            <6>1. InHand(key[v]) /\ cache[key[v]] # None
              BY <1>0, <5>1, <5>3, InHandIs
            <6>2. v \in late
              BY <1>0, <4>1, <4>5, <5>3, <6>1 DEF HandInv, UnderItsKey
            <6>3. parts[v] = {v}
              BY <1>0, <4>5, <6>1 DEF PartsInv, Cached
            <6> QED BY <2>2, <3>2, <6>2, <6>3
          <5> QED BY <5>2, <5>3 DEF Workers
        <4> QED BY <3>2, <4>3, <4>4, <4>5 DEF Owned
      <3> QED BY <2>2, <3>1, <3>2 DEF Kept
    <2> QED BY <2>1, <2>2 DEF Released, KeepInv, AllKept
  <1>7. ASSUME NEW g \in Workers, addWitness(g) PROVE AllKept'
    <2>1. ASSUME NEW m \in Messages, Kept(m) PROVE Kept(m)'
      BY <1>7, <2>1, AddDoes DEF Kept, Owned
    <2> QED BY <1>7, <2>1, AddDoes DEF KeepInv, AllKept
  <1>8. ASSUME NEW g \in Workers, NEW k \in PairKeys, flushPairCache_visit(g, k)
        PROVE  AllKept'
    <2>1. ASSUME NEW w \in Witnesses, Owned(w) PROVE Owned(w)'
      BY <1>0, <1>8, <2>1, VisitDoes DEF Owned
    <2>2. ASSUME NEW m \in Messages, Kept(m) PROVE Kept(m)'
      BY <1>8, <2>1, <2>2, VisitDoes DEF Kept
    <2> QED BY <1>8, <2>2, VisitDoes DEF KeepInv, AllKept
  <1> QED BY WitnessCases, <1>1, <1>2, <1>3, <1>4, <1>5, <1>6, <1>7, <1>8

\* When the batcher is closed, no request is left with reports in it.
Drained ==
  pc["capture"] = "closed" => \A b \in Buffers \ uploading : content[b] = {}

\* Close has not begun.
LEMMA DrainedInit == Init => Drained
  BY DEF Init, Drained

\* After Close has gone through the cache, the flusher finds that its witness
\* has been flushed.
LEMMA NothingToAdd ==
  ASSUME TypeInv, RedactInv, HandInv, NEW g \in Workers, addWitness(g)
  PROVE  pc["capture"] # "closed"
  <1> SUFFICES ASSUME pc["capture"] = "closed" PROVE FALSE
    OBVIOUS
  <1>1. /\ pc[g] = "add" /\ wit[g] \in Witnesses /\ g = "flusher"
        /\ g \in Goroutines /\ wit[g] # None
    BY AddDoes, NoneIsNew DEF Workers, Witnesses
  <1>2. wit["capture"] = None /\ stage \in {"batch", "returned"}
    BY DEF TypeInv, Fields, Places, Locals, Reporting, InReport, InBatcher, Goroutines
  <1>3. cache[key[wit[g]]] = None
    BY <1>1, <1>2, NoneIsNew DEF HandInv, CloseEmpties, Witnesses
  <1>4. ~flushed[wit[g]]
    BY <1>1 DEF RedactInv, ReadyToAdd
  <1> QED BY <1>1, <1>2, <1>3, <1>4 DEF HandInv, FlusherShares, Owned

\* Every step keeps the batcher empty after its Close.
LEMMA DrainedNext ==
  TypeInv /\ BatchInv /\ RedactInv /\ HandInv /\ Drained /\ [Next]_vars => Drained'
  <1> SUFFICES ASSUME TypeInv, BatchInv, RedactInv, HandInv, Drained, [Next]_vars
      PROVE  Drained'
    OBVIOUS
  <1> USE NoneIsNew DEF TypeInv, Fields
  <1>1. ASSUME UNCHANGED <<content, uploading>>,
               pc'["capture"] = "closed" => pc["capture"] = "closed"
        PROVE  Drained'
    BY <1>1 DEF Drained
  <1>2. ASSUME UNCHANGED <<content, uploading>>, NEW g \in Goroutines, NEW l \in PCs,
               l # "closed", pc' = [pc EXCEPT ![g] = l]
        PROVE  Drained'
    BY <1>1, <1>2
  <1>3. ASSUME NEW m \in Messages, Process_load(m) PROVE Drained'
    BY <1>1, <1>3, LoadDoes DEF Process_load, batcher
  <1>4. CASE Process_store \/ Process_merge
    BY <1>1, <1>4 DEF Process_store, Process_merge, batcher, Goto
  <1>5. ASSUME NEW g \in Workers, witnessMutex_Lock(g) PROVE Drained'
    BY <1>1, <1>5 DEF witnessMutex_Lock, batcher, Goto
  <1>6. ASSUME NEW g \in Workers, queueUpload(g) PROVE Drained'
    <2>1. UNCHANGED <<content, uploading>>
      BY <1>6 DEF queueUpload, batcher
    <2>2. pc'["capture"] = "closed" => pc["capture"] = "closed"
      BY <1>6, QueueDoes DEF Goroutines
    <2> QED BY <1>1, <2>1, <2>2
  <1>7. ASSUME NEW g \in Workers, release(g) PROVE Drained'
    <2>1. /\ UNCHANGED <<content, uploading>> /\ g \in Goroutines
          /\ \E l \in {"idle", "range"} : pc' = [pc EXCEPT ![g] = l]
      BY <1>7 DEF release, batcher, Goto, Workers, Goroutines
    <2> QED BY <1>1, <2>1
  <1>8. ASSUME NEW g \in Workers, addWitness(g) PROVE Drained'
    <2>1. pc["capture"] # "closed" /\ pc'["capture"] \in {"flush", "release", pc["capture"]}
      BY <1>8, NothingToAdd, AddDoes DEF Goroutines
    <2> QED BY <2>1 DEF Drained
  <1>9. ASSUME NEW g \in Goroutines, Flush(g) PROVE Drained'
    <2>1. CASE content[active] = {}
      <3>1. UNCHANGED <<content, uploading>> /\ active # None
        BY <1>9, <2>1 DEF Flush, At, Holder, InBatcher
      <3>2. \A b \in Buffers \ uploading : content[b] = {}
        BY <2>1 DEF BatchInv, Requests
      <3> QED BY <3>1, <3>2 DEF Drained
    <2>2. CASE content[active] # {}
      <3>1. /\ uploading \subseteq uploading' /\ content' = content
            /\ pc' = [pc EXCEPT ![g] = "await"]
        BY <1>9, <2>2 DEF Flush, Goto
      <3> QED BY <3>1 DEF Drained
    <2> QED BY <2>1, <2>2
  <1>10. ASSUME NEW g \in Goroutines, Flush_await(g) PROVE Drained'
    <2>1. active = None /\ UNCHANGED <<content, uploading>>
      BY <1>10 DEF Flush_await, At, Holder
    <2>2. \A b \in Buffers \ uploading : content[b] = {}
      BY <2>1 DEF BatchInv, Requests
    <2> QED BY <2>1, <2>2 DEF Drained
  <1>11. ASSUME NEW c \in Conns, processConnection(c) PROVE Drained'
    <2>1. /\ pc["capture"] # "closed"
          /\ \E l \in {"flush", "idle"} : pc' = [pc EXCEPT !["tracker"] = l]
      BY <1>11 DEF processConnection, AfterAdd, At, Goto, Places, InReport, InBatcher
    <2> QED BY <2>1 DEF Drained
  <1>12. ASSUME NEW b \in Buffers, Upload(b) PROVE Drained'
    BY <1>12 DEF Upload, Drained
  <1>13. CASE ticker_flush
    BY <1>1, <1>13 DEF ticker_flush, Goto
  <1>14. ASSUME NEW g \in Workers, NEW k \in PairKeys,
                flushPairCache_visit(g, k) \/ flushPairCache_pass(g, k)
         PROVE  Drained'
    <2>1. UNCHANGED <<content, uploading>>
      BY <1>14 DEF flushPairCache_visit, flushPairCache_pass, batcher
    <2>2. pc' = pc \/ (g \in Goroutines /\ pc' = [pc EXCEPT ![g] = "lock"])
      BY <1>14 DEF flushPairCache_visit, flushPairCache_pass, Goto, Workers, Goroutines
    <2>3. pc'["capture"] = "closed" => pc["capture"] = "closed"
      BY <2>2 DEF Goroutines
    <2> QED BY <1>1, <2>1, <2>3
  <1>15. CASE periodicFlush_tick \/ periodicFlush_stop \/ periodicFlush_end
    <2>1. /\ UNCHANGED <<content, uploading>>
          /\ \E l \in PCs : pc' = [pc EXCEPT !["flusher"] = l]
      BY <1>15 DEF periodicFlush_tick, periodicFlush_stop, periodicFlush_end,
                   batcher, Goto, PCs
    <2> QED BY <1>1, <2>1
  <1>16. CASE Close_begin \/ Close_batch
    BY <1>1, <1>16 DEF Close_begin, Close_batch, batcher, Goto
  <1>17. CASE Close_return \/ UNCHANGED vars
    BY <1>1, <1>17 DEF Close_return, batcher, vars
  <1> QED BY StepCases, <1>3, <1>4, <1>5, <1>6, <1>7, <1>8, <1>9, <1>10, <1>11,
             <1>12, <1>13, <1>14, <1>15, <1>16, <1>17

\* Each message taken up reaches the back end once: Process and flushPairCache
\* never report it both, and what is neither dropped nor late is in a report
\* when Close has returned.
THEOREM ReportedExactlyOnceTheorem == Spec => []ReportedExactlyOnce
  <1>1. ASSUME TypeInv, OnceInv PROVE ReportedOnce
    BY <1>1 DEF TypeInv, Fields, OnceInv, ReportedOnce
  <1>2. ASSUME TypeInv, HandInv, KeepInv, Drained PROVE NothingLost
    <2> SUFFICES ASSUME stage = "returned" PROVE NothingLost
      BY DEF NothingLost
    <2>1. pc["capture"] = "closed" /\ wit["capture"] = None /\ msg = None
      BY <1>2 DEF TypeInv, Places, Locals, Reporting, InBatcher, Goroutines
    <2>2. \A w \in Witnesses : ~Owned(w)
      BY <1>2, <2>1, NoneIsNew DEF Owned, HandInv, CloseEmpties, Witnesses
    <2>3. \A m \in Messages : Kept(m) => copies[m] >= 1
      BY <2>1, <2>2, NoneIsNew DEF Kept
    <2> QED BY <1>2, <2>1, <2>3 DEF NothingLost, KeepInv, AllKept, Drained
  <1>3. TypeInv /\ PartsInv /\ MutexInv /\ HandInv /\ KeepInv /\ [Next]_vars =>
          HandInv' /\ KeepInv'
    BY TypeNext, HandNext, CountedNext, AllKeptNext DEF KeepInv
  <1>4. TypeInv /\ OnceInv /\ HandInv /\ KeepInv /\ Drained => ReportedExactlyOnce
    BY <1>1, <1>2 DEF ReportedExactlyOnce
  <1> QED
    BY <1>3, <1>4, TypeInit, TypeNext, BatchInit, BatchNext, PartsInit, PartsNext,
       MutexInit, MutexNext, RedactInit, RedactNext, OnceInit, OnceNext, HandInit,
       KeepInit, DrainedInit, DrainedNext, PTL DEF Spec
=============================================================================
