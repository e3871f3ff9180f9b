--------------------------- MODULE BackendCollector ---------------------------
(***************************************************************************)
(* The sink of the capture pipeline (trace/backend_collector.go and        *)
(* trace/report_buffer.go): it pairs requests with responses, redacts the  *)
(* resulting witnesses and uploads them in batches of reports.             *)
(*                                                                         *)
(* Goroutines: "capture" (Process for one message after the other, then    *)
(* Close), "flusher" (periodicFlush), "ticker" (the periodic flush of the  *)
(* batcher), "tracker" (the timers of the TCP and TLS trackers, which send *)
(* connection reports), and one for each upload in progress.  The batcher  *)
(* (akita-libs/batcher) is not part of the repository; the buffer it calls *)
(* has no lock of its own, so Add and Flush are taken to run one at a time *)
(* under the batcher's mutex, in the goroutine that calls it.              *)
(***************************************************************************)
EXTENDS Naturals, FiniteSets

CONSTANTS
  Messages,     \* HTTP requests and responses
  Conns,        \* TCP-connection and TLS-handshake reports
  PairKeys,     \* learn.PartialWitness.PairKey
  key,          \* the pair key of each message
  reportBuffers, \* number of upload requests
  BatchSize,    \* reports that make an upload request full
  None,         \* no witness, goroutine or buffer
  MayExpire,    \* may a witness be older than pairCacheExpiration?
  MayDrop       \* may a plugin fail, or a witness be oversized?

\* The upload requests.
Buffers == 1 .. reportBuffers

Goroutines == {"capture", "flusher", "ticker", "tracker"}

ASSUME BackendCollectorAssumption ==
  /\ key \in [Messages -> PairKeys]
  /\ reportBuffers \in Nat \ {0}
  /\ BatchSize \in Nat \ {0}
  /\ None \notin Messages \cup Conns \cup Goroutines
  /\ None \notin Buffers
  /\ Messages \cap Conns = {}
  /\ MayExpire \in BOOLEAN
  /\ MayDrop \in BOOLEAN

VARIABLES
  cache,     \* pairCache: pair key -> witness or None
  parts,     \* the messages merged into each witness
  redacted,  \* the part of them whose data has been redacted or zeroed
  flushed,   \* witnessFlushed
  mutex,     \* the goroutine that holds witnessMutex of each witness
  pc,        \* where each goroutine is
  wit,       \* the witness each goroutine works on
  msg,       \* the message Process works on
  todo,      \* pair keys that flushPairCache has still to visit
  stage,     \* of Close: "open", "flushing", "batch", "returned"
  batch,     \* the goroutine that holds the batcher's mutex
  active,    \* activeUploadReport, or None while Flush waits for one
  free,      \* the upload requests in the channel uploadReports
  uploading, \* the upload requests that an upload reads
  content,   \* the reports in each upload request
  seen,      \* messages and connection reports taken up so far
  dropped,   \* those dropped for a plugin's error or for their size
  copies,    \* how many reports a message has been put into
  late       \* messages that came while the flusher had their pair key in hand

vars == <<cache, parts, redacted, flushed, mutex, pc, wit, msg, todo, stage,
          batch, active, free, uploading, content, seen, dropped, copies, late>>

witnesses == <<parts, redacted, flushed>>
batcher   == <<batch, active, free, uploading, content>>
history   == <<seen, dropped, copies, late>>

\* A witness is named by the message that it was created for.
Witnesses == Messages

\* The contents of a report: of a connection report, nothing.
Report(w) == [id |-> w, parts |-> parts[w], redacted |-> redacted[w]]
ConnReport(c) == [id |-> c, parts |-> {}, redacted |-> {}]

At(g, l) == pc[g] = l
Goto(g, l) == pc' = [pc EXCEPT ![g] = l]

(***************************************************************************)
(* BackendCollector.Process.                                               *)
(***************************************************************************)

\* flushPairCache has taken the witness of the key from the cache with Range,
\* and has not come to the Delete.
InHand(k) == \E w \in Witnesses : wit["flusher"] = w /\ key[w] = k

\* ParseHTTP, then pairCache.LoadAndDelete.  A message that does not parse
\* changes nothing.
Process_load(m) ==
  /\ At("capture", "idle") /\ stage = "open"
  /\ m \notin seen
  /\ seen' = seen \cup {m}
  /\ msg' = m
  /\ wit' = [wit EXCEPT !["capture"] = cache[key[m]]]
  /\ cache' = [cache EXCEPT ![key[m]] = None]
  /\ late' = IF InHand(key[m]) THEN late \cup {m} ELSE late
  /\ Goto("capture", IF cache[key[m]] = None THEN "store" ELSE "lock")
  /\ UNCHANGED <<witnesses, mutex, todo, stage, batcher, dropped, copies>>

\* No pair yet: a new witness waits in the cache.
Process_store ==
  /\ At("capture", "store")
  /\ parts' = [parts EXCEPT ![msg] = {msg}]
  /\ cache' = [cache EXCEPT ![key[msg]] = msg]
  /\ late' = IF InHand(key[msg]) THEN late \cup {msg} ELSE late
  /\ msg' = None
  /\ Goto("capture", "idle")
  /\ UNCHANGED <<redacted, flushed, mutex, wit, todo, stage, batcher, seen,
                 dropped, copies>>

\* MergeWitness and computeProcessingLatency.
Process_merge ==
  /\ At("capture", "merge")
  /\ parts' = [parts EXCEPT ![wit["capture"]] = @ \cup {msg}]
  /\ msg' = None
  /\ Goto("capture", "queue")
  /\ UNCHANGED <<cache, redacted, flushed, mutex, wit, todo, stage, batcher,
                 history>>

(***************************************************************************)
(* What Process and flushPairCache do alike: witnessMutex and queueUpload. *)
(***************************************************************************)

\* Mutant: the mutex is not waited for.
witnessMutex_Lock_Mutant(g) ==
  /\ At(g, "lock")
  /\ mutex' = [mutex EXCEPT ![wit[g]] = g]
  /\ Goto(g, IF g = "capture" /\ stage = "open" THEN "merge" ELSE "queue")
  /\ UNCHANGED <<cache, witnesses, wit, msg, todo, stage, batcher, history>>

witnessMutex_Lock(g) ==
  /\ At(g, "lock")
  /\ mutex[wit[g]] = None
  /\ mutex' = [mutex EXCEPT ![wit[g]] = g]
  /\ Goto(g, IF g = "capture" /\ stage = "open" THEN "merge" ELSE "queue")
  /\ UNCHANGED <<cache, witnesses, wit, msg, todo, stage, batcher, history>>

\* Mutant: witnessFlushed is not looked at.
queueUpload_Mutant(g) ==
  /\ At(g, "queue")
  /\ redacted' = [redacted EXCEPT ![wit[g]] = parts[wit[g]]]
  /\ Goto(g, "add")
  /\ UNCHANGED <<cache, parts, flushed, mutex, wit, msg, todo, stage, batcher,
                 history>>

\* Up to the call of Add: nothing for a witness that was flushed before, the
\* plugins, then redaction or zeroing of all that is in the witness.
queueUpload(g) ==
  /\ At(g, "queue")
  /\ LET w == wit[g]
     IN \/ /\ flushed[w]
           /\ Goto(g, "release")
           /\ UNCHANGED <<redacted, flushed, dropped>>
        \/ /\ ~flushed[w] /\ MayDrop
           /\ flushed' = [flushed EXCEPT ![w] = TRUE]
           /\ dropped' = dropped \cup parts[w]
           /\ Goto(g, "release")
           /\ UNCHANGED redacted
        \/ /\ ~flushed[w]
           /\ redacted' = [redacted EXCEPT ![w] = parts[w]]
           /\ Goto(g, "add")
           /\ UNCHANGED <<flushed, dropped>>
  /\ UNCHANGED <<cache, parts, mutex, wit, msg, todo, stage, batcher, seen,
                 copies, late>>

\* The deferred assignment of queueUpload, the Delete of flushPairCache, and
\* the unlock.  Nobody can tell them apart: witnessFlushed is guarded by the
\* mutex, and a message that finds its key deleted does not need the mutex.
release(g) ==
  /\ At(g, "release")
  /\ LET w == wit[g]
     IN /\ flushed' = [flushed EXCEPT ![w] = TRUE]
        /\ mutex' = [mutex EXCEPT ![w] = None]
        /\ wit' = [wit EXCEPT ![g] = None]
        /\ IF g = "capture" /\ stage = "open"
           THEN Goto(g, "idle") /\ UNCHANGED cache
           ELSE Goto(g, "range") /\ cache' = [cache EXCEPT ![key[w]] = None]
  /\ UNCHANGED <<parts, redacted, msg, todo, stage, batcher, history>>

(***************************************************************************)
(* The batcher and its reportBuffer.                                       *)
(***************************************************************************)
isFull(b) == Cardinality(content'[b]) >= BatchSize

\* Add has returned and the buffer is full: Flush; else the caller goes on.
AfterAdd(g, l) ==
  IF isFull(active) THEN Goto(g, "flush") /\ batch' = g
                    ELSE Goto(g, l) /\ UNCHANGED batch

\* addWitness: a witness that is oversized, even when zeroed, is dropped.
addWitness(g) ==
  /\ At(g, "add") /\ batch = None
  /\ LET w == wit[g]
     IN \/ /\ content' = [content EXCEPT ![active] = @ \cup {Report(w)}]
           /\ copies' = [m \in Messages |-> IF m \in parts[w]
                                            THEN copies[m] + 1 ELSE copies[m]]
           /\ UNCHANGED dropped
        \/ /\ MayDrop
           /\ dropped' = dropped \cup parts[w]
           /\ UNCHANGED <<content, copies>>
  /\ AfterAdd(g, "release")
  /\ UNCHANGED <<cache, witnesses, mutex, wit, msg, todo, stage, active, free,
                 uploading, seen, late>>

\* processTCPConnection and processTLSHandshake.
processConnection(c) ==
  /\ At("tracker", "idle") /\ stage = "open" /\ batch = None
  /\ c \notin seen
  /\ seen' = seen \cup {c}
  /\ content' = [content EXCEPT ![active] = @ \cup {ConnReport(c)}]
  /\ AfterAdd("tracker", "idle")
  /\ UNCHANGED <<cache, witnesses, mutex, wit, msg, todo, stage, active, free,
                 uploading, dropped, copies, late>>

\* The batcher flushes every uploadBatchFlushDuration, until it is closed.
ticker_flush ==
  /\ At("ticker", "idle") /\ batch = None
  /\ stage # "returned"
  /\ content[active] # {}
  /\ batch' = "ticker"
  /\ Goto("ticker", "flush")
  /\ UNCHANGED <<cache, witnesses, mutex, wit, msg, todo, stage, active, free,
                 uploading, content, history>>

\* Where the callers of the batcher go on.
AfterFlush(g) ==
  CASE stage = "batch" /\ g = "capture" -> "closed"
    [] g \in {"ticker", "tracker"} -> "idle"
    [] OTHER -> "release"

\* Mutant: the next request is not fetched, and the one that is being uploaded
\* stays the active one.
Flush_Mutant(g) ==
  /\ At(g, "flush")
  /\ uploading' = uploading \cup {active}
  /\ batch' = None
  /\ Goto(g, AfterFlush(g))
  /\ UNCHANGED <<cache, witnesses, mutex, wit, msg, todo, stage, active, free,
                 content, history>>

\* Flush starts the upload of the active request, if it holds any report, and
\* then waits for one in the channel.
Flush(g) ==
  /\ At(g, "flush")
  /\ IF content[active] = {}
     THEN batch' = None /\ Goto(g, AfterFlush(g)) /\ UNCHANGED <<active, uploading>>
     ELSE /\ uploading' = uploading \cup {active}
          /\ active' = None
          /\ Goto(g, "await")
          /\ UNCHANGED batch
  /\ UNCHANGED <<cache, witnesses, mutex, wit, msg, todo, stage, free, content,
                 history>>

Flush_await(g) ==
  /\ At(g, "await")
  /\ \E b \in free : active' = b /\ free' = free \ {b}
  /\ batch' = None
  /\ Goto(g, AfterFlush(g))
  /\ UNCHANGED <<cache, witnesses, mutex, wit, msg, todo, stage, uploading,
                 content, history>>

\* Mutant: the request is not given back after an upload.
Upload_Mutant(b) ==
  /\ b \in uploading
  /\ uploading' = uploading \ {b}
  /\ content' = [content EXCEPT ![b] = {}]
  /\ UNCHANGED <<cache, witnesses, mutex, pc, wit, msg, todo, stage, batch,
                 active, free, history>>

\* An upload ends, with success or with an error that is only logged: Clear,
\* and the request goes back into the channel.
Upload(b) ==
  /\ b \in uploading
  /\ uploading' = uploading \ {b}
  /\ content' = [content EXCEPT ![b] = {}]
  /\ free' = free \cup {b}
  /\ UNCHANGED <<cache, witnesses, mutex, pc, wit, msg, todo, stage, batch,
                 active, history>>

(***************************************************************************)
(* flushPairCache, in periodicFlush and in Close.                          *)
(***************************************************************************)
\* The worker's select may choose the tick after flushDone is closed.
periodicFlush_tick ==
  /\ MayExpire
  /\ At("flusher", "idle")
  /\ todo' = [todo EXCEPT !["flusher"] = PairKeys]
  /\ Goto("flusher", "range")
  /\ UNCHANGED <<cache, witnesses, mutex, wit, msg, stage, batcher, history>>

periodicFlush_stop ==
  /\ At("flusher", "idle")
  /\ stage # "open"
  /\ Goto("flusher", "stopped")
  /\ UNCHANGED <<cache, witnesses, mutex, wit, msg, todo, stage, batcher,
                 history>>

\* Range calls its function for the witness the key has by then.
flushPairCache_visit(g, k) ==
  /\ At(g, "range")
  /\ k \in todo[g]
  /\ cache[k] # None
  /\ todo' = [todo EXCEPT ![g] = @ \ {k}]
  /\ wit' = [wit EXCEPT ![g] = cache[k]]
  /\ Goto(g, "lock")
  /\ UNCHANGED <<cache, witnesses, mutex, msg, stage, batcher, history>>

\* No entry, or one that is not older than the cutoff.  The cutoff of Close is
\* the time of the call, and the capture goroutine makes no entry after that.
flushPairCache_pass(g, k) ==
  /\ At(g, "range")
  /\ k \in todo[g]
  /\ cache[k] = None \/ g = "flusher"
  /\ todo' = [todo EXCEPT ![g] = @ \ {k}]
  /\ UNCHANGED <<cache, witnesses, mutex, pc, wit, msg, stage, batcher, history>>

periodicFlush_end ==
  /\ At("flusher", "range")
  /\ todo["flusher"] = {}
  /\ Goto("flusher", "idle")
  /\ UNCHANGED <<cache, witnesses, mutex, wit, msg, todo, stage, batcher,
                 history>>

(***************************************************************************)
(* Close: close(flushDone), flushPairCache(time.Now()), and the Close of   *)
(* the batcher, which flushes what is left.                                *)
(***************************************************************************)
Close_begin ==
  /\ At("capture", "idle") /\ stage = "open"
  /\ stage' = "flushing"
  /\ todo' = [todo EXCEPT !["capture"] = PairKeys]
  /\ Goto("capture", "range")
  /\ UNCHANGED <<cache, witnesses, mutex, wit, msg, batcher, history>>

Close_batch ==
  /\ At("capture", "range") /\ todo["capture"] = {}
  /\ batch = None
  /\ batch' = "capture"
  /\ stage' = "batch"
  /\ Goto("capture", "flush")
  /\ UNCHANGED <<cache, witnesses, mutex, wit, msg, todo, active, free, uploading,
                 content, history>>

Close_return ==
  /\ At("capture", "closed") /\ stage = "batch"
  /\ stage' = "returned"
  /\ UNCHANGED <<cache, witnesses, mutex, pc, wit, msg, todo, batcher, history>>

(***************************************************************************)
(* The specification.                                                      *)
(***************************************************************************)
\* newReportBuffer fills the channel and takes the first request from it.
Init ==
  /\ cache = [k \in PairKeys |-> None]
  /\ parts = [w \in Witnesses |-> {}]
  /\ redacted = [w \in Witnesses |-> {}]
  /\ flushed = [w \in Witnesses |-> FALSE]
  /\ mutex = [w \in Witnesses |-> None]
  /\ pc = [g \in Goroutines |-> "idle"]
  /\ wit = [g \in Goroutines |-> None]
  /\ msg = None
  /\ todo = [g \in {"capture", "flusher"} |-> {}]
  /\ stage = "open"
  /\ batch = None
  /\ active = 1
  /\ free = Buffers \ {1}
  /\ uploading = {}
  /\ content = [b \in Buffers |-> {}]
  /\ seen = {}
  /\ dropped = {}
  /\ copies = [m \in Messages |-> 0]
  /\ late = {}

QueueStep(g) ==
  \/ witnessMutex_Lock(g)
  \/ queueUpload(g)
  \/ release(g)
  \/ addWitness(g)
  \/ \E k \in PairKeys : flushPairCache_visit(g, k) \/ flushPairCache_pass(g, k)

FlushStep(g) == Flush(g) \/ Flush_await(g)

\* The capture goroutine, apart from the messages it is given.
CaptureStep ==
  \/ Process_store
  \/ Process_merge
  \/ QueueStep("capture")
  \/ FlushStep("capture")
  \/ Close_batch
  \/ Close_return

FlusherStep ==
  \/ QueueStep("flusher")
  \/ FlushStep("flusher")
  \/ periodicFlush_end
  \/ periodicFlush_stop

Next ==
  \/ \E m \in Messages : Process_load(m)
  \/ Close_begin
  \/ CaptureStep
  \/ periodicFlush_tick
  \/ FlusherStep
  \/ ticker_flush
  \/ FlushStep("ticker")
  \/ \E c \in Conns : processConnection(c)
  \/ FlushStep("tracker")
  \/ \E b \in Buffers : Upload(b)

Spec == Init /\ [][Next]_vars

\* A goroutine that can go on does so; a goroutine that waits for a mutex gets
\* it if it is free again and again (sync.Mutex hands it over to one that has
\* waited for a millisecond); an upload ends within its timeout of 30 seconds.
Fairness ==
  /\ SF_vars(CaptureStep)
  /\ SF_vars(FlusherStep)
  /\ WF_vars(FlushStep("ticker"))
  /\ WF_vars(FlushStep("tracker"))
  /\ \A b \in Buffers : WF_vars(Upload(b))

FairSpec == Spec /\ Fairness

(***************************************************************************)
(* Properties.                                                             *)
(***************************************************************************)
CacheOwners == Goroutines \cup {None}

PCs == {"idle", "store", "lock", "merge", "queue", "add", "flush", "await",
        "release", "range", "stopped", "closed"}

\* The values of the collector's fields and of the goroutines' locals.  A full
\* request is flushed before anything else is added to it.
TypeOK ==
  /\ cache \in [PairKeys -> Witnesses \cup {None}]
  /\ parts \in [Witnesses -> SUBSET Messages]
  /\ redacted \in [Witnesses -> SUBSET Messages]
  /\ flushed \in [Witnesses -> BOOLEAN]
  /\ mutex \in [Witnesses -> CacheOwners]
  /\ pc \in [Goroutines -> PCs]
  /\ wit \in [Goroutines -> Witnesses \cup {None}]
  /\ msg \in Messages \cup {None}
  /\ todo \in [{"capture", "flusher"} -> SUBSET PairKeys]
  /\ stage \in {"open", "flushing", "batch", "returned"}
  /\ batch \in CacheOwners
  /\ active \in Buffers \cup {None}
  /\ free \in SUBSET Buffers
  /\ uploading \in SUBSET Buffers
  /\ \A b \in Buffers : Cardinality(content[b]) <= BatchSize
  /\ seen \in SUBSET (Messages \cup Conns)
  /\ dropped \in SUBSET Messages
  /\ copies \in [Messages -> Nat]
  /\ late \in SUBSET Messages

\* Nothing leaves the agent that was not redacted: no message can be merged
\* into a witness between its redaction in queueUpload and its serialization
\* in addWitness, whoever takes the witness from pairCache meanwhile.
ReportedRedacted ==
  \A b \in Buffers : \A r \in content[b] : r.parts \subseteq r.redacted

\* A message is reported once, although Process and flushPairCache can both
\* hold its witness: witnessFlushed and pairCache keep the second from it.
ReportedOnce == \A m \in Messages : copies[m] <= 1

\* reportBuffer never changes a request while its upload reads it: an upload
\* ends with the reports it began with.
UploadStable ==
  [][\A b \in uploading : content'[b] = content[b] \/ b \notin uploading']_vars

\* When Close has returned, every message that Process took up has been put
\* into a report, unless it was dropped for its size or for an error, or came
\* while the flusher was at work on its pair key; and no report is left in a
\* request whose upload has not begun.
NothingLost ==
  stage = "returned" =>
    /\ \A m \in Messages \cap (seen \ (dropped \cup late)) : copies[m] >= 1
    /\ \A b \in Buffers \ uploading : content[b] = {}

\* Each message that is taken up reaches the back end once: never twice, and by
\* the return of Close not less.
ReportedExactlyOnce == ReportedOnce /\ NothingLost

\* Close returns: no goroutine keeps a mutex or the last upload request for
\* ever.
CloseReturns == stage = "flushing" ~> stage = "returned"
=============================================================================
