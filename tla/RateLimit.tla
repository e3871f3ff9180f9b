------------------------------- MODULE RateLimit -------------------------------
(***************************************************************************)
(* The rate limit of the capture pipeline (trace/rate_limit.go).  One      *)
(* SharedRateLimit admits about WitnessesPerEpoch requests in each epoch,  *)
(* in a sampling interval that starts at a random time of the epoch; each  *)
(* interface has a rateLimitCollector, which passes the responses of the   *)
(* admitted requests.                                                      *)
(*                                                                         *)
(* Goroutines: run, and the capture goroutine of each collector (as long   *)
(* as TCP and TLS reports are off, which is the default, no timer of the   *)
(* connection trackers calls Process too).  Time is counted in units;      *)
(* whatever happens within a unit happens in any order, and run receives a *)
(* tick before the next unit begins.  Stop and Reset discard a tick that   *)
(* has not been received (Go 1.23 and later).                              *)
(***************************************************************************)
EXTENDS Integers

CONSTANTS
  Collectors,        \* one for each interface
  Keys,              \* requestKey: stream and sequence number
  WitnessesPerEpoch,
  Epoch,             \* RateLimitEpochTime
  MaxDuration,       \* RateLimitMaxDuration
  LastTime           \* bound: the time at which the model stops

VARIABLES
  now,
  run,         \* the goroutine: "running", "stopped", or "panicked"
  epochTick,   \* the tick in epochTicker.C, or Never
  timer,       \* when intervalTimer fires, or Never
  timerTick,   \* the tick in intervalTimer.C, or Never
  SampleIntervalStart, SampleIntervalActive, SampleIntervalCount,
  EstimatedSampleInterval, FirstEstimate,
  child,       \* each collector: "new", "open" or "closed"
  pc,          \* each collector: "idle", or "epoch" at the end of Process
  epochCh,     \* the epoch start in each collector's epochCh, or Never
  RequestArrivalTimes,  \* per collector and key, or Never
  admitted,    \* requests admitted since the last startNewEpoch
  asked        \* the last request of each key that was admitted and has not
               \* been answered

limit == <<SampleIntervalStart, SampleIntervalActive, SampleIntervalCount,
           EstimatedSampleInterval, FirstEstimate>>
timers == <<epochTick, timer, timerTick>>
collectors == <<child, pc, epochCh, RequestArrivalTimes>>
history == <<admitted, asked>>
vars == <<now, run, timers, limit, collectors, history>>

Never == -1

(***************************************************************************)
(* SharedRateLimit.                                                        *)
(***************************************************************************)

\* The exponential moving average with RateLimitExponentialAlpha = 0.3,
\* truncated to a whole number of units.
Average(old, new) == (7 * old + 3 * new) \div 10

\* While the last interval is still active it is simply started again.
startInterval ==
  /\ run = "running" /\ timerTick # Never
  /\ timerTick' = Never
  /\ SampleIntervalStart' = timerTick
  /\ SampleIntervalCount' = 0
  /\ SampleIntervalActive' = TRUE
  /\ UNCHANGED <<now, run, epochTick, timer, EstimatedSampleInterval,
                 FirstEstimate, collectors, history>>

\* Timer.Stop, then Timer.Reset.
ResetTimer(offset) ==
  IF offset = 0 THEN timer' = Never /\ timerTick' = now
                ELSE timer' = now + offset /\ timerTick' = Never

\* What rand.Int63n may return; it panics unless its argument is positive.
Offsets == IF FirstEstimate THEN {0}
           ELSE 0 .. (Epoch - EstimatedSampleInterval - 1)

\* Mutant: without an estimate the timer is not set.
startNewEpoch_Mutant ==
  /\ run = "running" /\ epochTick # Never
  /\ epochTick' = Never
  /\ IF FirstEstimate THEN UNCHANGED <<timer, timerTick>>
     ELSE \E offset \in Offsets : ResetTimer(offset)
  /\ UNCHANGED <<now, run, limit, collectors, asked>>
  /\ admitted' = 0

\* The interval of the last epoch goes on if it is active.  A collector whose
\* epochCh is full is passed over.
startNewEpoch ==
  /\ run = "running" /\ epochTick # Never
  /\ epochTick' = Never
  /\ \/ /\ \E offset \in Offsets : ResetTimer(offset)
        /\ epochCh' = [c \in Collectors |->
                         IF child[c] = "open" /\ epochCh[c] = Never
                         THEN epochTick ELSE epochCh[c]]
        /\ admitted' = 0
        /\ UNCHANGED run
     \/ /\ Offsets = {}
        /\ run' = "panicked"
        /\ UNCHANGED <<timer, timerTick, epochCh, admitted>>
  /\ UNCHANGED <<now, limit, child, pc, RequestArrivalTimes, asked>>

Stop ==
  /\ run = "running"
  /\ run' = "stopped"
  /\ UNCHANGED <<now, timers, limit, collectors, history>>

\* endInterval: the interval that ends now gives the next estimate.
endInterval ==
  LET length == now - SampleIntervalStart
  IN /\ SampleIntervalActive' = FALSE
     /\ SampleIntervalCount' = 0
     /\ FirstEstimate' = FALSE
     /\ EstimatedSampleInterval' =
          IF FirstEstimate THEN length
                           ELSE Average(EstimatedSampleInterval, length)

\* Mutant: off by one.
AllowHTTPRequest_Mutant ==
  /\ SampleIntervalActive
  /\ admitted' = admitted + 1
  /\ IF SampleIntervalCount + 1 > WitnessesPerEpoch THEN endInterval
     ELSE /\ SampleIntervalCount' = SampleIntervalCount + 1
          /\ UNCHANGED <<SampleIntervalActive, EstimatedSampleInterval,
                         FirstEstimate>>
  /\ UNCHANGED SampleIntervalStart

\* A request is admitted, and the last one of an interval ends it.
AllowHTTPRequest ==
  /\ SampleIntervalActive
  /\ admitted' = admitted + 1
  /\ IF SampleIntervalCount + 1 >= WitnessesPerEpoch THEN endInterval
     ELSE /\ SampleIntervalCount' = SampleIntervalCount + 1
          /\ UNCHANGED <<SampleIntervalActive, EstimatedSampleInterval,
                         FirstEstimate>>
  /\ UNCHANGED SampleIntervalStart

(***************************************************************************)
(* rateLimitCollector.                                                     *)
(***************************************************************************)
NewCollector(c) ==
  /\ child[c] = "new"
  /\ child' = [child EXCEPT ![c] = "open"]
  /\ UNCHANGED <<now, run, timers, limit, pc, epochCh, RequestArrivalTimes,
                 history>>

Processing(c) == run # "panicked" /\ child[c] = "open" /\ pc[c] = "idle"

\* An admitted request is remembered until its response is seen.
Process_HTTPRequest(c, k) ==
  /\ Processing(c)
  /\ AllowHTTPRequest
  /\ RequestArrivalTimes' = [RequestArrivalTimes EXCEPT ![c][k] = now]
  /\ asked' = [asked EXCEPT ![c][k] = now]
  /\ pc' = [pc EXCEPT ![c] = "epoch"]
  /\ UNCHANGED <<now, run, timers, child, epochCh>>

Process_HTTPResponse(c, k) ==
  /\ Processing(c)
  /\ RequestArrivalTimes[c][k] # Never
  /\ RequestArrivalTimes' = [RequestArrivalTimes EXCEPT ![c][k] = Never]
  /\ asked' = [asked EXCEPT ![c][k] = Never]
  /\ pc' = [pc EXCEPT ![c] = "epoch"]
  /\ UNCHANGED <<now, run, timers, limit, child, epochCh, admitted>>

\* Anything else: a request outside an interval, a response to a request that
\* is not remembered, or other traffic.
Process_other(c) ==
  /\ Processing(c)
  /\ pc' = [pc EXCEPT ![c] = "epoch"]
  /\ UNCHANGED <<now, run, timers, limit, child, epochCh, RequestArrivalTimes,
                 history>>

\* Mutant: requests are forgotten after an epoch.
Expired_Mutant(arrival, epochStart) == arrival < epochStart - Epoch + 1

\* The threshold that startNewEpoch computes, and the test of expireRequests.
Expired(arrival, epochStart) == arrival < epochStart - MaxDuration

\* The end of Process: expireRequests if there is a new epoch.
expireRequests(c) ==
  /\ run # "panicked"
  /\ pc[c] = "epoch"
  /\ pc' = [pc EXCEPT ![c] = "idle"]
  /\ epochCh' = [epochCh EXCEPT ![c] = Never]
  /\ RequestArrivalTimes' =
       [RequestArrivalTimes EXCEPT ![c] = [k \in Keys |->
          IF epochCh[c] # Never /\ Expired(@[k], epochCh[c]) THEN Never
                                                            ELSE @[k]]]
  /\ UNCHANGED <<now, run, timers, limit, child, history>>

Close(c) ==
  /\ Processing(c)
  /\ child' = [child EXCEPT ![c] = "closed"]
  /\ UNCHANGED <<now, run, timers, limit, pc, epochCh, RequestArrivalTimes,
                 history>>

(***************************************************************************)
(* Time passes.                                                            *)
(***************************************************************************)
Tick ==
  /\ now < LastTime
  /\ run = "running"
  /\ epochTick = Never /\ timerTick = Never
  /\ now' = now + 1
  /\ epochTick' = IF now' % Epoch = 0 THEN now' ELSE Never
  /\ IF timer = now' THEN timer' = Never /\ timerTick' = now'
                     ELSE UNCHANGED <<timer, timerTick>>
  /\ UNCHANGED <<run, limit, collectors, history>>

(***************************************************************************)
(* The specification.                                                      *)
(***************************************************************************)
\* NewRateLimit, and run up to its loop: the interval timer fires at once.
Init ==
  /\ now = 0
  /\ run = "running"
  /\ epochTick = Never
  /\ timer = Never
  /\ timerTick = 0
  /\ SampleIntervalStart = 0
  /\ SampleIntervalActive = FALSE
  /\ SampleIntervalCount = 0
  /\ EstimatedSampleInterval = 0
  /\ FirstEstimate = TRUE
  /\ child = [c \in Collectors |-> "new"]
  /\ pc = [c \in Collectors |-> "idle"]
  /\ epochCh = [c \in Collectors |-> Never]
  /\ RequestArrivalTimes = [c \in Collectors |-> [k \in Keys |-> Never]]
  /\ admitted = 0
  /\ asked = [c \in Collectors |-> [k \in Keys |-> Never]]

Next ==
  \/ startInterval
  \/ startNewEpoch
  \/ Stop
  \/ \E c \in Collectors :
       \/ NewCollector(c)
       \/ \E k \in Keys : Process_HTTPRequest(c, k) \/ Process_HTTPResponse(c, k)
       \/ Process_other(c)
       \/ expireRequests(c)
       \/ Close(c)
  \/ Tick

Spec == Init /\ [][Next]_vars

(***************************************************************************)
(* Properties.                                                             *)
(***************************************************************************)
Times == {Never} \cup 0 .. LastTime

\* The values of the fields.
TypeOK ==
  /\ now \in 0 .. LastTime
  /\ run \in {"running", "stopped", "panicked"}
  /\ epochTick \in Times
  /\ timer \in {Never} \cup 0 .. (LastTime + Epoch)
  /\ timerTick \in Times
  /\ SampleIntervalStart \in 0 .. LastTime
  /\ SampleIntervalActive \in BOOLEAN
  /\ SampleIntervalCount \in 0 .. (WitnessesPerEpoch - 1)
  /\ EstimatedSampleInterval \in 0 .. LastTime
  /\ FirstEstimate \in BOOLEAN
  /\ child \in [Collectors -> {"new", "open", "closed"}]
  /\ pc \in [Collectors -> {"idle", "epoch"}]
  /\ epochCh \in [Collectors -> Times]
  /\ RequestArrivalTimes \in [Collectors -> [Keys -> Times]]
  /\ admitted \in Nat
  /\ asked \in [Collectors -> [Keys -> Times]]

\* All collectors together admit at most two budgets between two starts of an
\* epoch: what is left of an interval that the last epoch began, and one more.
\* (One budget, as discovery-mode.md has it, would be too much to ask.)
EpochBudget == admitted <= 2 * WitnessesPerEpoch

\* A request that was selected is remembered for RateLimitMaxDuration, unless
\* its response came: stale epoch starts in epochCh do not make it forgotten
\* earlier.
Remembered ==
  \A c \in Collectors, k \in Keys :
    /\ asked[c][k] # Never
    /\ now - asked[c][k] <= MaxDuration
    => RequestArrivalTimes[c][k] = asked[c][k]

\* The limiter never falls silent: it starts an interval in every epoch,
\* whether or not the last one has been used up, and whatever the collectors
\* do with their epoch channels.
SamplingResumes ==
  run = "running" => now - SampleIntervalStart <= 2 * Epoch

\* startNewEpoch: "Pick a time for the next sampling interval to start within
\* this epoch."  There is always such a time.
NoPanic == run # "panicked"
=============================================================================
