--------------------------- MODULE RateLimit_proofs ---------------------------
(***************************************************************************)
(* Proofs about the rate limit, for every budget, epoch and number of      *)
(* collectors and for every bound on the time: the fields keep their       *)
(* types, at most two budgets are admitted in an epoch, no selected        *)
(* request is forgotten too early, and an interval starts in every epoch.  *)
(***************************************************************************)
EXTENDS Packets, Integers, TLAPS

(***************************************************************************)
(* The budget of an epoch.                                                 *)
(***************************************************************************)
\* What the active interval may still admit.
Remaining == IF SampleIntervalActive
             THEN WitnessesPerEpoch - SampleIntervalCount ELSE 0

\* What the interval that is still to start in this epoch may admit.
Reserve == IF timer # Limiter!Never \/ timerTick # Limiter!Never THEN WitnessesPerEpoch ELSE 0

LimitType ==
  /\ admitted \in Nat
  /\ SampleIntervalCount \in 0 .. (WitnessesPerEpoch - 1)
  /\ clock \in Nat

\* The timer fires once after each Reset.
OneTimer == timer = Limiter!Never \/ timerTick = Limiter!Never

\* The inductive invariant: with what may still be admitted, two budgets.
BudgetInv ==
  /\ LimitType
  /\ OneTimer
  /\ admitted + Remaining + Reserve <= 2 * WitnessesPerEpoch

\* The budget of an epoch is a positive number (NewRateLimit).
LEMMA BudgetIsPositive == WitnessesPerEpoch \in Nat /\ WitnessesPerEpoch >= 1
  BY RateLimitAssumption DEF RateLimitAssumption

\* Two numbers within the budget are within two budgets together.
LEMMA TwoBudgets ==
  ASSUME NEW x \in Nat, NEW y \in Nat,
         x <= WitnessesPerEpoch, y <= WitnessesPerEpoch
  PROVE  0 + x + y <= 2 * WitnessesPerEpoch
  BY BudgetIsPositive

\* Initially nothing is admitted and one interval is to start.
LEMMA BudgetInit == Limiter!Init => BudgetInv
  <1> SUFFICES ASSUME Limiter!Init PROVE BudgetInv
    OBVIOUS
  <1>1. LimitType /\ OneTimer
    BY BudgetIsPositive DEF Limiter!Init, LimitType, OneTimer
  <1>2. Remaining = 0 /\ Reserve = WitnessesPerEpoch
    BY DEF Limiter!Init, Remaining, Reserve, Limiter!Never
  <1>3. admitted = 0
    BY DEF Limiter!Init
  <1>4. admitted + Remaining + Reserve <= 2 * WitnessesPerEpoch
    BY <1>2, <1>3, BudgetIsPositive
  <1> QED BY <1>1, <1>4 DEF BudgetInv

\* An interval that starts takes the place of the reserve.
LEMMA BudgetInterval == BudgetInv /\ Limiter!startInterval => BudgetInv'
  <1> SUFFICES ASSUME BudgetInv, Limiter!startInterval PROVE BudgetInv'
    OBVIOUS
  <1> USE BudgetIsPositive
      DEF BudgetInv, LimitType, OneTimer, Limiter!startInterval, Limiter!history, Limiter!collectors
  <1>1. timer' = Limiter!Never /\ timerTick' = Limiter!Never
    BY DEF Limiter!Never
  <1>2. LimitType' /\ OneTimer'
    BY <1>1
  <1>3. Reserve = WitnessesPerEpoch /\ Reserve' = 0
    BY <1>1 DEF Reserve
  <1>4. Remaining' = WitnessesPerEpoch /\ Remaining \in Nat
    BY DEF Remaining
  <1>5. (admitted + Remaining + Reserve <= 2 * WitnessesPerEpoch)'
    BY <1>3, <1>4
  <1> QED BY <1>2, <1>5

\* A new epoch starts with the interval of the last one and a new reserve.
LEMMA BudgetEpoch == BudgetInv /\ Limiter!startNewEpoch => BudgetInv'
  <1> SUFFICES ASSUME BudgetInv, Limiter!startNewEpoch PROVE BudgetInv'
    OBVIOUS
  <1> USE BudgetIsPositive
      DEF BudgetInv, LimitType, OneTimer, Limiter!limit
  <1>1. UNCHANGED <<clock, Limiter!limit>>
    BY DEF Limiter!startNewEpoch
  <1>2. CASE UNCHANGED <<timer, timerTick, admitted>>
    BY <1>1, <1>2 DEF Remaining, Reserve
  <1>3. CASE admitted' = 0 /\ \E offset \in Limiter!Offsets : Limiter!ResetTimer(offset)
    <2>1. timer' = Limiter!Never \/ timerTick' = Limiter!Never
      BY <1>3 DEF Limiter!ResetTimer
    <2>2. Remaining' \in Nat /\ Remaining' <= WitnessesPerEpoch
      BY <1>1 DEF Remaining
    <2>3. Reserve' \in Nat /\ Reserve' <= WitnessesPerEpoch
      BY DEF Reserve
    <2>4. LimitType'
      BY <1>1, <1>3
    <2>5. (admitted + Remaining + Reserve <= 2 * WitnessesPerEpoch)'
      BY <1>3, <2>2, <2>3, TwoBudgets
    <2> QED BY <2>1, <2>4, <2>5
  <1> QED BY <1>2, <1>3 DEF Limiter!startNewEpoch

\* An admitted request is taken from what the interval may still admit.
LEMMA BudgetRequest ==
  ASSUME NEW c \in Collectors, NEW k \in Keys, BudgetInv,
         Limiter!Process_HTTPRequest(c, k)
  PROVE  BudgetInv'
  <1> USE BudgetIsPositive DEF BudgetInv, LimitType, OneTimer
  <1>1. UNCHANGED <<clock, timer, timerTick>> /\ Limiter!AllowHTTPRequest
    BY DEF Limiter!Process_HTTPRequest, Limiter!timers
  <1>2. SampleIntervalActive /\ admitted' = admitted + 1
    BY <1>1 DEF Limiter!AllowHTTPRequest
  <1>3. Reserve' = Reserve /\ Reserve \in Nat
    BY <1>1 DEF Reserve
  <1>4. CASE SampleIntervalCount + 1 >= WitnessesPerEpoch
    <2>1. SampleIntervalActive' = FALSE /\ SampleIntervalCount' = 0
      BY <1>1, <1>4 DEF Limiter!AllowHTTPRequest, Limiter!endInterval
    <2>2. Remaining = 1 /\ Remaining' = 0
      BY <1>2, <1>4, <2>1 DEF Remaining
    <2>3. LimitType' /\ OneTimer'
      BY <1>1, <1>2, <2>1
    <2>4. (admitted + Remaining + Reserve <= 2 * WitnessesPerEpoch)'
      BY <1>2, <1>3, <2>2
    <2> QED BY <2>3, <2>4
  <1>5. CASE ~(SampleIntervalCount + 1 >= WitnessesPerEpoch)
    <2>1. /\ SampleIntervalActive' = SampleIntervalActive
          /\ SampleIntervalCount' = SampleIntervalCount + 1
      BY <1>1, <1>5 DEF Limiter!AllowHTTPRequest
    <2>2. Remaining' = Remaining - 1 /\ Remaining \in Nat
      BY <1>2, <1>5, <2>1 DEF Remaining
    <2>3. LimitType' /\ OneTimer'
      BY <1>1, <1>2, <1>5, <2>1
    <2>4. (admitted + Remaining + Reserve <= 2 * WitnessesPerEpoch)'
      BY <1>2, <1>3, <2>2
    <2> QED BY <2>3, <2>4
  <1> QED BY <1>4, <1>5

\* The timer that fires leaves its tick in the channel.
LEMMA BudgetTick == BudgetInv /\ Limiter!Tick => BudgetInv'
  <1> SUFFICES ASSUME BudgetInv, Limiter!Tick PROVE BudgetInv'
    OBVIOUS
  <1> USE BudgetIsPositive DEF BudgetInv, LimitType, OneTimer
  <1>1. UNCHANGED <<Limiter!limit, admitted>> /\ clock' = clock + 1 /\ timerTick = Limiter!Never
    BY DEF Limiter!Tick, Limiter!history
  <1>2. Remaining' = Remaining
    BY <1>1 DEF Remaining, Limiter!limit
  <1>3. Reserve' = Reserve /\ OneTimer'
    BY <1>1 DEF Reserve, Limiter!Tick, Limiter!Never
  <1> QED BY <1>1, <1>2, <1>3 DEF Limiter!limit

\* The other steps leave the limit and its timers alone.
LEMMA BudgetNext == BudgetInv /\ [Limiter!Next]_(Limiter!vars) => BudgetInv'
  <1> SUFFICES ASSUME BudgetInv, [Limiter!Next]_(Limiter!vars) PROVE BudgetInv'
    OBVIOUS
  <1>1. ASSUME UNCHANGED <<clock, Limiter!timers, Limiter!limit, admitted>> PROVE BudgetInv'
    BY <1>1 DEF BudgetInv, LimitType, OneTimer, Remaining, Reserve, Limiter!timers, Limiter!limit
  <1>2. CASE Limiter!startInterval
    BY <1>2, BudgetInterval
  <1>3. CASE Limiter!startNewEpoch
    BY <1>3, BudgetEpoch
  <1>4. CASE Limiter!Stop
    BY <1>1, <1>4 DEF Limiter!Stop, Limiter!history
  <1>5. ASSUME NEW c \in Collectors, NEW k \in Keys, Limiter!Process_HTTPRequest(c, k)
        PROVE  BudgetInv'
    BY <1>5, BudgetRequest
  <1>6. ASSUME NEW c \in Collectors, NEW k \in Keys, Limiter!Process_HTTPResponse(c, k)
        PROVE  BudgetInv'
    BY <1>1, <1>6 DEF Limiter!Process_HTTPResponse
  <1>7. ASSUME NEW c \in Collectors,
               \/ Limiter!NewCollector(c) \/ Limiter!Process_other(c)
               \/ Limiter!expireRequests(c) \/ Limiter!Close(c)
        PROVE  BudgetInv'
    BY <1>1, <1>7 DEF Limiter!NewCollector, Limiter!Process_other, Limiter!expireRequests,
      Limiter!Close, Limiter!history
  <1>8. CASE Limiter!Tick
    BY <1>8, BudgetTick
  <1>9. CASE UNCHANGED Limiter!vars
    BY <1>1, <1>9 DEF Limiter!vars, Limiter!history
  <1> QED BY <1>2, <1>3, <1>4, <1>5, <1>6, <1>7, <1>8, <1>9 DEF Limiter!Next

\* Whatever the collectors do, at most 2 * WitnessesPerEpoch requests are
\* admitted between two starts of an epoch (AllowHTTPRequest).
THEOREM EpochBudgetTheorem == Limiter!Spec => []EpochBudget
  <1>1. BudgetInv => EpochBudget
    BY BudgetIsPositive
    DEF BudgetInv, LimitType, EpochBudget, Limiter!EpochBudget, Remaining, Reserve
  <1> QED BY <1>1, BudgetInit, BudgetNext, PTL DEF Limiter!Spec

(***************************************************************************)
(* The values of the fields, and how they stand to the clock.              *)
(***************************************************************************)
Past == 0 .. clock

\* A tick is received in its unit of time, a timer is set for a later one, and
\* everything that is remembered has happened.
ClockInv ==
  /\ epochTick \in {Limiter!Never, clock}
  /\ timerTick \in {Limiter!Never, clock}
  /\ timer = Limiter!Never \/ clock < timer
  /\ SampleIntervalStart \in Past
  /\ \A c \in Collectors : epochCh[c] \in {Limiter!Never} \cup Past

TypeInv == Limiter!TypeOK /\ ClockInv

\* The constants are the numbers that the code computes with.
LEMMA Numbers ==
  /\ Epoch \in Nat /\ Epoch >= 1
  /\ WitnessesPerEpoch \in Nat /\ WitnessesPerEpoch >= 1
  /\ MaxDuration \in Nat
  /\ LastTime \in Nat
  BY RateLimitAssumption DEF RateLimitAssumption

\* An average lies below every bound of what it is taken of.
LEMMA AverageBound ==
  ASSUME NEW m \in Nat, NEW old \in 0 .. m, NEW new \in 0 .. m
  PROVE  Limiter!Average(old, new) \in 0 .. m
  <1>1. (7 * old + 3 * new) \div 10 \in 0 .. m
    OBVIOUS
  <1> QED BY <1>1 DEF Limiter!Average

\* The first interval is about to start, and nothing is remembered.
LEMMA TypeInit == Limiter!Init => TypeInv
  <1> SUFFICES ASSUME Limiter!Init PROVE TypeInv
    OBVIOUS
  <1> USE Numbers DEF Limiter!Init, Limiter!Never
  <1>1. /\ clock \in 0 .. LastTime /\ timer \in {Limiter!Never} \cup 0 .. (LastTime + Epoch)
        /\ epochTick \in Limiter!Times /\ timerTick \in Limiter!Times
        /\ SampleIntervalStart \in 0 .. LastTime
        /\ SampleIntervalCount \in 0 .. (WitnessesPerEpoch - 1)
        /\ EstimatedSampleInterval \in 0 .. LastTime
        /\ admitted \in Nat
    BY DEF Limiter!Times
  <1>2. /\ run \in {"running", "stopped", "panicked"}
        /\ SampleIntervalActive \in BOOLEAN /\ FirstEstimate \in BOOLEAN
    OBVIOUS
  <1>3. /\ child \in [Collectors -> {"new", "open", "closed"}]
        /\ childPc \in [Collectors -> {"idle", "epoch"}]
        /\ epochCh \in [Collectors -> Limiter!Times]
        /\ RequestArrivalTimes \in [Collectors -> [Keys -> Limiter!Times]]
        /\ asked \in [Collectors -> [Keys -> Limiter!Times]]
    BY DEF Limiter!Times
  <1>4. Limiter!TypeOK
    BY <1>1, <1>2, <1>3 DEF Limiter!TypeOK
  <1>5. ClockInv
    BY DEF ClockInv, Past
  <1> QED BY <1>4, <1>5 DEF TypeInv

\* An interval starts at the time of its tick.
LEMMA TypeInterval == TypeInv /\ Limiter!startInterval => TypeInv'
  <1> SUFFICES ASSUME TypeInv, Limiter!startInterval PROVE TypeInv'
    OBVIOUS
  <1> USE Numbers DEF TypeInv, Limiter!startInterval, Limiter!collectors, Limiter!history
  <1>1. SampleIntervalStart' = clock /\ clock' = clock
    BY DEF ClockInv
  <1>2. Limiter!TypeOK'
    BY <1>1 DEF Limiter!TypeOK, Limiter!Times, Limiter!Never
  <1>3. ClockInv'
    BY <1>1 DEF Limiter!TypeOK, ClockInv, Past, Limiter!Never
  <1> QED BY <1>2, <1>3

\* The offset of the next interval is less than an epoch.
LEMMA OffsetBound ==
  ASSUME Limiter!TypeOK, NEW offset \in Limiter!Offsets
  PROVE  offset \in Nat /\ offset < Epoch
  BY Numbers DEF Limiter!TypeOK, Limiter!Offsets

\* A timer that is reset fires now, or later within an epoch.
LEMMA TimerReset ==
  ASSUME TypeInv, epochTick # Limiter!Never, NEW offset \in Limiter!Offsets,
         Limiter!ResetTimer(offset)
  PROVE  /\ timer' \in {Limiter!Never} \cup (clock + 1) .. (clock + Epoch - 1)
         /\ timerTick' \in {Limiter!Never, clock}
         /\ timer' = Limiter!Never <=> timerTick' = clock
         /\ timer' = Limiter!Never \/ timerTick' = Limiter!Never
  <1> USE Numbers, OffsetBound DEF TypeInv, Limiter!TypeOK, Limiter!Never, Limiter!ResetTimer
  <1>1. CASE offset = 0
    BY <1>1
  <1>2. CASE offset # 0
    BY <1>2
  <1> QED BY <1>1, <1>2

\* The start of the epoch goes to every collector that has room for it.
LEMMA TypeEpoch == TypeInv /\ Limiter!startNewEpoch => TypeInv'
  <1> SUFFICES ASSUME TypeInv, Limiter!startNewEpoch PROVE TypeInv'
    OBVIOUS
  <1> USE Numbers DEF TypeInv, Limiter!limit
  <1>1. /\ epochTick' = Limiter!Never /\ epochTick = clock /\ epochTick # Limiter!Never
        /\ UNCHANGED <<clock, Limiter!limit, child, childPc, RequestArrivalTimes, asked>>
    BY DEF Limiter!startNewEpoch, ClockInv
  <1>2. CASE run' = "panicked" /\ UNCHANGED <<timer, timerTick, epochCh, admitted>>
    <2>1. Limiter!TypeOK'
      BY <1>1, <1>2 DEF Limiter!TypeOK, Limiter!Times
    <2>2. ClockInv'
      BY <1>1, <1>2 DEF ClockInv, Past
    <2> QED BY <2>1, <2>2
  <1>3. CASE /\ \E offset \in Limiter!Offsets : Limiter!ResetTimer(offset)
             /\ epochCh' = [c \in Collectors |->
                              IF child[c] = "open" /\ epochCh[c] = Limiter!Never
                              THEN epochTick ELSE epochCh[c]]
             /\ admitted' = 0
             /\ UNCHANGED run
    <2>1. /\ timer' \in {Limiter!Never} \cup (clock + 1) .. (clock + Epoch - 1)
          /\ timerTick' \in {Limiter!Never, clock}
      BY <1>1, <1>3, TimerReset
    <2>2. clock \in 0 .. LastTime
      BY DEF Limiter!TypeOK
    <2>3. timer' \in {Limiter!Never} \cup 0 .. (LastTime + Epoch) /\ timerTick' \in Limiter!Times
      BY <2>1, <2>2 DEF Limiter!Times
    <2>4. \A c \in Collectors : epochCh'[c] \in {Limiter!Never} \cup Past
      BY <1>1, <1>3, <2>2 DEF ClockInv, Past
    <2>5. epochCh' \in [Collectors -> Limiter!Times]
      BY <1>3, <2>2, <2>4 DEF Past, Limiter!Times
    <2>6. Limiter!TypeOK'
      BY <1>1, <1>3, <2>3, <2>5 DEF Limiter!TypeOK, Limiter!Times
    <2>7. timer' = Limiter!Never \/ clock < timer'
      BY <2>1, <2>2 DEF Limiter!Never
    <2>8. ClockInv'
      BY <1>1, <2>1, <2>4, <2>7 DEF ClockInv, Past
    <2> QED BY <2>6, <2>8
  <1> QED BY <1>2, <1>3 DEF Limiter!startNewEpoch

\* The interval that ends gives an estimate that is not longer than the time
\* the agent has been running.
LEMMA TypeAllow ==
  ASSUME TypeInv, Limiter!AllowHTTPRequest
  PROVE  /\ SampleIntervalCount' \in 0 .. (WitnessesPerEpoch - 1)
         /\ SampleIntervalActive' \in BOOLEAN
         /\ FirstEstimate' \in BOOLEAN
         /\ EstimatedSampleInterval' \in 0 .. LastTime
         /\ admitted' \in Nat
         /\ SampleIntervalStart' = SampleIntervalStart
  <1> USE Numbers DEF TypeInv
  <1>1. /\ admitted' = admitted + 1 /\ admitted \in Nat
        /\ SampleIntervalStart' = SampleIntervalStart
        /\ SampleIntervalActive
    BY DEF Limiter!AllowHTTPRequest, Limiter!TypeOK
  <1>2. CASE SampleIntervalCount + 1 >= WitnessesPerEpoch
    <2>1. Limiter!endInterval
      BY <1>2 DEF Limiter!AllowHTTPRequest
    <2>2. SampleIntervalCount' = 0 /\ SampleIntervalActive' = FALSE /\ FirstEstimate' = FALSE
      BY <2>1 DEF Limiter!endInterval
    <2>3. clock - SampleIntervalStart \in 0 .. LastTime
      BY DEF Limiter!TypeOK, ClockInv, Past
    <2>4. Limiter!Average(EstimatedSampleInterval, clock - SampleIntervalStart) \in 0 .. LastTime
      BY <2>3, AverageBound DEF Limiter!TypeOK
    <2>5. EstimatedSampleInterval' \in 0 .. LastTime
      BY <2>1, <2>3, <2>4 DEF Limiter!endInterval
    <2>6. SampleIntervalCount' \in 0 .. (WitnessesPerEpoch - 1)
      BY <2>2
    <2>7. SampleIntervalActive' \in BOOLEAN /\ FirstEstimate' \in BOOLEAN
      BY <2>2
    <2>8. admitted' \in Nat
      BY <1>1
    <2> QED BY <1>1, <2>5, <2>6, <2>7, <2>8
  <1>3. CASE ~(SampleIntervalCount + 1 >= WitnessesPerEpoch)
    <2>1. /\ SampleIntervalCount' = SampleIntervalCount + 1
          /\ UNCHANGED <<SampleIntervalActive, EstimatedSampleInterval, FirstEstimate>>
      BY <1>3 DEF Limiter!AllowHTTPRequest
    <2>2. SampleIntervalCount' \in 0 .. (WitnessesPerEpoch - 1)
      BY <1>3, <2>1 DEF Limiter!TypeOK
    <2> QED BY <1>1, <2>1, <2>2 DEF Limiter!TypeOK
  <1> QED BY <1>2, <1>3

\* A collector's steps: the clock and the timers stand still.
LEMMA TypeCollector ==
  ASSUME TypeInv, UNCHANGED <<clock, epochTick, timer, timerTick,
                              SampleIntervalStart>>,
         run' \in {"running", "stopped", "panicked"},
         SampleIntervalActive' \in BOOLEAN,
         SampleIntervalCount' \in 0 .. (WitnessesPerEpoch - 1),
         EstimatedSampleInterval' \in 0 .. LastTime,
         FirstEstimate' \in BOOLEAN,
         admitted' \in Nat,
         child' \in [Collectors -> {"new", "open", "closed"}],
         childPc' \in [Collectors -> {"idle", "epoch"}],
         epochCh' \in [Collectors -> Limiter!Times],
         \A c \in Collectors : epochCh'[c] \in {Limiter!Never, epochCh[c]},
         RequestArrivalTimes' \in [Collectors -> [Keys -> Limiter!Times]],
         asked' \in [Collectors -> [Keys -> Limiter!Times]]
  PROVE  TypeInv'
  <1>1. Limiter!TypeOK'
    BY DEF TypeInv, Limiter!TypeOK, Limiter!Times
  <1>2. \A c \in Collectors : epochCh'[c] \in {Limiter!Never} \cup Past
    BY DEF TypeInv, ClockInv
  <1>3. ClockInv'
    BY <1>2 DEF TypeInv, ClockInv, Past
  <1> QED BY <1>1, <1>3 DEF TypeInv

\* An update of one entry keeps the type of a map of times.
LEMMA EntryType ==
  ASSUME NEW f \in [Collectors -> [Keys -> Limiter!Times]], NEW c \in Collectors,
         NEW k \in Keys, NEW t \in Limiter!Times
  PROVE  [f EXCEPT ![c][k] = t] \in [Collectors -> [Keys -> Limiter!Times]]
  OBVIOUS

\* Requests and responses are entered and removed under their keys.
LEMMA TypeProcess ==
  ASSUME NEW c \in Collectors, NEW k \in Keys, TypeInv,
         Limiter!Process_HTTPRequest(c, k) \/ Limiter!Process_HTTPResponse(c, k)
  PROVE  TypeInv'
  <1> USE DEF TypeInv, Limiter!timers, Limiter!limit
  <1>1. /\ UNCHANGED <<clock, run, epochTick, timer, timerTick, child, epochCh>>
        /\ childPc' = [childPc EXCEPT ![c] = "epoch"]
    BY DEF Limiter!Process_HTTPRequest, Limiter!Process_HTTPResponse
  <1>2. /\ SampleIntervalStart' = SampleIntervalStart
        /\ SampleIntervalActive' \in BOOLEAN
        /\ SampleIntervalCount' \in 0 .. (WitnessesPerEpoch - 1)
        /\ EstimatedSampleInterval' \in 0 .. LastTime
        /\ FirstEstimate' \in BOOLEAN
        /\ admitted' \in Nat
    BY TypeAllow DEF Limiter!Process_HTTPRequest, Limiter!Process_HTTPResponse, Limiter!TypeOK
  <1>3. clock \in Limiter!Times /\ Limiter!Never \in Limiter!Times
    BY DEF Limiter!TypeOK, Limiter!Times
  <1>4. /\ RequestArrivalTimes' \in [Collectors -> [Keys -> Limiter!Times]]
        /\ asked' \in [Collectors -> [Keys -> Limiter!Times]]
    <2>1. PICK t \in Limiter!Times :
            /\ RequestArrivalTimes' = [RequestArrivalTimes EXCEPT ![c][k] = t]
            /\ asked' = [asked EXCEPT ![c][k] = t]
      BY <1>3 DEF Limiter!Process_HTTPRequest, Limiter!Process_HTTPResponse
    <2>2. /\ RequestArrivalTimes \in [Collectors -> [Keys -> Limiter!Times]]
          /\ asked \in [Collectors -> [Keys -> Limiter!Times]]
      BY DEF Limiter!TypeOK
    <2> QED BY <2>1, <2>2, EntryType
  <1>5. childPc' \in [Collectors -> {"idle", "epoch"}]
    BY <1>1 DEF Limiter!TypeOK
  <1>6. /\ run' \in {"running", "stopped", "panicked"}
        /\ child' \in [Collectors -> {"new", "open", "closed"}]
        /\ epochCh' \in [Collectors -> Limiter!Times]
        /\ \A d \in Collectors : epochCh'[d] \in {Limiter!Never, epochCh[d]}
    BY <1>1 DEF Limiter!TypeOK
  <1> QED BY <1>1, <1>2, <1>4, <1>5, <1>6, TypeCollector

\* The other steps of a collector, and Stop.
LEMMA TypeOther ==
  ASSUME TypeInv,
         Limiter!Stop \/ \E c \in Collectors :
                   Limiter!NewCollector(c) \/ Limiter!Process_other(c) \/ Limiter!Close(c)
  PROVE  TypeInv'
  <1> USE DEF TypeInv, Limiter!timers, Limiter!limit, Limiter!collectors, Limiter!history
  <1>1. UNCHANGED <<clock, Limiter!timers, Limiter!limit, epochCh, RequestArrivalTimes,
                    Limiter!history>>
    BY DEF Limiter!NewCollector, Limiter!Process_other, Limiter!Close, Limiter!Stop
  <1>2. run' \in {"running", "stopped", "panicked"}
    BY DEF Limiter!TypeOK, Limiter!NewCollector, Limiter!Process_other, Limiter!Close, Limiter!Stop
  <1>3. /\ child' \in [Collectors -> {"new", "open", "closed"}]
        /\ childPc' \in [Collectors -> {"idle", "epoch"}]
    BY DEF Limiter!TypeOK, Limiter!NewCollector, Limiter!Process_other, Limiter!Close, Limiter!Stop
  <1> QED BY <1>1, <1>2, <1>3, TypeCollector DEF Limiter!TypeOK

\* Expired requests are forgotten.
LEMMA TypeExpire ==
  ASSUME NEW c \in Collectors, TypeInv, Limiter!expireRequests(c)
  PROVE  TypeInv'
  <1> USE DEF TypeInv, Limiter!timers, Limiter!limit, Limiter!history
  <1>1. UNCHANGED <<clock, run, Limiter!timers, Limiter!limit, child, Limiter!history>>
    BY DEF Limiter!expireRequests
  <1>2. childPc' \in [Collectors -> {"idle", "epoch"}]
    BY DEF Limiter!TypeOK, Limiter!expireRequests
  <1>3. /\ epochCh' \in [Collectors -> Limiter!Times]
        /\ \A d \in Collectors : epochCh'[d] \in {Limiter!Never, epochCh[d]}
    BY DEF Limiter!TypeOK, Limiter!Times, Limiter!expireRequests
  <1>4. RequestArrivalTimes' \in [Collectors -> [Keys -> Limiter!Times]]
    BY DEF Limiter!TypeOK, Limiter!Times, Limiter!expireRequests
  <1> QED BY <1>1, <1>2, <1>3, <1>4, TypeCollector DEF Limiter!TypeOK

\* Time passes when all ticks have been received.
LEMMA TypeTick == TypeInv /\ Limiter!Tick => TypeInv'
  <1> SUFFICES ASSUME TypeInv, Limiter!Tick PROVE TypeInv'
    OBVIOUS
  <1> USE Numbers DEF TypeInv, Limiter!limit, Limiter!collectors, Limiter!history
  <1>1. /\ clock' = clock + 1 /\ clock < LastTime /\ clock \in Nat
        /\ UNCHANGED <<run, Limiter!limit, Limiter!collectors, Limiter!history>>
        /\ epochTick' \in {Limiter!Never, clock'}
        /\ timerTick = Limiter!Never
    BY DEF Limiter!Tick, Limiter!TypeOK
  <1>2. \/ timer' = Limiter!Never /\ timerTick' = clock' /\ timer = clock'
        \/ timer' = timer /\ timerTick' = Limiter!Never /\ timer # clock'
    BY <1>1 DEF Limiter!Tick
  <1>3. /\ timerTick' \in {Limiter!Never, clock'}
        /\ timer' = Limiter!Never \/ clock' < timer'
        /\ timer' \in {Limiter!Never, timer}
    BY <1>1, <1>2 DEF Limiter!TypeOK, ClockInv, Limiter!Never
  <1>4. clock' \in 0 .. LastTime
    BY <1>1
  <1>5. Limiter!TypeOK'
    BY <1>1, <1>3, <1>4 DEF Limiter!TypeOK, Limiter!Times
  <1>6. SampleIntervalStart' \in Past'
    BY <1>1 DEF ClockInv, Past
  <1>7. \A c \in Collectors : epochCh'[c] \in {Limiter!Never} \cup Past'
    BY <1>1 DEF ClockInv, Past
  <1>8. ClockInv'
    BY <1>1, <1>3, <1>6, <1>7 DEF ClockInv
  <1> QED BY <1>5, <1>8

\* A step that changes nothing.
LEMMA TypeStutter == TypeInv /\ UNCHANGED Limiter!vars => TypeInv'
  BY DEF TypeInv, Limiter!TypeOK, ClockInv, Past, Limiter!Times, Limiter!vars,
    Limiter!timers, Limiter!limit,
         Limiter!collectors, Limiter!history

\* The fields keep their types, whatever step is taken.
LEMMA TypeNext == TypeInv /\ [Limiter!Next]_(Limiter!vars) => TypeInv'
  BY TypeInterval, TypeEpoch, TypeProcess, TypeOther, TypeExpire, TypeTick,
     TypeStutter DEF Limiter!Next

\* Every value lies in the range of its Go type and of the times at which the
\* model runs.
THEOREM RateLimitTypeTheorem == Limiter!Spec => []Limiter!TypeOK
  <1>1. TypeInv => Limiter!TypeOK
    BY DEF TypeInv
  <1> QED BY <1>1, TypeInit, TypeNext, PTL DEF Limiter!Spec

(***************************************************************************)
(* Requests that were selected are remembered.                             *)
(***************************************************************************)
\* A request whose response has not come is remembered, or it is so old that
\* any later start of an epoch makes it expire.
KeptOrOld(c, k) ==
  asked[c][k] # Limiter!Never =>
    RequestArrivalTimes[c][k] = asked[c][k] \/ Limiter!Expired(asked[c][k], clock)

MemoryInv == \A c \in Collectors, k \in Keys : KeptOrOld(c, k)

\* What has expired at the start of an epoch has expired for good.
LEMMA ExpiredForGood ==
  ASSUME NEW t \in Limiter!Times, NEW start \in Nat, NEW time \in Nat, start <= time,
         Limiter!Expired(t, start)
  PROVE  Limiter!Expired(t, time)
  BY Numbers DEF Limiter!Expired, Limiter!Times, Limiter!Never

\* Steps that leave the maps alone, whatever the time.
LEMMA MemoryFrame ==
  ASSUME TypeInv, MemoryInv, UNCHANGED <<RequestArrivalTimes, asked>>,
         clock' \in Nat, clock <= clock'
  PROVE  MemoryInv'
  <1> SUFFICES ASSUME NEW c \in Collectors, NEW k \in Keys, asked[c][k] # Limiter!Never
      PROVE  RequestArrivalTimes[c][k] = asked[c][k] \/ Limiter!Expired(asked[c][k], clock')
    BY DEF MemoryInv, KeptOrOld
  <1>1. asked[c][k] \in Limiter!Times /\ clock \in Nat
    BY DEF TypeInv, Limiter!TypeOK
  <1>2. RequestArrivalTimes[c][k] = asked[c][k] \/ Limiter!Expired(asked[c][k], clock)
    BY DEF MemoryInv, KeptOrOld
  <1> QED BY <1>1, <1>2, ExpiredForGood

\* A request or a response changes its own entry, in both maps alike.
LEMMA MemoryProcess ==
  ASSUME NEW c \in Collectors, NEW k \in Keys, TypeInv, MemoryInv,
         Limiter!Process_HTTPRequest(c, k) \/ Limiter!Process_HTTPResponse(c, k)
  PROVE  MemoryInv'
  <1> SUFFICES ASSUME NEW d \in Collectors, NEW j \in Keys PROVE KeptOrOld(d, j)'
    BY DEF MemoryInv
  <1>1. clock' = clock
    BY DEF Limiter!Process_HTTPRequest, Limiter!Process_HTTPResponse
  <1>2. PICK t : /\ RequestArrivalTimes' = [RequestArrivalTimes EXCEPT ![c][k] = t]
                 /\ asked' = [asked EXCEPT ![c][k] = t]
    BY DEF Limiter!Process_HTTPRequest, Limiter!Process_HTTPResponse
  <1>3. /\ RequestArrivalTimes \in [Collectors -> [Keys -> Limiter!Times]]
        /\ asked \in [Collectors -> [Keys -> Limiter!Times]]
    BY DEF TypeInv, Limiter!TypeOK
  <1>4. CASE d = c /\ j = k
    BY <1>2, <1>3, <1>4 DEF KeptOrOld
  <1>5. CASE ~(d = c /\ j = k)
    <2>1. /\ RequestArrivalTimes'[d][j] = RequestArrivalTimes[d][j]
          /\ asked'[d][j] = asked[d][j]
      BY <1>2, <1>3, <1>5
    <2> QED BY <1>1, <2>1 DEF MemoryInv, KeptOrOld
  <1> QED BY <1>4, <1>5

\* What is forgotten had expired at the epoch's start, which is past.
LEMMA MemoryExpire ==
  ASSUME NEW c \in Collectors, TypeInv, MemoryInv, Limiter!expireRequests(c)
  PROVE  MemoryInv'
  <1> SUFFICES ASSUME NEW d \in Collectors, NEW j \in Keys, asked[d][j] # Limiter!Never
      PROVE  RequestArrivalTimes'[d][j] = asked[d][j] \/ Limiter!Expired(asked[d][j], clock)
    BY DEF MemoryInv, KeptOrOld, Limiter!expireRequests, Limiter!history
  <1>1. RequestArrivalTimes \in [Collectors -> [Keys -> Limiter!Times]]
    BY DEF TypeInv, Limiter!TypeOK
  <1>2. RequestArrivalTimes[d][j] = asked[d][j] \/ Limiter!Expired(asked[d][j], clock)
    BY DEF MemoryInv, KeptOrOld
  <1>3. asked[d][j] \in Limiter!Times /\ clock \in Nat
    BY DEF TypeInv, Limiter!TypeOK
  <1>4. CASE RequestArrivalTimes'[d][j] = RequestArrivalTimes[d][j]
    BY <1>2, <1>4
  <1>5. CASE RequestArrivalTimes'[d][j] # RequestArrivalTimes[d][j]
    <2>1. /\ d = c /\ epochCh[c] # Limiter!Never
          /\ Limiter!Expired(RequestArrivalTimes[d][j], epochCh[c])
      BY <1>1, <1>5 DEF Limiter!expireRequests
    <2>2. epochCh[c] \in Nat /\ epochCh[c] <= clock
      BY <1>3, <2>1 DEF TypeInv, ClockInv, Past
    <2>3. RequestArrivalTimes[d][j] = asked[d][j] => Limiter!Expired(asked[d][j], clock)
      BY <1>3, <2>1, <2>2, ExpiredForGood
    <2> QED BY <1>2, <2>3
  <1> QED BY <1>4, <1>5

LEMMA MemoryInit == Limiter!Init => MemoryInv
  BY DEF Limiter!Init, MemoryInv, KeptOrOld

LEMMA MemoryNext == TypeInv /\ MemoryInv /\ [Limiter!Next]_(Limiter!vars) => MemoryInv'
  <1> SUFFICES ASSUME TypeInv, MemoryInv, [Limiter!Next]_(Limiter!vars) PROVE MemoryInv'
    OBVIOUS
  <1>1. clock \in Nat
    BY DEF TypeInv, Limiter!TypeOK
  <1>2. ASSUME UNCHANGED <<clock, RequestArrivalTimes, asked>> PROVE MemoryInv'
    BY <1>1, <1>2, MemoryFrame
  <1>3. CASE \/ Limiter!startInterval \/ Limiter!startNewEpoch
             \/ Limiter!Stop \/ UNCHANGED Limiter!vars
    BY <1>2, <1>3 DEF Limiter!startInterval, Limiter!startNewEpoch, Limiter!Stop,
      Limiter!vars, Limiter!collectors, Limiter!history
  <1>4. ASSUME NEW c \in Collectors,
               Limiter!NewCollector(c) \/ Limiter!Process_other(c) \/ Limiter!Close(c)
        PROVE  MemoryInv'
    BY <1>2, <1>4 DEF Limiter!NewCollector, Limiter!Process_other, Limiter!Close, Limiter!history
  <1>5. CASE Limiter!Tick
    BY <1>1, <1>5, MemoryFrame DEF Limiter!Tick, Limiter!collectors, Limiter!history
  <1> QED BY <1>3, <1>4, <1>5, MemoryProcess, MemoryExpire DEF Limiter!Next

\* A request that was selected is not forgotten within RateLimitMaxDuration,
\* whatever epoch starts wait in a collector's channel (expireRequests).
THEOREM RememberedTheorem == Limiter!Spec => []Remembered
  <1>1. TypeInv /\ MemoryInv => Remembered
    <2> SUFFICES ASSUME TypeInv, MemoryInv,
                        NEW c \in Collectors, NEW k \in Keys,
                        asked[c][k] # Limiter!Never, clock - asked[c][k] <= MaxDuration
        PROVE  RequestArrivalTimes[c][k] = asked[c][k]
      BY DEF Remembered, Limiter!Remembered
    <2>1. asked[c][k] \in Limiter!Times /\ clock \in Nat
      BY DEF TypeInv, Limiter!TypeOK
    <2>2. ~ Limiter!Expired(asked[c][k], clock)
      BY <2>1, Numbers DEF Limiter!Expired, Limiter!Times, Limiter!Never
    <2> QED BY <2>2 DEF MemoryInv, KeptOrOld
  <1> QED BY <1>1, TypeInit, TypeNext, MemoryInit, MemoryNext, PTL DEF Limiter!Spec

(***************************************************************************)
(* An interval starts in every epoch.                                      *)
(***************************************************************************)
\* Facts about division with a remainder, which the provers do not find.
LEMMA Multiple ==
  ASSUME NEW d \in Int, NEW n \in Nat, n > 0
  PROVE  (d >= 1 => n * d >= n) /\ (d <= -1 => n * d <= -n)
  OBVIOUS

LEMMA Division ==
  ASSUME NEW a \in Nat, NEW n \in Nat, n > 0
  PROVE  /\ a = n * (a \div n) + (a % n)
         /\ a \div n \in Nat
         /\ a % n \in 0 .. (n - 1)
  OBVIOUS

\* The remainder is unique.
LEMMA RemainderUnique ==
  ASSUME NEW n \in Nat, n > 0, NEW q1 \in Int, NEW q2 \in Int,
         NEW r1 \in 0 .. (n - 1), NEW r2 \in 0 .. (n - 1),
         n * q1 + r1 = n * q2 + r2
  PROVE  r1 = r2
  <1> DEFINE d == q1 - q2
  <1>1. n * d = r2 - r1
    OBVIOUS
  <1>2. d \in Int
    OBVIOUS
  <1>3. d = 0
    BY <1>1, <1>2, Multiple
  <1> QED BY <1>1, <1>3

LEMMA RemainderIs ==
  ASSUME NEW a \in Nat, NEW n \in Nat, n > 0,
         NEW q \in Nat, NEW r \in 0 .. (n - 1), a = n * q + r
  PROVE  a % n = r
  <1> DEFINE p == a \div n
             s == a % n
  <1>1. a = n * p + s /\ p \in Int /\ s \in 0 .. (n - 1)
    BY Division
  <1> HIDE DEF p, s
  <1>2. q \in Int /\ n * q + r = n * p + s
    BY <1>1
  <1>3. r = s
    BY <1>1, <1>2, RemainderUnique
  <1> QED BY <1>3 DEF s

\* The remainder of the next number.
LEMMA NextRemainder ==
  ASSUME NEW a \in Nat, NEW n \in Nat, n > 0
  PROVE  (a + 1) % n = IF a % n = n - 1 THEN 0 ELSE (a % n) + 1
  <1> DEFINE q == a \div n
             r == a % n
  <1>1. a = n * q + r /\ q \in Nat /\ r \in 0 .. (n - 1)
    BY Division
  <1> HIDE DEF q, r
  <1>2. CASE r = n - 1
    <2>1. a + 1 = n * (q + 1) + 0 /\ q + 1 \in Nat /\ 0 \in 0 .. (n - 1)
      BY <1>1, <1>2
    <2>2. (a + 1) % n = 0
      BY <2>1, RemainderIs
    <2> QED BY <1>2, <2>2 DEF r
  <1>3. CASE r # n - 1
    <2>1. a + 1 = n * q + (r + 1) /\ r + 1 \in 0 .. (n - 1)
      BY <1>1, <1>3
    <2>2. (a + 1) % n = r + 1
      BY <1>1, <2>1, RemainderIs
    <2> QED BY <1>3, <2>2 DEF r
  <1> QED BY <1>2, <1>3

\* When the epoch began in which it is now.
EpochStart == clock - (clock % Epoch)

\* The interval timer has been set and its tick has not been received.
Pending == timer # Limiter!Never \/ timerTick # Limiter!Never

\* While the goroutine runs: an interval began in this epoch, or it will, and
\* then one began in the last epoch.
PaceInv ==
  run = "running" =>
    /\ epochTick # Limiter!Never =>
         EpochStart = clock /\ ~Pending /\ SampleIntervalStart >= clock - Epoch
    /\ epochTick = Limiter!Never =>
         \/ SampleIntervalStart >= EpochStart
         \/ Pending /\ SampleIntervalStart >= EpochStart - Epoch
    /\ timer # Limiter!Never => timer < EpochStart + Epoch

\* An epoch began at most now and less than an epoch ago.
LEMMA EpochStartBound ==
  ASSUME Limiter!TypeOK
  PROVE  EpochStart \in Int /\ EpochStart <= clock /\ clock < EpochStart + Epoch
  <1>1. clock % Epoch \in 0 .. (Epoch - 1) /\ clock \in Nat
    BY Numbers, Division DEF Limiter!TypeOK
  <1> QED BY <1>1, Numbers DEF EpochStart

\* The largest multiple stays where it is until the next one.
LEMMA NextMultiple ==
  ASSUME NEW a \in Nat, NEW b \in Nat, b = a + 1, NEW n \in Nat, n > 0
  PROVE  IF b % n = 0 THEN b - (b % n) = b /\ b = (a - (a % n)) + n
                      ELSE b - (b % n) = a - (a % n)
  <1> DEFINE r == a % n
             s == b % n
  <1>1. r \in 0 .. (n - 1) /\ s \in 0 .. (n - 1)
    BY Division
  <1>2. s = IF r = n - 1 THEN 0 ELSE r + 1
    BY NextRemainder
  <1> HIDE DEF r, s
  <1>3. IF s = 0 THEN b - s = b /\ b = (a - r) + n ELSE b - s = a - r
    BY <1>1, <1>2
  <1> QED BY <1>3 DEF r, s

\* The start of the epoch, when time passes.
LEMMA EpochStartTick ==
  ASSUME clock \in Nat, clock' = clock + 1
  PROVE  IF clock' % Epoch = 0
         THEN EpochStart' = clock' /\ clock' = EpochStart + Epoch
         ELSE EpochStart' = EpochStart
  <1>1. clock' \in Nat /\ Epoch \in Nat /\ Epoch > 0
    BY Numbers
  <1>2. IF clock' % Epoch = 0
        THEN clock' - (clock' % Epoch) = clock' /\ clock' = (clock - (clock % Epoch)) + Epoch
        ELSE clock' - (clock' % Epoch) = clock - (clock % Epoch)
    BY <1>1, NextMultiple, Zenon
  <1> QED BY <1>2 DEF EpochStart

\* Steps that leave the clock, the timers and the interval's start alone.
LEMMA PaceFrame ==
  ASSUME PaceInv, UNCHANGED <<clock, Limiter!timers, SampleIntervalStart>>,
         run' = "running" => run = "running"
  PROVE  PaceInv'
  BY DEF PaceInv, EpochStart, Pending, Limiter!timers

LEMMA PaceInit == Limiter!Init => PaceInv
  <1> SUFFICES ASSUME Limiter!Init PROVE PaceInv
    OBVIOUS
  <1>1. 0 % Epoch = 0
    BY Numbers, RemainderIs, Division
  <1>2. EpochStart = 0
    BY <1>1 DEF EpochStart, Limiter!Init
  <1> QED BY <1>2 DEF Limiter!Init, PaceInv, Limiter!Never

LEMMA PaceInterval == TypeInv /\ PaceInv /\ Limiter!startInterval => PaceInv'
  <1> SUFFICES ASSUME TypeInv, PaceInv, Limiter!startInterval PROVE PaceInv'
    OBVIOUS
  <1>1. /\ run = "running" /\ timerTick = clock /\ timerTick # Limiter!Never
        /\ UNCHANGED <<clock, run, epochTick, timer>>
        /\ SampleIntervalStart' = clock
    BY DEF Limiter!startInterval, TypeInv, ClockInv
  <1>2. EpochStart' = EpochStart
    BY <1>1 DEF EpochStart
  <1>3. epochTick = Limiter!Never
    BY <1>1 DEF PaceInv, Pending
  <1>4. EpochStart <= clock
    BY EpochStartBound DEF TypeInv
  <1> QED BY <1>1, <1>2, <1>3, <1>4 DEF PaceInv

LEMMA PaceEpoch == TypeInv /\ PaceInv /\ Limiter!startNewEpoch => PaceInv'
  <1> SUFFICES ASSUME TypeInv, PaceInv, Limiter!startNewEpoch, run' = "running"
      PROVE  PaceInv'
    BY DEF PaceInv
  <1>1. /\ run = "running" /\ epochTick # Limiter!Never /\ epochTick' = Limiter!Never
        /\ UNCHANGED <<clock, SampleIntervalStart>>
    BY DEF Limiter!startNewEpoch, Limiter!limit
  <1>2. PICK offset \in Limiter!Offsets : Limiter!ResetTimer(offset)
    BY DEF Limiter!startNewEpoch
  <1>3. /\ timer' \in {Limiter!Never} \cup (clock + 1) .. (clock + Epoch - 1)
        /\ timerTick' \in {Limiter!Never, clock}
        /\ timer' = Limiter!Never <=> timerTick' = clock
    BY <1>1, <1>2, TimerReset
  <1>4. clock \in Nat /\ clock # Limiter!Never
    BY DEF TypeInv, Limiter!TypeOK, Limiter!Never
  <1>5. EpochStart' = clock /\ SampleIntervalStart >= clock - Epoch
    BY <1>1 DEF PaceInv, EpochStart
  <1>6. Pending'
    BY <1>3, <1>4 DEF Pending
  <1>7. timer' # Limiter!Never => timer' < EpochStart' + Epoch
    BY <1>3, <1>4, <1>5, Numbers
  <1>8. SampleIntervalStart' >= EpochStart' - Epoch
    BY <1>1, <1>5
  <1> QED BY <1>1, <1>6, <1>7, <1>8 DEF PaceInv

LEMMA PaceTick == TypeInv /\ PaceInv /\ Limiter!Tick => PaceInv'
  <1> SUFFICES ASSUME TypeInv, PaceInv, Limiter!Tick PROVE PaceInv'
    OBVIOUS
  <1>1. /\ clock' = clock + 1 /\ clock \in Nat /\ run = "running" /\ run' = run
        /\ epochTick = Limiter!Never /\ timerTick = Limiter!Never
        /\ SampleIntervalStart' = SampleIntervalStart
        /\ SampleIntervalStart \in Nat
    BY DEF Limiter!Tick, TypeInv, Limiter!TypeOK, Limiter!limit
  <1>2. EpochStart \in Int /\ clock < EpochStart + Epoch /\ EpochStart <= clock
    BY EpochStartBound DEF TypeInv
  <1>3. \/ timer' = Limiter!Never /\ timerTick' = clock' /\ timer = clock'
        \/ timer' = timer /\ timerTick' = Limiter!Never /\ timer # clock'
    BY <1>1 DEF Limiter!Tick
  <1>4. timer = Limiter!Never \/ clock < timer
    BY DEF TypeInv, ClockInv
  <1>5. timer # Limiter!Never => timer < EpochStart + Epoch
    BY <1>1 DEF PaceInv
  <1>6. timer = Limiter!Never \/ timer \in Nat
    BY DEF TypeInv, Limiter!TypeOK
  <1>7. \/ SampleIntervalStart >= EpochStart
        \/ timer # Limiter!Never /\ SampleIntervalStart >= EpochStart - Epoch
    BY <1>1 DEF PaceInv, Pending
  <1>8. CASE clock' % Epoch = 0
    <2>1. EpochStart' = clock' /\ clock' = EpochStart + Epoch /\ epochTick' = clock'
      BY <1>1, <1>8, EpochStartTick DEF Limiter!Tick
    <2>2. timer = Limiter!Never
      BY <1>1, <1>2, <1>4, <1>5, <1>6, <2>1
    <2>3. ~Pending' /\ timer' = Limiter!Never
      BY <1>1, <1>3, <2>2 DEF Pending, Limiter!Never
    <2>4. SampleIntervalStart' >= clock' - Epoch
      BY <1>1, <1>2, <1>7, <2>1, <2>2, Numbers
    <2>5. epochTick' # Limiter!Never
      BY <1>1, <2>1 DEF Limiter!Never
    <2> QED BY <2>1, <2>3, <2>4, <2>5 DEF PaceInv
  <1>9. CASE clock' % Epoch # 0
    <2>1. EpochStart' = EpochStart /\ epochTick' = Limiter!Never
      BY <1>1, <1>9, EpochStartTick DEF Limiter!Tick
    <2>2. timer # Limiter!Never => Pending'
      BY <1>1, <1>3 DEF Pending, Limiter!Never
    <2>3. timer' # Limiter!Never => timer' < EpochStart' + Epoch
      BY <1>3, <1>5, <2>1
    <2> QED BY <1>1, <1>7, <2>1, <2>2, <2>3 DEF PaceInv
  <1> QED BY <1>8, <1>9

LEMMA PaceNext == TypeInv /\ PaceInv /\ [Limiter!Next]_(Limiter!vars) => PaceInv'
  <1> SUFFICES ASSUME TypeInv, PaceInv, [Limiter!Next]_(Limiter!vars) PROVE PaceInv'
    OBVIOUS
  <1>1. CASE Limiter!Stop \/ UNCHANGED Limiter!vars
    BY <1>1, PaceFrame DEF Limiter!Stop, Limiter!vars, Limiter!limit
  <1>2. ASSUME NEW c \in Collectors, NEW k \in Keys,
               Limiter!Process_HTTPRequest(c, k) \/ Limiter!Process_HTTPResponse(c, k)
        PROVE  PaceInv'
    BY <1>2, PaceFrame
    DEF Limiter!Process_HTTPRequest, Limiter!AllowHTTPRequest,
      Limiter!Process_HTTPResponse, Limiter!limit
  <1>3. ASSUME NEW c \in Collectors,
               \/ Limiter!NewCollector(c) \/ Limiter!Process_other(c)
               \/ Limiter!expireRequests(c) \/ Limiter!Close(c)
        PROVE  PaceInv'
    BY <1>3, PaceFrame
    DEF Limiter!NewCollector, Limiter!Process_other, Limiter!expireRequests,
      Limiter!Close, Limiter!limit
  <1> QED BY <1>1, <1>2, <1>3, PaceInterval, PaceEpoch, PaceTick DEF Limiter!Next

\* As long as its goroutine runs, the limiter starts an interval in every epoch
\* (startNewEpoch, startInterval): it never falls silent.
THEOREM SamplingResumesTheorem == Limiter!Spec => []SamplingResumes
  <1>1. TypeInv /\ PaceInv => SamplingResumes
    <2> SUFFICES ASSUME TypeInv, PaceInv, run = "running"
        PROVE  clock - SampleIntervalStart <= 2 * Epoch
      BY DEF SamplingResumes, Limiter!SamplingResumes
    <2>1. clock \in Nat /\ SampleIntervalStart \in Nat
      BY DEF TypeInv, Limiter!TypeOK
    <2>2. EpochStart \in Int /\ clock < EpochStart + Epoch /\ EpochStart <= clock
      BY EpochStartBound DEF TypeInv
    <2>3. SampleIntervalStart >= EpochStart - Epoch
      BY <2>1, <2>2, Numbers DEF PaceInv
    <2> QED BY <2>1, <2>2, <2>3, Numbers
  <1> QED BY <1>1, TypeInit, TypeNext, PaceInit, PaceNext, PTL DEF Limiter!Spec
=============================================================================
