------------------------------- MODULE Packets -------------------------------
(***************************************************************************)
(* What becomes of the packets of an interface: the reassembly of each     *)
(* direction of a connection (TcpFlow), which cuts the messages out of it, *)
(* the trackers (ConnTracker), which summarise the connection, the rate    *)
(* limit (RateLimit), which selects messages, and the pipeline that makes  *)
(* a witness of an exchange of messages (WitnessPipeline).  The trackers   *)
(* see the packets that the reassembly sees.  The four share no state:     *)
(* what each is given (packets, whole messages) is left to its             *)
(* environment.                                                            *)
(***************************************************************************)
EXTENDS TcpFlow

CONSTANTS Conns, Timeout, MaxInfos, MaxHellos, MaxTime
VARIABLES now, active, info, fired, partial, hello, hsFired, stage, reports,
          resets, raced

\* connectionTimeout is a time; the others are bounds.
ASSUME TrackersAssumption ==
  /\ Timeout \in Nat \ {0} /\ MaxTime \in Nat
  /\ MaxInfos \in Nat /\ MaxHellos \in Nat

trackers == <<now, active, info, fired, partial, hello, hsFired, stage,
              reports, resets, raced>>

Trackers == INSTANCE ConnTracker

CONSTANTS Collectors, Keys, WitnessesPerEpoch, Epoch, MaxDuration, LastTime
VARIABLES clock, run, epochTick, timer, timerTick, SampleIntervalStart,
          SampleIntervalActive, SampleIntervalCount, EstimatedSampleInterval,
          FirstEstimate, child, childPc, epochCh, RequestArrivalTimes, admitted, asked

\* Budget and times of the rate limit are positive where the code's are; LastTime is
\* a bound.
ASSUME RateLimitAssumption ==
  /\ WitnessesPerEpoch \in Nat \ {0}
  /\ Epoch \in Nat \ {0}
  /\ MaxDuration \in Nat
  /\ LastTime \in Nat

limiter == <<clock, run, epochTick, timer, timerTick, SampleIntervalStart,
             SampleIntervalActive, SampleIntervalCount, EstimatedSampleInterval,
             FirstEstimate, child, childPc, epochCh, RequestArrivalTimes, admitted,
             asked>>

Limiter == INSTANCE RateLimit WITH now <- clock, pc <- childPc

CONSTANTS Numeric, Misread(_, _), Cut(_, _), Exchanges, Configs, InitialConfigs,
          Excluded(_), sendWitnessPayloads, SensitiveKeys, SensitiveValues,
          Matches, AlwaysCapture, InternalTeams, MaxEdits
VARIABLES request, response, sampled, arrived, filteredIDs, pairCache,
          witnesses, backend, fetched, userConfig, latest, updating, edits

pipeline == <<request, response, sampled, arrived, filteredIDs, pairCache,
              witnesses, backend, fetched, userConfig, latest, updating, edits>>

Witnesses == INSTANCE WitnessPipeline WITH reports <- witnesses

\* An exchange has a request, a response or both; a configuration lists names and
\* regexps.  MaxEdits is a bound.
ASSUME WitnessesAssumption ==
  /\ \A e \in Exchanges :
       /\ e[1] # Witnesses!None => Witnesses!IsMessage(e[1]) /\ e[1].isRequest
       /\ e[2] # Witnesses!None => Witnesses!IsMessage(e[2]) /\ ~e[2].isRequest
  /\ InitialConfigs \subseteq Configs /\ Witnesses!None \notin Configs
  /\ \A c \in Configs : DOMAIN c = {"names", "regexps"}
  /\ MaxEdits \in Nat

\* The values of all four.
Types == TypeOK /\ Trackers!TypeOK /\ Limiter!TypeOK /\ Witnesses!TypeOK

\* The report of a connection is sent once and says what is so (ConnTracker).
ReportedRight == Trackers!ReportedRight

\* An idle connection is reported, and a handshake given up (ConnTracker).
IdleIsFlushed == Trackers!IdleIsFlushed

\* A connection that is never idle is one entry (ConnTracker).
BusyIsKept == Trackers!BusyIsKept

\* The requests that an epoch admits are bounded (RateLimit).
EpochBudget == Limiter!EpochBudget

\* A request that was selected is remembered (RateLimit).
Remembered == Limiter!Remembered

\* The limiter never falls silent (RateLimit).
SamplingResumes == Limiter!SamplingResumes

\* The parser loses and invents nothing (WitnessPipeline).
BodyKept == Witnesses!BodyKept

\* No witness shows what is sensitive (WitnessPipeline).
NothingSensitive == Witnesses!NothingSensitive
=============================================================================
