# A TLA+ development of the Postman Insights Agent

The Insights Agent captures HTTP traffic on network interfaces, pairs requests
with responses, redacts them and uploads the resulting *witnesses* to the Postman
back end. It runs on a host, in a container, as a sidecar, or as a Kubernetes
DaemonSet that runs one capture for every instrumented pod of its node. This
directory holds TLA+ modules of its concurrent parts, TLC configurations that
check them on small instances, and proofs that TLAPS checks for all values of
the constants. Paths below are relative to `src/`.

Contents: [the system](#the-system), [the modules](#the-modules),
[what the runs show](#what-the-runs-show), [fairness](#fairness),
[what is proved](#what-is-proved), [known deviations](#known-deviations),
[not modelled](#not-modelled), [plan](#plan), [running it](#running-it).

## The system

```
 kube API ---- pod watch ----> daemonset ---- goroutine per pod ----> apidump.Run
 CRI ------- inspections --->  (PodArgsByNameMap)                       |
                                                     goroutine per interface and filter
 supervisor == fork/exec ==> agent process           pcap.Collect
   (SIGCHLD, SIGTERM)                                  | packets
                                                     filters, counters, conn trackers
                                                       |
                                   rate limiter <-> rateLimitCollector
                                   (SharedRateLimit)   |
                                                     BackendCollector -- pairs, redacts
                                                       |
                                                     batcher, reportBuffer -- uploads
```

### Components, their state and what makes them correct

**DaemonSet agent** (`cmd/internal/kube/daemonset`). *State*: the map
`PodArgsByNameMap` from pod UIDs to `PodArgs`; in each object the traffic
monitoring state behind `StateChangeMutex`, and a stop channel of capacity 2; the
wait group of the apidump goroutines; the channel `done`. *Operations*: the
initial scan (`StartProcessInExistingPods`), the handlers of added, modified and
deleted events, the health check with its prune pass, the start and the end of an
apidump goroutine, the shutdown. *Interaction*: every event is handled in a
goroutine of its own; handlers, health check, main goroutine and apidump
goroutines share the map and the objects and lock one access at a time. *Hard*:
handlers of one pod overtake each other; an object is looked up, released, and
used later; a check of the state and the act on it are apart; API and CRI calls
fail; the watch ends; SIGTERM comes at any point. *Correct* if no pod is captured
twice, no capture of a running pod is lost from the map or stopped, every capture
ends in a final state, a closed stop channel meets no user, captures of pods that
are gone end, ended entries are pruned, and running pods are captured.

**Supervisor** (`cmd/supervisor.go`). *State*: the child's PID, the number of runs,
pending signals. *Operations*: fork and wait, start again after a delay, pass
SIGTERM and SIGINT on. *Hard*: signals coalesce, and are lost while nobody
receives from the unbuffered channel; SIGCHLD also comes for reparented processes.
*Correct* if there is one agent at a time, none is left behind, a crash is followed
by another run, and the run limit is kept.

**apidump run** (`apidump/apidump.go`, `apidump/exec.go`, `apidump/health_check.go`,
`pcap/run.go`). *State*: `errChan`, the wait group `doneWG`, the channel `stop`,
`errorsByInterface`, the packet counters and the success telemetry. *Operations*:
start one collector for each interface and filter, run the subcommand or wait for
a signal, the daemonset, the discovery timer or the collectors' errors; stop, wait,
return. *Hard*: collectors fail, end and announce their first packets while Run is
past its select and the telemetry worker has gone. *Correct* if no capturing thread
is blocked, one failure does not end the others, all failures end the session, and
Run returns, after all collectors were closed.

**Rate limiter** (`trace/rate_limit.go`). *State*: the shared limiter (interval
start, active flag, count, estimate), a ticker, a timer, per collector the map of
request arrival times and an epoch channel. *Operations*: a new epoch, a new
interval, admission of requests, passing of responses, expiry. *Hard*: the tick,
the timer and the last request of a budget race; a full channel holds an old epoch
start; the estimate may reach the epoch's length. *Correct* if the requests of an
epoch are bounded, responses of admitted requests pass, and sampling goes on.

**Backend collector and report buffer** (`trace/backend_collector.go`,
`trace/report_buffer.go`). *State*: `pairCache` (a concurrent map), a mutex in each
witness, the batcher's mutex, a pool of upload requests. *Operations*: `Process`,
the periodic flush of unpaired witnesses, the periodic flush of the batch,
`addWitness`, `Upload`, `Close`. *Hard*: a witness can be in two goroutines' hands;
redaction and serialization are apart; uploads read what others may write; waiting
for a free request happens under two mutexes. *Correct* if what is uploaded is
redacted, each message is reported once, nothing is lost at `Close`, and `Close`
returns.

**TCP and TLS connection trackers** (`tcp_conn_tracker`, `tls_conn_tracker`).
*State*: a map of connections or handshakes, and a timer for each. *Hard*: a timer
that has fired waits for the mutex while a packet resets it; timers of removed
entries meet a later entry of the same ID. *Correct* if each connection is reported
once, with what is known of it, none is lost at `Close`, and neither map keeps what is
dead.

**Packet capture and parsing** (`pcap`). *State*: an assembler, per flow a parser
and the unused bytes. *Hard*: messages split over packets at every offset, gaps,
pipelined messages, pairing keys from sequence numbers. *Correct* if a stream is
cut into the same messages however it is cut into packets.

**Filters and counters** (`trace/filters.go`, `trace/collector.go`, `trace/util.go`,
`trace/stats.go`, `trace/tee.go`). *State*: the exchanges whose request was filtered
out; counters with a bound on the number of keys. *Hard*: a response is decided by
what its request was. *Correct* if both halves of an exchange are kept or dropped
together, and payloads are kept only where repro mode permits it.

**HTTP parsing** (`learn`). Pure functions, apart from pools. *Hard*: encodings in
any order or undeclared, charsets, bodies that do not parse. *Correct* if what a
message says reaches the witness, whatever it is wrapped in.

**Redaction** (`data_masks`). *State*: rules, replaced by a periodic update of the
user's configuration. *Hard*: the update comes between the parsing of an exchange
and its report. *Correct* if every witness is redacted with the rules of the moment,
and sensitive values do not survive, at any depth.

**Telemetry** (`telemetry`), **usage polling** (`usage`). *State*: suppression of
repeated errors; a singleton poller with peaks. *Hard*: maps and singletons
reached from several goroutines.

**Daemon and nginx backend** (`daemon/http.go`, `integrations/nginx`): an HTTP
endpoint that hands requests and responses to the collector stack.

**Kubernetes and CRI clients** (`integrations/kube_apis`, `integrations/cri_apis`):
wrappers whose results and failures matter to the daemonset.

**apidump command** (`cmd/internal/apidump`, `apidump.LookupService`,
`util/util.go`). *State*: the arguments, the service, the learn session of each
collector. *Operations*: flags and environment are resolved and checked, the service
is looked up or created, a session is created or found, and rotated. *Hard*: agents
that start together with one collection; a rotation amid flushes; errors must not put a
container into a boot loop, and the failure of a subcommand must reach the caller. *Correct*
if agents of one collection share a project, reports go to sessions of it, and the agent exits
with its subcommand's exit code.

**Pod configuration** (`daemonset.go: StartDaemonset`, `pod_filter.go`,
`kube_events_worker.go: inspectPodForEnvVars`). *State*: the agent's settings, the
`PodArgs` that an inspection fills in. *Hard*: two handlers inspect one pod;
several containers, configured more or less completely; two modes. *Correct* if the
capture reports to the service that the pod's configuration names.

**ECS wizard** (`cmd/internal/ecs`). *State*: what was chosen so far, the AWS client,
the task definition. *Operations*: one state for each question, with ways back, the
registration of a task definition, the update of the service, the wait for the
deployment. *Hard*: going back and choosing again, flags that answer some questions,
calls that fail. *Correct* if what is changed in AWS fits together and is what was
confirmed, and success means success.

**EC2 and Kubernetes commands** (`cmd/internal/ec2`, `kube`): generation and
patching of manifests; installation.

**REST clients, configuration, command line, helpers** (`rest`, `cfg`, `cmd`,
`util`, `printer` and others): I/O and formatting.

The list with its status is in `PROJECT.json` under `components`; the hazards,
each at its line and with the properties that cover it, are there too.

## The modules

| Module | Code | Actions |
|---|---|---|
| `Daemonset` | `daemonset/{daemonset,kube_events_worker,pods_healthcheck_worker,apidump_process,pod_args}.go` | one for each access to shared state |
| `Apidump` | `apidump/apidump.go`, `pcap/run.go`, counters of `trace/collector.go` | one for each channel operation, wait or packet |
| `RateLimit` | `trace/rate_limit.go` | one for each case of `run`'s select and each kind of message |
| `BackendCollector` | `trace/backend_collector.go`, `trace/report_buffer.go` | one for each map operation, critical section or channel operation |
| `ConnTracker` | `tcp_conn_tracker/tcp_conn_tracker.go`, `tls_conn_tracker/tls_conn_tracker.go` | one for each kind of packet, timer, callback and `Close` |
| `MessageStream` | what a reassembled stream promises | report a message, drop bytes |
| `TcpFlow` | `pcap/stream.go`, as called by `pcap/net_parse.go` | one for each call of the assembler, decision on a parser, and result of one |
| `Supervisor` | `cmd/supervisor.go` | one for each system call and case of the select |
| `EcsWorkflow` | `ecs/add.go`, `ecs/aws_api.go` | one for each state of the wizard and kind of outcome, and AWS's progress |
| `PodInspection` | `daemonset/{daemonset,kube_events_worker,pod_filter,apidump_process}.go`, image filter of `kube_apis.go` | one for each access of an inspection to the shared `PodArgs` |
| `ApidumpCommand` | `cmd/internal/apidump/apidump.go`, `apidump.LookupService`, `RotateLearnSession`, `util/util.go` | one for each call of the back end, switch of a session or flush |
| `HttpParsing` | `learn/parse_http.go`, `learn/parse_event_stream.go` | none: operators |
| `WitnessPipeline` | `trace/filters.go`, `trace/util.go`, `data_masks`, `learn/learn.go`, `backend_collector.go: Process` | one for each message of an exchange, flush, and step of a configuration's update |
| `Packets` | | `TcpFlow`, `ConnTracker`, `RateLimit` and `WitnessPipeline` side by side |
| `Services` | | `Apidump` and `Supervisor` side by side |
| `Commands` | | `EcsWorkflow`, `PodInspection` and `ApidumpCommand` side by side |
| `*_proofs` | | theorems of the module of that name, or of the parts it puts side by side |
| `MC*` | | definitions for the `.cfg` files |

Operators have the names of the functions they stand for; where a function is
several steps, the step's name follows (`Process_load`, `Process_store`).
`PROJECT.json` maps each definition to its lines. Definitions with a comment
"mutant" are alternatives that break a property; nothing in a specification uses
them.

### Daemonset

One agent on one node. `podMap` is `PodArgsByNameMap`, `mon` the monitoring state,
`chan` and `closed` the stop channel, `proc` the goroutine of
`StartApiDumpProcess`. PodArgs objects are named by `Args` and used again when no
one refers to them. Goroutines have a control point (`pc`) and hold a pod (`uid`)
and an object (`arg`), which may be stale by the time they use it, as in the code.
`phase` is the cluster's view of the pods. The environment delivers an event of a
pod to a free handler goroutine, in any order relative to other handlers (every
event is handled with `go`), with the phase the event's object had.

`CallStep` is the code that `handlePodAddEvent`, the initial scan and the health
worker share (`inspectPodForEnvVars`, `addPodArgsToMap`, `StartApiDumpProcess`);
`HandlerStep`, `ScanStep`, `HealthStep`, `MainStep` and `ProcessStep` are the code of
one goroutine each. A state change is one step, a critical section of
`StateChangeMutex`: the check of the allowed states and the assignment.

Abstracted: which pods pass the filters and which configuration their containers
have (`Pods`, `Instrumented`), the captures themselves (they end with an error or
when told to stop; `Apidump` has the detail), `Succeeded` and `Failed` (treated
alike by the code).

`MayLag` bounds one thing: `pruneStoppedProcesses` closes a stop channel only in
the second pass that finds the entry in a final state, half an hour after the
first with the default interval. With `MayLag = FALSE` no goroutine stays with one
pod for that whole time (`late` records who did). `MayLag = TRUE` drops this; a
send on a closed channel, which panics, is then possible for any sender.

### Apidump

One session from the arguments (`args`, a member of `Sessions`) to Run's return.
A collector is an interface with its filter or the negated one (`AllCollectors`).
Of a packet only its kind counts: the packet counters (`seen`) announce the first
request and response through an unbuffered channel that the telemetry worker
receives from. Reasons to stop come from outside: a signal, the daemonset's
channel, the end of discovery traffic. A collector that fails puts itself into
`errChan`; `errors` holds the keys of `errorsByInterface`, which are interface
names.

### RateLimit

Time is counted in units; what happens within a unit happens in any order, and the
goroutine `run` receives a tick before the next unit begins. `Timer.Stop` and `Reset`
discard a tick that has not been received, as in Go 1.23 and later (`go.mod` asks
for 1.23.3). The moving average is truncated to units. TCP and TLS reports are
off, the default; with them on, timers of the trackers call `Process` as well
(see [known deviations](#known-deviations)).

### BackendCollector

Goroutines: the capture goroutine, the periodic flush of the pair cache, the
batcher's ticker, the trackers' timers, and one per upload. Witnesses are named by
their first message; `parts` and `redacted` are the messages merged and those whose
data was redacted. The batcher comes from another repository: from how the buffer
is used, its Add and Flush run one at a time in the goroutine that calls them.

### Supervisor

The Go runtime keeps a set of pending signals and sends each on the channel
without waiting for a receiver: `SignalLost` is a signal that nobody took.
`OrphanEnds` is a SIGCHLD for a process that was reparented to the supervisor,
which is PID 1 of its container.

### ConnTracker

Both trackers, chained as `apidump.Run` chains them: closing the TCP tracker closes
the TLS tracker (`stage`). Each handler holds its tracker's mutex from beginning to
end and is one action. `active` and `partial` are the maps `activeConnections`; they
hold indices into `info` and `hello`, which list all entries ever made, so that the
timer of an entry that has left the map (`timeout`, `fired`) can be told from that of
its successor. A timer that fires starts a goroutine, which waits for the mutex; until
its callback runs, packets may come, set the timer again, and be followed by the
callback all the same. Packets have flags and a sender and come in any order, as from
a capture that begins in the middle of a connection. `reports`, `resets` and `raced`
are history.

### TcpFlow and MessageStream

One direction of a connection. A stream is abstracted to the places of its messages: where
one begins, with which byte a parser can tell that it is one (`head`), where it ends, or that
it ends with the stream, or where its parser gives up; bytes between messages are never taken
for one. The assembler hands over any number of bytes at a time, with those kept
before (`first`), may end the stream anywhere (`isEnd`), and may give the connection up
(`reassemblyComplete`, the flushes of `net_parse.go`). The parsers are those of the
tests in what they do with the bytes: nothing is kept of what a parser has been given,
and an error returns all of it. What a factory keeps for later is any number of bytes that
include the beginning of a message. `reported` counts the bytes sent on `outChan`.

`MessageStream` is the abstract specification: the first bytes of the stream up to `reported`
have been reported as messages, in order, and as dropped bytes, which hold no message unless
they begin with one that cannot be parsed or placed. `TcpFlow` implements it with `over` as
`isEnd \/ closed`. The two directions of a connection share only `outChan` and the call of
`ReassemblyComplete`.

### EcsWorkflow

The wizard as a user meets it: `state` is the function that runs next, `flags` the
command line, and every answer a choice. The region has two sources: `createConfig` takes
`awsRegion` (`region`) from the profile's file, and the SDK, which loads the configuration for
the client, prefers `AWS_REGION` or `AWS_DEFAULT_REGION` (`ConfigRegion`; `flags.envRegion`
is one of them). At a terminal the client gets the region that the user chose; without one it
keeps that of the SDK. Profiles have an account, a default region
or none; clusters, services and task definitions live in one account and region
(`Place`). Every call of AWS may fail or be denied; `lost` records that the error of a
list call was wrapped in the wrong variable and vanished. `GetDeploymentByID` may fail
on every tick of the wait, of which there are `MaxTicks` before the five minutes are
over. A task definition is the number of agents in it, and whether it has the agent's tag
and a network mode that the agent cannot be added to.

### PodInspection

One pod and the handlers that inspect it. `settings` is what `StartDaemonset` makes of
flags and environment; `Evaluate` and `FilterPodsByContainerImage` are the filters. An
inspection is several steps (the containers' environments, the container, the identity,
the credentials, the options), each an assignment to the one `args`, so that another
handler's fall in between. `run` is the copy that the apidump goroutine takes. `blind`
records that a container could not be read. `Promised` is the reference: the service that
the pod's configuration (`Configured`: its best container, or its first one in discovery
mode) names. `WellFormed` says what a pod of the cluster is: it is listed with its
containers, and the workload it belongs to is the one its owner was made for; a pod of a
ReplicaSet without a Deployment is not (see [known deviations](#known-deviations)).

### ApidumpCommand

Several agents and the back end. `cl` and `env` are the flags and the environment,
`args` what `apidumpRunInternal` resolves them to; `Acceptable` its checks. `service` is
the project (or workload) that `LookupService` finds or creates, with the conflict that
an agent that loses the race meets. `sessions` are the learn sessions ever created, in
order; `session` is that of each collector, `buffered` that in which the oldest report
of a buffer was captured. `Ends` is where every error leads (`apidumpRunWithoutAbnormalExit`):
at a terminal the process exits, without one it hibernates, and whatever the error was is lost
(`ExitCode`). `runCommand` is the end of a subcommand with one of `Statuses`, and `Returned`
what Run may return after it; with a subcommand it handles no signals.

### HttpParsing and WitnessPipeline

A body is a text, of some syntax, with the encodings that were applied (`wraps`) and the
character set it is in; a message declares media type, charset and encodings, truly
or not. `decodeBody`, `parseBody` and the fallback are operators on these. What a parser makes
of bytes that are no text of its syntax is the constant `Misread`, which may be an error or any
document: `url.ParseQuery` accepts most bytes, compressed ones too, the parser of event
streams any lines, and JSON is YAML. Texts and bodies have sizes, told apart by
the four limits of `parse_http.go` (10 KB for a sample, 1 MB into the fallback, 5 MB of a form,
10 MB out of the fallback), and reading up to a limit (`Truncate`) leaves what the constant
`Cut` says. A document, and
the data that is read from it, is a tree, and is kept as a function: from the path of each
primitive, a sequence of field names and places in lists, to the primitive. What the code
does to a tree by recursion (`parseElem`, the visitors of `data_masks`) is then said of each
primitive by its path, which is what the theorems need; `Struct` and `List` put trees
together. Objects and lists with nothing in them have no primitive and are left out. The streams of
`decodeBody` are a function on how many encodings are undone (`undone`). The one
recursion that is left, of a multipart body in a part of another, is bounded: `parseBody` follows it
two levels down. Regexps are the sets of the strings they match. `IsMessage` says what a message
is: a document is read from its text, and a request has a path.
`WitnessPipeline` takes a request and a response in either order through filter,
pairing, repro mode and redaction; the flush may come after either; the user's
configuration changes (`Edit`), is fetched and taken over (`Fetch`, `update`) at any
point. `reports` holds what was sent with the configuration the redactor last had.

### The MC modules of several parts

`Packets`, `Commands` and `Services` put modules side by side that do not share state, each with
variables and constants of its own: `Trackers!Spec`, `Limiter!Spec` and `Witnesses!Spec` are the
specifications of `ConnTracker`, `RateLimit` and `WitnessPipeline` in `Packets`, `Insp!Spec` and
`Cmd!Spec` are those of `PodInspection` and `ApidumpCommand` in `Commands`, `Sup!Spec` is
`Supervisor`'s in `Services`. The MC modules extend them and check all parts in one run: the
variable `part` names the one whose specification a behaviour follows, the variables of the
others keep their first values. What one part hands to the next is left free in the other:
`WitnessPipeline` gets every message, however `TcpFlow` cut it.

## What the runs show

| Run | Module, configuration | Bounds | States |
|---|---|---|---|
| `daemonset_safety` | `MCDaemonset_safety` | 1 pod, 2 handlers, 2 objects; no failures | 877,000 |
| `daemonset_faults` | `MCDaemonset_faults` | 1 pod, 1 handler, 2 objects; all failures, SIGTERM | 3,500,000 |
| `daemonset_liveness` | `MCDaemonset_liveness` | 1 pod, 1 handler; the watch may go silent | 165,000 |
| `collector` | `MCBackendCollector` | 3 messages of one key, 1 connection, 2 upload requests | 638,000 |
| `packets` | `MCPackets` | flow: 847 streams of 5 bytes with up to 2 messages; trackers: 1 connection, 4 entries, 2 handshakes, timeout 2, 7 units of time; rate limit: 2 collectors, 1 key, budget 2, 3 epochs of 3 units; witnesses: 288 exchanges, 6 configurations, 1 edit | 1,646,000 |
| `commands` | `MCCommands` | wizard: 2 accounts, 3 clusters, 3 services, all flags; inspection: 2 handlers, 102 pods; command: 2 agents, 2 collectors, 2 sessions | 1,269,000 |
| `services` | `MCServices` | session: 9 sessions with up to 2 collectors; supervisor: 2 permitted runs | 103,000 |

**daemonset_safety.** `NoDuplicateCapture`: `LoadOrStore` in `addPodArgsToMap`
keeps two handlers, or a handler and the initial scan, from starting two captures
of one running pod. `LiveIsMapped`: the entry of a running capture of a running pod
stays. `RunningPodNotStopped`: while list calls succeed, only stopped or deleted pods
are sent a stop. Two handlers are the least that overtake each other, two objects
the least that a stale reference can be told from the current one; pods share
nothing but the loops, hence one pod.

**daemonset_faults.** Failures of the list calls, of inspections and of the watch,
and SIGTERM. `LiveProcessCanFinish`: the final state change of an apidump goroutine is
never refused, whatever the others did to the state. `ClosedAfterProcess` and
`PromptSenderSafe`: the stop channel is closed after its process, and no prompt
sender meets it closed.

**daemonset_liveness.** `GoneIsReleased`, `EndedIsPruned`, `RunningEntryIsStarted`:
with events lost, the health worker alone does all three, unless it hangs on a full
stop channel (`Blocked`).

**collector.** `ReportedRedacted`: what is serialized has been redacted, every part of it.
`ReportedExactlyOnce`: no message is uploaded twice, and none that was taken up is
missing when `Close` returns. `UploadStable`: nobody writes to a request that is being
uploaded. `CloseReturns`: no goroutine keeps a mutex or the last request for ever. Three
messages of one key make a pair and a witness that is created while the old one is in the
flusher's hand; a batch of 2 and 2 requests make the pool run empty.

**packets.** *Flow.* `Implements`: the refinement of `MessageStream`, for every way to cut every
stream. `EndAccounted`: once a direction has ended, each of its bytes is in a message or in the
size of dropped bytes, counted once. Five bytes with two messages have junk before, between and
behind them, heads of one and two bytes that are cut, messages back to back in one packet, and
both ways of ending; the theorem covers the rest.

*Trackers.* `ReportedRight`: callbacks look their connection up by ID, and so report whatever
entry is there, or none, yet each entry once; from whichever packet on the connection was seen,
the initiator is right or unknown, and a reset stays one. `IdleIsFlushed`: nothing idle stays in
either map. `BusyIsKept`: a connection with a packet in every period is not cut in two, except
when a packet came between the firing of the timer and its callback. Connections share nothing
but the mutex, so one is enough; four entries let a timer of each of three dead ones meet a
fourth.

*Rate limit.* `EpochBudget`: two budgets at most between two starts of an epoch, the rest of an
interval carried over and one more. `Remembered`: an admitted request is not forgotten before
`RateLimitMaxDuration`, although epoch starts in the channel are stale. `SamplingResumes`: an
interval starts at least every two epochs. Three epochs are what the longest chain needs: first
estimate, random offset, carried interval; collectors are interchangeable.

*Witnesses.* `BodyKept` compares the parser with a reference: a body that is encoded as its
headers say, or compressed once without saying so, keeps all its contents, and an invalid one is
marked. It has two hypotheses, and the run holds bodies that meet them and bodies that do not;
without either of them it is violated. One is that the text is within the limits
(`WellEncoded`): a form beyond 5 MB, and what the fallback decompresses beyond 10 MB, is cut
without an error. The other is that the parser does not accept, as if they were text of its
syntax, bytes that are not (`Mistaken`): a form that is compressed without saying so is
otherwise read as it comes, the fallback is not tried, and the data is lost. `NothingSensitive`:
no report shows a credential, a cookie, a value under a sensitive name at any depth or a
sensitive string, by the configuration the redactor was last given (with the names that a user's
regexp matches), and none of a Cloud API environment shows any payload. The inputs are all pairs
of seven lists of declared and six of applied encodings, of valid and broken text, small and
large, then media types and charsets one at a time, and texts of every size, compressed and not,
with parsers that do and do not accept what they get.

**commands.** *Wizard.* `Coherent`: when a change is about to be made, the client's account
and region, cluster, service and task definition fit together, whatever ways back were taken; at
a terminal the region that is written into the agent's container is the client's. Without one it
is that of the profile's file, which may be another (see [known deviations](#known-deviations)):
some command lines have a region in the environment.
`OnlyAddsAgent`: the one change of AWS is a new revision of the chosen definition, with one
agent more, and the chosen service moves to it. Two accounts, two regions and two families are
the least in which a choice can be stale. *Inspection.* `AsConfigured`: the capture reports
to the service the pod's configuration names, however two handlers interleave, and a
pod is given up only when that configuration names no service or is incomplete. The pods have every pair of
nine environments in two containers. *Command.* `SameProject`: agents that were given the same
collection use one project, though both may try to create it. `SessionOfProject`: reports
go to sessions of the agent's own project, never to one older than their capture.
Two agents are the least that race.

**services.** *Session.* `ErrChanRoom`: the error channel always has room.
`ClosedBeforeReturn`: Run returns after the collectors closed. `RunEnds`: if every collector
fails while Run listens, the session ends (with one filter per interface), and once there is
a reason to stop, Run returns, unless a collector is at the success telemetry. Two collectors
are enough: the code tells interfaces apart only by counting them, and one interface with its
negated filter and two interfaces are both in. *Supervisor.* `RunsInOrder`: one agent at a
time, the one that is waited for, and no more runs than permitted. `SignalsAnswered`: a
crash is followed by another run and SIGTERM by the exit, unless the signal was lost. Two
permitted runs are enough: a later one starts from the same state.

Five runs end in a counterexample, each for one statement of the repository that the
code does not keep:

- `rate_limit_panic` (`MCRateLimit`, one collector): the first estimate may reach the length of an epoch, and
  `rand.Int63n` panics.
- `apidump_hang`: a success report sent after the telemetry worker has gone blocks
  the capture goroutine and with it Run.
- `ecs`: one failed look at the deployment ends the wait for it, and the wizard prints
  "Deployment successful!".
- `status`: a subcommand fails, and the agent exits with 0 at a terminal and hibernates without
  one. Two promises meet here: a subcommand's exit code is preserved (`apidump.go:126`, 1062,
  `root.go:188`), and no error ends the process, for fear of boot loops
  (`cmd/internal/apidump/apidump.go:97`). The code keeps the second, at a terminal too, where
  it would not have to.
- `sidecar`: the filter that is to skip pods with the agent's sidecar keeps every pod that
  has another container as well.

Deadlock is not checked: goroutines end, and some properties are about the
situations in which they wait for ever.

## Fairness

- `Daemonset`: weak fairness of every goroutine. Go runs every goroutine that can
  run; API calls return, tickers tick, a capture that was told to stop stops. None
  for the cluster: pods and events come or do not.
- `Apidump` (in `services`): weak fairness of Run, of the collectors' own steps and of the worker;
  strong fairness of the worker's receptions, since Go's select chooses at random
  among cases that come again and again. None for packets, failures, the subcommand
  or reasons to stop.
- `BackendCollector`: strong fairness of goroutines that wait for a mutex
  (`sync.Mutex` hands itself over to a goroutine that has waited for a millisecond);
  weak for the rest; an upload ends within its timeout of 30 seconds.
- `Supervisor` (in `services`): strong fairness of the three receptions of the select; the
  supervisor goes on when it can; a child that was sent SIGTERM ends. Children need
  not crash.
- The other modules state safety only; `RateLimit` and `ConnTracker` state progress as a bound
  on time and need none: a unit of time ends when the timers that are due have fired and their
  goroutines have run.

## What is proved

TLAPS checks these for any number of pods, handlers, objects, interfaces, connections,
messages, keys and agents, any budgets, timeouts and limits, any streams, documents and AWS
accounts, from the named assumptions of the modules, which TLC evaluates in the runs, or
from the hypotheses in the table:

- `DaemonsetAssumption`, `ApidumpAssumption`, `RateLimitAssumption`,
  `BackendCollectorAssumption`, `TrackersAssumption`: sizes and times are numbers, positive where
  the code's are, switches are truth values, sets of names do not overlap, and there are
  finitely many interfaces.
- `TcpFlowAssumption`: a stream's messages lie in it, in order.
- `NoSuchService`, `NoneAssumption`: `None` is none of the values it is told apart from.
- `TasksAssumption`, `FlagsAssumption`, `PlacesAssumption`, `RatesAssumption`,
  `StartsAssumption`: task definitions, flags, profiles and limits have the values that they
  can be given.
- `PodsAssumption`: the pods are `WellFormed`.
- `WitnessesAssumption`: an exchange has an `IsMessage` request, response or both, and a
  configuration lists names and regexps. Of `Misread` and `Cut` nothing is assumed.

| Theorem | Statement |
|---|---|
| `Daemonset_proofs!TypeCorrect` | `Spec => []TypeOK` |
| `Daemonset_proofs!FinishTheorem` | `Spec => []LiveProcessCanFinish` |
| `Daemonset_proofs!CloseTheorem` | `Spec => []ClosedAfterProcess` |
| `Daemonset_proofs!MappedTheorem` | `Spec => []LiveIsMapped`, if `CRIMayFail` is `FALSE` |
| `Daemonset_proofs!OneCaptureTheorem` | `Spec => []NoDuplicateCapture`, likewise |
| `Daemonset_proofs!StopTheorem` | `Spec => []RunningPodNotStopped`, if `APIMayFail` is `FALSE` |
| `Daemonset_proofs!SenderTheorem` | `Spec => []PromptSenderSafe`, if `MayLag` is `FALSE` |
| `RateLimit_proofs!RateLimitTypeTheorem` | `Limiter!Spec => []Limiter!TypeOK` |
| `RateLimit_proofs!EpochBudgetTheorem` | `Limiter!Spec => []EpochBudget` |
| `RateLimit_proofs!RememberedTheorem` | `Limiter!Spec => []Remembered` |
| `RateLimit_proofs!SamplingResumesTheorem` | `Limiter!Spec => []SamplingResumes` |
| `BackendCollector_proofs!CollectorTypeTheorem` | `Spec => []TypeOK` |
| `BackendCollector_proofs!UploadStableTheorem` | `Spec => UploadStable` |
| `BackendCollector_proofs!ReportedRedactedTheorem` | `Spec => []ReportedRedacted` |
| `BackendCollector_proofs!ReportedExactlyOnceTheorem` | `Spec => []ReportedExactlyOnce` |
| `Services_proofs!RoomTheorem` | `Spec => []ErrChanRoom` |
| `Services_proofs!CloseTheorem` | `Spec => []ClosedBeforeReturn` |
| `Services_proofs!RunsTheorem` | `Sup!Spec => []RunsInOrder`, for numbers `MaxRuns` and `RunBound` |
| `Services_proofs!TypesTheorem` | `Spec /\ Sup!Spec => []Types`, likewise |
| `Commands_proofs!CoherentTheorem` | `Spec => []Coherent` |
| `Commands_proofs!OnlyAddsAgentTheorem` | `Spec => OnlyAddsAgent` |
| `Commands_proofs!SessionTheorem` | `Cmd!Spec => []SessionOfProject` |
| `Commands_proofs!SameProjectTheorem` | `Cmd!Spec => []SameProject`, for service IDs that are no tuples |
| `Commands_proofs!TypesTheorem` | `Spec /\ Insp!Spec /\ Cmd!Spec => []Types` |
| `PodInspection_proofs!InspectionTheorem` | `Insp!Spec => []AsConfigured` |
| `Packets_proofs!RefinementTheorem` | `Spec => Implements`, that is `MessageStream`'s `Spec` |
| `Packets_proofs!TypeCorrect` | `Spec => []TypeOK` |
| `Packets_proofs!AccountTheorem` | `Spec => []EndAccounted` |
| `Packets_proofs!TrackersTypeTheorem` | `Trackers!Spec => []Trackers!TypeOK` |
| `Packets_proofs!ReportTheorem` | `Trackers!Spec => []ReportedRight` |
| `Packets_proofs!IdleTheorem` | `Trackers!Spec => []IdleIsFlushed` |
| `Packets_proofs!BusyTheorem` | `Trackers!Spec => BusyIsKept` |
| `WitnessPipeline_proofs!SensitiveTheorem` | `Witnesses!Spec => []NothingSensitive` |
| `WitnessPipeline_proofs!BodyTheorem` | `Witnesses!Spec => []BodyKept` |
| `WitnessPipeline_proofs!WitnessesTypeTheorem` | `Witnesses!Spec => []Witnesses!TypeOK` |
| `WitnessPipeline_proofs!TypesTheorem` | `Spec /\ Trackers!Spec /\ Limiter!Spec /\ Witnesses!Spec => []Types` |

*Daemonset.* Types alone are not inductive: a step that uses `uid` or `arg` needs them
to be a pod and an object, which `Working` ties to the control points. On top,
`ProcessInv` describes an object's life: with a live goroutine its state is one that
may end (`ObjectOK`), a done goroutine and a final state come together, and the
goroutine that gives an object its first state or spawns its process is the only one
and finds it unused (`PreparerOK`, `OnePreparer`). The last part is where the
interleavings are excluded: `LoadOrStore` picks one adder, and one state change to
`TrafficMonitoringRunning` picks one starter.

`LiveIsMapped` says what two events may do to one entry, and holds for the reason that
each goroutine that may still start or prune a process relies on an entry that others
can remove. `MapInv` names these points (`Watched`) and says, for a pod that can still be
monitored (`Steady`), that the entry there is the one the goroutine holds (`Mapped`). Two
removals have to be excluded. The one after a failed inspection comes for a pod that was
seen running (`SeenRunning`): without a failure of the CRI the pod has stopped or lacks the
configuration, and then no capture of it was started (`Inspected`). The health worker prunes
an object in a final state, which by `ProcessInv` has no goroutine, and none to come. The
assumption `CRIMayFail = FALSE` is necessary: see the failed inspection under *Known
deviations*. Failures of the list calls and of the watch, lagging goroutines and SIGTERM are
allowed. `NoDuplicateCapture` follows, since both captures would be what the map holds.

For `RunningPodNotStopped` the question is what a status is worth by the time the health
worker acts on it. `StopInv` says that a status of a stopped or missing pod stays right
(`StatusRight`), since a pod past running does not run again and a missing one has been on
the node (`Present`: it was in the map, and only listed or announced pods get there);
that a goroutine on its way to a signal has such a pod (`Doomed`); and that the object it then
looks up is this pod's (`SignalRight`). Without `APIMayFail = FALSE` the failed list call under
*Known deviations* refutes it.

For `PromptSenderSafe` the question is who may still send to a process when the health worker
closes its stop channel. The worker marks an object in a final state in one pass and closes
its channel in a later one. `PruneInv` says of a marked object that the goroutines that may come
to send to it (`MaySend`) are all blocked on the full channel (`Stuck`), or that the channel
is open and one of two things holds: the object was marked in this very pass, which does not
come back to it (`FreshlyMarked`), or it is between two rounds and those that may send are left
over from the last one, members of `late` (`Leaving`). Nobody gets on the way to a send after
the marking: the state is final, and every decision to signal looks at it. A round
begins, with `MayLag = FALSE`, only when those that are left over are through or blocked on a
full channel; so a channel is closed only under `Stuck`. The blocked senders are what
`PromptSenderSafe` leaves out: they meet the close in the code too.

*RateLimit.* `EpochBudget` is not inductive: an interval that is active when an epoch
starts may be carried over, and another one may begin. `BudgetInv` bounds the admitted
requests plus what the interval may still admit (`Remaining`) plus the budget of an
interval whose timer is pending (`Reserve`); `OneTimer` says that at most one
interval is pending. The other two properties are about time. `ClockInv` says that a tick is received in
its unit of time, that a timer is set for a later one, and that every start of an epoch or an
interval that is remembered has been. For `Remembered`, `MemoryInv` says of a request whose
response has not come that it is remembered, or so old that any later start of an epoch makes
it expire: what a collector forgets on reading a stale epoch start, a timely one would
have made it forget as well. For `SamplingResumes`, `PaceInv` says when the last interval
began: in this epoch, or in the last one while the timer of the next interval is set for a
time in this epoch, or has ticked. While an epoch's tick waits the same is said of the epoch
that ends with it.

*BackendCollector.* The invariant is built in layers, each proved with the ones before.
`TypeInv` ties the places of the goroutines to the stage of `Close` and to the critical
section of the batcher (`Holder`). `BatchInv` says that an upload request is free, active or
being uploaded, in one of these only; this gives `UploadStable`. `PartsInv` says that no
message is in two witnesses and that a witness in the cache under its key has had no merge;
`MutexInv` that who works on a witness holds its mutex. `ReportedRedacted` needs
that a witness about to be added is redacted in all its parts and not flushed
(`ReadyToAdd`): the redaction and the addition are under one lock. For `ReportedExactlyOnce`,
`OnceInv` says that what has been reported lies in a witness that is flushed, or in
the hand of the goroutine that will mark it; `HandInv` what the cache may hold beside
the flusher's witness (only late messages, `UnderItsKey`) and that a witness that is not flushed
has an owner who will flush it (`FlusherShares`, `CloseEmpties`); `KeepInv` that each
message taken up is dropped, late, reported, in `Process`'s hand or in a witness with
an owner; and `Drained` that nothing comes to the batcher after its `Close`.

*TcpFlow.* `Accounting` says where the bytes are that have been handed over and not been
reported: with the parser from its first byte on, or kept by the assembler from `first` on, with
`unusedAcceptBuf` empty or a copy of them. So each report begins where the last one
ended (`Report`); what is dropped in front of a message holds none, since `Select`
accepts the first one whose head is there; and what is dropped with a message holds no other,
since messages do not overlap.

*ConnTracker.* `TrackersInv` has the same parts for both trackers. An index in a map is that of
an entry of this connection (`Placed`). An entry has been reported once if it is not in the
map and not at all if it is, agrees with its packets, and its timer, while it is in the map, is
set to the timeout after the last of them or has just fired (`EntryRight`); for a
handshake it is the timeout after the first hello (`HelloRight`). So a callback that
finds a newer entry under its ID reports that one, for the only time, and `IdleIsFlushed`
follows, as no unit of time ends with a timer due. The timer of an entry that has left the map
neither runs nor has a goroutine waiting, unless the connection is in `raced`
(`TimerRight`), which `BusyIsKept` needs.

*WitnessPipeline.* `WitnessInv` is the invariant of both. `ConfigInv`: what the redactor
applies and what it was last given declare the same to be sensitive (`Agree`), though one has
lost its empty regexps and the other not; this is where a comparison that keeps the old
configuration would break. `ReportInv`: what waits in the pair cache has the fields that the
visitors look at (`IsWitness`), and every report is `Safe`. The rest is about one witness,
and holds at every path of every tree: what `RedactDatum` leaves is under no sensitive
name and no sensitive string (`DatumRedacted`), what `ZeroDatum` leaves is zero or trace
context (`DatumZeroed`), and zeroing what was redacted, or the other way round, shows no more
(`WitnessZeroed`, `WitnessRedacted`). A witness of an environment's endpoint is never redacted
only, even if its path is redacted afterwards (`MetaRedacted`). `CountInv`: one report or one half
in the cache for each message that arrived.

`BodyKept` is about the parser alone; the messages never change. `Undone` is the argument for
the encodings: `Applied` gives, for each encoding, how many compressions are on the body after
it; so the streams are known, from the outermost compression to none, and they satisfy the
recursion of `undone`. A recursive function is a choice among those that satisfy its
equation, and there is one only: the first number at which two differ contradicts the
equation (`Least` stands in for induction). `Fallback` shows that at most one algorithm reads a
body that is compressed once to its end, whatever their order, and `OtherNotParsed` that what it
makes of another body is not accepted by mistake. `Mistaken` is stated of the streams
that the declared encodings and the fallback can lead to, since those are all that a parser ever
gets. `DocumentRead`, `FormRead`, `StructRead`,
`ListRead` and `EventsRead` say that nothing of a document is left unread.

*Supervisor.* `RunInv` adds to the property when a run may begin: at `"spawn"` there is no
child and no other start is scheduled (`Waiting`), and while there is no child the limit has
not been reached (`MayRun`), since the end of the last permitted run was an exit.

*EcsWorkflow.* `WizardInv` orders the states by what is fixed in them: the account where the
user is logged in (`LoggedIn`), account and region of the client (`Located`), the task
definition (`Defined`), the service (`Chosen`). A way back leads to a state that fixes less,
and every way forward fixes again what it passes. `DefRight` ties the definition to its
family and to a revision that exists, so that the new revision is the next one.

*ApidumpCommand.* For `SessionOfProject`, `InOrder` says
that an agent has no session while its project can still change (`Looking`), that the session
it rotates to (`fresh`) is one of its project and newer than those of its collectors, and that
sessions are numbered as they are created, so that a new one changes nothing of the others.
For `SameProject`, `ProjectInv` says that arguments that were accepted name one target
(`ArgsRight`), that the service of an agent is what the back end answers for its arguments, now
and later (`ServiceAnswers`), and that no two projects have one collection: creating a project
for a collection that has one fails. That service IDs are no tuples tells them from what other
calls of the back end return.

*PodInspection.* The handlers write one object without a lock, and the proof is about what each
may rely on. `InspectionInv` says that every field that names a service is as `NewPodArgs` has
it or as the configuration wants it (`Wanted`), so that no handler undoes the work of
another, and that a handler past the step that writes a field finds the latter
(`HandlerRight`). A pod is started after all of these steps, whichever handler takes it there, and
the copy of the apidump goroutine is complete (`CaptureRight`). That the container which the
handlers select is the configured one holds for any number of containers when one is
better configured than the others (`Unambiguous`).

*Types.* That of `Apidump` needs its `SessionInv` (the keys of `errorsByInterface` come
from collectors), that of `Supervisor` its `RunInv`, that of the wizard its `WizardInv`, and that
the definition it remembers is still a revision wherever it has gone since (`DefExists`). That
`PodArgs` always has a number for its rate limit needs that no pod is inspected before the
settings are made. Those of the other modules are conjuncts of the invariants above.

Every invariant and action property of the passing runs is proved. Only model-checked: the liveness
properties (`GoneIsReleased`, `EndedIsPruned`, `RunningEntryIsStarted`, `RunEnds`,
`SignalsAnswered`, `CloseReturns`), since fairness and ENABLED are beyond the prover.

## Known deviations

Found while modelling, without a run of their own: no line of the repository promises
otherwise, or the situation needs failures that no run combines.

- When the list call of the health worker fails, the error is logged and the empty result
  used: every pod counts as gone and its capture is stopped (`pods_healthcheck_worker.go:79`;
  `RunningPodNotStopped` fails with `APIMayFail = TRUE`).
- A full stop channel blocks its sender, an event handler, the health worker or the
  shutdown, for ever (`apidump_process.go:124`, `daemonset.go:488`).
- A failed inspection deletes whatever entry the map holds by then
  (`kube_events_worker.go:183`), and the pod may be captured twice after the next event.
- An entry left in `PodPending`, because the modified event was handled before the added
  event, stays unmonitored for the life of the pod: `handleUnmonitoredPod` starts entries in
  `PodRunning` only (`pods_healthcheck_worker.go:138`; its comment at line 16 says it starts
  running pods that are not monitored). `RunningEntryIsStarted` is about those it starts.
- Two handlers that inspect one pod (the state is read without its mutex,
  `kube_events_worker.go:169`) write its `TraceTags`, a map without a lock, at the same time
  (`deployment.go:114`), which the Go runtime may end the agent for.
- A failed `GetEnvVars` of one container is skipped: in discovery mode a pod with explicit IDs
  in that container is discovered instead (`blind` in `AsConfigured`). With equally complete
  containers the order of a map decides (`Unambiguous`). A ReplicaSet without a Deployment loses
  the last part of its name, so that `web-front` and `web-api` become one workload.
- `apidumpTelemetry` is a variable of the package (`apidump.go:238`): in the daemonset the
  last capture to start reports for all.
- SIGTERM during the initial scan is lost on Run, when a capture has registered for
  signals already (`daemonset.go:280`). A watch that has ended makes the event worker
  spin (`daemonset.go:423`). `WaitGroup.Add` may run while the shutdown waits. An entry
  that becomes `PodTerminated` before it has a process is never pruned.
- With the repro mode of the daemonset off, `AgentRateLimit` and
  `AlwaysCapturePayloads` stay unset (`kube_events_worker.go:333`, `440`).
- The ECS wizard wraps the error of a list call in the wrong variable (`add.go:364-367`): the
  error is nil, the state ends without a next one and the wizard stops as if it had succeeded,
  or goes on without what the flag named (`lost` in `Coherent`). A given flag answers a question
  again when the user goes back to it. Without a terminal `--profile` and `--region` are ignored
  (`fillFromFlags`, `add.go:745`): the default profile and its region are taken. The region that
  is then written into the agent's container is that of the profile's file (`aws_api.go:110`),
  while the client works in that of `AWS_REGION` if it is set. A task given by flag is not
  checked for an agent that it has already. The comparison with `noDeploymentFound` never holds.
- The Docker extension's health server, when it cannot start, hibernates the process while
  the capture goes on (`health_check.go`). Traces in the cloud rotate only with a project or
  collection (`cmd/internal/apidump/apidump.go:250`, against 245-248). `--out` is not
  bound, so that `--append-by-tag` always fails. The CI source tag is overwritten
  (`apidump.go:527`, `532`). `POSTMAN_INSIGHTS_DISCOVERY_MODE` must be `true` in lower case for
  the command and in any case for the daemonset.
- A body whose declared encoding cannot be undone makes the whole message fail
  (`parse_http.go:129`), where the comment at 148-153 speaks of a placeholder. The fallback
  decompression does not undo a charset, and is tried only if the bytes were no text of the
  declared type: a form that is compressed without saying so may be read as it comes
  (`parse_http.go:352`). A form beyond 5 MB and a fallback's result beyond 10 MB are cut without
  a mark (`parse_http.go:348`, `234`). An encoding that is declared and was not applied
  makes the body unparsable.
- Empty regexps of the first configuration are kept and match everything, until the first
  refresh (`user_redaction_config.go`). Sensitive names inside text or unparsable bodies, and
  numbers under no sensitive name, are not redacted; nor are samples of bytes
  (`application/octet-stream` and unknown media types), whatever they contain: `NothingSensitive`
  looks for sensitive values in strings only. A response whose request was filtered or
  has expired is not recognised as one of a Cloud API environment.
- In `errorsByInterface` errors count by interface, while the loop waits for as many as
  there are collectors (`apidump.go:1106`, `1117`): a debugging session whose collectors
  all fail does not end by itself. A redactor that cannot be made leaves the telemetry
  worker behind (`apidump.go:844`, `855`). With a telemetry interval of zero or less the
  worker ends at once and the first request and response block the capture.
- A response that comes while the flusher holds its witness can be merged into a
  witness that was reported already, and is dropped (`backend_collector.go:349`; the
  variable `late` tells these apart in `NothingLost`). `Close` does not wait for the last
  upload (`report_buffer.go:134`). Witnesses observed in the future are not flushed by
  `Close`. `Close` of one interface's collector stops the updates of the redactor that all
  share (`backend_collector.go:383`).
- The supervisor loses signals that come while it is not in its select
  (`supervisor.go:90`), and waits for a child that still runs when an orphan's SIGCHLD
  comes (`supervisor.go:133`).
- With a host or path filter, the counter before the filters has no success telemetry
  (`apidump.go:967`), and `Process` dereferences it after the first request and response
  (`collector.go:208`): the model's `panicked`.
- What a complete message leaves unused is kept in the assembler only (`stream.go:195`). If
  no more data comes and the connection is given up without a FIN, a second message of the
  same packet is neither reported nor counted as dropped; `unusedAcceptBuf`, which is there
  for this (`stream.go:64-69`), holds only what `NeedMoreData` kept.
- A connection timer that has fired while a packet held the mutex flushes the connection
  that packet has just kept alive; the timer, set again, later flushes its successor, busy
  or not (`tcp_conn_tracker.go:178`, `241`; excluded from `BusyIsKept` by `raced`). The TLS
  tracker never stops the timer of a complete handshake, which can delete a newer, partial
  one with the same ID (`tls_conn_tracker.go:141`).
- With TCP and TLS reports on, the trackers' timers call the rate limiter's `Process`
  beside the capture goroutine, which share a map without a mutex.

## Not modelled

Command line, plugins, REST clients, configuration files, printing and small helpers
are I/O and formatting with no state of their own that a property would be about;
manifest generation, the installation on EC2 and legacy commands run once, in
sequence. The final summary is text. Telemetry and usage polling (a periodic reader of
`/proc` with a lock) affect nothing else. The nginx backend hands requests to the collectors
that are modelled; reading interfaces is `libpcap`'s.

Within the modules: gaps, over which the assembler splices (`TcpFlow`'s stream is what it hands
over), the seq and ack numbers that become pairing keys, timestamps (`TcpFlow`), the telemetry
worker of the daemonset (it only reads), the packet counts of the rate limiter and the limits of
the counters, latencies (`computeProcessingLatency`, `BackendCollector`), the cleaning of JSON
from control characters, multipart boundaries, the reading of a form or a text from the first
part of a compressed stream (`HttpParsing`'s `Truncate` leaves those whole), the IDs of data
(`HttpParsing`), host and path filters other than as a predicate (`WitnessPipeline`), secrets
and CloudFormation fragments (`EcsWorkflow`), image names (`PodInspection`), collection and
trace tags (`ApidumpCommand`).

SIGTERM that comes twice, or before Run of the daemonset has registered for it, is in no run.

## Plan

The modules above are what was planned, but for:

1. `PodMonitor`: an abstract specification of one pod's monitoring (idle, capturing,
   ended), implemented by `Daemonset` under a refinement mapping.
2. The counters with their limits and the tee (`trace/stats.go`, `trace/tee.go`); `Usage` and
   `Telemetry`: the singleton poller, the suppression of errors.
3. Proofs: the refinement of `PodMonitor`.

## Running it

```
tlc -workers 2 -config MCDaemonset_safety.cfg MCDaemonset
tlapm Daemonset_proofs.tla
```

The runs with their modules, configurations and expected results are listed in
`PROJECT.json`. The longest takes about four minutes on two workers.
