--------------------------- MODULE WitnessPipeline ---------------------------
(***************************************************************************)
(* What becomes of the data of one exchange: the request filters and the   *)
(* sampling in front of the collector (trace/filters.go,                   *)
(* trace/collector.go), ParseHTTP (HttpParsing), the merge of request and  *)
(* response, the decision whether the payload may be sent (trace/util.go), *)
(* and its redaction or zeroing (data_masks/), while the redaction         *)
(* configuration is edited at the back end and refreshed by the goroutine  *)
(* of NewRedactor.  Batching and concurrency of the collector itself are   *)
(* in BackendCollector.                                                    *)
(*                                                                         *)
(* Names stand for themselves after strings.ToLower, which Lower models.   *)
(***************************************************************************)
EXTENDS HttpParsing

CONSTANTS
  Exchanges,            \* pairs of a request and a response, either or None
  Configs,              \* field-redaction configurations at the back end
  InitialConfigs,       \* those in force when the redactor is made
  Excluded(_),          \* does a filter exclude this request?
  sendWitnessPayloads,  \* is Repro Mode on?
  SensitiveKeys,        \* the keys of redaction_config.yaml, in lower case
  SensitiveValues,      \* values that one of its regexps matches
  Matches,              \* the names and values each user's regexp matches
  AlwaysCapture,        \* paths that alwaysCapturePayloadsPathsRegex matches
  InternalTeams,        \* x-portkey-metadata values of Postman's own teams
  MaxEdits              \* bound on the edits of the configuration

VARIABLES
  request, response,  \* the exchange; None for a message that never comes
  sampled,            \* does the sampling keep this exchange?
  arrived,            \* the messages that reached the filters, in order
  filteredIDs,        \* has the filter recorded this exchange?
  pairCache,          \* the witness under construction, or None
  reports,            \* the witnesses handed to the upload batch, each with
                      \* the configuration then known
  backend,            \* the configuration at the back end
  fetched,            \* the one a refresh has just fetched, or None
  userConfig,         \* the one the redactor applies
  latest,             \* the last one the redactor was given
  updating,           \* does the refreshing goroutine run?
  edits               \* edits made so far

vars == <<request, response, sampled, arrived, filteredIDs, pairCache,
          reports, backend, fetched, userConfig, latest, updating, edits>>

exchange == <<request, response, sampled>>
configuration == <<backend, fetched, userConfig, latest, updating, edits>>

-----------------------------------------------------------------------------
(* Redaction.                                                              *)

Lower(name) == IF name = "Token" THEN "token" ELSE name

\* Does the regexp match the value?  The empty one matches everything.
MatchString(re, v) == re = "" \/ v \in Matches[re]

redactStringRegex(config, v) == \E re \in config.regexps : MatchString(re, v)

redactFieldsNamed(config, name) ==
  \/ Lower(name) \in SensitiveKeys
  \/ Lower(name) \in config.names
  \/ redactStringRegex(config, name)

isSensitiveString(config, v) ==
  \/ v \in SensitiveValues
  \/ redactStringRegex(config, v)

\* The names of the fields around the primitive at that path of a datum of that
\* name ("" for none).
Names(name, path) == ({name} \cup {step.name : step \in ToSet(path)}) \ {""}

\* The strings that a search of an unread payload comes upon.
Mentioned(doc) ==
  UNION {{doc[path].v} \cup Names("", path) : path \in DOMAIN doc}

Strings(p) ==
  IF p.payload = None THEN {p.v}
  ELSE IF p.payload.wraps = <<>> /\ p.payload.text.syntax \in {"broken", "text"}
         THEN Mentioned(p.payload.text.doc)
  ELSE {}

primitiveHasSensitiveValue(config, p) ==
  /\ p.kind \in {"string", "mangled"}
  /\ \E v \in Strings(p) : isSensitiveString(config, v)

Redacted == Prim("redacted", "*REDACTED*")

redactPrimitivesInIR(d) == [path \in DOMAIN d |-> Redacted]

\* redactSensitiveInfoVisitor.EnterData, which enters the data on the path of a
\* primitive from the outermost to the primitive itself, and redacts all of the
\* first that is in a field of a sensitive name.
EnterData(config, name, d) ==
  [path \in DOMAIN d |->
     IF \/ primitiveHasSensitiveValue(config, d[path])
        \/ \E n \in Names(name, path) : redactFieldsNamed(config, n)
       THEN Redacted ELSE d[path]]

RedactDatum(config, datum) ==
  [datum EXCEPT !.val = IF datum.loc \in {"auth", "cookie"}
                          THEN redactPrimitivesInIR(@)
                          ELSE EnterData(config, datum.name, @)]

\* zeroPrimitivesVisitor: the kind remains, and the W3C trace context.
Zeroed(d) == [path \in DOMAIN d |-> Prim("zero", "")]

traceContextHeaders == {"traceparent", "tracestate"}

ZeroDatum(datum) ==
  IF datum.loc = "header" /\ datum.name \in traceContextHeaders THEN datum
  ELSE [datum EXCEPT !.val = Zeroed(@)]

EnterHTTPMethodMeta(config, meta) ==
  [meta EXCEPT !.path =
     [i \in DOMAIN @ |-> IF isSensitiveString(config, @[i]) THEN "*REDACTED*"
                                                            ELSE @[i]]]

RedactSensitiveData(config, w) ==
  [w EXCEPT !.meta = EnterHTTPMethodMeta(config, @),
            !.args = {RedactDatum(config, d) : d \in @},
            !.responses = {RedactDatum(config, d) : d \in @}]

ZeroAllPrimitives(config, w) ==
  [w EXCEPT !.meta = EnterHTTPMethodMeta(config, @),
            !.args = {ZeroDatum(d) : d \in @},
            !.responses = {ZeroDatum(d) : d \in @},
            !.obfuscated = TRUE]

-----------------------------------------------------------------------------
(* Repro Mode.                                                             *)

environmentsPath(meta) ==
  Len(meta.path) = 2 /\ Head(meta.path) = "environments"

excludeWitnessFromReproMode(w) ==
  /\ w.meta.host = "api.postman.com"
  /\ \/ w.meta.method \in {"GET", "PUT"} /\ environmentsPath(w.meta)
     \/ w.meta.method = "POST" /\ w.meta.path = <<"environments">>

isPostmanInternalTeam(w) ==
  \E d \in w.args : /\ d.loc = "header"
                    /\ d.name = "x-portkey-metadata"
                    /\ \E t \in InternalTeams : d.val = Value(Prim("string", t))

hasOnlyErrorResponses(w) ==
  /\ w.responses # {}
  /\ \A d \in w.responses : d.code \in 400 .. 599

shouldCapturePayload(w) ==
  /\ ~excludeWitnessFromReproMode(w)
  /\ IF w.meta.path \in AlwaysCapture THEN isPostmanInternalTeam(w)
                                      ELSE hasOnlyErrorResponses(w)

-----------------------------------------------------------------------------
(* The collectors.                                                         *)

UnknownHTTPMethodMeta == [method |-> "", host |-> "", path |-> <<>>]

\* The witness of one parsed message.
PartialWitness(msg, data) ==
  [meta |-> IF msg.isRequest
              THEN [method |-> msg.method, host |-> msg.host, path |-> msg.path]
              ELSE UnknownHTTPMethodMeta,
   hasArgs |-> msg.isRequest,
   args |-> IF msg.isRequest THEN data ELSE {},
   responses |-> IF msg.isRequest THEN {} ELSE data,
   obfuscated |-> FALSE]

MergeWitness(dst, src) ==
  [dst EXCEPT
     !.hasArgs = TRUE,
     !.args = IF dst.hasArgs THEN @ ELSE src.args,
     !.responses = IF dst.hasArgs THEN src.responses ELSE @,
     !.meta = IF @.method = "" THEN src.meta ELSE @]

\* queueUpload: the witness goes to the batch, without what must not be sent.
\* An oversized one is zeroed on top by addWitness.
queueUpload(w, oversized) ==
  LET sent == IF ~sendWitnessPayloads \/ ~shouldCapturePayload(w)
                THEN ZeroAllPrimitives(userConfig, w)
                ELSE RedactSensitiveData(userConfig, w)
      final == IF oversized THEN ZeroAllPrimitives(userConfig, sent) ELSE sent
  IN  reports' = reports \cup {[witness |-> final, config |-> latest]}

\* BackendCollector.Process for a message that passed the filters.
Collect(msg, oversized) ==
  LET parsed == ParseHTTP(msg)
      partial == PartialWitness(msg, parsed.result)
  IN  IF ~parsed.ok THEN UNCHANGED <<pairCache, reports>>
      ELSE IF pairCache = None
        THEN pairCache' = partial /\ UNCHANGED reports
        ELSE /\ queueUpload(MergeWitness(pairCache, partial), oversized)
             /\ pairCache' = None

ProcessRequest ==
  /\ request # None
  /\ "request" \notin ToSet(arrived)
  /\ arrived' = Append(arrived, "request")
  /\ filteredIDs' = (filteredIDs \/ Excluded(request))
  /\ IF Excluded(request) \/ ~sampled
       THEN UNCHANGED <<pairCache, reports>>
       ELSE \E oversized \in BOOLEAN : Collect(request, oversized)
  /\ UNCHANGED <<exchange, configuration>>

ProcessResponse ==
  /\ response # None
  /\ "response" \notin ToSet(arrived)
  /\ arrived' = Append(arrived, "response")
  /\ IF filteredIDs \/ ~sampled
       THEN UNCHANGED <<pairCache, reports>>
       ELSE \E oversized \in BOOLEAN : Collect(response, oversized)
  /\ UNCHANGED <<exchange, filteredIDs, configuration>>

\* The pair cache gives up waiting for the other half.
flushPairCache ==
  /\ pairCache # None
  /\ \E oversized \in BOOLEAN : queueUpload(pairCache, oversized)
  /\ pairCache' = None
  /\ UNCHANGED <<exchange, arrived, filteredIDs, configuration>>

-----------------------------------------------------------------------------
(* The configuration.                                                      *)

\* The user edits the service's settings.
Edit ==
  /\ edits < MaxEdits
  /\ edits' = edits + 1
  /\ backend' \in Configs \ {backend}
  /\ UNCHANGED <<exchange, arrived, filteredIDs, pairCache, reports, fetched,
                 userConfig, latest, updating>>

\* The ticker: the back end answers, or fails and the old one stays.
Fetch ==
  /\ updating
  /\ fetched = None
  /\ fetched' = backend
  /\ UNCHANGED <<exchange, arrived, filteredIDs, pairCache, reports, backend,
                 userConfig, latest, updating, edits>>

\* The variant whose comparison with the old configuration stops at the names.
update_Mutant ==
  LET new == [fetched EXCEPT !.regexps = @ \ {""}]
  IN  /\ fetched # None
      /\ userConfig' = IF new.names = userConfig.names THEN userConfig ELSE new
      /\ latest' = fetched
      /\ fetched' = None
      /\ UNCHANGED <<exchange, arrived, filteredIDs, pairCache, reports,
                     backend, updating, edits>>

\* userRedactionConfig.update, without the empty regexps.
update ==
  LET new == [fetched EXCEPT !.regexps = @ \ {""}]
  IN  /\ fetched # None
      /\ userConfig' = IF new = userConfig THEN userConfig ELSE new
      /\ latest' = fetched
      /\ fetched' = None
      /\ UNCHANGED <<exchange, arrived, filteredIDs, pairCache, reports,
                     backend, updating, edits>>

\* The first collector that closes ends the refreshing for all.
StopPeriodicUpdates ==
  /\ updating
  /\ updating' = FALSE
  /\ UNCHANGED <<exchange, arrived, filteredIDs, pairCache, reports, backend,
                 fetched, userConfig, latest, edits>>

\* NewRedactor and the start of the exchange.  newUserRedactionConfig takes
\* the configuration over as it comes, empty regexps included.
Init ==
  /\ \E e \in Exchanges : request = e[1] /\ response = e[2]
  /\ sampled \in BOOLEAN
  /\ arrived = <<>>
  /\ filteredIDs = FALSE
  /\ pairCache = None
  /\ reports = {}
  /\ backend \in InitialConfigs
  /\ fetched = None
  /\ userConfig = backend
  /\ latest = backend
  /\ updating = TRUE
  /\ edits = 0

Next ==
  \/ ProcessRequest \/ ProcessResponse \/ flushPairCache
  \/ Edit \/ Fetch \/ update \/ StopPeriodicUpdates

Spec == Init /\ [][Next]_vars

-----------------------------------------------------------------------------
(* Properties.                                                             *)

\* The variables hold values of their kinds (the trees of a witness are not
\* looked into).
TypeOK ==
  /\ request = None \/ request.isRequest
  /\ response = None \/ ~response.isRequest
  /\ sampled \in BOOLEAN
  /\ ToSet(arrived) \subseteq {"request", "response"}
  /\ filteredIDs \in BOOLEAN
  /\ pairCache = None \/ pairCache.hasArgs \in BOOLEAN
  /\ Cardinality(reports) <= 2
  /\ backend \in Configs
  /\ fetched \in Configs \cup {None}
  /\ DOMAIN userConfig = {"names", "regexps"}
  /\ latest \in Configs
  /\ updating \in BOOLEAN
  /\ edits \in 0 .. MaxEdits

\* Is some primitive of the tree not read from its text: taken over raw, or in
\* the wrong characters?
Unread(d) == \E path \in DOMAIN d : d[path].payload # None \/ d[path].kind = "mangled"

\* The contents of the primitives of a tree.
Contents(d) == {d[path].v : path \in DOMAIN d}

\* The compressions are those that the headers name.
Applied(wraps, encodings) ==
  \E count \in [0 .. Len(encodings) -> 0 .. Len(wraps)] :
    /\ count[0] = 0 /\ count[Len(encodings)] = Len(wraps)
    /\ \A i \in DOMAIN encodings :
         IF encodings[i] = "identity" THEN count[i] = count[i - 1]
         ELSE count[i] = count[i - 1] + 1 /\ wraps[count[i]] = encodings[i]

\* The body is encoded as the headers say, in ways that the agent knows.
Declared(msg) ==
  \/ /\ ~msg.bodyDecompressed /\ Applied(msg.body.wraps, msg.encodings)
     /\ ToSet(msg.encodings) \subseteq ToSet(fallbackDecompressions) \cup {"identity"}
  \/ msg.bodyDecompressed /\ msg.body.wraps = <<>>

\* It is compressed once and the headers are silent; the fallback takes it.
Undeclared(msg) ==
  /\ msg.encodings = <<>> /\ msg.body.chars = "utf-8"
  /\ msg.body.size <= MaxFallbackInput
  /\ \E c \in ToSet(fallbackDecompressions) : msg.body.wraps = <<c>>

\* The encoding is one of these, and the text within the limits on what is read.
WellEncoded(msg, as) ==
  /\ msg.contentType.charset = (IF msg.body.chars = "utf-8" THEN "none" ELSE "known")
  /\ Declared(msg) \/ Undeclared(msg)
  /\ as = "form" => msg.body.text.size <= MaxBufferedBody
  /\ \/ msg.body.text.size <= MaxFallbackOutput
     \/ Declared(msg) /\ msg.body.text.syntax = as

\* Does the parser take the body for a text of the declared syntax when it is
\* not, or not yet, one?
Mistaken(body, as) ==
  \E n \in 0 .. Len(body.wraps), chars \in {"utf-8", body.chars} :
    LET stream == [wraps |-> SubSeq(body.wraps, 1, n), text |-> body.text,
                   chars |-> chars, size |-> body.size]
    IN  ~Reads(as, stream) /\ Misread(as, stream).ok

\* A body in a structured syntax whose text is valid and encoded as its
\* headers say, or compressed without saying so, is accepted and read in
\* full (of a list of events, no part is unread); a JSON document is read as
\* it is.  A text that is not valid is accepted too, and marked as a parsing
\* error: neither the declared encodings, their order, the charset nor the
\* fallback lose or invent data.
\* It is said of texts within the limits, and where the parser does not take
\* for valid what is not: a form that is compressed without saying so is read
\* as it comes if its bytes happen to be a form, and one beyond
\* MaxBufferedBody is cut.
BodyKept ==
  \A msg \in {request, response} \ {None} :
    LET as == getContentTypeFromMediaType(msg.contentType.media)
        body == ParsedBody(msg)
    IN  /\ msg.body # None /\ msg.contentType # None
        /\ as \in {"json", "form", "yaml", "events"}
        /\ WellEncoded(msg, as) /\ ~Mistaken(msg.body, as)
        => /\ ParseHTTP(msg).ok
           /\ body.error <=> msg.body.text.syntax # as
           /\ ~body.error => ~Unread(body.val)
           /\ ~body.error /\ as # "events" =>
                Contents(body.val) = Contents(msg.body.text.doc)
           /\ ~body.error /\ as = "json" => body.val = msg.body.text.doc

\* What a configuration declares sensitive: its names, and the names and values
\* that one of its regexps matches.
SensitiveString(config, v) ==
  v \in SensitiveValues \/ \E re \in config.regexps \ {""} : v \in Matches[re]
SensitiveName(config, n) ==
  \/ Lower(n) \in SensitiveKeys \cup config.names
  \/ \E re \in config.regexps \ {""} : n \in Matches[re]

\* Does the datum show a credential or a cookie, a value that is sensitive by itself,
\* or one in a field of a sensitive name, however deep?
Shows(config, datum) ==
  \E path \in DOMAIN datum.val :
    LET p == datum.val[path]
    IN  /\ p.kind \notin {"zero", "redacted"}
        /\ \/ datum.loc \in {"auth", "cookie"}
           \/ \E n \in Names(datum.name, path) : SensitiveName(config, n)
           \/ p.kind = "string" /\ \E v \in Strings(p) : SensitiveString(config, v)

TraceContext(datum) == datum.loc = "header" /\ datum.name \in traceContextHeaders

\* The endpoints of the Cloud API that carry environments.
EnvironmentEndpoint(meta) ==
  /\ meta.host = "api.postman.com"
  /\ <<meta.method, Len(meta.path)>> \in {<<"GET", 2>>, <<"PUT", 2>>, <<"POST", 1>>}
  /\ Head(meta.path) = "environments"

\* No reported witness shows a credential, a cookie, a value under a
\* sensitive name at any depth, a sensitive string, or a sensitive segment
\* of the path, by the configuration the redactor was last given; and one
\* of a Cloud API environment shows no payload at all.  A witness without
\* payload keeps its trace context.
NothingSensitive ==
  \A r \in reports :
    LET w == r.witness
    IN  /\ \A d \in w.args \cup w.responses :
             /\ Shows(r.config, d) => w.obfuscated /\ TraceContext(d)
             /\ EnvironmentEndpoint(w.meta) /\ ~TraceContext(d) =>
                  \A path \in DOMAIN d.val : d.val[path].kind = "zero"
        /\ \A i \in DOMAIN w.meta.path :
             w.meta.path[i] # "*REDACTED*" => ~SensitiveString(r.config, w.meta.path[i])
=============================================================================
