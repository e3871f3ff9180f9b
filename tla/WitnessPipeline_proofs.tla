------------------------ MODULE WitnessPipeline_proofs ------------------------
(***************************************************************************)
(* Theorems about WitnessPipeline, for all exchanges, configurations and   *)
(* regexps.  The redactor applies the configuration it was last given, but *)
(* for empty regexps, and what it redacts or zeroes shows nothing that the *)
(* configuration declares sensitive.                                       *)
(***************************************************************************)
EXTENDS Packets_proofs, RateLimit_proofs, FiniteSetTheorems, WellFoundedInduction, TLAPS

\* The two configurations declare the same to be sensitive.
Agree(c, d) == c.names = d.names /\ c.regexps \ {""} = d.regexps \ {""}

\* The fields that the visitors look at.
IsDatum(d) == {"loc", "name", "val"} \subseteq DOMAIN d
Segments == STRING \cup {"*REDACTED*"}
IsMeta(m) == {"method", "host", "path"} \subseteq DOMAIN m /\ m.path \in Seq(Segments)
IsWitness(w) ==
  /\ {"meta", "hasArgs", "args", "responses", "obfuscated"} \subseteq DOMAIN w
  /\ IsMeta(w.meta) /\ w.hasArgs \in BOOLEAN
  /\ \A d \in w.args \cup w.responses : IsDatum(d)

\* What NothingSensitive says of a report w under the configuration c.
DatumSafe(c, w, d) ==
  /\ Witnesses!Shows(c, d) => w.obfuscated /\ Witnesses!TraceContext(d)
  /\ Witnesses!EnvironmentEndpoint(w.meta) /\ ~Witnesses!TraceContext(d) =>
       \A path \in DOMAIN d.val : d.val[path].kind = "zero"
PathSafe(c, m) ==
  \A i \in DOMAIN m.path :
    m.path[i] # "*REDACTED*" => ~Witnesses!SensitiveString(c, m.path[i])
Safe(c, w) ==
  /\ \A d \in w.args \cup w.responses : DatumSafe(c, w, d)
  /\ PathSafe(c, w.meta)

LEMMA StringRedacted ==
  ASSUME NEW c, NEW d, Agree(c, d), NEW v, Witnesses!SensitiveString(d, v)
  PROVE  Witnesses!isSensitiveString(c, v)
BY Zenon DEF Agree, Witnesses!SensitiveString, Witnesses!isSensitiveString,
  Witnesses!redactStringRegex, Witnesses!MatchString

LEMMA NameRedacted ==
  ASSUME NEW c, NEW d, Agree(c, d), NEW n, Witnesses!SensitiveName(d, n)
  PROVE  Witnesses!redactFieldsNamed(c, n)
BY Zenon DEF Agree, Witnesses!SensitiveName, Witnesses!redactFieldsNamed,
  Witnesses!redactStringRegex, Witnesses!MatchString

LEMMA DatumRedacted ==
  ASSUME NEW c, NEW d, Agree(c, d), NEW datum, IsDatum(datum),
         NEW r, r = Witnesses!RedactDatum(c, datum)
  PROVE  IsDatum(r) /\ ~Witnesses!Shows(d, r)
<1>1. /\ DOMAIN r = DOMAIN datum /\ r.loc = datum.loc /\ r.name = datum.name
      /\ r.val = IF datum.loc \in {"auth", "cookie"}
                   THEN Witnesses!redactPrimitivesInIR(datum.val)
                   ELSE Witnesses!EnterData(c, datum.name, datum.val)
  BY DEF IsDatum, Witnesses!RedactDatum
<1>2. SUFFICES ASSUME NEW path \in DOMAIN r.val, r.val[path].kind # "redacted",
                      \/ r.loc \in {"auth", "cookie"}
                      \/ \E n \in Witnesses!Names(r.name, path) : Witnesses!SensitiveName(d, n)
                      \/ /\ r.val[path].kind = "string"
                         /\ \E v \in Witnesses!Strings(r.val[path]) :
                              Witnesses!SensitiveString(d, v)
               PROVE  FALSE
  BY <1>1 DEF IsDatum, Witnesses!Shows
<1>3. CASE datum.loc \in {"auth", "cookie"}
  BY <1>1, <1>2, <1>3 DEF Witnesses!redactPrimitivesInIR, Witnesses!Redacted, Witnesses!Prim
<1>4. CASE datum.loc \notin {"auth", "cookie"}
  <2>1. /\ path \in DOMAIN datum.val
        /\ r.val[path] = IF \/ Witnesses!primitiveHasSensitiveValue(c, datum.val[path])
                            \/ \E n \in Witnesses!Names(datum.name, path) :
                                 Witnesses!redactFieldsNamed(c, n)
                           THEN Witnesses!Redacted ELSE datum.val[path]
    BY <1>1, <1>2, <1>4, Zenon DEF Witnesses!EnterData
  <2>2. Witnesses!Redacted.kind = "redacted"
    BY DEF Witnesses!Redacted, Witnesses!Prim
  <2>3. /\ r.val[path] = datum.val[path]
        /\ ~Witnesses!primitiveHasSensitiveValue(c, datum.val[path])
        /\ \A n \in Witnesses!Names(r.name, path) : ~Witnesses!redactFieldsNamed(c, n)
    BY <1>1, <1>2, <2>1, <2>2, Zenon
  <2>4. ~ \E n \in Witnesses!Names(r.name, path) : Witnesses!SensitiveName(d, n)
    BY <2>3, NameRedacted
  <2>5. \A v : r.val[path].kind = "string" /\ v \in Witnesses!Strings(r.val[path]) =>
                 ~Witnesses!SensitiveString(d, v)
    BY <2>3, StringRedacted DEF Witnesses!primitiveHasSensitiveValue
  <2> QED BY <1>1, <1>2, <1>4, <2>4, <2>5
<1> QED BY <1>3, <1>4

LEMMA DatumZeroed ==
  ASSUME NEW datum, IsDatum(datum), NEW r, r = Witnesses!ZeroDatum(datum)
  PROVE  /\ IsDatum(r)
         /\ Witnesses!TraceContext(r) \/ \A path \in DOMAIN r.val : r.val[path].kind = "zero"
<1>1. CASE Witnesses!TraceContext(datum)
  BY <1>1 DEF Witnesses!ZeroDatum, Witnesses!TraceContext
<1>2. CASE ~Witnesses!TraceContext(datum)
  <2>1. r = [datum EXCEPT !.val = Witnesses!Zeroed(@)]
    BY <1>2 DEF Witnesses!ZeroDatum, Witnesses!TraceContext
  <2>2. DOMAIN r = DOMAIN datum /\ r.val = Witnesses!Zeroed(datum.val)
    BY <2>1 DEF IsDatum
  <2>3. \A path \in DOMAIN r.val : r.val[path] = Witnesses!Prim("zero", "")
    BY <2>2, Zenon DEF Witnesses!Zeroed
  <2>4. Witnesses!Prim("zero", "").kind = "zero"
    BY DEF Witnesses!Prim
  <2> QED BY <2>2, <2>3, <2>4, Zenon DEF IsDatum
<1> QED BY <1>1, <1>2

LEMMA MetaRedacted ==
  ASSUME NEW c, NEW d, Agree(c, d), NEW m, IsMeta(m),
         NEW r, r = Witnesses!EnterHTTPMethodMeta(c, m)
  PROVE  /\ IsMeta(r) /\ PathSafe(d, r)
         /\ Witnesses!EnvironmentEndpoint(r) => Witnesses!EnvironmentEndpoint(m)
<1> DEFINE p == [i \in DOMAIN m.path |->
                   IF Witnesses!isSensitiveString(c, m.path[i]) THEN "*REDACTED*" ELSE m.path[i]]
<1>1. DOMAIN r = DOMAIN m /\ r.path = p /\ r.host = m.host /\ r.method = m.method
  BY Zenon DEF IsMeta, Witnesses!EnterHTTPMethodMeta
<1>2. m.path \in Seq(Segments) /\ DOMAIN m.path = 1 .. Len(m.path) /\ Len(m.path) \in Nat
  BY DEF IsMeta
<1>3. /\ DOMAIN p = DOMAIN m.path
      /\ \A i \in DOMAIN m.path :
           \/ p[i] = "*REDACTED*"
           \/ p[i] = m.path[i] /\ ~Witnesses!isSensitiveString(c, m.path[i])
  BY Zenon
<1> HIDE DEF p
<1>4. p \in Seq(Segments) /\ Len(p) = Len(m.path)
  <2>1. p = [i \in DOMAIN p |-> p[i]]
    BY Zenon DEF p
  <2>2. "*REDACTED*" \in Segments
    BY DEF Segments
  <2>3. \A i \in 1 .. Len(m.path) : m.path[i] \in Segments
    BY <1>2
  <2>4. \A i \in 1 .. Len(m.path) : p[i] \in Segments
    BY <1>2, <1>3, <2>2, <2>3, Zenon
  <2> QED BY <1>2, <1>3, <2>1, <2>4
<1>5. PathSafe(d, r)
  BY <1>1, <1>3, StringRedacted, Zenon DEF PathSafe
<1>6. ASSUME Witnesses!EnvironmentEndpoint(r) PROVE Witnesses!EnvironmentEndpoint(m)
  <2>1. /\ r.host = "api.postman.com" /\ Head(r.path) = "environments"
        /\ <<r.method, Len(r.path)>> \in {<<"GET", 2>>, <<"PUT", 2>>, <<"POST", 1>>}
    BY <1>6 DEF Witnesses!EnvironmentEndpoint
  <2>2. Len(m.path) = 1 \/ Len(m.path) = 2
    BY <1>1, <1>4, <2>1
  <2>3. Head(p) = p[1] /\ Head(m.path) = m.path[1]
    BY <1>2, <1>4, <2>2
  <2>5. 1 \in DOMAIN m.path
    <3>1. 1 \in 1 .. 1 /\ 1 \in 1 .. 2
      OBVIOUS
    <3> QED BY <1>2, <2>2, <3>1, Zenon
  <2>4. m.path[1] = "environments"
    BY <1>1, <1>3, <2>1, <2>3, <2>5
  <2> QED BY <1>1, <1>4, <2>1, <2>3, <2>4 DEF Witnesses!EnvironmentEndpoint
<1> QED BY <1>1, <1>4, <1>5, <1>6 DEF IsMeta

-----------------------------------------------------------------------------
(* What the parser makes of a message is data.                             *)

LEMMA SucceededIs ==
  ASSUME NEW r, NEW x, r = Witnesses!Success(x)
  PROVE  r.result = x
BY DEF Witnesses!Success

LEMMA ErrorFailed == ~Witnesses!Error.ok
BY DEF Witnesses!Error

LEMMA BodyIsDatum ==
  ASSUME NEW type, NEW body, NEW code, Witnesses!parseBody(type, body, code).ok
  PROVE  IsDatum(Witnesses!parseBody(type, body, code).result)
<1> DEFINE r == Witnesses!parseBody(type, body, code)
<1>1. \A val, as, other, error : IsDatum(Witnesses!BodyData(val, as, other, code, error))
  BY DEF IsDatum, Witnesses!BodyData
<1>2. CASE r = Witnesses!parseSingle(type, body, code)
  <2> DEFINE as == Witnesses!getContentTypeFromMediaType(type.media)
  <2>1. \/ r = Witnesses!Error
        \/ \E val : r = Witnesses!Success(Witnesses!BodyData(val, as, type.media, code, FALSE))
    BY <1>2, Zenon DEF Witnesses!parseSingle
  <2>2. PICK val : r = Witnesses!Success(Witnesses!BodyData(val, as, type.media, code, FALSE))
    BY <2>1, ErrorFailed
  <2>3. r.result = Witnesses!BodyData(val, as, type.media, code, FALSE)
    BY <2>2, SucceededIs
  <2> QED BY <1>1, <2>3
<1>3. CASE \E parts : r = Witnesses!parseMultipartBody(parts, type, body, code)
  <2>1. \/ r = Witnesses!Error
        \/ \E val : r = Witnesses!Success(
             [Witnesses!BodyData(val, "multipart", type.media, code, FALSE)
                EXCEPT !.loc = "multipart"])
    BY <1>3, Zenon DEF Witnesses!parseMultipartBody
  <2>2. ASSUME NEW val
        PROVE  IsDatum([Witnesses!BodyData(val, "multipart", type.media, code, FALSE)
                          EXCEPT !.loc = "multipart"])
    BY <1>1 DEF IsDatum
  <2>3. PICK val : r = Witnesses!Success(
          [Witnesses!BodyData(val, "multipart", type.media, code, FALSE)
             EXCEPT !.loc = "multipart"])
    BY <2>1, ErrorFailed
  <2>4. r.result = [Witnesses!BodyData(val, "multipart", type.media, code, FALSE)
                      EXCEPT !.loc = "multipart"]
    BY <2>3, SucceededIs
  <2> QED BY <2>2, <2>4
<1> QED BY <1>2, <1>3, ErrorFailed, Zenon DEF Witnesses!parseBody, Witnesses!parseBodyWith

LEMMA ParsedData ==
  ASSUME NEW msg, Witnesses!ParseHTTP(msg).ok, NEW d \in Witnesses!ParseHTTP(msg).result
  PROVE  IsDatum(d)
<1> DEFINE r == Witnesses!ParseHTTP(msg)
           small == Witnesses!parseHeader(msg) \cup Witnesses!parseCookies(msg)
                      \cup (IF msg.isRequest THEN Witnesses!parseQuery(msg) ELSE {})
<1>1. \/ r = Witnesses!Success(small)
      \/ r = Witnesses!Success(small \cup {Witnesses!ParsedBody(msg)})
  BY ErrorFailed, Zenon DEF Witnesses!ParseHTTP
<1>2. d \in small \/ d = Witnesses!ParsedBody(msg)
  BY <1>1, SucceededIs
<1>3. CASE d \in Witnesses!parseHeader(msg)
  <2>1. \E h, val : \/ d = [loc |-> "auth", name |-> "", val |-> val, code |-> msg.code]
                   \/ d = [loc |-> "header", name |-> h, val |-> val, code |-> msg.code]
    BY <1>3, Zenon DEF Witnesses!parseHeader
  <2>2. PICK h, val : \/ d = [loc |-> "auth", name |-> "", val |-> val, code |-> msg.code]
                     \/ d = [loc |-> "header", name |-> h, val |-> val, code |-> msg.code]
    BY <2>1
  <2>3. CASE d = [loc |-> "auth", name |-> "", val |-> val, code |-> msg.code]
    BY <2>3 DEF IsDatum
  <2>4. CASE d = [loc |-> "header", name |-> h, val |-> val, code |-> msg.code]
    BY <2>4 DEF IsDatum
  <2> QED BY <2>2, <2>3, <2>4
<1>4. CASE d \in Witnesses!parseCookies(msg)
  BY <1>4 DEF Witnesses!parseCookies, IsDatum
<1>5. CASE d \in Witnesses!parseQuery(msg)
  BY <1>5 DEF Witnesses!parseQuery, IsDatum
<1>6. CASE d = Witnesses!ParsedBody(msg)
  <2>1. CASE d = Witnesses!captureUnparsableBody(msg, Witnesses!decodeBody(msg))
    BY <2>1 DEF Witnesses!captureUnparsableBody, Witnesses!BodyData, IsDatum
  <2>2. CASE \E body : /\ Witnesses!parseBody(msg.contentType, body, msg.code).ok
                       /\ d = Witnesses!parseBody(msg.contentType, body, msg.code).result
    BY <2>2, BodyIsDatum
  <2> QED BY <1>6, <2>1, <2>2, ErrorFailed, Zenon DEF Witnesses!ParsedBody
<1> QED BY <1>2, <1>3, <1>4, <1>5, <1>6

-----------------------------------------------------------------------------
(* What is done to a witness.                                              *)

LEMMA WitnessZeroed ==
  ASSUME NEW c, NEW d, Agree(c, d), NEW w, IsWitness(w),
         NEW r, r = Witnesses!ZeroAllPrimitives(c, w)
  PROVE  IsWitness(r) /\ Safe(d, r)
<1>1. /\ DOMAIN r = DOMAIN w /\ r.meta = Witnesses!EnterHTTPMethodMeta(c, w.meta)
      /\ r.args = {Witnesses!ZeroDatum(x) : x \in w.args}
      /\ r.responses = {Witnesses!ZeroDatum(x) : x \in w.responses}
      /\ r.obfuscated = TRUE /\ r.hasArgs = w.hasArgs
  BY DEF IsWitness, Witnesses!ZeroAllPrimitives
<1>2. IsMeta(r.meta) /\ PathSafe(d, r.meta)
  BY <1>1, MetaRedacted DEF IsWitness
<1>3. ASSUME NEW y \in r.args \cup r.responses
      PROVE  IsDatum(y) /\ DatumSafe(d, r, y)
  <2>1. PICK x \in w.args \cup w.responses : y = Witnesses!ZeroDatum(x)
    BY <1>1
  <2>2. /\ IsDatum(y)
        /\ Witnesses!TraceContext(y) \/ \A path \in DOMAIN y.val : y.val[path].kind = "zero"
    BY <2>1, DatumZeroed DEF IsWitness
  <2>3. Witnesses!Shows(d, y) => Witnesses!TraceContext(y)
    BY <2>2 DEF Witnesses!Shows
  <2> QED BY <1>1, <2>2, <2>3, Zenon DEF DatumSafe
<1> QED BY <1>1, <1>2, <1>3 DEF IsWitness, Safe

LEMMA WitnessRedacted ==
  ASSUME NEW c, NEW d, Agree(c, d), NEW w, IsWitness(w),
         NEW r, r = Witnesses!RedactSensitiveData(c, w)
  PROVE  /\ IsWitness(r)
         /\ ~Witnesses!excludeWitnessFromReproMode(w) => Safe(d, r)
<1>1. /\ DOMAIN r = DOMAIN w /\ r.meta = Witnesses!EnterHTTPMethodMeta(c, w.meta)
      /\ r.args = {Witnesses!RedactDatum(c, x) : x \in w.args}
      /\ r.responses = {Witnesses!RedactDatum(c, x) : x \in w.responses}
      /\ r.hasArgs = w.hasArgs
  BY DEF IsWitness, Witnesses!RedactSensitiveData
<1>2. /\ IsMeta(r.meta) /\ PathSafe(d, r.meta)
      /\ Witnesses!EnvironmentEndpoint(r.meta) => Witnesses!EnvironmentEndpoint(w.meta)
  BY <1>1, MetaRedacted DEF IsWitness
<1>3. ASSUME NEW y \in r.args \cup r.responses
      PROVE  IsDatum(y) /\ ~Witnesses!Shows(d, y)
  <2>1. PICK x \in w.args \cup w.responses : y = Witnesses!RedactDatum(c, x)
    BY <1>1
  <2> QED BY <2>1, DatumRedacted DEF IsWitness
<1>4. IsWitness(r)
  BY <1>1, <1>2, <1>3 DEF IsWitness
<1>5. Witnesses!EnvironmentEndpoint(w.meta) => Witnesses!excludeWitnessFromReproMode(w)
  <2> SUFFICES ASSUME Witnesses!EnvironmentEndpoint(w.meta)
               PROVE  Witnesses!excludeWitnessFromReproMode(w)
    OBVIOUS
  <2>1. w.meta.path \in Seq(Segments)
    BY DEF IsWitness, IsMeta
  <2>2. CASE w.meta.method = "POST"
    <3>1. Len(w.meta.path) = 1 /\ Head(w.meta.path) = "environments"
      BY <2>2 DEF Witnesses!EnvironmentEndpoint
    <3>2. w.meta.path = <<"environments">>
      BY <2>1, <3>1
    <3> QED BY <2>2, <3>2 DEF Witnesses!EnvironmentEndpoint,
      Witnesses!excludeWitnessFromReproMode
  <2>3. CASE w.meta.method # "POST"
    BY <2>3 DEF Witnesses!EnvironmentEndpoint, Witnesses!excludeWitnessFromReproMode,
      Witnesses!environmentsPath
  <2> QED BY <2>2, <2>3
<1>6. ASSUME ~Witnesses!excludeWitnessFromReproMode(w) PROVE Safe(d, r)
  BY <1>2, <1>3, <1>5, <1>6 DEF Safe, DatumSafe
<1> QED BY <1>4, <1>6

\* A request or a response by itself, and the two together.
LEMMA PartialIsWitness ==
  ASSUME NEW msg, Witnesses!IsMessage(msg), Witnesses!ParseHTTP(msg).ok,
         NEW w, w = Witnesses!PartialWitness(msg, Witnesses!ParseHTTP(msg).result)
  PROVE  IsWitness(w)
<1>1. msg.isRequest \in BOOLEAN /\ (msg.isRequest => msg.path \in Seq(STRING))
  BY DEF Witnesses!IsMessage
<1> DEFINE Meta(method, host, path) == [method |-> method, host |-> host, path |-> path]
<1>0. \A method, host, path : path \in Seq(Segments) => IsMeta(Meta(method, host, path))
  BY DEF IsMeta
<1>2. IsMeta(w.meta)
  <2>1. CASE msg.isRequest
    <3>1. w.meta = Meta(msg.method, msg.host, msg.path)
      BY <2>1 DEF Witnesses!PartialWitness
    <3>2. msg.path \in Seq(Segments)
      BY <1>1, <2>1 DEF Segments
    <3> HIDE DEF Meta
    <3> QED BY <1>0, <3>1, <3>2
  <2>2. CASE ~msg.isRequest
    <3>1. w.meta = Meta("", "", <<>>)
      BY <2>2 DEF Witnesses!PartialWitness, Witnesses!UnknownHTTPMethodMeta
    <3>2. <<>> \in Seq(Segments)
      OBVIOUS
    <3> HIDE DEF Meta
    <3> QED BY <1>0, <3>1, <3>2
  <2> QED BY <2>1, <2>2
<1>3. \A d \in w.args \cup w.responses : d \in Witnesses!ParseHTTP(msg).result
  BY <1>1 DEF Witnesses!PartialWitness
<1>4. /\ DOMAIN w = {"meta", "hasArgs", "args", "responses", "obfuscated"}
      /\ w.hasArgs \in BOOLEAN
  BY <1>1 DEF Witnesses!PartialWitness
<1> QED BY <1>2, <1>3, <1>4, ParsedData DEF IsWitness

LEMMA MergedIsWitness ==
  ASSUME NEW dst, NEW src, IsWitness(dst), IsWitness(src),
         NEW w, w = Witnesses!MergeWitness(dst, src)
  PROVE  IsWitness(w)
<1>1. /\ DOMAIN w = DOMAIN dst /\ w.hasArgs = TRUE
      /\ w.args = (IF dst.hasArgs THEN dst.args ELSE src.args)
      /\ w.responses = (IF dst.hasArgs THEN src.responses ELSE dst.responses)
      /\ w.meta = (IF dst.meta.method = "" THEN src.meta ELSE dst.meta)
  BY DEF IsWitness, Witnesses!MergeWitness
<1> QED BY <1>1 DEF IsWitness

-----------------------------------------------------------------------------
(* The state machine.                                                      *)

\* The configuration that is applied agrees with the last one given.
ConfigInv ==
  /\ backend \in Configs /\ latest \in Configs
  /\ fetched \in Configs \cup {Witnesses!None}
  /\ DOMAIN userConfig = {"names", "regexps"}
  /\ Agree(userConfig, latest)

MessageInv ==
  /\ request # Witnesses!None => Witnesses!IsMessage(request) /\ request.isRequest
  /\ response # Witnesses!None => Witnesses!IsMessage(response) /\ ~response.isRequest

\* A message makes one report at most, by itself or with the other.
Halves == IF pairCache = Witnesses!None THEN 0 ELSE 1
Arrivals ==
  {s \in Seq({"request", "response"}) :
     Len(s) <= 2 /\ \A i, j \in 1 .. Len(s) : s[i] = s[j] => i = j}
CountInv ==
  /\ arrived \in Arrivals
  /\ IsFiniteSet(witnesses)
  /\ Cardinality(witnesses) + Halves <= Len(arrived)

FlagInv ==
  /\ sampled \in BOOLEAN /\ filteredIDs \in BOOLEAN /\ updating \in BOOLEAN
  /\ edits \in 0 .. MaxEdits

ReportInv ==
  /\ pairCache # Witnesses!None => IsWitness(pairCache)
  /\ \A r \in witnesses : Safe(r.config, r.witness)

WitnessInv == ConfigInv /\ MessageInv /\ CountInv /\ FlagInv /\ ReportInv

LEMMA Queued ==
  ASSUME NEW w, IsWitness(w), NEW oversized \in BOOLEAN, ConfigInv,
         Witnesses!queueUpload(w, oversized)
  PROVE  \E r : witnesses' = witnesses \cup {r} /\ Safe(r.config, r.witness)
<1> DEFINE zeroed == Witnesses!ZeroAllPrimitives(userConfig, w)
           redacted == Witnesses!RedactSensitiveData(userConfig, w)
           sent == IF ~sendWitnessPayloads \/ ~Witnesses!shouldCapturePayload(w)
                     THEN zeroed ELSE redacted
           final == IF oversized THEN Witnesses!ZeroAllPrimitives(userConfig, sent) ELSE sent
<1>1. witnesses' = witnesses \cup {[witness |-> final, config |-> latest]}
  BY Zenon DEF Witnesses!queueUpload
<1>2. Agree(userConfig, latest)
  BY DEF ConfigInv
<1>3. IsWitness(zeroed) /\ Safe(latest, zeroed)
  BY <1>2, WitnessZeroed
<1>4. /\ IsWitness(redacted)
      /\ Witnesses!shouldCapturePayload(w) => Safe(latest, redacted)
  BY <1>2, WitnessRedacted DEF Witnesses!shouldCapturePayload
<1>5. IsWitness(sent) /\ Safe(latest, sent)
  <2> HIDE DEF zeroed, redacted
  <2> QED BY <1>3, <1>4, Zenon
<1>6. Safe(latest, final)
  <2> HIDE DEF sent
  <2> QED BY <1>2, <1>5, WitnessZeroed, Zenon
<1> HIDE DEF final
<1>7. /\ [witness |-> final, config |-> latest].config = latest
      /\ [witness |-> final, config |-> latest].witness = final
  OBVIOUS
<1> QED BY <1>1, <1>6, <1>7, Zenon

LEMMA ReportAdded ==
  ASSUME NEW S, IsFiniteSet(S), NEW x
  PROVE  /\ IsFiniteSet(S \cup {x})
         /\ Cardinality(S) \in Nat /\ Cardinality(S \cup {x}) \in Nat
         /\ Cardinality(S \cup {x}) <= Cardinality(S) + 1
BY FS_AddElement, FS_CardinalityType

\* What becomes of the cache and of the reports, of one more message or of none.
LEMMA Collected ==
  ASSUME NEW msg, Witnesses!IsMessage(msg), NEW oversized \in BOOLEAN, WitnessInv,
         Witnesses!Collect(msg, oversized)
  PROVE  /\ ReportInv' /\ IsFiniteSet(witnesses')
         /\ Cardinality(witnesses') + Halves' <= Cardinality(witnesses) + Halves + 1
<1> DEFINE parsed == Witnesses!ParseHTTP(msg)
           partw == Witnesses!PartialWitness(msg, parsed.result)
<1>0. IsFiniteSet(witnesses) /\ Cardinality(witnesses) \in Nat
  BY FS_CardinalityType DEF WitnessInv, CountInv
<1>1. CASE ~parsed.ok
  <2>1. UNCHANGED <<pairCache, witnesses>>
    BY <1>1, Zenon DEF Witnesses!Collect
  <2> QED BY <1>0, <2>1 DEF WitnessInv, ReportInv, Halves
<1>2. CASE parsed.ok /\ pairCache = Witnesses!None
  <2>1. pairCache' = partw /\ witnesses' = witnesses
    BY <1>2, Zenon DEF Witnesses!Collect
  <2>2. IsWitness(partw)
    BY <1>2, PartialIsWitness
  <2> HIDE DEF partw
  <2> QED BY <1>0, <1>2, <2>1, <2>2 DEF WitnessInv, ReportInv, Halves
<1>3. CASE parsed.ok /\ pairCache # Witnesses!None
  <2> DEFINE merged == Witnesses!MergeWitness(pairCache, partw)
  <2>1. pairCache' = Witnesses!None /\ Witnesses!queueUpload(merged, oversized)
    BY <1>3, Zenon DEF Witnesses!Collect
  <2>2. IsWitness(merged)
    BY <1>3, PartialIsWitness, MergedIsWitness DEF WitnessInv, ReportInv
  <2> HIDE DEF merged
  <2>3. PICK r : witnesses' = witnesses \cup {r} /\ Safe(r.config, r.witness)
    BY <2>1, <2>2, Queued DEF WitnessInv
  <2>4. ReportInv'
    BY <2>1, <2>3, Zenon DEF WitnessInv, ReportInv
  <2>5. /\ IsFiniteSet(witnesses') /\ Cardinality(witnesses') \in Nat
        /\ Cardinality(witnesses') <= Cardinality(witnesses) + 1
    BY <1>0, <2>3, ReportAdded
  <2>6. Halves = 1 /\ Halves' = 0
    BY <1>3, <2>1 DEF Halves
  <2> QED BY <1>0, <2>4, <2>5, <2>6
<1> QED BY <1>1, <1>2, <1>3

LEMMA WitnessInit ==
  ASSUME WitnessesAssumption, Witnesses!Init
  PROVE  WitnessInv
<1>1. PICK e \in Exchanges : request = e[1] /\ response = e[2]
  BY DEF Witnesses!Init
<1>2. MessageInv
  BY <1>1, Zenon DEF WitnessesAssumption, MessageInv
<1>3. ConfigInv
  <2>1. /\ backend \in Configs /\ fetched = Witnesses!None
        /\ userConfig = backend /\ latest = backend
    BY DEF Witnesses!Init, WitnessesAssumption
  <2> QED BY <2>1, Zenon DEF ConfigInv, Agree, WitnessesAssumption
<1>4. CountInv /\ ReportInv
  <2>1. arrived = <<>> /\ witnesses = {} /\ pairCache = Witnesses!None
    BY DEF Witnesses!Init
  <2>2. Len(arrived) = 0 /\ Cardinality({}) = 0 /\ IsFiniteSet({})
    BY <2>1, FS_EmptySet
  <2> QED BY <2>1, <2>2 DEF CountInv, ReportInv, Halves, Arrivals
<1>5. FlagInv
  <2>1. /\ sampled \in BOOLEAN /\ filteredIDs = FALSE /\ updating = TRUE /\ edits = 0
    BY Zenon DEF Witnesses!Init
  <2>2. 0 \in 0 .. MaxEdits
    BY DEF WitnessesAssumption
  <2> QED BY <2>1, <2>2, Zenon DEF FlagInv
<1> QED BY <1>2, <1>3, <1>4, <1>5 DEF WitnessInv

\* One more message is taken, and of it there is a report or a half at most.
LEMMA Arrived ==
  ASSUME WitnessInv, NEW m \in {"request", "response"}, m \notin Witnesses!ToSet(arrived),
         arrived' = Append(arrived, m), IsFiniteSet(witnesses'),
         Cardinality(witnesses') + Halves' <= Cardinality(witnesses) + Halves + 1
  PROVE  CountInv'
<1>0. /\ arrived \in Seq({"request", "response"}) /\ Len(arrived) <= 2
      /\ \A i, j \in 1 .. Len(arrived) : arrived[i] = arrived[j] => i = j
  BY Zenon DEF WitnessInv, CountInv, Arrivals
<1>1. arrived' \in Arrivals /\ Len(arrived') = Len(arrived) + 1
  <2>1. \A i \in 1 .. Len(arrived) : arrived[i] # m /\ arrived[i] \in {"request", "response"}
    BY <1>0 DEF Witnesses!ToSet
  <2>2. Len(arrived) \in Nat /\ Len(arrived) # 2
    BY <1>0, <2>1
  <2>3. /\ arrived' \in Seq({"request", "response"}) /\ Len(arrived') = Len(arrived) + 1
        /\ \A i \in 1 .. Len(arrived') :
             arrived'[i] = IF i <= Len(arrived) THEN arrived[i] ELSE m
    BY <1>0
  <2>4. \A i, j \in 1 .. Len(arrived') : arrived'[i] = arrived'[j] => i = j
    BY <1>0, <2>1, <2>3
  <2>5. \A n \in Nat : n <= 2 /\ n # 2 => n + 1 <= 2
    OBVIOUS
  <2>6. Len(arrived') <= 2
    BY <1>0, <2>2, <2>3, <2>5, Zenon
  <2> QED BY <2>3, <2>4, <2>6, Zenon DEF Arrivals
<1>2. Len(arrived) \in Nat /\ Halves \in Nat /\ Halves' \in Nat
  BY DEF Halves, WitnessInv, CountInv, Arrivals
<1>3. Cardinality(witnesses) \in Nat /\ Cardinality(witnesses') \in Nat
  BY FS_CardinalityType DEF WitnessInv, CountInv
<1> QED BY <1>1, <1>2, <1>3 DEF WitnessInv, CountInv

LEMMA WitnessNext ==
  ASSUME WitnessesAssumption, WitnessInv, [Witnesses!Next]_pipeline
  PROVE  WitnessInv'
<1>0. /\ Cardinality(witnesses) \in Nat /\ Halves \in Nat /\ Len(arrived) \in Nat
      /\ IsFiniteSet(witnesses)
  BY FS_CardinalityType DEF WitnessInv, CountInv, Halves, Arrivals
<1>1. ASSUME NEW msg, Witnesses!IsMessage(msg), NEW m \in {"request", "response"},
             m \notin Witnesses!ToSet(arrived), arrived' = Append(arrived, m),
             \/ UNCHANGED <<pairCache, witnesses>>
             \/ \E oversized \in BOOLEAN : Witnesses!Collect(msg, oversized)
      PROVE  ReportInv' /\ CountInv'
  <2>1. CASE UNCHANGED <<pairCache, witnesses>>
    <3>1. ReportInv' /\ Halves' = Halves
      BY <2>1 DEF WitnessInv, ReportInv, Halves
    <3> QED BY <1>0, <1>1, <2>1, <3>1, Arrived
  <2>2. CASE \E oversized \in BOOLEAN : Witnesses!Collect(msg, oversized)
    BY <1>1, <2>2, Collected, Arrived
  <2> QED BY <1>1, <2>1, <2>2
<1>2. CASE Witnesses!ProcessRequest
  <2>1. /\ UNCHANGED <<request, response, sampled, backend, fetched, userConfig, latest,
                       updating, edits>>
        /\ filteredIDs' = (filteredIDs \/ Excluded(request))
    BY <1>2 DEF Witnesses!ProcessRequest, Witnesses!exchange, Witnesses!configuration
  <2>2. ReportInv' /\ CountInv'
    BY <1>1, <1>2, Zenon DEF Witnesses!ProcessRequest, WitnessInv, MessageInv
  <2>3. ConfigInv' /\ MessageInv'
    BY <2>1 DEF WitnessInv, ConfigInv, MessageInv
  <2>4. FlagInv'
    BY <2>1, Zenon DEF WitnessInv, FlagInv
  <2> QED BY <2>2, <2>3, <2>4 DEF WitnessInv
<1>3. CASE Witnesses!ProcessResponse
  <2>1. UNCHANGED <<request, response, sampled, filteredIDs, backend, fetched, userConfig,
                    latest, updating, edits>>
    BY <1>3 DEF Witnesses!ProcessResponse, Witnesses!exchange, Witnesses!configuration
  <2>2. ReportInv' /\ CountInv'
    BY <1>1, <1>3, Zenon DEF Witnesses!ProcessResponse, WitnessInv, MessageInv
  <2>3. ConfigInv' /\ MessageInv' /\ FlagInv'
    BY <2>1 DEF WitnessInv, ConfigInv, MessageInv, FlagInv
  <2> QED BY <2>2, <2>3 DEF WitnessInv
<1>4. CASE Witnesses!flushPairCache
  <2>1. /\ UNCHANGED <<request, response, sampled, arrived, filteredIDs, backend, fetched,
                       userConfig, latest, updating, edits>>
        /\ pairCache # Witnesses!None /\ pairCache' = Witnesses!None
    BY <1>4 DEF Witnesses!flushPairCache, Witnesses!exchange, Witnesses!configuration
  <2>2. PICK r : witnesses' = witnesses \cup {r} /\ Safe(r.config, r.witness)
    BY <1>4, Queued DEF Witnesses!flushPairCache, WitnessInv, ReportInv
  <2>3. ReportInv'
    BY <2>1, <2>2, Zenon DEF WitnessInv, ReportInv
  <2>4. /\ IsFiniteSet(witnesses') /\ Cardinality(witnesses') \in Nat
        /\ Cardinality(witnesses') <= Cardinality(witnesses) + 1
        /\ Halves = 1 /\ Halves' = 0
    BY <1>0, <2>1, <2>2, ReportAdded DEF Halves
  <2>5. CountInv'
    BY <1>0, <2>1, <2>4 DEF WitnessInv, CountInv
  <2>6. ConfigInv' /\ MessageInv' /\ FlagInv'
    BY <2>1 DEF WitnessInv, ConfigInv, MessageInv, FlagInv
  <2> QED BY <2>3, <2>5, <2>6 DEF WitnessInv
<1>5. ASSUME UNCHANGED <<request, response, sampled, arrived, filteredIDs, pairCache, witnesses>>
      PROVE  /\ MessageInv' /\ CountInv' /\ ReportInv'
             /\ ConfigInv' /\ FlagInv' => WitnessInv'
  BY <1>5 DEF WitnessInv, MessageInv, CountInv, ReportInv, Halves
<1>6. CASE Witnesses!Edit
  <2>1. ConfigInv' /\ FlagInv'
    BY <1>6 DEF Witnesses!Edit, WitnessesAssumption, WitnessInv, ConfigInv, FlagInv,
      Witnesses!exchange
  <2> QED BY <1>5, <1>6, <2>1 DEF Witnesses!Edit, Witnesses!exchange
<1>7. CASE Witnesses!Fetch
  <2>1. ConfigInv' /\ FlagInv'
    BY <1>7 DEF Witnesses!Fetch, WitnessInv, ConfigInv, FlagInv, Witnesses!exchange
  <2> QED BY <1>5, <1>7, <2>1 DEF Witnesses!Fetch, Witnesses!exchange
<1>8. CASE Witnesses!update
  <2> DEFINE new == [fetched EXCEPT !.regexps = @ \ {""}]
  <2>1. /\ fetched \in Configs /\ fetched' = Witnesses!None /\ latest' = fetched
        /\ backend' = backend /\ userConfig' = new
        /\ UNCHANGED <<sampled, filteredIDs, updating, edits>>
    BY <1>8, Zenon DEF Witnesses!update, Witnesses!exchange, WitnessInv, ConfigInv
  <2>2. DOMAIN fetched = {"names", "regexps"}
    BY <2>1 DEF WitnessesAssumption
  <2>3. /\ DOMAIN new = {"names", "regexps"} /\ new.names = fetched.names
        /\ new.regexps = fetched.regexps \ {""}
    BY <2>2
  <2> HIDE DEF new
  <2>4. Agree(new, fetched)
    BY <2>3 DEF Agree
  <2>5. ConfigInv' /\ FlagInv'
    BY <2>1, <2>3, <2>4 DEF WitnessInv, ConfigInv, FlagInv
  <2> QED BY <1>5, <1>8, <2>5 DEF Witnesses!update, Witnesses!exchange
<1>9. CASE Witnesses!StopPeriodicUpdates
  <2>1. ConfigInv' /\ FlagInv'
    BY <1>9 DEF Witnesses!StopPeriodicUpdates, WitnessInv, ConfigInv, FlagInv,
      Witnesses!exchange
  <2> QED BY <1>5, <1>9, <2>1 DEF Witnesses!StopPeriodicUpdates, Witnesses!exchange
<1>10. CASE UNCHANGED pipeline
  BY <1>10 DEF pipeline, WitnessInv, ConfigInv, MessageInv, CountInv, FlagInv, ReportInv,
    Halves
<1> QED BY <1>2, <1>3, <1>4, <1>6, <1>7, <1>8, <1>9, <1>10 DEF Witnesses!Next

-----------------------------------------------------------------------------
(* The theorems.                                                           *)

\* Whatever the exchange, however its messages are encoded and nested, and however
\* the configuration changes while they are parsed and paired, no reported witness
\* shows what the configuration that the redactor last took over declares sensitive.
THEOREM SensitiveTheorem == Witnesses!Spec => []NothingSensitive
<1> USE WitnessesAssumption
<1>1. Witnesses!Init => WitnessInv
  BY WitnessInit
<1>2. WitnessInv /\ [Witnesses!Next]_pipeline => WitnessInv'
  BY WitnessNext
<1>3. WitnessInv => NothingSensitive
  BY Zenon DEF WitnessInv, ReportInv, Safe, DatumSafe, PathSafe, NothingSensitive,
    Witnesses!NothingSensitive
<1> QED BY <1>1, <1>2, <1>3, PTL DEF Witnesses!Spec, Witnesses!vars, pipeline

LEMMA SameCardinality == \A S : Witnesses!Cardinality(S) = Cardinality(S)
BY Zenon DEF Cardinality, Witnesses!Cardinality

\* The values of the pipeline: there are two reports at most of the two messages of
\* an exchange.
THEOREM WitnessesTypeTheorem == Witnesses!Spec => []Witnesses!TypeOK
<1> USE WitnessesAssumption
<1>1. Witnesses!Init => WitnessInv
  BY WitnessInit
<1>2. WitnessInv /\ [Witnesses!Next]_pipeline => WitnessInv'
  BY WitnessNext
<1>3. ASSUME WitnessInv PROVE Witnesses!TypeOK
  <2>1. Witnesses!ToSet(arrived) \subseteq {"request", "response"}
    BY <1>3 DEF WitnessInv, CountInv, Arrivals, Witnesses!ToSet
  <2>2. Witnesses!Cardinality(witnesses) <= 2
    BY <1>3, FS_CardinalityType, SameCardinality DEF WitnessInv, CountInv, Arrivals, Halves
  <2>3. pairCache = Witnesses!None \/ pairCache.hasArgs \in BOOLEAN
    BY <1>3 DEF WitnessInv, ReportInv, IsWitness
  <2> QED BY <1>3, <2>1, <2>2, <2>3, Zenon DEF WitnessInv, ConfigInv, MessageInv, FlagInv,
    Witnesses!TypeOK
<1> QED BY <1>1, <1>2, <1>3, PTL DEF Witnesses!Spec, Witnesses!vars, pipeline

\* The reassembly, the trackers, the rate limit and the pipeline, each in its own steps, keep
\* their variables to values of their kinds.
THEOREM TypesTheorem ==
  Spec /\ Trackers!Spec /\ Limiter!Spec /\ Witnesses!Spec => []Types
BY TypeCorrect, TrackersTypeTheorem, RateLimitTypeTheorem, WitnessesTypeTheorem, PTL DEF Types

-----------------------------------------------------------------------------
(* The encodings are undone.                                               *)

LEMMA Least ==
  ASSUME NEW S \in SUBSET Nat, S # {}
  PROVE  \E m \in S : \A n \in S : m <= n
<1>1. PICK m \in S : \A n \in S : ~ <<n, m>> \in OpToRel(<, Nat)
  BY NatLessThanWellFounded, WFMin
<1>2. OpToRel(<, Nat) = {ss \in Nat \X Nat : ss[1] < ss[2]}
  BY Zenon DEF OpToRel
<1>3. ASSUME NEW n \in S, n < m PROVE FALSE
  <2>1. <<n, m>> \in Nat \X Nat /\ <<n, m>>[1] < <<n, m>>[2]
    BY <1>3
  <2> QED BY <1>1, <1>2, <2>1, Zenon
<1>4. \A n \in S : n \in Nat /\ m \in Nat /\ ~(n < m)
  BY <1>3
<1> QED BY <1>4

\* The body with other compressions left on it.
Under(body, wraps) ==
  [wraps |-> wraps, text |-> body.text, chars |-> body.chars, size |-> body.size]

LEMMA UnderFacts ==
  ASSUME NEW body, NEW wraps, NEW b, b = Under(body, wraps)
  PROVE  /\ b.wraps = wraps /\ b.text = body.text
         /\ b.chars = body.chars /\ b.size = body.size
         /\ \A x : [b EXCEPT !.wraps = x] = Under(body, x)
BY DEF Under

Compressions == {"deflate", "gzip", "br"}

\* The outermost compression is undone, and none else can be read to the end.
LEMMA Decompressed ==
  ASSUME NEW body, NEW wraps, NEW c \in Compressions
  PROVE  /\ wraps # <<>> /\ Witnesses!Last(wraps) = c =>
              Witnesses!decompress(c, Under(body, wraps)) =
                Witnesses!Success(Under(body, Witnesses!Front(wraps)))
         /\ ~(wraps # <<>> /\ Witnesses!Last(wraps) = c) =>
              \/ Witnesses!decompress(c, Under(body, wraps)) = Witnesses!Error
              \/ Witnesses!decompress(c, Under(body, wraps)) =
                   Witnesses!Success(Under(body, <<"garbage">>))
<1> DEFINE b == Under(body, wraps)
<1>1. /\ b.wraps = wraps /\ \A x : [b EXCEPT !.wraps = x] = Under(body, x)
  BY UnderFacts
<1>2. [b EXCEPT !.wraps = Witnesses!Front(@)] = [b EXCEPT !.wraps = Witnesses!Front(wraps)]
  BY <1>1, Zenon
<1>3. c # "identity" /\ c \in {"gzip", "deflate", "br"}
  BY DEF Compressions
<1> HIDE DEF b
<1>4. Witnesses!decompress(c, b) =
        IF b.wraps # <<>> /\ Witnesses!Last(b.wraps) = c
          THEN Witnesses!Success([b EXCEPT !.wraps = Witnesses!Front(@)])
          ELSE IF c = "gzip" THEN Witnesses!Error
               ELSE Witnesses!Success([b EXCEPT !.wraps = <<"garbage">>])
  BY <1>3, Zenon DEF Witnesses!decompress
<1>5. CASE wraps # <<>> /\ Witnesses!Last(wraps) = c
  <2>1. Witnesses!decompress(c, b) =
          Witnesses!Success([b EXCEPT !.wraps = Witnesses!Front(@)])
    BY <1>1, <1>4, <1>5, Zenon
  <2> QED BY <1>1, <1>2, <1>5, <2>1, Zenon DEF b
<1>6. CASE ~(wraps # <<>> /\ Witnesses!Last(wraps) = c)
  <2>1. Witnesses!decompress(c, b) \in
          {Witnesses!Error, Witnesses!Success([b EXCEPT !.wraps = <<"garbage">>])}
    BY <1>1, <1>4, <1>6, Zenon
  <2> QED BY <1>1, <1>6, <2>1, Zenon DEF b
<1> QED BY <1>5, <1>6

LEMMA OneUndone ==
  ASSUME NEW body, NEW wraps \in Seq(STRING), NEW encodings \in Seq(STRING),
         NEW count \in [0 .. Len(encodings) -> 0 .. Len(wraps)],
         NEW i \in 1 .. Len(encodings),
         encodings[i] \in Compressions \cup {"identity"},
         IF encodings[i] = "identity" THEN count[i] = count[i - 1]
         ELSE count[i] = count[i - 1] + 1 /\ wraps[count[i]] = encodings[i]
  PROVE  Witnesses!decompress(encodings[i], Under(body, SubSeq(wraps, 1, count[i]))) =
           Witnesses!Success(Under(body, SubSeq(wraps, 1, count[i - 1])))
<1>0. /\ count[i] \in 0 .. Len(wraps) /\ count[i - 1] \in 0 .. Len(wraps)
      /\ Len(wraps) \in Nat
  <2>1. i \in 0 .. Len(encodings) /\ i - 1 \in 0 .. Len(encodings)
    OBVIOUS
  <2> QED BY <2>1
<1>1. CASE encodings[i] = "identity"
  BY <1>1 DEF Witnesses!decompress
<1>2. CASE encodings[i] # "identity"
  <2> DEFINE w == SubSeq(wraps, 1, count[i])
  <2>1. count[i] = count[i - 1] + 1 /\ wraps[count[i]] = encodings[i]
    BY <1>2
  <2>2. w \in Seq(STRING) /\ Len(w) = count[i] /\ \A j \in 1 .. count[i] : w[j] = wraps[j]
    BY <1>0
  <2>3. w # <<>> /\ Witnesses!Last(w) = encodings[i]
    BY <1>0, <2>1, <2>2 DEF Witnesses!Last
  <2>4. Witnesses!Front(w) = SubSeq(wraps, 1, count[i - 1])
    <3>1. Witnesses!Front(w) = SubSeq(w, 1, count[i - 1])
      BY <1>0, <2>1, <2>2 DEF Witnesses!Front
    <3>2. SubSeq(w, 1, count[i - 1]) = SubSeq(wraps, 1, count[i - 1])
      BY <1>0, <2>1
    <3> QED BY <3>1, <3>2
  <2>5. encodings[i] \in Compressions
    BY <1>2
  <2> HIDE DEF w
  <2>6. Witnesses!decompress(encodings[i], Under(body, w)) =
          Witnesses!Success(Under(body, Witnesses!Front(w)))
    BY <2>3, <2>5, Decompressed
  <2> QED BY <2>4, <2>6 DEF w
<1> QED BY <1>1, <1>2

LEMMA Undone ==
  ASSUME NEW msg, Witnesses!IsBody(msg.body), msg.encodings \in Seq(STRING),
         Witnesses!Applied(msg.body.wraps, msg.encodings),
         Witnesses!ToSet(msg.encodings) \subseteq Compressions \cup {"identity"}
  PROVE  Witnesses!undone(msg)[Len(msg.encodings)] =
           Witnesses!Success(Under(msg.body, <<>>))
<1> DEFINE body == msg.body
           wraps == msg.body.wraps
           enc == msg.encodings
           N == Len(enc)
           Step(f, n) == IF n = 0 THEN Witnesses!Success(body)
                         ELSE IF ~f[n - 1].ok THEN Witnesses!Error
                         ELSE Witnesses!decompress(enc[N + 1 - n], f[n - 1].result)
           left == Witnesses!undone(msg)
<1>1. wraps \in Seq(STRING) /\ enc \in Seq(STRING) /\ N \in Nat /\ body = Under(body, wraps)
  BY DEF Witnesses!IsBody, Under
<1>2. PICK count \in [0 .. N -> 0 .. Len(wraps)] :
        /\ count[0] = 0 /\ count[N] = Len(wraps)
        /\ \A i \in DOMAIN enc :
             IF enc[i] = "identity" THEN count[i] = count[i - 1]
             ELSE count[i] = count[i - 1] + 1 /\ wraps[count[i]] = enc[i]
  BY Zenon DEF Witnesses!Applied
<1> DEFINE g == [n \in 0 .. N |-> Witnesses!Success(Under(body, SubSeq(wraps, 1, count[N - n])))]
<1>3. \A x : Witnesses!Success(x).ok /\ Witnesses!Success(x).result = x
  BY DEF Witnesses!Success
<1>4. left = CHOOSE f : f = [n \in 0 .. N |-> Step(f, n)]
  BY Zenon DEF Witnesses!undone
<1>5. ASSUME NEW n \in 0 .. N PROVE g[n] = Step(g, n)
  <2>1. CASE n = 0
    <3>1. SubSeq(wraps, 1, count[N - n]) = wraps
      BY <1>1, <1>2, <2>1
    <3>2. g[n] = Witnesses!Success(Under(body, SubSeq(wraps, 1, count[N - n])))
      BY Zenon
    <3> HIDE DEF g
    <3> QED BY <1>1, <2>1, <3>1, <3>2, Zenon
  <2>2. CASE n # 0
    <3> DEFINE i == N + 1 - n
    <3>1. /\ i \in 1 .. N /\ n - 1 \in 0 .. N /\ N - (n - 1) = i /\ N - n = i - 1
          /\ DOMAIN enc = 1 .. N
      BY <1>1, <2>2
    <3>2. enc[i] \in Compressions \cup {"identity"}
      BY <3>1, Zenon DEF Witnesses!ToSet
    <3>3. Witnesses!decompress(enc[i], Under(body, SubSeq(wraps, 1, count[i]))) =
            Witnesses!Success(Under(body, SubSeq(wraps, 1, count[i - 1])))
      BY <1>1, <1>2, <3>1, <3>2, OneUndone
    <3>4. /\ g[n] = Witnesses!Success(Under(body, SubSeq(wraps, 1, count[i - 1])))
          /\ g[n - 1] = Witnesses!Success(Under(body, SubSeq(wraps, 1, count[i])))
      BY <3>1, Zenon
    <3> HIDE DEF g
    <3> QED BY <1>3, <2>2, <3>3, <3>4, Zenon
  <2> QED BY <2>1, <2>2
<1>6. g = [n \in 0 .. N |-> Step(g, n)]
  <2>1. g = [n \in 0 .. N |-> g[n]]
    BY Zenon
  <2> HIDE DEF g, Step
  <2> QED BY <1>5, <2>1, Zenon
<1>7. left = [n \in 0 .. N |-> Step(left, n)]
  <2> HIDE DEF g, Step, left
  <2> QED BY <1>4, <1>6, Zenon
<1>8. \A n \in 0 .. N : left[n] = g[n]
  <2> DEFINE Bad == {n \in 0 .. N : left[n] # g[n]}
  <2>1. SUFFICES ASSUME Bad # {} PROVE FALSE
    BY Zenon
  <2>2. PICK m \in Bad : \A n \in Bad : m <= n
    <3>1. Bad \in SUBSET Nat
      BY <1>1
    <3> HIDE DEF Bad
    <3> QED BY <2>1, <3>1, Least
  <2>3. left[m] = Step(left, m) /\ g[m] = Step(g, m) /\ m \in 0 .. N
    <3> HIDE DEF g, Step, left
    <3> QED BY <1>5, <1>7, Zenon
  <2>4. CASE m = 0
    BY <2>2, <2>3, <2>4, Zenon
  <2>5. CASE m # 0
    <3>1. m - 1 \in 0 .. N /\ ~(m <= m - 1)
      BY <1>1, <2>3, <2>5
    <3>2. left[m - 1] = g[m - 1]
      BY <2>2, <3>1, Zenon
    <3>3. left[m] # g[m]
      BY <2>2, Zenon
    <3> HIDE DEF g, left, Bad
    <3>4. Step(left, m) = Step(g, m)
      BY <2>5, <3>2
    <3> QED BY <2>3, <3>3, <3>4
  <2> QED BY <2>4, <2>5
<1>9. g[N] = Witnesses!Success(Under(body, <<>>))
  <2>1. N \in 0 .. N /\ N - N = 0
    BY <1>1
  <2>2. SubSeq(wraps, 1, count[N - N]) = <<>>
    <3>1. count[N - N] = 0
      BY <1>2, <2>1, Zenon
    <3> QED BY <3>1, SubSeqEmpty
  <2>3. g[N] = Witnesses!Success(Under(body, SubSeq(wraps, 1, count[N - N])))
    BY <2>1, Zenon
  <2> QED BY <2>2, <2>3, Zenon
<1> QED
  <2>1. N \in 0 .. N
    BY <1>1
  <2> HIDE DEF g, left
  <2> QED BY <1>8, <1>9, <2>1, Zenon DEF left

\* Without encodings the left is the body itself.
LEMMA NothingUndone ==
  ASSUME NEW msg, msg.encodings = <<>>
  PROVE  Witnesses!undone(msg)[Len(msg.encodings)] = Witnesses!Success(msg.body)
<1> DEFINE N == Len(msg.encodings)
           Step(f, n) == IF n = 0 THEN Witnesses!Success(msg.body)
                         ELSE IF ~f[n - 1].ok THEN Witnesses!Error
                         ELSE Witnesses!decompress(msg.encodings[N + 1 - n], f[n - 1].result)
           left == Witnesses!undone(msg)
           g == [n \in 0 .. N |-> Witnesses!Success(msg.body)]
<1>1. N = 0 /\ \A n \in 0 .. N : n = 0
  OBVIOUS
<1>2. left = CHOOSE f : f = [n \in 0 .. N |-> Step(f, n)]
  BY Zenon DEF Witnesses!undone
<1>3. g = [n \in 0 .. N |-> Step(g, n)]
  BY <1>1, Zenon
<1>4. left = [n \in 0 .. N |-> Step(left, n)]
  <2> HIDE DEF g, Step, left
  <2> QED BY <1>2, <1>3, Zenon
<1>5. 0 \in 0 .. N
  BY <1>1
<1>6. left[0] = Step(left, 0)
  <2> HIDE DEF Step, left, N
  <2> QED BY <1>4, <1>5, Zenon
<1> QED BY <1>1, <1>6, Zenon

\* The text of the body, uncompressed and in the right characters.
Plain(body) == [wraps |-> <<>>, text |-> body.text, chars |-> "utf-8", size |-> body.size]

LEMMA Decoded ==
  ASSUME NEW msg, Witnesses!IsMessage(msg), msg.body # Witnesses!None,
         msg.contentType # Witnesses!None, NEW as, Witnesses!WellEncoded(msg, as)
  PROVE  /\ Witnesses!decodeBody(msg).ok
         /\ Witnesses!Declared(msg) => Witnesses!decodeBody(msg).result = Plain(msg.body)
         /\ ~Witnesses!Declared(msg) => /\ Witnesses!Undeclared(msg)
                                       /\ Witnesses!decodeBody(msg).result = msg.body
<1> DEFINE d == Witnesses!decodeBody(msg)
           charset == msg.contentType.charset
           plain == IF msg.bodyDecompressed THEN Witnesses!Success(msg.body)
                    ELSE Witnesses!undone(msg)[Len(msg.encodings)]
<1>0. \A x : Witnesses!Success(x).ok /\ Witnesses!Success(x).result = x
  BY DEF Witnesses!Success
<1>1. /\ Witnesses!IsBody(msg.body) /\ msg.encodings \in Seq(STRING)
      /\ msg.body = Under(msg.body, msg.body.wraps)
  BY DEF Witnesses!IsMessage, Witnesses!IsBody, Under
<1>2. /\ charset # "unknown"
      /\ charset = "none" <=> msg.body.chars = "utf-8"
  BY DEF Witnesses!WellEncoded
<1>3. Witnesses!ToSet(Witnesses!fallbackDecompressions) = Compressions
  BY DEF Witnesses!ToSet, Witnesses!fallbackDecompressions, Compressions
<1>4. ASSUME NEW b, plain = Witnesses!Success(b), b = Under(msg.body, <<>>)
      PROVE  d.ok /\ d.result = Plain(msg.body)
  <2>1. CASE charset = "none"
    <3>1. d = Witnesses!Success(b)
      BY <1>0, <1>2, <1>4, <2>1, Zenon DEF Witnesses!decodeBody
    <3>2. b = Plain(msg.body)
      BY <1>2, <1>4, <2>1 DEF Under, Plain
    <3> QED BY <1>0, <3>1, <3>2, Zenon
  <2>2. CASE charset # "none"
    <3> DEFINE r == [b EXCEPT !.chars = "utf-8"]
    <3>1. d = Witnesses!Success(r)
      BY <1>0, <1>2, <1>4, <2>2, Zenon DEF Witnesses!decodeBody
    <3>2. r = Plain(msg.body)
      BY <1>4 DEF Under, Plain
    <3> HIDE DEF r
    <3> QED BY <1>0, <3>1, <3>2, Zenon
  <2> QED BY <2>1, <2>2
<1>5. ASSUME ~msg.bodyDecompressed, Witnesses!Applied(msg.body.wraps, msg.encodings),
             Witnesses!ToSet(msg.encodings) \subseteq
               Witnesses!ToSet(Witnesses!fallbackDecompressions) \cup {"identity"}
      PROVE  d.ok /\ d.result = Plain(msg.body)
  <2>1. plain = Witnesses!Success(Under(msg.body, <<>>))
    BY <1>1, <1>3, <1>5, Undone
  <2> QED BY <1>4, <2>1
<1>6. ASSUME msg.bodyDecompressed, msg.body.wraps = <<>>
      PROVE  d.ok /\ d.result = Plain(msg.body)
  <2>1. plain = Witnesses!Success(Under(msg.body, <<>>))
    BY <1>1, <1>6
  <2> QED BY <1>4, <2>1
<1>7. ASSUME Witnesses!Undeclared(msg), ~msg.bodyDecompressed
      PROVE  d.ok /\ d.result = msg.body
  <2>1. plain = Witnesses!Success(msg.body)
    BY <1>7, NothingUndone DEF Witnesses!Undeclared
  <2>2. d = Witnesses!Success(msg.body)
    BY <1>0, <1>2, <1>7, <2>1, Zenon DEF Witnesses!decodeBody, Witnesses!Undeclared
  <2> QED BY <1>0, <2>2, Zenon
<1>8. ASSUME Witnesses!Undeclared(msg), msg.bodyDecompressed
      PROVE  d.ok /\ d.result = msg.body
  <2>1. d = Witnesses!Success(msg.body)
    BY <1>0, <1>2, <1>8, Zenon DEF Witnesses!decodeBody, Witnesses!Undeclared
  <2> QED BY <1>0, <2>1, Zenon
<1> QED BY <1>5, <1>6, <1>7, <1>8, Zenon DEF Witnesses!WellEncoded, Witnesses!Declared

-----------------------------------------------------------------------------
(* The fallback.                                                           *)

LEMMA NotTruncated ==
  ASSUME NEW body, NEW limit, body.text.size <= limit
  PROVE  Witnesses!Truncate(body, limit) = body
BY DEF Witnesses!Truncate

\* What the fallback makes of a body, if anything, is the body without its outermost
\* compression; and it undoes one that the headers do not name.
LEMMA Fallback ==
  ASSUME NEW body, Witnesses!IsBody(body),
         body.text.size <= Witnesses!MaxFallbackOutput
  PROVE  /\ Witnesses!attemptDecompress(body).ok =>
              \E n \in 0 .. Len(body.wraps) :
                Witnesses!attemptDecompress(body).result =
                  Under(body, SubSeq(body.wraps, 1, n))
         /\ /\ body.size <= Witnesses!MaxFallbackInput
            /\ \E c \in Compressions : body.wraps = <<c>>
            => Witnesses!attemptDecompress(body) = Witnesses!Success(Under(body, <<>>))
<1> DEFINE fb == Witnesses!fallbackDecompressions
           Result(a) == Witnesses!decompress(a, body)
           Works(a) == Result(a).ok /\ Witnesses!Readable(Result(a).result)
           good == {i \in DOMAIN fb : Works(fb[i])}
           r == Witnesses!attemptDecompress(body)
<1>0. \A x : Witnesses!Success(x).ok /\ Witnesses!Success(x).result = x
  BY DEF Witnesses!Success
<1>1. body = Under(body, body.wraps)
  BY DEF Witnesses!IsBody, Under
<1>2. r = IF body.size > Witnesses!MaxFallbackInput \/ good = {} THEN Witnesses!Error
          ELSE Witnesses!Success(Witnesses!Truncate(Result(fb[Witnesses!Min(good)]).result,
                                                    Witnesses!MaxFallbackOutput))
  BY Zenon DEF Witnesses!attemptDecompress
<1>3. \A x : Witnesses!Truncate(Under(body, x), Witnesses!MaxFallbackOutput) = Under(body, x)
  BY NotTruncated, UnderFacts
<1>4. DOMAIN fb = 1 .. 3 /\ fb[1] = "deflate" /\ fb[2] = "gzip" /\ fb[3] = "br"
  BY DEF Witnesses!fallbackDecompressions
<1>5. \A i \in DOMAIN fb : fb[i] \in Compressions
  BY <1>4 DEF Compressions
<1>6. ASSUME good # {} PROVE Witnesses!Min(good) \in good
  <2>1. good \in SUBSET Nat
    BY <1>4
  <2> HIDE DEF good
  <2> QED BY <1>6, <2>1, Least, Zenon DEF Witnesses!Min
<1>7. ASSUME r.ok
      PROVE  \E n \in 0 .. Len(body.wraps) : r.result = Under(body, SubSeq(body.wraps, 1, n))
  <2> DEFINE i == Witnesses!Min(good)
             w == body.wraps
  <2>1. good # {} /\ r = Witnesses!Success(Witnesses!Truncate(Result(fb[i]).result,
                                                            Witnesses!MaxFallbackOutput))
    BY <1>2, <1>7, ErrorFailed, Zenon
  <2>2. fb[i] \in Compressions /\ Works(fb[i])
    BY <1>5, <1>6, <2>1, Zenon
  <2>3. w # <<>> /\ Witnesses!Last(w) = fb[i]
    <3>1. ~Witnesses!Readable(Under(body, <<"garbage">>))
      BY UnderFacts DEF Witnesses!Readable
    <3>2. SUFFICES ASSUME ~(w # <<>> /\ Witnesses!Last(w) = fb[i]) PROVE FALSE
      OBVIOUS
    <3>3. \/ Result(fb[i]) = Witnesses!Error
          \/ Result(fb[i]) = Witnesses!Success(Under(body, <<"garbage">>))
      BY <1>1, <2>2, <3>2, Decompressed, Zenon
    <3> QED BY <1>0, <2>2, <3>1, <3>3, ErrorFailed, Zenon
  <2>4. Result(fb[i]) = Witnesses!Success(Under(body, Witnesses!Front(w)))
    BY <1>1, <2>2, <2>3, Decompressed
  <2>5. r.result = Under(body, Witnesses!Front(w))
    BY <1>0, <1>3, <2>1, <2>4, Zenon
  <2>6. /\ Witnesses!Front(w) = SubSeq(w, 1, Len(w) - 1)
        /\ Len(w) - 1 \in 0 .. Len(w)
    BY <2>3 DEF Witnesses!Front, Witnesses!IsBody
  <2> QED BY <2>5, <2>6
<1>8. ASSUME body.size <= Witnesses!MaxFallbackInput, NEW c \in Compressions,
             body.wraps = <<c>>
      PROVE  r = Witnesses!Success(Under(body, <<>>))
  <2>1. Witnesses!Last(<<c>>) = c /\ Witnesses!Front(<<c>>) = <<>> /\ <<c>> # <<>>
    BY DEF Witnesses!Last, Witnesses!Front
  <2>2. Result(c) = Witnesses!Success(Under(body, <<>>))
    BY <1>1, <1>8, <2>1, Decompressed
  <2>3. Witnesses!Readable(Under(body, <<>>)) /\ ~Witnesses!Readable(Under(body, <<"garbage">>))
    BY UnderFacts DEF Witnesses!Readable
  <2>4. ASSUME NEW i \in good PROVE fb[i] = c
    <3>1. fb[i] \in Compressions /\ Works(fb[i])
      BY <1>5
    <3>2. CASE fb[i] # c
      <4>1. \/ Result(fb[i]) = Witnesses!Error
            \/ Result(fb[i]) = Witnesses!Success(Under(body, <<"garbage">>))
        BY <1>1, <1>8, <2>1, <3>1, <3>2, Decompressed, Zenon
      <4> QED BY <1>0, <2>3, <3>1, <4>1, ErrorFailed, Zenon
    <3> QED BY <3>2
  <2>5. good # {}
    <3>1. \E i \in DOMAIN fb : fb[i] = c
      BY <1>4 DEF Compressions
    <3> QED BY <1>0, <2>2, <2>3, <3>1, Zenon
  <2>6. ~(body.size > Witnesses!MaxFallbackInput)
    BY <1>8 DEF Witnesses!IsBody, Witnesses!MaxFallbackInput
  <2> HIDE DEF good
  <2>7. r = Witnesses!Success(Witnesses!Truncate(Result(c).result,
                                                 Witnesses!MaxFallbackOutput))
    BY <1>2, <1>6, <2>4, <2>5, <2>6, Zenon
  <2> QED BY <1>0, <1>3, <2>2, <2>7, Zenon
<1> QED BY <1>7, <1>8

-----------------------------------------------------------------------------
(* What is read from a text is read in full.                               *)

IsPath(q) == \E S : q \in Seq(S)

\* A tree of which everything is read.
IsRead(d) == ~Witnesses!Unread(d) /\ \A q \in DOMAIN d : IsPath(q)

LEMMA StepAhead ==
  ASSUME NEW x, NEW q, IsPath(q)
  PROVE  IsPath(<<x>> \o q) /\ Head(<<x>> \o q) = x /\ Tail(<<x>> \o q) = q
<1>1. PICK S : q \in Seq(S)
  BY DEF IsPath
<1>2. q \in Seq(S \cup {x}) /\ <<x>> \in Seq(S \cup {x})
  BY <1>1
<1>3. /\ <<x>> \o q \in Seq(S \cup {x})
      /\ Head(<<x>> \o q) = x /\ Tail(<<x>> \o q) = q
  BY <1>2
<1> QED BY <1>3, Zenon DEF IsPath

LEMMA ValueRead ==
  ASSUME NEW kind, kind # "mangled", NEW v, NEW d, d = Witnesses!Value(Witnesses!Prim(kind, v))
  PROVE  IsRead(d)
<1>1. /\ DOMAIN d = {<<>>} /\ \A q \in DOMAIN d : d[q] = Witnesses!Prim(kind, v)
  BY Zenon DEF Witnesses!Value
<1>2. Witnesses!Prim(kind, v).payload = Witnesses!None /\ Witnesses!Prim(kind, v).kind = kind
  BY DEF Witnesses!Prim
<1>3. <<>> \in Seq({})
  OBVIOUS
<1>4. IsPath(<<>>)
  BY <1>3, Zenon DEF IsPath
<1> QED BY <1>1, <1>2, <1>4, Zenon DEF IsRead, Witnesses!Unread

LEMMA DocumentRead ==
  ASSUME NEW doc, Witnesses!IsDocument(doc)
  PROVE  IsRead(doc) /\ Witnesses!parseElem(doc, FALSE) = doc
<1>1. /\ \A q \in DOMAIN doc : q \in Seq([name : STRING, elem : Nat])
      /\ doc = [q \in DOMAIN doc |-> doc[q]]
      /\ ~Witnesses!Unread(doc)
  BY Zenon DEF Witnesses!IsDocument, Witnesses!Unread
<1>2. Witnesses!parseElem(doc, FALSE) = doc
  BY <1>1, Zenon DEF Witnesses!parseElem
<1> QED BY <1>1, <1>2, Zenon DEF IsRead, IsPath

LEMMA ElemRead ==
  ASSUME NEW d, ~Witnesses!Unread(d), NEW interpret
  PROVE  /\ ~Witnesses!Unread(Witnesses!parseElem(d, interpret))
         /\ Witnesses!Contents(Witnesses!parseElem(d, interpret)) = Witnesses!Contents(d)
<1> DEFINE e == Witnesses!parseElem(d, interpret)
<1>1. /\ DOMAIN e = DOMAIN d
      /\ \A q \in DOMAIN d : e[q] = d[q] \/ e[q] = Witnesses!categorizeString(d[q].v)
  BY Zenon DEF Witnesses!parseElem
<1>2. \A v : /\ Witnesses!categorizeString(v).payload = Witnesses!None
             /\ Witnesses!categorizeString(v).kind # "mangled"
             /\ Witnesses!categorizeString(v).v = v
  BY DEF Witnesses!categorizeString, Witnesses!Prim
<1> HIDE DEF e
<1>3. ~Witnesses!Unread(e)
  BY <1>1, <1>2 DEF Witnesses!Unread
<1>4. \A q \in DOMAIN d : e[q].v = d[q].v
  BY <1>1, <1>2, Zenon
<1>5. Witnesses!Contents(e) = Witnesses!Contents(d)
  BY <1>1, <1>4 DEF Witnesses!Contents
<1> QED BY <1>3, <1>5 DEF e

LEMMA FormRead ==
  ASSUME NEW doc, ~Witnesses!Unread(doc)
  PROVE  /\ ~Witnesses!Unread(Witnesses!FormValues(doc))
         /\ Witnesses!Contents(Witnesses!FormValues(doc)) = Witnesses!Contents(doc)
<1> DEFINE Alone(path) == \A q \in DOMAIN doc : q[1] = path[1] => q = path
           Moved(path) == IF Alone(path) THEN <<path[1]>> ELSE path
           f == Witnesses!FormValues(doc)
<1>1. f = [q \in {Moved(path) : path \in DOMAIN doc} |->
             doc[CHOOSE path \in DOMAIN doc : Moved(path) = q]]
  BY Zenon DEF Witnesses!FormValues
<1>2. ASSUME NEW p \in DOMAIN doc, NEW q \in DOMAIN doc, Moved(p) = Moved(q)
      PROVE  p = q
  <2>1. \A x : <<x>>[1] = x
    OBVIOUS
  <2>2. CASE Alone(p)
    <3>1. Moved(p)[1] = p[1] /\ Moved(q)[1] = q[1]
      BY <2>1, Zenon
    <3> QED BY <1>2, <2>2, <3>1, Zenon
  <2>3. CASE Alone(q)
    <3>1. Moved(p)[1] = p[1] /\ Moved(q)[1] = q[1]
      BY <2>1, Zenon
    <3> QED BY <1>2, <2>3, <3>1, Zenon
  <2>4. CASE ~Alone(p) /\ ~Alone(q)
    BY <1>2, <2>4, Zenon
  <2> QED BY <2>2, <2>3, <2>4
<1> HIDE DEF Moved, f
<1>3. ASSUME NEW q \in DOMAIN f PROVE \E path \in DOMAIN doc : f[q] = doc[path]
  <2>1. \E path \in DOMAIN doc : Moved(path) = q
    BY <1>1, <1>3
  <2>2. (CHOOSE path \in DOMAIN doc : Moved(path) = q) \in DOMAIN doc
    BY <2>1, Zenon
  <2>3. f[q] = doc[CHOOSE path \in DOMAIN doc : Moved(path) = q]
    BY <1>1, <1>3, Zenon
  <2> QED BY <2>2, <2>3, Zenon
<1>4. ~Witnesses!Unread(f)
  BY <1>3, Zenon DEF Witnesses!Unread
<1>5. ASSUME NEW path \in DOMAIN doc PROVE \E q \in DOMAIN f : f[q] = doc[path]
  <2> DEFINE p == CHOOSE p \in DOMAIN doc : Moved(p) = Moved(path)
  <2>1. p \in DOMAIN doc /\ Moved(p) = Moved(path)
    BY <1>5, Zenon
  <2>2. Moved(path) \in DOMAIN f /\ f[Moved(path)] = doc[p]
    <3> HIDE DEF p
    <3>1. Moved(path) \in DOMAIN f
      BY <1>1, <1>5
    <3> QED BY <1>1, <3>1, Zenon DEF p
  <2> HIDE DEF p
  <2> QED BY <1>2, <2>1, <2>2, Zenon
<1>6. Witnesses!Contents(f) = Witnesses!Contents(doc)
  BY <1>3, <1>5 DEF Witnesses!Contents
<1> QED BY <1>4, <1>6 DEF f

LEMMA StructRead ==
  ASSUME NEW fields, \A k \in DOMAIN fields : IsRead(fields[k])
  PROVE  IsRead(Witnesses!Struct(fields))
<1> DEFINE t == Witnesses!Struct(fields)
<1>1. /\ DOMAIN t = UNION {{<<Witnesses!Field(k)>> \o q : q \in DOMAIN fields[k]} :
                             k \in DOMAIN fields}
      /\ \A path \in DOMAIN t : t[path] = fields[Head(path).name][Tail(path)]
  BY Zenon DEF Witnesses!Struct
<1> HIDE DEF t
<1>2. ASSUME NEW path \in DOMAIN t
      PROVE  /\ IsPath(path)
             /\ t[path].payload = Witnesses!None /\ t[path].kind # "mangled"
  <2>1. PICK k \in DOMAIN fields : \E q \in DOMAIN fields[k] :
               path = <<Witnesses!Field(k)>> \o q
    BY <1>1, <1>2, Zenon
  <2>2. PICK q \in DOMAIN fields[k] : path = <<Witnesses!Field(k)>> \o q
    BY <2>1, Zenon
  <2>3. IsPath(path) /\ Head(path) = Witnesses!Field(k) /\ Tail(path) = q
    BY <2>2, StepAhead, Zenon DEF IsRead
  <2>4. Witnesses!Field(k).name = k
    BY DEF Witnesses!Field
  <2>5. t[path] = fields[k][q]
    BY <1>1, <1>2, <2>3, <2>4, Zenon
  <2>6. fields[k][q].payload = Witnesses!None /\ fields[k][q].kind # "mangled"
    BY <2>2, Zenon DEF IsRead, Witnesses!Unread
  <2> QED BY <2>3, <2>5, <2>6, Zenon
<1>3. IsRead(t)
  BY <1>2, Zenon DEF IsRead, Witnesses!Unread
<1> QED BY <1>3 DEF t

LEMMA ListRead ==
  ASSUME NEW elems, \A i \in DOMAIN elems : IsRead(elems[i])
  PROVE  IsRead(Witnesses!List(elems))
<1> DEFINE t == Witnesses!List(elems)
<1>1. /\ DOMAIN t = UNION {{<<Witnesses!Elem(k)>> \o q : q \in DOMAIN elems[k]} :
                             k \in DOMAIN elems}
      /\ \A path \in DOMAIN t : t[path] = elems[Head(path).elem][Tail(path)]
  BY Zenon DEF Witnesses!List
<1> HIDE DEF t
<1>2. ASSUME NEW path \in DOMAIN t
      PROVE  /\ IsPath(path)
             /\ t[path].payload = Witnesses!None /\ t[path].kind # "mangled"
  <2>1. PICK k \in DOMAIN elems : \E q \in DOMAIN elems[k] :
               path = <<Witnesses!Elem(k)>> \o q
    BY <1>1, <1>2, Zenon
  <2>2. PICK q \in DOMAIN elems[k] : path = <<Witnesses!Elem(k)>> \o q
    BY <2>1, Zenon
  <2>3. IsPath(path) /\ Head(path) = Witnesses!Elem(k) /\ Tail(path) = q
    BY <2>2, StepAhead, Zenon DEF IsRead
  <2>4. Witnesses!Elem(k).elem = k
    BY DEF Witnesses!Elem
  <2>5. t[path] = elems[k][q]
    BY <1>1, <1>2, <2>3, <2>4, Zenon
  <2>6. elems[k][q].payload = Witnesses!None /\ elems[k][q].kind # "mangled"
    BY <2>2, Zenon DEF IsRead, Witnesses!Unread
  <2> QED BY <2>3, <2>5, <2>6, Zenon
<1>3. IsRead(t)
  BY <1>2, Zenon DEF IsRead, Witnesses!Unread
<1> QED BY <1>3 DEF t

LEMMA EventsRead ==
  ASSUME NEW doc, \A i \in DOMAIN doc : "data" \in DOMAIN doc[i] =>
                    Witnesses!IsDocument(doc[i]["data"])
  PROVE  IsRead(Witnesses!parseEventStream(doc))
<1>1. ASSUME NEW i \in DOMAIN doc PROVE IsRead(Witnesses!EventData(doc[i]))
  <2> DEFINE fields == [f \in DOMAIN doc[i] \cap {"event", "id", "retry", "data"} |->
                          IF f = "data" THEN Witnesses!parseElem(doc[i][f], FALSE)
                          ELSE Witnesses!Value(Witnesses!Prim("string", doc[i][f]))]
  <2>1. ASSUME NEW f \in DOMAIN fields PROVE IsRead(fields[f])
    <3>1. /\ f \in DOMAIN doc[i]
          /\ fields[f] = IF f = "data" THEN Witnesses!parseElem(doc[i][f], FALSE)
                         ELSE Witnesses!Value(Witnesses!Prim("string", doc[i][f]))
      BY <2>1, Zenon
    <3> HIDE DEF fields
    <3>2. CASE f = "data"
      BY <1>1, <3>1, <3>2, DocumentRead, Zenon
    <3>3. CASE f # "data"
      <4>1. "string" # "mangled"
        OBVIOUS
      <4> QED BY <3>1, <3>3, <4>1, ValueRead, Zenon
    <3> QED BY <3>2, <3>3
  <2> HIDE DEF fields
  <2>2. IsRead(Witnesses!Struct(fields))
    BY <2>1, StructRead
  <2> QED BY <2>2, Zenon DEF fields, Witnesses!EventData
<1> DEFINE elems == [i \in DOMAIN doc |-> Witnesses!EventData(doc[i])]
<1>2. \A i \in DOMAIN elems : IsRead(elems[i])
  BY <1>1, Zenon
<1> HIDE DEF elems
<1>3. IsRead(Witnesses!List(elems))
  BY <1>2, ListRead
<1> QED BY <1>3, Zenon DEF elems, Witnesses!parseEventStream

Structured == {"json", "form", "yaml", "events"}

LEMMA SinglePart ==
  ASSUME NEW type, NEW body, NEW code,
         Witnesses!getContentTypeFromMediaType(type.media) \in Structured
  PROVE  Witnesses!parseBody(type, body, code) =
           IF Witnesses!Readable(body) THEN Witnesses!parseSingle(type, body, code)
           ELSE Witnesses!Error
<1>1. type.media \notin {"multipart/form-data", "multipart/mixed"}
  BY DEF Witnesses!getContentTypeFromMediaType, Structured
<1> QED BY <1>1, Zenon DEF Witnesses!parseBody, Witnesses!parseBodyWith

\* A stream that is not text of the declared syntax, nor taken for it, is not parsed.
LEMMA OtherNotParsed ==
  ASSUME NEW type, NEW body, NEW code, NEW as \in Structured,
         as = Witnesses!getContentTypeFromMediaType(type.media),
         ~Witnesses!Reads(as, body), ~Misread(as, body).ok,
         as = "form" => body.text.size <= Witnesses!MaxBufferedBody
  PROVE  ~Witnesses!parseBody(type, body, code).ok
<1> DEFINE left == IF as = "form" THEN Witnesses!Truncate(body, Witnesses!MaxBufferedBody)
                   ELSE body
<1>1. left = body
  BY NotTruncated
<1>2. ~Witnesses!readAs(as, left).ok
  BY <1>1, Zenon DEF Witnesses!readAs
<1>3. Witnesses!parseSingle(type, body, code) = Witnesses!Error
  BY <1>2, Zenon DEF Witnesses!parseSingle, Structured
<1> QED BY <1>3, SinglePart, ErrorFailed

\* The text has a document, and val is what there is in it.
HasDocument(as, text) ==
  /\ as # "events" => Witnesses!IsDocument(text.doc)
  /\ as = "events" => \A i \in DOMAIN text.doc : "data" \in DOMAIN text.doc[i] =>
                        Witnesses!IsDocument(text.doc[i]["data"])
ReadFrom(as, text, val) ==
  /\ ~Witnesses!Unread(val)
  /\ as # "events" => Witnesses!Contents(val) = Witnesses!Contents(text.doc)
  /\ as = "json" => val = text.doc

\* Text of the declared syntax is read in full, and JSON as it is.
LEMMA TextParsed ==
  ASSUME NEW type, NEW body, NEW code, NEW as \in Structured,
         as = Witnesses!getContentTypeFromMediaType(type.media),
         Witnesses!Reads(as, body), body.chars = "utf-8",
         as = "form" => body.text.size <= Witnesses!MaxBufferedBody,
         HasDocument(as, body.text)
  PROVE  \E val :
           /\ Witnesses!parseBody(type, body, code) =
                Witnesses!Success(Witnesses!BodyData(val, as, type.media, code, FALSE))
           /\ ReadFrom(as, body.text, val)
<1> DEFINE doc == body.text.doc
           Parsed(val) == Witnesses!parseSingle(type, body, code) =
             Witnesses!Success(Witnesses!BodyData(val, as, type.media, code, FALSE))
<1>1. Witnesses!readAs(as, IF as = "form"
                             THEN Witnesses!Truncate(body, Witnesses!MaxBufferedBody)
                             ELSE body) = Witnesses!Success(doc)
  <2>1. Witnesses!Document(body) = doc
    BY Zenon DEF Witnesses!Document
  <2>2. as = "form" => Witnesses!Truncate(body, Witnesses!MaxBufferedBody) = body
    BY NotTruncated
  <2> QED BY <2>1, <2>2, Zenon DEF Witnesses!readAs
<1>2. Witnesses!Readable(body)
  BY DEF Witnesses!Reads, Witnesses!Readable
<1>3. Witnesses!parseBody(type, body, code) = Witnesses!parseSingle(type, body, code)
  BY <1>2, SinglePart
<1>4. Witnesses!Success(doc).ok /\ Witnesses!Success(doc).result = doc
  BY DEF Witnesses!Success
<1>5. SUFFICES \E val :
        /\ Parsed(val) /\ ~Witnesses!Unread(val)
        /\ as # "events" => Witnesses!Contents(val) = Witnesses!Contents(doc)
        /\ as = "json" => val = doc
  BY <1>3, Zenon DEF ReadFrom
<1>6. CASE as = "json"
  <2>1. Witnesses!parseElem(doc, FALSE) = doc /\ ~Witnesses!Unread(doc)
    BY <1>6, DocumentRead DEF IsRead, HasDocument
  <2>2. Parsed(Witnesses!parseElem(doc, FALSE))
    BY <1>1, <1>4, <1>6 DEF Witnesses!parseSingle
  <2> QED BY <2>1, <2>2, Zenon
<1>7. CASE as = "form"
  <2> DEFINE val == Witnesses!parseElem(Witnesses!FormValues(doc), TRUE)
  <2>1. ~Witnesses!Unread(val) /\ Witnesses!Contents(val) = Witnesses!Contents(doc)
    BY <1>7, DocumentRead, FormRead, ElemRead DEF IsRead, HasDocument
  <2>2. Parsed(val)
    BY <1>1, <1>4, <1>7 DEF Witnesses!parseSingle
  <2> QED BY <1>7, <2>1, <2>2, Zenon
<1>8. CASE as = "yaml"
  <2> DEFINE val == Witnesses!parseElem(doc, TRUE)
  <2>1. ~Witnesses!Unread(val) /\ Witnesses!Contents(val) = Witnesses!Contents(doc)
    BY <1>8, DocumentRead, ElemRead DEF IsRead, HasDocument
  <2>2. Parsed(val)
    BY <1>1, <1>4, <1>8 DEF Witnesses!parseSingle
  <2> QED BY <1>8, <2>1, <2>2, Zenon
<1>9. CASE as = "events"
  <2>1. ~Witnesses!Unread(Witnesses!parseEventStream(doc))
    BY <1>9, EventsRead DEF IsRead, HasDocument
  <2>2. Parsed(Witnesses!parseEventStream(doc))
    BY <1>1, <1>4, <1>9 DEF Witnesses!parseSingle
  <2> QED BY <1>9, <2>1, <2>2, Zenon
<1> QED BY <1>6, <1>7, <1>8, <1>9 DEF Structured

\* What BodyKept says of a message.
KeptIn(msg, as, body) ==
  /\ body.error <=> msg.body.text.syntax # as
  /\ ~body.error => ~Witnesses!Unread(body.val)
  /\ ~body.error /\ as # "events" =>
       Witnesses!Contents(body.val) = Witnesses!Contents(msg.body.text.doc)
  /\ ~body.error /\ as = "json" => body.val = msg.body.text.doc

\* The streams that Mistaken looks at.
LEMMA NotMistaken ==
  ASSUME NEW body, NEW as, ~Witnesses!Mistaken(body, as),
         NEW n \in 0 .. Len(body.wraps), NEW chars \in {"utf-8", body.chars},
         NEW s, s = [wraps |-> SubSeq(body.wraps, 1, n), text |-> body.text,
                     chars |-> chars, size |-> body.size],
         ~Witnesses!Reads(as, s)
  PROVE  ~Misread(as, s).ok
BY Zenon DEF Witnesses!Mistaken

LEMMA Kept ==
  ASSUME NEW msg, Witnesses!IsMessage(msg), msg.body # Witnesses!None,
         msg.contentType # Witnesses!None, NEW as \in Structured,
         as = Witnesses!getContentTypeFromMediaType(msg.contentType.media),
         Witnesses!WellEncoded(msg, as), ~Witnesses!Mistaken(msg.body, as)
  PROVE  Witnesses!ParseHTTP(msg).ok /\ KeptIn(msg, as, Witnesses!ParsedBody(msg))
<1> DEFINE decoded == Witnesses!decodeBody(msg)
           Parse(s) == Witnesses!parseBody(msg.contentType, s, msg.code)
           fallback == Witnesses!attemptDecompress(msg.body)
           body == Witnesses!ParsedBody(msg)
           wraps == msg.body.wraps
           Stream(n, chars) == [wraps |-> SubSeq(wraps, 1, n), text |-> msg.body.text,
                                chars |-> chars, size |-> msg.body.size]
<1>0. \A x : Witnesses!Success(x).ok /\ Witnesses!Success(x).result = x
  BY DEF Witnesses!Success
<1>1. Witnesses!IsBody(msg.body) /\ wraps \in Seq(STRING) /\ Len(wraps) \in Nat
  BY DEF Witnesses!IsMessage, Witnesses!IsBody
<1>2. /\ decoded.ok
      /\ Witnesses!Declared(msg) => decoded.result = Plain(msg.body)
      /\ ~Witnesses!Declared(msg) => Witnesses!Undeclared(msg) /\ decoded.result = msg.body
  BY Decoded
<1>3. Witnesses!ParseHTTP(msg).ok
  BY <1>0, <1>2, Zenon DEF Witnesses!ParseHTTP
<1>4. body = IF Parse(decoded.result).ok THEN Parse(decoded.result).result
             ELSE LET second == IF fallback.ok THEN Parse(fallback.result) ELSE Witnesses!Error
                  IN  IF second.ok THEN second.result
                      ELSE Witnesses!captureUnparsableBody(msg, decoded)
  BY Zenon DEF Witnesses!ParsedBody
<1>5. as = "form" => msg.body.text.size <= Witnesses!MaxBufferedBody
  BY DEF Witnesses!WellEncoded
<1>6. ASSUME msg.body.text.syntax = as
      PROVE  Parse(Plain(msg.body)).ok /\ KeptIn(msg, as, Parse(Plain(msg.body)).result)
  <2> DEFINE s == Plain(msg.body)
  <2>1. s.wraps = <<>> /\ s.chars = "utf-8" /\ s.text = msg.body.text
    BY DEF Plain
  <2>2. HasDocument(as, s.text)
    BY <1>1, <1>6, <2>1 DEF Witnesses!IsBody, Structured, HasDocument
  <2>3. Witnesses!Reads(as, s)
    BY <1>6, <2>1 DEF Witnesses!Reads
  <2> HIDE DEF s
  <2>4. as = "form" => s.text.size <= Witnesses!MaxBufferedBody
    BY <1>5, <2>1
  <2>5. PICK val :
          /\ Parse(s) = Witnesses!Success(
               Witnesses!BodyData(val, as, msg.contentType.media, msg.code, FALSE))
          /\ ReadFrom(as, s.text, val)
    BY <2>1, <2>2, <2>3, <2>4, TextParsed
  <2> DEFINE d == Witnesses!BodyData(val, as, msg.contentType.media, msg.code, FALSE)
  <2>6. d.val = val /\ d.error = FALSE
    BY DEF Witnesses!BodyData
  <2> HIDE DEF d, Parse
  <2>7. Parse(s).ok /\ Parse(s).result = d
    BY <1>0, <2>5, Zenon DEF d
  <2>8. KeptIn(msg, as, d)
    BY <1>6, <2>1, <2>5, <2>6 DEF KeptIn, ReadFrom
  <2> QED BY <2>7, <2>8, Zenon DEF s
<1>7. ASSUME NEW n \in 0 .. Len(wraps), NEW chars \in {"utf-8", msg.body.chars},
             msg.body.text.syntax # as \/ SubSeq(wraps, 1, n) # <<>>
      PROVE  ~Parse(Stream(n, chars)).ok
  <2> DEFINE s == Stream(n, chars)
  <2>1. s.wraps = SubSeq(wraps, 1, n) /\ s.text = msg.body.text
    OBVIOUS
  <2>2. ~Witnesses!Reads(as, s)
    BY <1>7, <2>1 DEF Witnesses!Reads
  <2>3. ~Misread(as, s).ok
    BY <2>2, NotMistaken
  <2> HIDE DEF s
  <2>4. ~Parse(s).ok
    BY <1>5, <2>1, <2>2, <2>3, OtherNotParsed
  <2> QED BY <2>4 DEF s
<1>8. /\ Plain(msg.body) = Stream(0, "utf-8") /\ 0 \in 0 .. Len(wraps)
      /\ msg.body = Stream(Len(wraps), msg.body.chars) /\ Len(wraps) \in 0 .. Len(wraps)
      /\ SubSeq(wraps, 1, Len(wraps)) = wraps
      /\ \A n : Under(msg.body, SubSeq(wraps, 1, n)) = Stream(n, msg.body.chars)
  <2>1. SubSeq(wraps, 1, 0) = <<>> /\ SubSeq(wraps, 1, Len(wraps)) = wraps
    BY <1>1
  <2>2. msg.body = [wraps |-> wraps, text |-> msg.body.text, chars |-> msg.body.chars,
                    size |-> msg.body.size]
    BY <1>1, Zenon DEF Witnesses!IsBody
  <2>3. msg.body = Stream(Len(wraps), msg.body.chars)
    BY <2>1, <2>2, Zenon
  <2> QED BY <1>1, <2>1, <2>3 DEF Plain, Under
<1>9. CASE Witnesses!Declared(msg) /\ msg.body.text.syntax = as
  <2>1. Parse(decoded.result).ok /\ KeptIn(msg, as, Parse(decoded.result).result)
    <3> HIDE DEF Parse, decoded
    <3> QED BY <1>2, <1>6, <1>9, Zenon
  <2> HIDE DEF Parse, decoded, body, fallback
  <2>2. body = Parse(decoded.result).result
    BY <1>4, <2>1, Zenon
  <2> QED BY <1>3, <2>1, <2>2, Zenon DEF body
<1>10. CASE ~(Witnesses!Declared(msg) /\ msg.body.text.syntax = as)
  <2>1. msg.body.text.size <= Witnesses!MaxFallbackOutput
    BY <1>10, Zenon DEF Witnesses!WellEncoded
  <2>2. ~Parse(decoded.result).ok
    <3>1. CASE Witnesses!Declared(msg)
      <4>1. decoded.result = Stream(0, "utf-8")
        BY <1>2, <1>8, <3>1, Zenon
      <4> HIDE DEF Parse, decoded, Stream
      <4> QED BY <1>7, <1>8, <1>10, <3>1, <4>1, Zenon
    <3>2. CASE ~Witnesses!Declared(msg)
      <4>1. decoded.result = Stream(Len(wraps), msg.body.chars)
        BY <1>2, <1>8, <3>2, Zenon
      <4>2. SubSeq(wraps, 1, Len(wraps)) # <<>>
        <5>1. \E c : wraps = <<c>>
          BY <1>2, <3>2, Zenon DEF Witnesses!Undeclared
        <5>2. wraps # <<>>
          BY <5>1
        <5> QED BY <1>8, <5>2, Zenon
      <4> HIDE DEF Parse, decoded, Stream
      <4> QED BY <1>7, <1>8, <4>1, <4>2, Zenon
    <3> QED BY <3>1, <3>2
  <2>3. CASE msg.body.text.syntax = as
    <3>1. Witnesses!Undeclared(msg)
      BY <1>2, <1>10, <2>3
    <3>2. fallback = Witnesses!Success(Under(msg.body, <<>>))
      <4>1. Witnesses!ToSet(Witnesses!fallbackDecompressions) = Compressions
        BY DEF Witnesses!ToSet, Witnesses!fallbackDecompressions, Compressions
      <4> QED BY <1>1, <2>1, <3>1, <4>1, Fallback DEF Witnesses!Undeclared
    <3>3. Under(msg.body, <<>>) = Plain(msg.body)
      BY <3>1 DEF Witnesses!Undeclared, Under, Plain
    <3>4. fallback.ok /\ fallback.result = Plain(msg.body)
      BY <1>0, <3>2, <3>3, Zenon
    <3>5. Parse(fallback.result).ok /\ KeptIn(msg, as, Parse(fallback.result).result)
      <4> HIDE DEF Parse, fallback
      <4> QED BY <1>6, <2>3, <3>4, Zenon
    <3> HIDE DEF Parse, decoded, body, fallback
    <3>6. body = Parse(fallback.result).result
      BY <1>4, <2>2, <3>4, <3>5, Zenon
    <3> QED BY <1>3, <3>5, <3>6, Zenon DEF body
  <2>4. CASE msg.body.text.syntax # as
    <3>1. ASSUME fallback.ok PROVE ~Parse(fallback.result).ok
      <4>1. PICK n \in 0 .. Len(wraps) : fallback.result = Under(msg.body, SubSeq(wraps, 1, n))
        BY <1>1, <2>1, <3>1, Fallback
      <4>2. fallback.result = Stream(n, msg.body.chars)
        BY <1>8, <4>1, Zenon
      <4> HIDE DEF Parse, fallback, Stream
      <4> QED BY <1>7, <2>4, <4>1, <4>2, Zenon
    <3>2. body = Witnesses!captureUnparsableBody(msg, decoded)
      <4> HIDE DEF Parse, decoded, body, fallback
      <4> QED BY <1>4, <2>2, <3>1, ErrorFailed, Zenon
    <3>3. body.error = TRUE
      <4>1. \E val, type, media, code : body = Witnesses!BodyData(val, type, media, code, TRUE)
        BY <3>2, Zenon DEF Witnesses!captureUnparsableBody
      <4>2. \A val, type, media, code :
              Witnesses!BodyData(val, type, media, code, TRUE).error = TRUE
        BY DEF Witnesses!BodyData
      <4> QED BY <4>1, <4>2, Zenon
    <3> HIDE DEF body
    <3> QED BY <1>3, <2>4, <3>3 DEF KeptIn, body
  <2> QED BY <2>3, <2>4
<1> QED BY <1>9, <1>10

\* However a body in a structured syntax is encoded (as the headers say, in any number
\* of layers and in any order, or compressed once without saying so), in every
\* message: the parser undoes it, reads the text in full when it is valid, and marks
\* it as a parsing error exactly when it is not; if the text is within the limits on
\* what is read, and whatever the parsers take for a text of their syntax, as long as
\* it is not this body before it is decoded, or when it is of another syntax.
THEOREM BodyTheorem == Witnesses!Spec => []BodyKept
<1> USE WitnessesAssumption
<1>1. Witnesses!Init => WitnessInv
  BY WitnessInit
<1>2. WitnessInv /\ [Witnesses!Next]_pipeline => WitnessInv'
  BY WitnessNext
<1>3. ASSUME WitnessInv PROVE BodyKept
  <2>1. ASSUME NEW msg \in {request, response} \ {Witnesses!None}
        PROVE  Witnesses!IsMessage(msg)
    BY <1>3 DEF WitnessInv, MessageInv
  <2>2. ASSUME NEW msg \in {request, response} \ {Witnesses!None},
               NEW as, as = Witnesses!getContentTypeFromMediaType(msg.contentType.media),
               msg.body # Witnesses!None, msg.contentType # Witnesses!None,
               as \in Structured, Witnesses!WellEncoded(msg, as),
               ~Witnesses!Mistaken(msg.body, as)
        PROVE  Witnesses!ParseHTTP(msg).ok /\ KeptIn(msg, as, Witnesses!ParsedBody(msg))
    BY <2>1, <2>2, Kept
  <2> QED BY <2>2, Zenon DEF BodyKept, Witnesses!BodyKept, KeptIn, Structured
<1> QED BY <1>1, <1>2, <1>3, PTL DEF Witnesses!Spec, Witnesses!vars, pipeline
=============================================================================
