------------------------------ MODULE MCPackets ------------------------------
(***************************************************************************)
(* Packets for TLC.  Its parts share no state, so that a behaviour is one  *)
(* of one of them, named by part; the others stay as they began.           *)
(***************************************************************************)
EXTENDS Packets, TLC

Http == INSTANCE HttpParsing

CONSTANTS
  MaxLength,  \* bound: the length of a stream
  MaxMessages \* bound: the messages in a stream

Messages ==
  {m \in [first : 1 .. MaxLength, head : 1 .. MaxLength, last : 1 .. MaxLength,
          kind : {"whole", "toEnd", "bad"}, noCtx : BOOLEAN] :
     /\ m.first <= m.head /\ m.head <= m.last /\ m.head <= m.first + 1
     /\ m.kind = "toEnd" => m.last = MaxLength
     /\ m.noCtx => m.kind = "whole"}

Stream(messages) ==
  LET Of(s) == CHOOSE m \in messages : m.first = s
      S == {m.first : m \in messages}
  IN [length |-> MaxLength,
      kind |-> [s \in S |-> Of(s).kind],
      head |-> [s \in S |-> Of(s).head],
      last |-> [s \in S |-> Of(s).last],
      noCtx |-> {s \in S : Of(s).noCtx}]

\* Every arrangement of up to MaxMessages messages.
AllStreams ==
  LET Arrangements ==
        {f \in UNION {[1 .. k -> Messages] : k \in 0 .. MaxMessages} :
           \A i, j \in DOMAIN f : i < j => f[i].last < f[j].first}
  IN {Stream({f[i] : i \in DOMAIN f}) : f \in Arrangements}

-----------------------------------------------------------------------------
(* ConnTracker.                                                            *)

\* Of an entry that is not in its map any more, only the timer matters.
TrackersView ==
  <<now, active, fired, partial, hsFired, stage, reports, raced,
    [i \in DOMAIN info |-> IF active[info[i].conn] = i THEN info[i]
                           ELSE <<info[i].conn, info[i].timeout>>],
    {i \in resets : active[info[i].conn] = i},
    [i \in DOMAIN hello |-> IF partial[hello[i].conn] = i THEN hello[i]
                            ELSE <<hello[i].conn, hello[i].timeout>>]>>

-----------------------------------------------------------------------------
(* WitnessPipeline: each message of an exchange varies one thing.          *)

None == Http!None
Struct(fields) == Http!Struct(fields)
List(elems) == Http!List(elems)
S(v) == Http!Value(Http!Prim("string", v))
N(v) == Http!Value(Http!Prim("number", v))

\* Documents: a sensitive name at two depths, in a list, and by case.
Flat == Struct(("Token" :> S("t")) @@ ("name" :> S("ann")))
Nested == Struct(("user" :> Struct(("password" :> List(<<S("p"), N("42")>>))
                                   @@ ("nick" :> S("PMAK"))))
                 @@ ("ids" :> List(<<S("pan"), S("7")>>)))
Form == Struct(("Token" :> List(<<S("t"), S("u")>>)) @@ ("n" :> List(<<S("7")>>)))
Broken == Struct("name" :> S("PMAK"))

\* Two forms by what their bytes are once compressed: none, and another form.
Lucky == Struct("Token" :> S("v"))
Bytes == Struct("Token" :> S("bytes"))

Sized(syntax, doc, size) == [syntax |-> syntax, doc |-> doc, size |-> size]
Text_(syntax, doc) == Sized(syntax, doc, 1)
Type(media, charset) == [media |-> media, charset |-> charset]
Body(wraps, text, chars, size) ==
  [wraps |-> wraps, text |-> text, chars |-> chars, size |-> size]
Plain(text) == Body(<<>>, text, "utf-8", text.size)
JSON == Type("application/json", "none")

Base ==
  [isRequest |-> FALSE, code |-> 500, header |-> <<>>, cookies |-> <<>>,
   contentType |-> JSON, encodings |-> <<>>, bodyDecompressed |-> FALSE,
   body |-> None]
BaseRequest ==
  Base @@ [query |-> <<>>, method |-> "POST", host |-> "shop", path |-> <<"orders">>]
Request(f) == f @@ [isRequest |-> TRUE, code |-> 0] @@ BaseRequest
Response(f) == f @@ Base

Events ==
  <<("id" :> "7") @@ ("data" :> Nested), ("event" :> "e") @@ ("data" :> S("pan"))>>
Multipart ==
  <<[name |-> "a", contentType |-> None, text |-> Text_("text", S("7"))],
    [name |-> "Token", contentType |-> None, text |-> Text_("text", S("t"))],
    [name |-> "a", contentType |-> JSON, text |-> Text_("json", Nested)]>>
Parts ==
  <<[name |-> "parts", contentType |-> Type("multipart/mixed", "none"),
     text |-> Text_("multipart", Multipart)]>>

Encodings ==
  {<<>>, <<"gzip">>, <<"deflate">>, <<"identity", "br">>, <<"gzip", "br">>,
   <<"deflate", "gzip">>, <<"zstd">>}
Wraps == {<<>>, <<"gzip">>, <<"deflate">>, <<"br">>, <<"gzip", "br">>, <<"deflate", "gzip">>}

\* Every pair of declared and applied encodings, of a valid and a broken text.
Encoded ==
  {Response([encodings |-> e, body |-> Body(w, t, "utf-8", t.size)]) :
     e \in Encodings, w \in Wraps,
     t \in [syntax : {"json"}, doc : {Nested}, size : {1, 3}]
             \cup [syntax : {"broken"}, doc : {Broken}, size : {1, 3}]}

\* What takes other bytes for a text of its syntax: url.ParseQuery those of some
\* compressed bodies, the parser of YAML a JSON text, that of JSON a number, that of
\* event streams lines of no field it knows.
MCMisread(syntax, body) ==
  LET text == body.text
      plain == body.wraps = <<>>
  IN  CASE syntax = "form" /\ ~plain /\ text.doc = Lucky -> Http!Success(Bytes)
        [] syntax = "yaml" /\ plain /\ text.syntax = "json" -> Http!Success(text.doc)
        [] syntax = "json" /\ plain /\ text.syntax = "text" -> Http!Success(N("7"))
        [] syntax = "events" /\ plain /\ text.syntax = "json" -> Http!Success(<<>>)
        [] OTHER -> Http!Error

\* Of a form the fields before the limit are left, of other syntax no whole text.
MCCut(text, limit) ==
  IF text.syntax \in {"form", "text"} THEN Sized(text.syntax, Bytes, limit)
                                     ELSE Sized("broken", Broken, limit)

\* Bodies compressed with and without saying so, and of all sizes.
Limited ==
  {Response([contentType |-> Type(m[1], "none"), encodings |-> e,
             body |-> Body(w, Sized(m[2], m[3], m[4]), "utf-8",
                           IF w = <<>> THEN m[4] ELSE 1)]) :
     e \in {<<>>, <<"gzip">>}, w \in {<<>>, <<"gzip">>},
     m \in {<<"application/x-www-form-urlencoded", "form", Lucky, 3>>,
            <<"application/x-www-form-urlencoded", "form", Form, 3>>,
            <<"application/x-www-form-urlencoded", "form", Form, 4>>,
            <<"application/x-www-form-urlencoded", "form", Form, 5>>,
            <<"application/x-www-form-urlencoded", "text", S("7"), 3>>,
            <<"application/json", "json", Nested, 5>>,
            <<"application/json", "text", S("7"), 1>>,
            <<"application/yaml", "yaml", Nested, 4>>,
            <<"application/yaml", "json", Nested, 1>>,
            <<"text/event-stream", "json", Nested, 1>>,
            <<"text/event-stream", "events", Events, 3>>,
            <<"text/plain", "text", S("PMAK"), 2>>}}

Typed ==
  {Response([contentType |-> Type("application/json", c),
             body |-> Body(w, Text_("json", Flat), "latin1", 1)]) :
     c \in {"known", "unknown"}, w \in {<<>>, <<"gzip">>}}
  \cup {Response([contentType |-> Type(t[1], "none"), bodyDecompressed |-> d,
                   encodings |-> IF d THEN <<"gzip">> ELSE <<>>, body |-> Plain(t[2])]) :
          d \in BOOLEAN,
          t \in {<<"application/x-www-form-urlencoded", Text_("form", Form)>>,
                 <<"application/yaml", Text_("yaml", Nested)>>,
                 <<"text/event-stream", Text_("events", Events)>>,
                 <<"multipart/form-data", Text_("multipart", Multipart)>>,
                 <<"multipart/form-data", Text_("multipart", Parts)>>,
                 <<"text/plain", Text_("text", S("7"))>>,
                 <<"text/plain", Text_("json", Nested)>>,
                 <<"text/html", Text_("text", S("PMAK"))>>,
                 <<"application/octet-stream", Text_("text", S("pan"))>>,
                 <<"image/png", Text_("text", S("PMAK"))>>,
                 <<"custom+json", Text_("json", Flat)>>,
                 <<"application/yaml", Text_("broken", Broken)>>,
                 <<"multipart/form-data", Text_("broken", Broken)>>}}

Responses ==
  {Response([code |-> c, header |-> "set" :> <<"pan", "t">>, cookies |-> k]) :
     c \in {200, 404}, k \in {<<>>, "sid" :> "s"}}
  \cup {Response([contentType |-> None, body |-> Plain(Text_("json", Flat))])}

Requests ==
  {Request([path |-> <<"orders", "PMAK">>, query |-> ("Token" :> <<"t">>) @@ ("page" :> <<"7">>)]),
   Request([path |-> <<"health">>]),
   Request([host |-> "api.postman.com", path |-> <<"environments">>,
            body |-> Plain(Text_("json", Nested))]),
   Request([method |-> "PUT", host |-> "api.postman.com", path |-> <<"environments", "7">>,
            body |-> Plain(Text_("json", Flat))]),
   Request([path |-> <<"llm">>,
            header |-> ("x-portkey-metadata" :> <<"internal">>) @@ ("authorization" :> <<"pan">>)
                         @@ ("traceparent" :> <<"pan">>) @@ ("empty" :> <<>>),
            cookies |-> "sid" :> "s", body |-> Plain(Text_("json", Nested))]),
   Request([path |-> <<"llm">>, contentType |-> None])}

MCExchanges ==
  ({None} \X (Encoded \cup Typed \cup Limited)) \cup ((Requests \cup {None}) \X (Responses \cup {None}))

\* Regexps: one for values and names, and the empty one.
MCMatches == ("pan" :> {"pan", "nick"})
MCConfigs == {[names |-> n, regexps |-> r] :
                n \in {{}, {"token", "name"}}, r \in {{}, {"pan"}, {"pan", ""}}}
MCInitialConfigs == {c \in MCConfigs : c.names = {} /\ "" \notin c.regexps}
MCAlwaysCapture == {<<"llm">>}
MCExcluded(msg) == msg.path = <<"health">>

-----------------------------------------------------------------------------
(* All four.                                                               *)

VARIABLE part

flow == vars

View == <<part, flow, pipeline, limiter, IF part = "trackers" THEN TrackersView ELSE 0>>

\* The collectors of the rate limit are interchangeable.
Symmetry == Permutations(Collectors)

MCInit ==
  /\ part \in {"flow", "trackers", "limiter", "witnesses"}
  /\ IF part = "flow" THEN TRUE ELSE stream = Stream({})
  /\ IF part = "witnesses" THEN TRUE
     ELSE /\ request = None /\ response = None /\ sampled = TRUE
          /\ backend = [names |-> {}, regexps |-> {}]
  /\ Init
  /\ Trackers!Init
  /\ Limiter!Init
  /\ Witnesses!Init

MCNext ==
  \/ part = "flow" /\ Next /\ UNCHANGED <<part, trackers, limiter, pipeline>>
  \/ part = "trackers" /\ Trackers!Next /\ UNCHANGED <<part, flow, limiter, pipeline>>
  \/ part = "limiter" /\ Limiter!Next /\ UNCHANGED <<part, flow, trackers, pipeline>>
  \/ part = "witnesses" /\ Witnesses!Next /\ UNCHANGED <<part, flow, trackers, limiter>>

MCSpec == MCInit /\ [][MCNext]_<<part, flow, trackers, limiter, pipeline>>
=============================================================================
