----------------------------- MODULE HttpParsing -----------------------------
(***************************************************************************)
(* From an HTTP message to the data of a witness (learn/parse_http.go,     *)
(* learn/parse_event_stream.go): ParseHTTP and the functions under it, as  *)
(* operators.  The state machine that uses them is WitnessPipeline.        *)
(*                                                                         *)
(* A text is a document, the syntax it is written in and a size.  A body   *)
(* is a text under a sequence of compressions, in the order applied, and   *)
(* has a size of its own, that of the bytes captured.  Of a value the      *)
(* model keeps its kind and a name for its content.                        *)
(*                                                                         *)
(* A document, and the data read from it, is a tree, kept as the function  *)
(* from the paths of its primitives to them: what the code does to a tree  *)
(* by recursion is said of each primitive, by its path.  Objects and lists *)
(* with nothing in them are left out.                                      *)
(***************************************************************************)
EXTENDS Naturals, Sequences, FiniteSets, SequencesExt

CONSTANTS
  Numeric,        \* values that CategorizeString reads as numbers
  Misread(_, _),  \* what the parser of a syntax makes of a stream that is not
                  \* text of it: Error, or Success(document)
  Cut(_, _)       \* the text that is left of a text longer than a limit

None == [is |-> "nothing"]

\* A primitive read from its text, and bytes taken over unread.
Prim(kind, v) == [kind |-> kind, v |-> v, payload |-> None]
Raw(kind, payload) == [kind |-> kind, v |-> "", payload |-> payload]

\* The steps of a path: into a field, and into an element of a list, which has
\* no name.
Field(name) == [name |-> name, elem |-> 0]
Elem(i) == [name |-> "", elem |-> i]

\* Trees: of one primitive, of fields, of elements.
Value(prim) == [path \in {<<>>} |-> prim]
Struct(fields) ==
  [path \in UNION {{<<Field(k)>> \o q : q \in DOMAIN fields[k]} : k \in DOMAIN fields} |->
     fields[Head(path).name][Tail(path)]]
List(elems) ==
  [path \in UNION {{<<Elem(i)>> \o q : q \in DOMAIN elems[i]} : i \in DOMAIN elems} |->
     elems[Head(path).elem][Tail(path)]]

\* What is left of the strings of a document that is read in another
\* character set than it is written in.
Mangled(doc) ==
  [path \in DOMAIN doc |->
     IF doc[path].kind = "string" THEN Prim("mangled", doc[path].v) ELSE doc[path]]

\* The result of a function that may fail.
Error == [ok |-> FALSE]
Success(x) == [ok |-> TRUE, result |-> x]

-----------------------------------------------------------------------------
(* The messages that akinet's parsers hand over.                           *)

\* A document is read from text: nothing in it is unread or mangled.
IsDocument(doc) ==
  /\ DOMAIN doc \subseteq Seq([name : STRING, elem : Nat])
  /\ doc = [path \in DOMAIN doc |-> doc[path]]
  /\ \A path \in DOMAIN doc : doc[path].payload = None /\ doc[path].kind # "mangled"

IsBody(body) ==
  /\ body = [wraps |-> body.wraps, text |-> body.text, chars |-> body.chars,
             size |-> body.size]
  /\ body.wraps \in Seq(STRING)
  /\ body.size \in Nat /\ body.text.size \in Nat
  /\ body.text.syntax \in {"json", "form", "yaml"} => IsDocument(body.text.doc)
  /\ body.text.syntax = "events" =>
       \A i \in DOMAIN body.text.doc :
         "data" \in DOMAIN body.text.doc[i] => IsDocument(body.text.doc[i]["data"])

IsMessage(msg) ==
  /\ msg.isRequest \in BOOLEAN
  /\ msg.isRequest => msg.path \in Seq(STRING)
  /\ msg.encodings \in Seq(STRING)
  /\ msg.body # None => IsBody(msg.body)

-----------------------------------------------------------------------------
(* Decoding.  A stream is the payload that is left to read; reading one    *)
(* whose decompressor met foreign bytes fails ("garbage").                 *)

fallbackDecompressions == <<"deflate", "gzip", "br">>

\* The limits, in their order; sizes are told apart by them only: one is n when it
\* is over the limits below n and not over n.
SmallBodySample == 1
MaxFallbackInput == 2
MaxBufferedBody == 3
MaxFallbackOutput == 4

\* gzip checks its header when the reader is made, the others fail at Read.
decompress(compression, body) ==
  CASE compression = "identity" -> Success(body)
    [] compression \in {"gzip", "deflate", "br"} ->
         IF body.wraps # <<>> /\ Last(body.wraps) = compression
           THEN Success([body EXCEPT !.wraps = Front(@)])
           ELSE IF compression = "gzip" THEN Error
                ELSE Success([body EXCEPT !.wraps = <<"garbage">>])
    [] OTHER -> Error

Readable(body) == body.wraps # <<"garbage">>

\* Reading up to a limit drops the rest of a text without an error.  How much is
\* read of a stream that is still compressed is not told.
Truncate(body, limit) ==
  IF body.wraps # <<>> \/ body.text.size <= limit
    THEN body
    ELSE [body EXCEPT !.text = Cut(@, limit)]

\* The first algorithm that reads the raw body to its end or to the limit; a body
\* beyond MaxFallbackInput is not tried.
attemptDecompress(body) ==
  LET Result(a) == decompress(a, body)
      Works(a) == Result(a).ok /\ Readable(Result(a).result)
      good == {i \in DOMAIN fallbackDecompressions : Works(fallbackDecompressions[i])}
  IN  IF body.size > MaxFallbackInput \/ good = {} THEN Error
      ELSE Success(Truncate(Result(fallbackDecompressions[Min(good)]).result,
                            MaxFallbackOutput))

\* The stream after each number of the Content-Encoding values is undone, the
\* last one first.  The variant undoes them in the order they were applied.
undone_Mutant(msg) ==
  LET stream[n \in 0 .. Len(msg.encodings)] ==
        IF n = 0 THEN Success(msg.body)
        ELSE IF ~stream[n - 1].ok THEN Error
        ELSE decompress(msg.encodings[n], stream[n - 1].result)
  IN  stream

undone(msg) ==
  LET stream[n \in 0 .. Len(msg.encodings)] ==
        IF n = 0 THEN Success(msg.body)
        ELSE IF ~stream[n - 1].ok THEN Error
        ELSE decompress(msg.encodings[Len(msg.encodings) + 1 - n], stream[n - 1].result)
  IN  stream

\* Undoes the compressions, then checks the media type and undoes the charset.
decodeBody(msg) ==
  LET plain == IF msg.bodyDecompressed THEN Success(msg.body)
               ELSE undone(msg)[Len(msg.encodings)]
      type == msg.contentType
  IN  IF ~plain.ok \/ type = None \/ type.charset = "unknown" THEN Error
      ELSE IF type.charset = "none" THEN plain
      ELSE Success([plain.result EXCEPT !.chars = "utf-8"])

-----------------------------------------------------------------------------
(* Parsing.                                                                *)

\* spec_util.CategorizeString: a string that looks like a number is one.
categorizeString(v) == Prim(IF v \in Numeric THEN "number" ELSE "string", v)

\* The tree of a decoded document; with interpret, strings are categorized.
parseElem(top, interpret) ==
  [path \in DOMAIN top |->
     IF interpret /\ top[path].kind = "string" THEN categorizeString(top[path].v)
                                               ELSE top[path]]

getContentTypeFromMediaType(mediaType) ==
  CASE mediaType \in {"application/json", "custom+json"} -> "json"
    [] mediaType = "application/x-www-form-urlencoded" -> "form"
    [] mediaType = "application/yaml" -> "yaml"
    [] mediaType = "text/plain" -> "text"
    [] mediaType = "text/html" -> "html"
    [] mediaType = "text/event-stream" -> "events"
    [] mediaType = "application/octet-stream" -> "octets"
    [] OTHER -> "other"

\* Is the stream uncompressed text of that syntax?
Reads(syntax, body) ==
  /\ body.wraps = <<>>
  /\ body.text.syntax = syntax

\* The document in it, for a stream of text.
Document(body) ==
  IF body.chars = "utf-8" THEN body.text.doc ELSE Mangled(body.text.doc)

\* One value of a form field stays a value, several become a list.
FormValues(doc) ==
  LET Alone(path) == \A q \in DOMAIN doc : q[1] = path[1] => q = path
      Moved(path) == IF Alone(path) THEN <<path[1]>> ELSE path
  IN  [q \in {Moved(path) : path \in DOMAIN doc} |->
         doc[CHOOSE path \in DOMAIN doc : Moved(path) = q]]

\* The data of one event; its data lines are joined, and read as JSON when
\* they are JSON (otherwise they are a document of one string).  Comments and unknown fields are dropped.
EventData(event) ==
  Struct([f \in DOMAIN event \cap {"event", "id", "retry", "data"} |->
            IF f = "data" THEN parseElem(event[f], FALSE)
                          ELSE Value(Prim("string", event[f]))])

parseEventStream(doc) ==
  List([i \in DOMAIN doc |-> EventData(doc[i])])

\* A sample of at most SmallBodySample bytes of whatever the stream holds.
Sample(body) == Truncate(body, SmallBodySample)
Blob(body) == Value(Raw("bytes", Sample(body)))
Text(body, interpret) ==
  IF Reads("text", Sample(body))
    THEN parseElem(Document(Sample(body)), interpret)
    ELSE Value(Raw("string", Sample(body)))

BodyData(val, type, other, code, error) ==
  [loc |-> "body", name |-> "", val |-> val, type |-> type, media |-> other,
   code |-> code, error |-> error]

\* What a structured parser reads: the document of a text of its syntax, or
\* what it takes other bytes for.  url.ParseQuery, for one, accepts most bytes.
readAs(as, body) ==
  IF ~Reads(as, body) THEN Misread(as, body)
  ELSE Success(IF as = "events" THEN body.text.doc ELSE Document(body))

\* A body that has no parts; of a form, no more than MaxBufferedBody is read.
parseSingle(contentType, body, code) ==
  LET as == getContentTypeFromMediaType(contentType.media)
      read == readAs(as, IF as = "form" THEN Truncate(body, MaxBufferedBody) ELSE body)
  IN  IF as \in {"json", "form", "yaml", "events"} /\ ~read.ok
        THEN Error
      ELSE Success(BodyData(
        CASE as = "json" -> parseElem(read.result, FALSE)
          [] as = "form" -> parseElem(FormValues(read.result), TRUE)
          [] as = "yaml" -> parseElem(read.result, TRUE)
          [] as = "events" -> parseEventStream(read.result)
          [] as = "text" -> Text(body, TRUE)
          [] as = "html" -> Text(body, FALSE)
          [] OTHER -> Blob(body), as, contentType.media, code, FALSE))

\* A part without a content type is plain text.
PartType(part) ==
  IF part.contentType # None THEN part.contentType
                             ELSE [media |-> "text/plain", charset |-> "none"]
PartBody(body, part) == [body EXCEPT !.text = part.text]

\* The parsed parts of a multipart body by field name, the last of a name wins.
parseMultipartBody(parts, contentType, body, code) ==
  LET doc == body.text.doc
      Winner(n) == Max({i \in DOMAIN doc : doc[i].name = n})
      fields == [n \in {doc[i].name : i \in DOMAIN doc} |-> parts[Winner(n)].result.val]
  IN  IF ~Reads("multipart", body) \/ \E i \in DOMAIN doc : ~parts[i].ok
        THEN Error
        ELSE Success([BodyData(Struct(fields), "multipart", contentType.media, code, FALSE)
                        EXCEPT !.loc = "multipart"])

\* What a body is parsed to, given what its parts, if it has any, are parsed to.
parseBodyWith(parts, contentType, body, code) ==
  IF ~Readable(body) THEN Error
  ELSE IF contentType.media \in {"multipart/form-data", "multipart/mixed"}
    THEN parseMultipartBody(parts, contentType, body, code)
    ELSE parseSingle(contentType, body, code)

\* A part is parsed like a body.  Bound: multipart bodies are nested twice at most.
parsePart(contentType, body, code) ==
  LET Part(part) == parseSingle(PartType(part), PartBody(body, part), code)
      doc == body.text.doc
  IN  parseBodyWith([i \in DOMAIN doc |-> Part(doc[i])], contentType, body, code)
parseBody(contentType, body, code) ==
  LET Part(part) == parsePart(PartType(part), PartBody(body, part), code)
      doc == body.text.doc
  IN  parseBodyWith([i \in DOMAIN doc |-> Part(doc[i])], contentType, body, code)

\* The whole body as a string, marked with a parsing error.
captureUnparsableBody(msg, stream) ==
  LET type == getContentTypeFromMediaType(msg.contentType.media)
      val == IF ~stream.ok \/ ~Readable(stream.result)
               THEN Value(Prim("string", "Cannot parse body"))
               ELSE Value(Raw("string", stream.result))
  IN  BodyData(val, type, msg.contentType.media, msg.code, TRUE)

\* The data of the body, when the message is not rejected as a whole.
ParsedBody(msg) ==
  LET decoded == decodeBody(msg)
      first == parseBody(msg.contentType, decoded.result, msg.code)
      fallback == attemptDecompress(msg.body)
      second == IF fallback.ok
                  THEN parseBody(msg.contentType, fallback.result, msg.code)
                  ELSE Error
  IN  IF first.ok THEN first.result
      ELSE IF second.ok THEN second.result
      ELSE captureUnparsableBody(msg, decoded)

\* One datum for the first value of each header; the cookies and the media
\* type are read elsewhere.  A request's credentials are obfuscated.
parseHeader(msg) ==
  LET Datum(h) ==
        IF h = "authorization" /\ msg.isRequest
          THEN [loc |-> "auth", name |-> "", val |-> Value(Prim("zero", "")),
                code |-> msg.code]
          ELSE [loc |-> "header", name |-> h,
                val |-> Value(categorizeString(Head(msg.header[h]))), code |-> msg.code]
  IN  {Datum(h) : h \in {k \in DOMAIN msg.header : msg.header[k] # <<>>}}

parseCookies(msg) ==
  {[loc |-> "cookie", name |-> k, val |-> Value(categorizeString(msg.cookies[k])),
    code |-> msg.code] : k \in DOMAIN msg.cookies}

parseQuery(msg) ==
  {[loc |-> "query", name |-> k, val |-> Value(categorizeString(Head(msg.query[k]))),
    code |-> 0] : k \in {k \in DOMAIN msg.query : msg.query[k] # <<>>}}

\* The data of the message, keyed by content: equal data collapse.
ParseHTTP(msg) ==
  LET small == parseHeader(msg) \cup parseCookies(msg)
                 \cup (IF msg.isRequest THEN parseQuery(msg) ELSE {})
  IN  IF msg.body = None THEN Success(small)
      ELSE IF ~decodeBody(msg).ok THEN Error
      ELSE Success(small \cup {ParsedBody(msg)})

=============================================================================
