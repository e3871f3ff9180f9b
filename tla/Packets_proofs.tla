---------------------------- MODULE Packets_proofs ----------------------------
(***************************************************************************)
(* Theorems about the reassembly of a flow and about the trackers.         *)
(*                                                                         *)
(* The reassembly of a flow implements MessageStream, for all streams and  *)
(* however they are cut.                                                   *)
(*                                                                         *)
(* Of the trackers, for any connections, timeout and number of entries:    *)
(* what is reported of a connection, how often and when.  The argument is  *)
(* one invariant of each tracker: an entry in the map has a timer that is  *)
(* set to connectionTimeout after its last packet, or has just fired, and  *)
(* an entry outside the map has none, unless a packet came between the     *)
(* firing of a timer and its callback.                                     *)
(***************************************************************************)
EXTENDS Packets, SequenceTheorems, TLAPS

-----------------------------------------------------------------------------
(* TcpFlow.                                                                *)

Waiting(s) == stream.kind[s] # "toEnd" => delivered < stream.last[s]

\* Where the bytes are that have been handed over and not been reported: with the
\* parser, or kept by the assembler.
Accounting ==
  /\ closed => pc = "idle" /\ parser = 0
  /\ parser # 0 => /\ reported = parser - 1 /\ buf = 0 /\ pc # "select"
                   /\ stream.head[parser] <= delivered
  /\ pc = "select" => reported = first - 1
  /\ pc = "parse" => parser # 0
  /\ pc = "idle" /\ parser # 0 => ~isEnd /\ first = delivered + 1 /\ Waiting(parser)
  /\ pc = "idle" /\ parser = 0 /\ ~closed =>
       reported = first - 1 /\ (isEnd => first = delivered + 1)
  /\ buf # 0 => first = buf
  /\ buf # 0 /\ pc = "idle" => Accepted = {}

Inv == TypeOK /\ Accounting /\ EndAccounted

\* What a well-formed stream says of one of its messages.
LEMMA StreamFacts ==
  ASSUME Abstract!WellFormed(stream), NEW s \in Starts
  PROVE  /\ stream.length \in Nat
         /\ s \in Nat /\ 1 <= s /\ s <= stream.length
         /\ stream.head[s] \in Nat /\ stream.last[s] \in Nat
         /\ s <= stream.head[s] /\ stream.head[s] <= stream.last[s]
         /\ stream.last[s] <= stream.length
         /\ stream.kind[s] \in {"whole", "toEnd", "bad"}
         /\ stream.kind[s] = "toEnd" => stream.last[s] = stream.length
         /\ \A t \in Starts : s < t => stream.last[s] < t
BY DEF Abstract!WellFormed, Abstract!Kinds, Starts

LEMMA InitInv == Init => Inv
<1> SUFFICES ASSUME Init PROVE Inv
  OBVIOUS
<1>1. Abstract!WellFormed(stream)
  BY TcpFlowAssumption DEF Init
<1>2. stream.length \in Nat
  BY <1>1 DEF Abstract!WellFormed
<1>3. msgs \in Seq(Starts)
  BY DEF Init
<1>4. TypeOK
  <2>1. isEnd \in BOOLEAN /\ closed \in BOOLEAN
    BY DEF Init
  <2>2. /\ delivered \in 0 .. stream.length /\ first \in 1 .. delivered + 1
        /\ buf \in 0 .. delivered /\ reported \in 0 .. stream.length
        /\ parser \in Starts \cup {0} /\ pc \in {"idle", "select", "parse"}
    BY <1>2 DEF Init
  <2> QED
    BY <1>1, <1>3, <2>1, <2>2 DEF TypeOK
<1>5. Accounting /\ EndAccounted
  BY DEF Init, Accounting, EndAccounted
<1> QED
  BY <1>4, <1>5 DEF Inv

\* One step for each action of the flow.
LEMMA NextInv == Inv /\ [Next]_vars => Inv'
<1> SUFFICES ASSUME Inv, [Next]_vars PROVE Inv'
  OBVIOUS
<1> USE DEF Inv
<1>t. /\ Abstract!WellFormed(stream) /\ stream.length \in Nat
      /\ delivered \in Nat /\ delivered <= stream.length
      /\ first \in Nat /\ 1 <= first /\ first <= delivered + 1
      /\ buf \in Nat /\ buf <= delivered
      /\ reported \in Nat /\ reported <= stream.length
      /\ parser \in Starts \cup {0}
      /\ pc \in {"idle", "select", "parse"}
      /\ msgs \in Seq(Starts)
      /\ isEnd \in BOOLEAN /\ closed \in BOOLEAN
  BY DEF TypeOK, Abstract!WellFormed
<1>1. ASSUME NEW to \in 0 .. stream.length, NEW end \in BOOLEAN, reassembled(to, end)
      PROVE  Inv'
  BY <1>1, <1>t, StreamFacts
  DEF reassembled, TypeOK, Accounting, EndAccounted, Starts, Accepted, Waiting
<1>2. ASSUME NEW s \in Starts, Select_Accept(s)
      PROVE  Inv'
  <2>1. s \in Starts /\ first <= s /\ stream.head[s] <= delivered
    BY <1>2 DEF Select_Accept, Earliest, Accepted
  <2>2. reported' = s - 1 /\ s \in 1 .. stream.length /\ Starts' = Starts
    <3>1. s \in 1 .. stream.length
      BY <1>t, <2>1, StreamFacts
    <3>2. reported = first - 1
      BY <1>2 DEF Select_Accept, Accounting
    <3>3. reported' = s - 1
      BY <1>2, <1>t, <2>1, <3>1, <3>2 DEF Select_Accept, Size
    <3>4. Starts' = Starts
      BY <1>2 DEF Select_Accept, Starts
    <3> QED BY <3>1, <3>3, <3>4
  <2>3. TypeOK'
    BY <1>2, <1>t, <2>1, <2>2 DEF Select_Accept, TypeOK
  <2>4. Accounting'
    BY <1>2, <1>t, <2>1, <2>2, StreamFacts DEF Select_Accept, Accounting
  <2>5. EndAccounted'
    BY <1>2 DEF Select_Accept, EndAccounted
  <2> QED
    BY <2>3, <2>4, <2>5
<1>3. ASSUME NEW s \in Starts, Select_no_ctx(s)
      PROVE  Inv'
  <2>1. s \in Starts /\ first <= s /\ stream.head[s] <= delivered
    BY <1>3 DEF Select_no_ctx, Earliest, Accepted
  <2>2. /\ reported = first - 1 /\ reported' = delivered /\ first' = delivered + 1
        /\ parser = 0 /\ parser' = 0 /\ buf' = 0 /\ Starts' = Starts
    BY <1>3, <1>t, <2>1, StreamFacts
    DEF Select_no_ctx, Size, Accounting, Starts
  <2>3. TypeOK'
    BY <1>3, <1>t, <2>2 DEF Select_no_ctx, TypeOK
  <2>4. Accounting'
    BY <1>3, <1>t, <2>2 DEF Select_no_ctx, Accounting
  <2>5. EndAccounted'
    BY <1>3, <2>2 DEF Select_no_ctx, EndAccounted
  <2> QED
    BY <2>3, <2>4, <2>5
<1>4. ASSUME NEW keep \in 1 .. stream.length + 1, Select_NeedMoreData(keep)
      PROVE  Inv'
  <2>1. /\ reported = first - 1 /\ first <= keep /\ keep <= delivered + 1
        /\ parser = 0 /\ Starts' = Starts /\ keep \in Nat
    BY <1>4, <1>t DEF Select_NeedMoreData, Accounting, Starts
  <2>2. reported' = keep - 1
    BY <1>4, <1>t, <2>1 DEF Select_NeedMoreData, Size
  <2>3. TypeOK'
    BY <1>4, <1>t, <2>1, <2>2 DEF Select_NeedMoreData, TypeOK
  <2>4. Accepted' = {}
    <3>1. Accepted' = {s \in Starts : keep <= s /\ stream.head[s] <= delivered}
      BY <1>4, <2>1 DEF Select_NeedMoreData, Accepted
    <3>2. Accepted = {}
      BY <1>4 DEF Select_NeedMoreData
    <3>3. ASSUME NEW s \in Starts, keep <= s PROVE first <= s
      BY <1>t, <2>1, <3>3, StreamFacts
    <3> QED
      BY <3>1, <3>2, <3>3 DEF Accepted
  <2>5. Accounting'
    BY <1>4, <1>t, <2>1, <2>2, <2>4 DEF Select_NeedMoreData, Accounting
  <2>6. EndAccounted'
    BY <1>4, <1>t DEF Select_NeedMoreData, EndAccounted, Accounting
  <2> QED
    BY <2>3, <2>5, <2>6
<1>5. ASSUME Select_Reject
      PROVE  Inv'
  <2>1. reported = first - 1 /\ parser = 0 /\ Starts' = Starts
    BY <1>5, <1>t DEF Select_Reject, Accounting, Starts
  <2>2. reported' = delivered
    BY <1>5, <1>t, <2>1 DEF Select_Reject, Size
  <2>3. TypeOK'
    BY <1>5, <1>t, <2>1, <2>2 DEF Select_Reject, TypeOK
  <2>4. Accounting'
    BY <1>5, <1>t, <2>1, <2>2 DEF Select_Reject, Accounting
  <2>5. EndAccounted'
    BY <1>5, <2>2 DEF Select_Reject, EndAccounted
  <2> QED
    BY <2>3, <2>4, <2>5
<1>6. ASSUME NEW to \in 1 .. stream.length, Parse_complete(to)
      PROVE  Inv'
  <2>1. /\ parser \in Starts /\ parser \in Nat /\ 1 <= parser
        /\ parser <= to /\ to <= delivered
        /\ reported = parser - 1 /\ buf = 0 /\ ~closed
    <3>1. /\ parser \in Starts /\ pc = "parse"
          /\ reported = parser - 1 /\ buf = 0 /\ ~closed /\ stream.head[parser] <= delivered
      BY <1>6, <1>t DEF Parse_complete, Accounting
    <3>2. \/ to = stream.last[parser] /\ to <= delivered
          \/ to = delivered
      BY <1>6 DEF Parse_complete, Complete
    <3>3. /\ parser \in Nat /\ 1 <= parser /\ parser <= stream.head[parser]
          /\ stream.head[parser] <= stream.last[parser] /\ stream.head[parser] \in Nat
      BY <3>1, <1>t, StreamFacts
    <3> QED BY <3>1, <3>2, <3>3, <1>t
  <2>2. reported' = to /\ Starts' = Starts
    BY <1>6, <1>t, <2>1 DEF Parse_complete, Size, Starts
  <2>3. msgs' \in Seq(Starts)
    BY <1>6, <1>t, <2>1, AppendProperties DEF Parse_complete
  <2>4. TypeOK'
    BY <1>6, <1>t, <2>1, <2>2, <2>3 DEF Parse_complete, TypeOK
  <2>5. Accounting'
    BY <1>6, <1>t, <2>1, <2>2 DEF Parse_complete, Accounting
  <2>6. EndAccounted'
    BY <1>6, <1>t, <2>1, <2>2 DEF Parse_complete, EndAccounted
  <2> QED
    BY <2>4, <2>5, <2>6
<1>7. ASSUME Parse_error
      PROVE  Inv'
  BY <1>7, <1>t, StreamFacts
  DEF Parse_error, Size, TypeOK, Accounting, EndAccounted, Starts, Accepted, Waiting
<1>8. ASSUME Parse_more
      PROVE  Inv'
  BY <1>8, <1>t, StreamFacts
  DEF Parse_more, Complete, Fails, TypeOK, Accounting, EndAccounted, Starts,
      Accepted, Waiting
<1>9. ASSUME reassemblyComplete
      PROVE  Inv'
  <2>1. /\ reported' \in Nat /\ reported' <= delivered
        /\ reported' # delivered => ~isEnd /\ first <= delivered /\ buf = 0
    <3>1. CASE parser # 0
      BY <1>9, <1>t, <3>1, StreamFacts DEF reassemblyComplete, Size, Accounting
    <3>2. CASE parser = 0 /\ buf # 0
      BY <1>9, <1>t, <3>2 DEF reassemblyComplete, Size, Accounting
    <3>3. CASE parser = 0 /\ buf = 0
      BY <1>9, <1>t, <3>3 DEF reassemblyComplete, Accounting
    <3> QED
      BY <3>1, <3>2, <3>3
  <2>2. msgs' \in Seq(Starts) /\ Starts' = Starts
    <3>1. Starts' = Starts
      BY <1>9 DEF reassemblyComplete, Starts
    <3>2. msgs' = msgs \/ (parser \in Starts /\ msgs' = Append(msgs, parser))
      BY <1>9, <1>t DEF reassemblyComplete
    <3>3. ASSUME parser \in Starts PROVE Append(msgs, parser) \in Seq(Starts)
      BY <1>t, <3>3, AppendProperties
    <3> QED
      BY <1>t, <3>1, <3>2, <3>3
  <2>3. TypeOK'
    BY <1>9, <1>t, <2>1, <2>2 DEF reassemblyComplete, TypeOK
  <2>4. Accounting'
    BY <1>9, <1>t, <2>2 DEF reassemblyComplete, Accounting, Accepted
  <2>5. EndAccounted'
    BY <1>9, <1>t, <2>1 DEF reassemblyComplete, EndAccounted
  <2> QED
    BY <2>3, <2>4, <2>5
<1>10. CASE UNCHANGED vars
  BY <1>10 DEF vars, TypeOK, Accounting, EndAccounted, Starts, Accepted, Waiting
<1> QED
  BY <1>1, <1>2, <1>3, <1>4, <1>5, <1>6, <1>7, <1>8, <1>9, <1>10 DEF Next

-----------------------------------------------------------------------------
\* The types of the flow's fields (pcap/stream.go), for all streams.
THEOREM TypeCorrect == Spec => []TypeOK
<1>1. Inv => TypeOK
  BY DEF Inv
<1> QED
  BY <1>1, InitInv, NextInv, PTL DEF Spec

\* A direction that has ended is accounted for (pcap/stream.go: reassembled,
\* reassemblyComplete).
THEOREM AccountTheorem == Spec => []EndAccounted
<1>1. Inv => EndAccounted
  BY DEF Inv
<1> QED
  BY <1>1, InitInv, NextInv, PTL DEF Spec

-----------------------------------------------------------------------------
LEMMA InitImplements == Init => Abstract!Init
BY DEF Init, Abstract!Init

\* Bytes are dropped that hold no message, or begin with what cannot be parsed.
LEMMA DropImplements ==
  ASSUME Abstract!WellFormed(stream), stream' = stream,
         isEnd \/ closed => isEnd' \/ closed',
         reported \in Nat, reported' \in 0 .. stream.length, reported <= reported',
         msgs' = msgs,
         Abstract!NoMessage(reported + 1, reported')
  PROVE  Abstract!Next
<1>1. CASE reported' = reported
  BY <1>1 DEF Abstract!Next
<1>2. CASE reported' > reported
  BY <1>2 DEF Abstract!Next, Abstract!Drop
<1> QED
  BY <1>1, <1>2 DEF Abstract!WellFormed

LEMMA StepImplements == Inv /\ [Next]_vars => [Abstract!Next]_Abstract!vars
<1> SUFFICES ASSUME Inv, [Next]_vars PROVE [Abstract!Next]_Abstract!vars
  OBVIOUS
<1> USE DEF Inv
<1>t. /\ Abstract!WellFormed(stream) /\ stream.length \in Nat
      /\ delivered \in Nat /\ delivered <= stream.length
      /\ first \in Nat /\ 1 <= first /\ first <= delivered + 1
      /\ buf \in Nat /\ buf <= delivered
      /\ reported \in Nat /\ reported <= stream.length
      /\ parser \in Starts \cup {0}
  BY DEF TypeOK, Abstract!WellFormed
<1>s. Abstract!Starts = Starts
  BY DEF Abstract!Starts, Starts
<1>1. ASSUME NEW to \in 0 .. stream.length, NEW end \in BOOLEAN, reassembled(to, end)
      PROVE  Abstract!Next
  BY <1>1 DEF reassembled, Abstract!Next
\* What is before the first message that a parser accepts holds no message: the
\* parser would have accepted that one.
<1>2. ASSUME NEW s \in Starts, Select_Accept(s)
      PROVE  Abstract!Next
  <2>1. /\ first <= s /\ stream' = stream /\ isEnd' = isEnd /\ closed' = closed
        /\ msgs' = msgs /\ reported = first - 1 /\ reported' = s - 1
    BY <1>2, <1>t, StreamFacts
    DEF Select_Accept, Earliest, Accepted, Size, Accounting
  <2>2. Abstract!NoMessage(first, s - 1)
    BY <1>2, <1>t, <1>s, StreamFacts
    DEF Select_Accept, Earliest, Accepted, Abstract!NoMessage
  <2> QED
    BY <1>t, <2>1, <2>2, DropImplements, StreamFacts
<1>3. ASSUME NEW s \in Starts, Select_no_ctx(s)
      PROVE  Abstract!Next
  <2>1. /\ first <= s /\ stream.head[s] <= delivered /\ s \in stream.noCtx
        /\ stream' = stream /\ isEnd' = isEnd /\ closed' = closed
        /\ msgs' = msgs /\ reported = first - 1 /\ reported' = delivered
    BY <1>3, <1>t DEF Select_no_ctx, Earliest, Accepted, Size, Accounting
  <2>2. Abstract!NoMessage(first, s - 1)
    BY <1>3, <1>t, <1>s, StreamFacts
    DEF Select_no_ctx, Earliest, Accepted, Abstract!NoMessage
  <2>3. Abstract!Unparseable(s)
    BY <1>s, <2>1 DEF Abstract!Unparseable
  <2>4. s \in reported + 1 .. delivered
    BY <1>t, <2>1, StreamFacts
  <2> QED
    BY <1>t, <2>1, <2>2, <2>3, <2>4 DEF Abstract!Next, Abstract!Drop
<1>4. ASSUME NEW keep \in 1 .. stream.length + 1, Select_NeedMoreData(keep)
      PROVE  Abstract!Next
  <2>1. /\ stream' = stream /\ isEnd' = isEnd /\ closed' = closed
        /\ msgs' = msgs /\ reported = first - 1 /\ reported' = keep - 1
        /\ first <= keep /\ keep <= delivered + 1
    BY <1>4, <1>t DEF Select_NeedMoreData, Size, Accounting
  <2>2. Abstract!NoMessage(first, keep - 1)
    BY <1>4, <1>t, <1>s, StreamFacts
    DEF Select_NeedMoreData, Accepted, Abstract!NoMessage
  <2> QED
    BY <1>t, <2>1, <2>2, DropImplements
<1>5. ASSUME Select_Reject
      PROVE  Abstract!Next
  <2>1. /\ stream' = stream /\ isEnd' = isEnd /\ closed' = closed
        /\ msgs' = msgs /\ reported = first - 1 /\ reported' = delivered
    BY <1>5, <1>t DEF Select_Reject, Size, Accounting
  <2>2. Abstract!NoMessage(first, delivered)
    BY <1>5, <1>t, <1>s, StreamFacts DEF Select_Reject, Accepted, Abstract!NoMessage
  <2> QED
    BY <1>t, <2>1, <2>2, DropImplements
<1>6. ASSUME NEW to \in 1 .. stream.length, Parse_complete(to)
      PROVE  Abstract!Next
  <2>1. /\ parser \in Starts /\ parser = reported + 1
        /\ stream.head[parser] <= delivered
    BY <1>6, <1>t, StreamFacts DEF Parse_complete, Accounting
  <2>2. /\ stream' = stream /\ isEnd' = isEnd /\ closed' = closed
        /\ msgs' = Append(msgs, parser) /\ reported' = to
    BY <1>6, <1>t, <2>1, StreamFacts DEF Parse_complete, Size
  <2>3. Abstract!Report(parser, to)
    BY <1>6, <1>s, <2>1, <2>2 DEF Parse_complete, Complete, Abstract!Report
  <2> QED
    BY <1>s, <2>1, <2>2, <2>3 DEF Abstract!Next
\* The message that is lost has failed, or has not come to its end; and no other
\* begins within it.
<1>7. ASSUME Parse_error
      PROVE  Abstract!Next
  <2>1. /\ parser \in Starts /\ parser = reported + 1 /\ parser <= delivered
    BY <1>7, <1>t, StreamFacts DEF Parse_error, Accounting
  <2>2. /\ stream' = stream /\ isEnd' = isEnd /\ closed' = closed
        /\ msgs' = msgs /\ reported' = delivered
    BY <1>7, <1>t, <2>1, StreamFacts DEF Parse_error, Size
  <2>3. CASE stream.kind[parser] = "bad"
    <3>1. Abstract!Unparseable(parser)
      BY <1>s, <2>1, <2>3 DEF Abstract!Unparseable
    <3>2. Abstract!NoMessage(reported + 1, parser - 1)
      BY <1>s, <1>t, <2>1, StreamFacts DEF Abstract!NoMessage
    <3> QED
      BY <1>t, <2>1, <2>2, <3>1, <3>2, StreamFacts DEF Abstract!Next, Abstract!Drop
  <2>4. CASE delivered < stream.last[parser]
    <3>1. Abstract!NoMessage(parser, delivered)
      BY <1>s, <1>t, <2>1, <2>4, StreamFacts DEF Abstract!NoMessage
    <3> QED
      BY <1>t, <2>1, <2>2, <3>1, DropImplements
  <2> QED
    BY <1>7, <2>3, <2>4 DEF Parse_error, Fails
<1>8. ASSUME Parse_more
      PROVE  Abstract!Next
  BY <1>8 DEF Parse_more, Abstract!Next
<1>9. ASSUME reassemblyComplete
      PROVE  Abstract!Next
  <2>1. stream' = stream /\ closed'
    BY <1>9 DEF reassemblyComplete
  <2>2. CASE parser # 0
    <3>1. /\ parser \in Starts /\ parser = reported + 1 /\ Waiting(parser)
          /\ stream.head[parser] <= delivered /\ parser <= delivered
      BY <1>9, <1>t, <2>2, StreamFacts DEF reassemblyComplete, Accounting
    <3>2. reported' = delivered
      <4>1. reported' = reported + Size(parser, delivered)
        BY <1>9, <2>2 DEF reassemblyComplete
      <4> QED
        BY <1>t, <3>1, <4>1 DEF Size
    <3>3. CASE stream.kind[parser] = "toEnd"
      <4>1. msgs' = Append(msgs, parser)
        BY <1>9, <2>2, <3>3 DEF reassemblyComplete
      <4>2. Abstract!Report(parser, delivered)
        BY <1>s, <2>1, <3>1, <3>2, <3>3, <4>1 DEF Abstract!Report
      <4> QED
        BY <1>s, <1>t, <2>1, <3>1, <4>2 DEF Abstract!Next
    <3>4. CASE stream.kind[parser] # "toEnd"
      <4>1. msgs' = msgs
        BY <1>9, <3>4 DEF reassemblyComplete
      <4>2. Abstract!NoMessage(parser, delivered)
        BY <1>s, <1>t, <3>1, <3>4, StreamFacts DEF Abstract!NoMessage, Waiting
      <4> QED
        BY <1>t, <2>1, <3>1, <3>2, <4>1, <4>2, DropImplements
    <3> QED
      BY <3>3, <3>4
  <2>3. CASE parser = 0 /\ buf # 0
    <3>1. reported = buf - 1 /\ Accepted = {} /\ first = buf
      BY <1>9, <1>t, <2>3 DEF reassemblyComplete, Accounting
    <3>2. msgs' = msgs /\ reported' = delivered
      <4>1. msgs' = msgs /\ reported' = reported + Size(buf, delivered)
        BY <1>9, <2>3 DEF reassemblyComplete
      <4> QED
        BY <1>t, <3>1, <4>1 DEF Size
    <3>3. Abstract!NoMessage(buf, delivered)
      BY <1>s, <1>t, <3>1, StreamFacts DEF Abstract!NoMessage, Accepted
    <3> QED
      BY <1>t, <2>1, <3>1, <3>2, <3>3, DropImplements
  <2>4. CASE parser = 0 /\ buf = 0
    BY <1>9, <2>1, <2>4 DEF reassemblyComplete, Abstract!Next
  <2> QED
    BY <2>2, <2>3, <2>4
<1>10. CASE UNCHANGED vars
  BY <1>10 DEF vars, Abstract!vars
<1> QED
  BY <1>1, <1>2, <1>3, <1>4, <1>5, <1>6, <1>7, <1>8, <1>9, <1>10 DEF Next

\* However the bytes of a direction are cut into packets, its messages are reported
\* in order, each once, and nothing but what cannot be parsed is dropped with them
\* (pcap/stream.go).
THEOREM RefinementTheorem == Spec => Implements
<1> QED
  BY InitInv, NextInv, InitImplements, StepImplements, PTL
  DEF Spec, Implements, Abstract!Spec

-----------------------------------------------------------------------------
(* ConnTracker.                                                            *)

\* The entries of the two trackers.
Entries ==
  [conn : Conns, src : {"client", "server"},
   initiator : {"unknown", "source", "dest"}, end : {"open", "closed", "reset"},
   last : Nat, timeout : Nat]
Hellos ==
  [conn : Conns, hello : {"client", "server"}, born : Nat, timeout : Nat,
   complete : BOOLEAN]

\* The values of the fields, of each tracker.
TcpTypes ==
  /\ now \in Nat /\ now <= MaxTime
  /\ info \in Seq(Entries) /\ active \in [Conns -> 0 .. Len(info)]
  /\ reports \in Seq(Nat) /\ Len(reports) = Len(info)
  /\ fired \subseteq DOMAIN info /\ resets \subseteq DOMAIN info

TlsTypes ==
  /\ now \in Nat /\ now <= MaxTime
  /\ hello \in Seq(Hellos) /\ partial \in [Conns -> 0 .. Len(hello)]
  /\ hsFired \subseteq DOMAIN hello

Typed == TcpTypes /\ TlsTypes /\ stage \in {"open", "tls", "closed"}

InMap(i) == active[info[i].conn] = i

\* A timer is set to a time that has not passed, or it is not set.
Ahead(timeout) == \/ now <= timeout /\ timeout <= now + Timeout
                  \/ timeout = Trackers!Never

\* Of an entry: it is reported when it leaves the map, its summary agrees with its
\* packets, and its timer, while it is in the map, is set to connectionTimeout after the
\* last of them or has just fired.
EntryRight(i) ==
  /\ reports[i] = (IF InMap(i) THEN 0 ELSE 1)
  /\ info[i].initiator # "unknown" =>
       (info[i].initiator = "source" <=> info[i].src = "client")
  /\ i \in resets => info[i].end = "reset"
  /\ info[i].last <= now /\ Ahead(info[i].timeout)
  /\ InMap(i) =>
       \/ info[i].timeout = info[i].last + Timeout
       \/ i \in fired /\ info[i].timeout = Trackers!Never /\ now = info[i].last + Timeout

\* The timer of an entry that is not in the map does not run, nor is its goroutine
\* waiting; that of an entry in the map runs until it fires.  Unless there was a race.
TimerRight(i) ==
  stage = "open" /\ info[i].conn \notin raced =>
    IF InMap(i) THEN i \in fired => info[i].timeout = Trackers!Never
                ELSE i \notin fired /\ info[i].timeout = Trackers!Never

Placed(c) ==
  /\ active[c] # 0 => info[active[c]].conn = c
  /\ stage # "open" => active[c] = 0

TcpRight ==
  /\ \A c \in Conns : Placed(c)
  /\ \A i \in DOMAIN info : EntryRight(i) /\ TimerRight(i)

HelloRight(i) ==
  /\ hello[i].born <= now /\ Ahead(hello[i].timeout)
  /\ partial[hello[i].conn] = i =>
       \/ hello[i].timeout = hello[i].born + Timeout
       \/ i \in hsFired /\ now = hello[i].born + Timeout

TlsRight ==
  /\ \A c \in Conns : partial[c] # 0 => hello[partial[c]].conn = c
  /\ \A i \in DOMAIN hello : HelloRight(i)

TrackersInv == Typed /\ TcpRight /\ TlsRight

\* The trackers begin without entries.
LEMMA TrackersInit == Trackers!Init => TrackersInv
<1> SUFFICES ASSUME Trackers!Init PROVE TrackersInv
  OBVIOUS
<1> USE DEF Trackers!Init
<1>1. info = <<>> /\ hello = <<>> /\ reports = <<>>
  OBVIOUS
<1>2. DOMAIN info = {} /\ DOMAIN hello = {} /\ Len(info) = 0 /\ Len(hello) = 0
      /\ Len(reports) = 0
  BY <1>1
<1>3. info \in Seq(Entries) /\ hello \in Seq(Hellos) /\ reports \in Seq(Nat)
  BY <1>1
<1>4. active \in [Conns -> 0 .. Len(info)] /\ partial \in [Conns -> 0 .. Len(hello)]
  BY <1>2
<1>5. Typed
  BY <1>2, <1>3, <1>4, TrackersAssumption DEF Typed, TcpTypes, TlsTypes
<1>6. TcpRight /\ TlsRight
  BY <1>2 DEF TcpRight, TlsRight, Placed
<1> QED BY <1>5, <1>6 DEF TrackersInv

\* A sequence of which an element is replaced.
LEMMA Replaced ==
  ASSUME NEW S, NEW s \in Seq(S), NEW i \in DOMAIN s, NEW v \in S
  PROVE  LET t == [s EXCEPT ![i] = v]
         IN t \in Seq(S) /\ Len(t) = Len(s) /\ DOMAIN t = DOMAIN s
  BY ExceptSeq

-----------------------------------------------------------------------------
\* The TCP tracker.

\* A new entry of a connection that has none (addConnection).
LEMMA AddConnection ==
  ASSUME Typed, TcpRight, NEW c \in Conns, NEW from \in {"client", "server"},
         active[c] = 0, stage = "open", Trackers!addConnection(c, from),
         UNCHANGED <<now, fired, stage, resets, raced>>,
         NEW n, n = Len(info) + 1
  PROVE  TcpTypes' /\ TcpRight'
<1> DEFINE e == [conn |-> c, src |-> from, initiator |-> "unknown", end |-> "open",
                 last |-> now, timeout |-> now + Timeout]
<1>1. info \in Seq(Entries) /\ reports \in Seq(Nat) /\ Len(reports) = Len(info)
      /\ Len(info) \in Nat /\ DOMAIN info = 1 .. Len(info)
  BY DEF Typed, TcpTypes
<1>2. e \in Entries
  BY TrackersAssumption DEF Entries, Typed, TcpTypes
<1>3. info' = Append(info, e) /\ reports' = Append(reports, 0)
  BY DEF Trackers!addConnection
<1> HIDE DEF e
<1>4. info' \in Seq(Entries) /\ Len(info') = n /\ DOMAIN info' = 1 .. n /\ info'[n] = e
      /\ \A i \in DOMAIN info : info'[i] = info[i]
  BY <1>1, <1>2, <1>3
<1>5. reports' \in Seq(Nat) /\ Len(reports') = n /\ reports'[n] = 0
      /\ \A i \in DOMAIN info : reports'[i] = reports[i]
  BY <1>1, <1>3
<1>6. active' = [active EXCEPT ![c] = n] /\ active \in [Conns -> 0 .. Len(info)]
  BY <1>4 DEF Trackers!addConnection, Typed, TcpTypes
<1>7. active' \in [Conns -> 0 .. Len(info')]
  BY <1>1, <1>4, <1>6
<1>8. TcpTypes'
  BY <1>1, <1>4, <1>5, <1>7 DEF Typed, TcpTypes
<1>9. ASSUME NEW d \in Conns PROVE Placed(d)'
  <2>1. CASE d = c
    BY <1>4, <1>6, <2>1 DEF Placed, e
  <2>2. CASE d # c
    BY <1>1, <1>4, <1>6, <2>2 DEF Placed, TcpRight
  <2> QED BY <2>1, <2>2
<1>10. ASSUME NEW i \in DOMAIN info PROVE EntryRight(i)' /\ TimerRight(i)'
  <2>1. info'[i] = info[i] /\ reports'[i] = reports[i] /\ info[i].conn \in Conns /\ i # n
        /\ i # 0
    <3>1. info[i] \in Entries
      BY <1>1
    <3>2. info[i].conn \in Conns
      BY <3>1 DEF Entries
    <3>3. i # n /\ i # 0
      BY <1>1
    <3> QED BY <1>4, <1>5, <3>2, <3>3
  <2>2. InMap(i)' <=> InMap(i)
    BY <1>6, <2>1 DEF InMap
  <2> QED
    BY <2>1, <2>2 DEF TcpRight, EntryRight, TimerRight, Ahead
<1>11. EntryRight(n)' /\ TimerRight(n)'
  <2>1. n \notin fired /\ n \notin resets
    BY <1>1 DEF Typed, TcpTypes
  <2>2. InMap(n)'
    BY <1>4, <1>6 DEF InMap, e
  <2>3. now \in Nat /\ Timeout \in Nat
    BY TrackersAssumption DEF Typed, TcpTypes
  <2> QED
    BY <1>4, <1>5, <2>1, <2>2, <2>3 DEF EntryRight, TimerRight, Ahead, e
<1>12. \A i \in DOMAIN info' : i \in DOMAIN info \/ i = n
  BY <1>1, <1>4
<1> QED BY <1>8, <1>9, <1>10, <1>11, <1>12 DEF TcpRight

\* A packet of a connection that has an entry (augmentWith): its timer is set again.
LEMMA Augmented ==
  ASSUME Typed, TcpRight, NEW c \in Conns, NEW from \in {"client", "server"}, NEW flags,
         <<from, flags>> \in Trackers!Packets, Trackers!Process_known(c, from, flags),
         NEW i, i = active[c]
  PROVE  TcpTypes' /\ TcpRight'
<1> DEFINE e == Trackers!augmentWith(info[i], from, flags)
<1>1. info \in Seq(Entries) /\ i \in DOMAIN info /\ i # 0 /\ info[i].conn = c
  BY DEF Typed, TcpTypes, TcpRight, Placed, Trackers!Process_known
<1>2. info[i] \in Entries /\ now \in Nat /\ Timeout \in Nat
  BY <1>1, TrackersAssumption DEF Typed, TcpTypes
<1>3. Trackers!Initiator(info[i], from, flags) \in {"unknown", "source", "dest"}
      /\ Trackers!EndState(info[i], flags) \in {"open", "closed", "reset"}
  BY <1>2 DEF Trackers!Initiator, Trackers!EndState, Entries
<1>4. /\ e \in Entries /\ e.conn = c /\ e.src = info[i].src /\ e.last = now
      /\ e.timeout = now + Timeout /\ e.initiator = Trackers!Initiator(info[i], from, flags)
      /\ e.end = Trackers!EndState(info[i], flags)
  <2>1. e.conn = info[i].conn /\ e.src = info[i].src
    BY <1>2 DEF Trackers!augmentWith, Entries
  <2>2. e.last = now /\ e.timeout = now + Timeout
    BY <1>2 DEF Trackers!augmentWith, Entries
  <2>3. e.initiator = Trackers!Initiator(info[i], from, flags)
        /\ e.end = Trackers!EndState(info[i], flags)
    BY <1>2 DEF Trackers!augmentWith, Entries
  <2>4. now + Timeout \in Nat
    BY <1>2
  <2>5. e \in Entries
    BY <1>2, <1>3, <2>4 DEF Trackers!augmentWith, Entries
  <2> QED BY <1>1, <2>1, <2>2, <2>3, <2>5
<1>5. info' = [info EXCEPT ![i] = e]
  BY DEF Trackers!Process_known
<1> HIDE DEF e
<1>6. info' \in Seq(Entries) /\ Len(info') = Len(info) /\ DOMAIN info' = DOMAIN info
      /\ info'[i] = e /\ \A j \in DOMAIN info : j # i => info'[j] = info[j]
  BY <1>1, <1>4, <1>5, Replaced
<1>7. UNCHANGED <<now, active, fired, reports, stage>>
      /\ resets' = (IF flags = "RST" THEN resets \cup {i} ELSE resets)
      /\ raced' = (IF i \in fired THEN raced \cup {c} ELSE raced)
  BY DEF Trackers!Process_known
<1>8. TcpTypes'
  BY <1>1, <1>6, <1>7 DEF Typed, TcpTypes
<1>9. ASSUME NEW d \in Conns PROVE Placed(d)'
  BY <1>1, <1>4, <1>6, <1>7 DEF Typed, TcpTypes, TcpRight, Placed
<1>10. ASSUME NEW j \in DOMAIN info PROVE InMap(j)' <=> InMap(j)
  BY <1>1, <1>4, <1>6, <1>7 DEF InMap
<1>11. ASSUME NEW j \in DOMAIN info, j # i PROVE EntryRight(j)' /\ TimerRight(j)'
  BY <1>6, <1>7, <1>10, <1>11 DEF TcpRight, EntryRight, TimerRight, Ahead
<1>12. InMap(i)
  BY <1>1 DEF InMap
<1>13. EntryRight(i)'
  <2>1. reports'[i] = 0
    BY <1>1, <1>7, <1>12 DEF TcpRight, EntryRight
  <2>2. e.initiator # "unknown" => (e.initiator = "source" <=> e.src = "client")
    <3>1. info[i].initiator # "unknown" =>
            (info[i].initiator = "source" <=> info[i].src = "client")
      BY <1>1 DEF TcpRight, EntryRight
    <3>2. flags = "SYN" => from = "client"
      BY DEF Trackers!Packets
    <3>3. flags = "SYNACK" => from = "server"
      BY DEF Trackers!Packets
    <3>4. info[i].src \in {"client", "server"}
      BY <1>2 DEF Entries
    <3> QED BY <1>4, <3>1, <3>2, <3>3, <3>4 DEF Trackers!Initiator
  <2>3. i \in resets' => e.end = "reset"
    <3>1. i \in resets => info[i].end = "reset"
      BY <1>1 DEF TcpRight, EntryRight
    <3>2. flags # "RST" /\ info[i].end = "reset"
          => Trackers!EndState(info[i], flags) = "reset"
      BY DEF Trackers!EndState
    <3>3. flags = "RST" => Trackers!EndState(info[i], flags) = "reset"
      BY DEF Trackers!EndState
    <3> QED BY <1>4, <1>7, <3>1, <3>2, <3>3
  <2>4. e.last <= now /\ Ahead(e.timeout)
    BY <1>2, <1>4 DEF Ahead
  <2> QED BY <1>1, <1>4, <1>6, <1>7, <1>10, <1>12, <2>1, <2>2, <2>3, <2>4
    DEF EntryRight, Ahead
<1>14. TimerRight(i)'
  BY <1>1, <1>4, <1>6, <1>7, <1>10, <1>12 DEF TimerRight
<1> QED BY <1>6, <1>8, <1>9, <1>11, <1>13, <1>14 DEF TcpRight

\* The TCP tracker is given a packet.
LEMMA ProcessStep ==
  ASSUME Typed, TcpRight, NEW c \in Conns, Trackers!Process(c)
  PROVE  TcpTypes' /\ TcpRight'
<1>1. PICK p \in Trackers!Packets :
        Trackers!Process_new(c, p[1], p[2]) \/ Trackers!Process_known(c, p[1], p[2])
  BY DEF Trackers!Process
<1>2. p = <<p[1], p[2]>> /\ p[1] \in {"client", "server"}
  BY DEF Trackers!Packets
<1>3. CASE Trackers!Process_known(c, p[1], p[2])
  BY <1>2, <1>3, Augmented
<1>4. CASE Trackers!Process_new(c, p[1], p[2])
  <2>1. CASE Trackers!addConnection(c, p[1])
    BY <1>2, <1>4, <2>1, AddConnection DEF Trackers!Process_new
  <2>2. CASE UNCHANGED <<info, active, reports>>
    <3>1. UNCHANGED <<now, active, info, fired, reports, resets, raced, stage>>
      BY <1>4, <2>2 DEF Trackers!Process_new
    <3> QED BY <3>1 DEF Typed, TcpTypes, TcpRight, Placed, EntryRight, TimerRight,
      InMap, Ahead
  <2> QED BY <1>4, <2>1, <2>2 DEF Trackers!Process_new
<1> QED BY <1>1, <1>3, <1>4

\* The timer of an entry fires; its goroutine has to wait for the mutex.
LEMMA TimerFires ==
  ASSUME Typed, TcpRight, NEW i \in Nat, i # 0, Trackers!timeout_fires(i)
  PROVE  TcpTypes' /\ TcpRight'
<1> DEFINE e == [info[i] EXCEPT !.timeout = Trackers!Never]
<1>1. info \in Seq(Entries) /\ i \in DOMAIN info /\ Trackers!Never \in Nat
      /\ Trackers!Never > now
      /\ now \in Nat /\ Timeout \in Nat
  BY TrackersAssumption DEF Typed, TcpTypes, Trackers!timeout_fires, Trackers!Never
<1>2. info[i] \in Entries
  BY <1>1
<1>3. e \in Entries
  BY <1>1, <1>2 DEF Entries
<1>4. /\ e.conn = info[i].conn /\ e.src = info[i].src /\ e.last = info[i].last
      /\ e.timeout = Trackers!Never /\ e.initiator = info[i].initiator
         /\ e.end = info[i].end
  BY <1>2 DEF Entries
<1>5. info' = [info EXCEPT ![i] = e] /\ info[i].timeout = now
  BY DEF Trackers!timeout_fires
<1> HIDE DEF e
<1>6. info' \in Seq(Entries) /\ Len(info') = Len(info) /\ DOMAIN info' = DOMAIN info
      /\ info'[i] = e /\ \A j \in DOMAIN info : j # i => info'[j] = info[j]
  BY <1>1, <1>3, <1>5, Replaced
<1>7. UNCHANGED <<now, active, reports, stage, resets, raced>> /\ fired' = fired \cup {i}
  BY DEF Trackers!timeout_fires, Trackers!history
<1>8. TcpTypes'
  BY <1>1, <1>6, <1>7 DEF Typed, TcpTypes
<1>9. \A j \in DOMAIN info : info'[j].conn = info[j].conn
  BY <1>4, <1>6
<1>10. ASSUME NEW d \in Conns PROVE Placed(d)'
  <2>1. active[d] # 0 => active[d] \in DOMAIN info
    BY DEF Typed, TcpTypes
  <2> QED BY <1>7, <1>9, <2>1 DEF TcpRight, Placed
<1>11. ASSUME NEW j \in DOMAIN info PROVE InMap(j)' <=> InMap(j)
  BY <1>7, <1>9 DEF InMap
<1>12. ASSUME NEW j \in DOMAIN info, j # i PROVE EntryRight(j)' /\ TimerRight(j)'
  BY <1>6, <1>7, <1>11, <1>12 DEF TcpRight, EntryRight, TimerRight, Ahead
<1>13. EntryRight(i) /\ TimerRight(i)
  BY <1>1 DEF TcpRight
<1>14. EntryRight(i)'
  <2>1. InMap(i) => now = info[i].last + Timeout
    BY <1>1, <1>5, <1>13 DEF EntryRight
  <2>2. Ahead(Trackers!Never)'
    BY DEF Ahead, Trackers!Never
  <2> QED BY <1>1, <1>4, <1>6, <1>7, <1>11, <1>13, <2>1, <2>2 DEF EntryRight
<1>15. TimerRight(i)'
  BY <1>1, <1>4, <1>5, <1>6, <1>7, <1>11, <1>13 DEF TimerRight
<1> QED BY <1>6, <1>8, <1>10, <1>12, <1>14, <1>15 DEF TcpRight

\* An entry's timer has the mutex: its connection is flushed, if it has an entry at all.
LEMMA TimerCallback ==
  ASSUME Typed, TcpRight, NEW i \in Nat, Trackers!timeout_callback(i),
         NEW c, c = info[i].conn, NEW m, m = active[c]
  PROVE  TcpTypes' /\ TcpRight'
<1>1. info \in Seq(Entries) /\ i \in DOMAIN info /\ reports \in Seq(Nat)
      /\ Len(reports) = Len(info) /\ fired \subseteq DOMAIN info
      /\ active \in [Conns -> 0 .. Len(info)] /\ Len(info) \in Nat
      /\ DOMAIN info = 1 .. Len(info) /\ DOMAIN reports = DOMAIN info
  BY DEF Typed, TcpTypes, Trackers!timeout_callback
<1>2. info[i] \in Entries
  BY <1>1
<1>3. c \in Conns
  BY <1>2 DEF Entries
<1>4. UNCHANGED <<now, info, stage, resets, raced>> /\ fired' = fired \ {i}
  BY DEF Trackers!timeout_callback
<1>5. CASE m = 0
  <2>1. UNCHANGED <<reports, active>>
    BY <1>5 DEF Trackers!timeout_callback, Trackers!flushConnection
  <2>2. TcpTypes'
    BY <1>4, <2>1 DEF Typed, TcpTypes
  <2>3. \A d \in Conns : Placed(d)'
    BY <1>4, <2>1 DEF TcpRight, Placed
  <2>4. \A j \in DOMAIN info : InMap(j)' <=> InMap(j)
    BY <1>4, <2>1 DEF InMap
  <2>5. ~InMap(i)
    BY <1>1, <1>5 DEF InMap
  <2>6. ASSUME NEW j \in DOMAIN info PROVE EntryRight(j)' /\ TimerRight(j)'
    BY <1>4, <2>1, <2>4, <2>5, <2>6 DEF TcpRight, EntryRight, TimerRight, Ahead
  <2> QED BY <1>4, <2>2, <2>3, <2>6 DEF TcpRight
<1>6. CASE m # 0
  <2>1. m \in DOMAIN info /\ info[m].conn = c
    BY <1>1, <1>3, <1>6 DEF TcpRight, Placed
  <2>2. reports' = [reports EXCEPT ![m] = @ + 1] /\ active' = [active EXCEPT ![c] = 0]
    BY <1>6 DEF Trackers!timeout_callback, Trackers!flushConnection
  <2>3. reports[m] + 1 \in Nat
    <3>1. reports[m] \in Nat
      BY <1>1, <2>1
    <3> QED BY <3>1
  <2>4. reports' \in Seq(Nat) /\ Len(reports') = Len(reports)
        /\ reports'[m] = reports[m] + 1
        /\ \A j \in DOMAIN info : j # m => reports'[j] = reports[j]
    BY <1>1, <2>1, <2>2, <2>3, Replaced
  <2>5. active' \in [Conns -> 0 .. Len(info)]
    <3>1. 0 \in 0 .. Len(info)
      BY <1>1
    <3> QED BY <1>1, <2>2, <3>1
  <2>6. TcpTypes'
    BY <1>1, <1>4, <2>4, <2>5 DEF Typed, TcpTypes
  <2>7. ASSUME NEW d \in Conns PROVE Placed(d)'
    BY <1>1, <1>4, <2>2 DEF TcpRight, Placed
  <2>8. ASSUME NEW j \in DOMAIN info, j # m
        PROVE  (InMap(j)' <=> InMap(j)) /\ j # 0
    <3>1. info[j].conn \in Conns /\ j # 0
      <4>1. info[j] \in Entries /\ j # 0
        BY <1>1
      <4> QED BY <4>1 DEF Entries
    <3> QED BY <1>1, <1>4, <2>2, <2>8, <3>1 DEF InMap
  <2>9. InMap(m) /\ ~InMap(m)' /\ m # 0
    BY <1>1, <1>3, <1>4, <1>6, <2>1, <2>2 DEF InMap
  <2>10. ASSUME NEW j \in DOMAIN info, j # m PROVE EntryRight(j)'
    <3>1. EntryRight(j)
      BY DEF TcpRight
    <3>2. InMap(j) => j # i
      BY <1>6, <2>10 DEF InMap
    <3> QED BY <1>4, <2>4, <2>8, <2>10, <3>1, <3>2 DEF EntryRight, Ahead
  <2>11. EntryRight(m)'
    BY <1>4, <2>1, <2>4, <2>9 DEF TcpRight, EntryRight, Ahead
  <2>12. ASSUME NEW j \in DOMAIN info, j # m PROVE TimerRight(j)'
    <3>1. TimerRight(j)
      BY DEF TcpRight
    <3> QED BY <1>4, <2>8, <2>12, <3>1 DEF TimerRight
  <2>13. TimerRight(m)'
    <3>1. SUFFICES ASSUME stage = "open", c \notin raced
                   PROVE  m \notin fired' /\ info[m].timeout = Trackers!Never
      BY <1>4, <2>1, <2>9 DEF TimerRight
    <3>2. TimerRight(i) /\ TimerRight(m) /\ i \in fired
      BY <1>1, <2>1 DEF TcpRight, Trackers!timeout_callback
    <3>3. i = m
      BY <3>1, <3>2 DEF TimerRight, InMap
    <3> QED BY <1>4, <2>1, <2>9, <3>1, <3>2, <3>3 DEF TimerRight
  <2> QED BY <1>4, <2>6, <2>7, <2>10, <2>11, <2>12, <2>13 DEF TcpRight
<1> QED BY <1>5, <1>6

\* The TCP tracker is closed: every entry of the map is reported.
LEMMA CloseStep ==
  ASSUME Typed, TcpRight, Trackers!close, NEW flushed, flushed = {active[c] : c \in Conns}
  PROVE  TcpTypes' /\ TcpRight'
<1>1. info \in Seq(Entries) /\ reports \in Seq(Nat) /\ Len(reports) = Len(info)
      /\ active \in [Conns -> 0 .. Len(info)] /\ Len(info) \in Nat
      /\ DOMAIN info = 1 .. Len(info) /\ DOMAIN reports = DOMAIN info
      /\ now \in Nat /\ now <= MaxTime /\ Trackers!Never \in Nat
  BY TrackersAssumption DEF Typed, TcpTypes, Trackers!Never
<1>2. /\ stage = "open" /\ stage' = "tls" /\ active' = [c \in Conns |-> 0]
      /\ UNCHANGED <<now, fired, resets, raced>>
      /\ info' = [i \in DOMAIN info |->
                    IF i \in flushed THEN [info[i] EXCEPT !.timeout = Trackers!Never]
                    ELSE info[i]]
      /\ reports' = [i \in DOMAIN reports |->
                       IF i \in flushed THEN reports[i] + 1 ELSE reports[i]]
  BY DEF Trackers!close
<1>3. ASSUME NEW i \in DOMAIN info
      PROVE  /\ info'[i] \in Entries /\ info[i].conn \in Conns /\ i # 0
             /\ info'[i].conn = info[i].conn /\ info'[i].src = info[i].src
             /\ info'[i].initiator = info[i].initiator /\ info'[i].end = info[i].end
             /\ info'[i].last = info[i].last
             /\ info'[i].timeout =
                  (IF i \in flushed THEN Trackers!Never ELSE info[i].timeout)
             /\ reports'[i] \in Nat
             /\ reports'[i] = (IF i \in flushed THEN reports[i] + 1 ELSE reports[i])
  <2>1. info[i] \in Entries /\ reports[i] \in Nat /\ i # 0
    BY <1>1
  <2>2. info'[i] = (IF i \in flushed THEN [info[i] EXCEPT !.timeout = Trackers!Never]
        ELSE info[i])
        /\ reports'[i] = (IF i \in flushed THEN reports[i] + 1 ELSE reports[i])
    BY <1>1, <1>2
  <2>3. info[i].conn \in Conns
    BY <2>1 DEF Entries
  <2>4. CASE i \in flushed
    <3> DEFINE e == [info[i] EXCEPT !.timeout = Trackers!Never]
    <3>1. e \in Entries
      BY <1>1, <2>1 DEF Entries
    <3>2. /\ e.conn = info[i].conn /\ e.src = info[i].src /\ e.last = info[i].last
          /\ e.timeout = Trackers!Never /\ e.initiator = info[i].initiator
             /\ e.end = info[i].end
      BY <2>1 DEF Entries
    <3>3. info'[i] = e
      BY <2>2, <2>4
    <3> HIDE DEF e
    <3> QED BY <2>1, <2>2, <2>3, <2>4, <3>1, <3>2, <3>3
  <2>5. CASE i \notin flushed
    BY <2>1, <2>2, <2>3, <2>5
  <2> QED BY <2>4, <2>5
<1>4. DOMAIN info' = 1 .. Len(info) /\ DOMAIN reports' = 1 .. Len(info)
  BY <1>1, <1>2
<1>5. info' \in Seq(Entries) /\ Len(info') = Len(info)
  <2>1. \A i \in 1 .. Len(info) : info'[i] \in Entries
    BY <1>1, <1>3
  <2>2. info' = [i \in 1 .. Len(info) |-> info'[i]]
    BY <1>1, <1>2
  <2>3. info' \in [1 .. Len(info) -> Entries]
    BY <2>1, <2>2
  <2>4. Len(info) \in Nat
    BY <1>1
  <2> QED BY <2>3, <2>4
<1>6. reports' \in Seq(Nat) /\ Len(reports') = Len(info)
  <2>1. \A i \in 1 .. Len(info) : reports'[i] \in Nat
    BY <1>1, <1>3
  <2>2. reports' = [i \in 1 .. Len(info) |-> reports'[i]]
    BY <1>1, <1>2
  <2>3. reports' \in [1 .. Len(info) -> Nat]
    BY <2>1, <2>2
  <2>4. Len(info) \in Nat
    BY <1>1
  <2> QED BY <2>3, <2>4
<1>7. active' \in [Conns -> 0 .. Len(info')]
  <2>1. 0 \in 0 .. Len(info')
    BY <1>1, <1>5
  <2> QED BY <1>2, <2>1
<1>8. TcpTypes'
  BY <1>1, <1>2, <1>4, <1>5, <1>6, <1>7 DEF Typed, TcpTypes
<1>9. \A c \in Conns : Placed(c)'
  BY <1>2 DEF Placed
<1>10. ASSUME NEW i \in DOMAIN info PROVE EntryRight(i)' /\ TimerRight(i)'
  <2>1. i \in flushed <=> InMap(i)
    <3>1. InMap(i) => i \in flushed
      BY <1>3 DEF InMap
    <3>2. ASSUME NEW c \in Conns, i = active[c] PROVE InMap(i)
      BY <1>3, <3>2 DEF TcpRight, Placed, InMap
    <3> QED BY <3>1, <3>2
  <2>2. ~InMap(i)'
    BY <1>2, <1>3 DEF InMap
  <2>3. EntryRight(i)
    BY DEF TcpRight
  <2>4. Ahead(Trackers!Never)
    BY DEF Ahead
  <2>5. Ahead(info[i].timeout)'
    BY <1>2, <1>3, <2>3, <2>4 DEF EntryRight, Ahead
  <2>6. reports'[i] = 1
    BY <1>3, <2>1, <2>3 DEF EntryRight
  <2>7. EntryRight(i)'
    BY <1>2, <1>3, <2>2, <2>3, <2>5, <2>6 DEF EntryRight
  <2> QED BY <1>2, <2>7 DEF TimerRight
<1> QED BY <1>1, <1>4, <1>8, <1>9, <1>10 DEF TcpRight

\* The steps of the TLS tracker are none of the TCP tracker's.
LEMMA TcpUnchanged ==
  ASSUME Typed, TcpRight, UNCHANGED <<now, Trackers!tcp, reports, resets, raced>>,
         stage = "open" => stage' = "open", stage # "open" => stage' # "open"
  PROVE  TcpTypes' /\ TcpRight'
<1>1. UNCHANGED <<now, active, info, fired, reports, resets, raced>>
  BY DEF Trackers!tcp
<1> QED
  BY <1>1 DEF Typed, TcpTypes, TcpRight, Placed, EntryRight, TimerRight, InMap, Ahead

\* Time passes when no timer is due and none waits: what is in the map is not idle yet.
LEMMA TcpTick ==
  ASSUME Typed, TcpRight, Trackers!Tick
  PROVE  TcpTypes' /\ TcpRight'
<1>1. /\ now' = now + 1 /\ now < MaxTime /\ fired = {}
      /\ UNCHANGED <<active, info, fired, reports, resets, raced, stage>>
      /\ \A i \in DOMAIN info : info[i].timeout # now
  BY DEF Trackers!Tick, Trackers!tcp, Trackers!tls, Trackers!history
<1>2. now \in Nat /\ MaxTime \in Nat /\ Timeout \in Nat
  BY TrackersAssumption DEF Typed, TcpTypes
<1>3. TcpTypes'
  BY <1>1, <1>2 DEF Typed, TcpTypes
<1>4. \A c \in Conns : Placed(c)'
  BY <1>1 DEF TcpRight, Placed
<1>5. ASSUME NEW i \in DOMAIN info PROVE EntryRight(i)' /\ TimerRight(i)'
  <2>1. info[i].last \in Nat /\ info[i].timeout \in Nat
    <3>1. info[i] \in Entries
      BY DEF Typed, TcpTypes
    <3> QED BY <3>1 DEF Entries
  <2>2. EntryRight(i) /\ TimerRight(i) /\ info[i].timeout # now
    BY <1>1 DEF TcpRight
  <2>3. Ahead(info[i].timeout)'
    BY <1>1, <1>2, <2>1, <2>2 DEF EntryRight, Ahead
  <2>4. info[i].last <= now'
    BY <1>1, <1>2, <2>1, <2>2 DEF EntryRight
  <2> QED BY <1>1, <2>2, <2>3, <2>4 DEF EntryRight, TimerRight, InMap
<1> QED BY <1>1, <1>3, <1>4, <1>5 DEF TcpRight

-----------------------------------------------------------------------------
\* The TLS tracker.

\* The steps of the TCP tracker are none of the TLS tracker's.
LEMMA TlsUnchanged ==
  ASSUME Typed, TlsRight, UNCHANGED <<now, Trackers!tls>>
  PROVE  TlsTypes' /\ TlsRight'
<1>1. UNCHANGED <<now, partial, hello, hsFired>>
  BY DEF Trackers!tls
<1> QED BY <1>1 DEF Typed, TlsTypes, TlsRight, HelloRight, Ahead

\* The same for the handshakes.
LEMMA TlsTick ==
  ASSUME Typed, TlsRight, Trackers!Tick
  PROVE  TlsTypes' /\ TlsRight'
<1>1. /\ now' = now + 1 /\ now < MaxTime /\ hsFired = {}
      /\ UNCHANGED <<partial, hello, hsFired>>
      /\ \A i \in DOMAIN hello : hello[i].timeout # now
  BY DEF Trackers!Tick, Trackers!tls
<1>2. now \in Nat /\ MaxTime \in Nat /\ Timeout \in Nat
  BY TrackersAssumption DEF Typed, TlsTypes
<1>3. TlsTypes'
  BY <1>1, <1>2 DEF Typed, TlsTypes
<1>4. ASSUME NEW i \in DOMAIN hello PROVE HelloRight(i)'
  <2>1. hello[i].born \in Nat /\ hello[i].timeout \in Nat
    <3>1. hello[i] \in Hellos
      BY DEF Typed, TlsTypes
    <3> QED BY <3>1 DEF Hellos
  <2>2. HelloRight(i) /\ hello[i].timeout # now
    BY <1>1 DEF TlsRight
  <2>3. Ahead(hello[i].timeout)'
    BY <1>1, <1>2, <2>1, <2>2 DEF HelloRight, Ahead
  <2>4. hello[i].born <= now'
    BY <1>1, <1>2, <2>1, <2>2 DEF HelloRight
  <2> QED BY <1>1, <2>2, <2>3, <2>4 DEF HelloRight
<1> QED BY <1>1, <1>3, <1>4 DEF TlsRight

\* A hello begins a handshake or completes it.
LEMMA HelloStep ==
  ASSUME Typed, TlsRight, NEW c \in Conns, NEW h \in {"client", "server"},
         Trackers!Process_hello(c, h), NEW n, n = Len(hello) + 1, NEW m, m = partial[c]
  PROVE  TlsTypes' /\ TlsRight'
<1>1. hello \in Seq(Hellos) /\ partial \in [Conns -> 0 .. Len(hello)]
      /\ Len(hello) \in Nat /\ DOMAIN hello = 1 .. Len(hello)
         /\ hsFired \subseteq DOMAIN hello
      /\ now \in Nat /\ now <= MaxTime /\ Timeout \in Nat
  BY TrackersAssumption DEF Typed, TlsTypes
<1>2. UNCHANGED <<now, hsFired>>
  BY DEF Trackers!Process_hello
<1>3. \A j \in DOMAIN hello : hello[j].conn \in Conns /\ j # 0 /\ j # n
  <2> TAKE j \in DOMAIN hello
  <2>1. hello[j] \in Hellos /\ j # 0 /\ j # n
    BY <1>1
  <2> QED BY <2>1 DEF Hellos
<1>4. CASE m = 0
  <2> DEFINE e == [conn |-> c, hello |-> h, born |-> now, timeout |-> now + Timeout,
                   complete |-> FALSE]
  <2>1. hello' = Append(hello, e) /\ partial' = [partial EXCEPT ![c] = Len(hello')]
    BY <1>4 DEF Trackers!Process_hello
  <2>2. e \in Hellos
    BY <1>1 DEF Hellos
  <2> HIDE DEF e
  <2>3. hello' \in Seq(Hellos) /\ Len(hello') = n /\ DOMAIN hello' = 1 .. n
        /\ hello'[n] = e /\ \A j \in DOMAIN hello : hello'[j] = hello[j]
    BY <1>1, <2>1, <2>2
  <2>4. partial' \in [Conns -> 0 .. n]
    BY <1>1, <2>1, <2>3
  <2>5. TlsTypes'
    BY <1>1, <1>2, <2>3, <2>4 DEF TlsTypes
  <2>6. ASSUME NEW d \in Conns, partial'[d] # 0 PROVE hello'[partial'[d]].conn = d
    <3>1. CASE d = c
      BY <1>1, <2>1, <2>3, <3>1 DEF e
    <3>2. CASE d # c
      BY <1>1, <2>1, <2>3, <2>6, <3>2 DEF TlsRight
    <3> QED BY <3>1, <3>2
  <2>7. ASSUME NEW j \in DOMAIN hello PROVE HelloRight(j)'
    <3>1. partial'[hello'[j].conn] = j => partial[hello[j].conn] = j
      BY <1>1, <1>3, <2>1, <2>3
    <3> QED BY <1>2, <2>3, <3>1 DEF TlsRight, HelloRight, Ahead
  <2>8. HelloRight(n)'
    BY <1>1, <1>2, <2>3 DEF HelloRight, Ahead, e
  <2>9. \A j \in DOMAIN hello' : j \in DOMAIN hello \/ j = n
    BY <1>1, <2>3
  <2> QED BY <2>5, <2>6, <2>7, <2>8, <2>9 DEF TlsRight
<1>5. CASE m # 0
  <2> DEFINE e == [hello[m] EXCEPT !.complete = TRUE]
  <2>1. m \in DOMAIN hello
    BY <1>1, <1>5
  <2>2. hello' = [hello EXCEPT ![m] = e] /\ partial' = [partial EXCEPT ![c] = 0]
    BY <1>5 DEF Trackers!Process_hello
  <2>3. e \in Hellos /\ e.conn = hello[m].conn /\ e.born = hello[m].born
        /\ e.timeout = hello[m].timeout
    <3>1. hello[m] \in Hellos
      BY <1>1, <2>1
    <3> QED BY <3>1 DEF Hellos
  <2> HIDE DEF e
  <2>4. hello' \in Seq(Hellos) /\ Len(hello') = Len(hello) /\ DOMAIN hello' = DOMAIN hello
        /\ hello'[m] = e /\ \A j \in DOMAIN hello : j # m => hello'[j] = hello[j]
    BY <1>1, <2>1, <2>2, <2>3, Replaced
  <2>5. partial' \in [Conns -> 0 .. Len(hello')]
    <3>1. 0 \in 0 .. Len(hello')
      BY <1>1, <2>4
    <3> QED BY <1>1, <2>2, <2>4, <3>1
  <2>6. TlsTypes'
    BY <1>1, <1>2, <2>4, <2>5 DEF TlsTypes
  <2>7. ASSUME NEW j \in DOMAIN hello
        PROVE  /\ hello'[j].conn = hello[j].conn /\ hello'[j].born = hello[j].born
               /\ hello'[j].timeout = hello[j].timeout
    BY <2>3, <2>4
  <2>8. ASSUME NEW d \in Conns, partial'[d] # 0 PROVE hello'[partial'[d]].conn = d
    <3>1. partial'[d] = partial[d] /\ partial[d] \in DOMAIN hello
      BY <1>1, <2>2, <2>8
    <3> QED BY <2>7, <2>8, <3>1 DEF TlsRight
  <2>9. ASSUME NEW j \in DOMAIN hello PROVE HelloRight(j)'
    <3>1. partial'[hello'[j].conn] = j => partial[hello[j].conn] = j
      BY <1>1, <1>3, <2>2, <2>7
    <3> QED BY <1>2, <2>7, <3>1 DEF TlsRight, HelloRight, Ahead
  <2> QED BY <2>4, <2>6, <2>8, <2>9 DEF TlsRight
<1> QED BY <1>4, <1>5

\* The timer of a handshake fires.
LEMMA HelloTimerFires ==
  ASSUME Typed, TlsRight, NEW i \in Nat, i # 0, Trackers!hs_timeout_fires(i)
  PROVE  TlsTypes' /\ TlsRight'
<1> DEFINE e == [hello[i] EXCEPT !.timeout = Trackers!Never]
<1>1. hello \in Seq(Hellos) /\ i \in DOMAIN hello /\ Trackers!Never \in Nat
      /\ now \in Nat /\ Timeout \in Nat
  BY TrackersAssumption DEF Typed, TlsTypes, Trackers!hs_timeout_fires, Trackers!Never
<1>2. hello[i] \in Hellos
  BY <1>1
<1>3. e \in Hellos
  BY <1>1, <1>2 DEF Hellos
<1>4. e.conn = hello[i].conn /\ e.born = hello[i].born /\ e.timeout = Trackers!Never
  BY <1>2 DEF Hellos
<1>5. hello' = [hello EXCEPT ![i] = e] /\ hello[i].timeout = now
  BY DEF Trackers!hs_timeout_fires
<1> HIDE DEF e
<1>6. hello' \in Seq(Hellos) /\ Len(hello') = Len(hello) /\ DOMAIN hello' = DOMAIN hello
      /\ hello'[i] = e /\ \A j \in DOMAIN hello : j # i => hello'[j] = hello[j]
  BY <1>1, <1>3, <1>5, Replaced
<1>7. UNCHANGED <<now, partial>> /\ hsFired' = hsFired \cup {i}
  BY DEF Trackers!hs_timeout_fires
<1>8. TlsTypes'
  BY <1>1, <1>6, <1>7 DEF Typed, TlsTypes
<1>9. \A j \in DOMAIN hello : hello'[j].conn = hello[j].conn
  BY <1>4, <1>6
<1>10. ASSUME NEW c \in Conns, partial'[c] # 0 PROVE hello'[partial'[c]].conn = c
  <2>1. partial'[c] \in DOMAIN hello
    BY <1>7, <1>10 DEF Typed, TlsTypes
  <2> QED BY <1>7, <1>9, <1>10, <2>1 DEF TlsRight
<1>11. ASSUME NEW j \in DOMAIN hello, j # i PROVE HelloRight(j)'
  BY <1>6, <1>7, <1>9, <1>11 DEF TlsRight, HelloRight, Ahead
<1>12. HelloRight(i)'
  <2>1. HelloRight(i)
    BY <1>1 DEF TlsRight
  <2>2. partial[hello[i].conn] = i => now = hello[i].born + Timeout
    BY <1>1, <1>5, <2>1, <1>2 DEF HelloRight, Hellos
  <2>3. Ahead(Trackers!Never)
    BY DEF Ahead
  <2> QED BY <1>4, <1>6, <1>7, <2>1, <2>2, <2>3 DEF HelloRight, Ahead, Trackers!Never
<1> QED BY <1>6, <1>8, <1>10, <1>11, <1>12 DEF TlsRight

\* An entry leaves the map of its connection, or all leave it and their timers are
\* stopped.
LEMMA HandshakeOver ==
  ASSUME Typed, TlsRight, (\E i \in Nat : Trackers!hs_timeout_callback(i)) \/ Trackers!Close
  PROVE  TlsTypes' /\ TlsRight'
<1>1. hello \in Seq(Hellos) /\ partial \in [Conns -> 0 .. Len(hello)]
      /\ Len(hello) \in Nat /\ DOMAIN hello = 1 .. Len(hello)
         /\ hsFired \subseteq DOMAIN hello
      /\ Trackers!Never \in Nat
  BY TrackersAssumption DEF Typed, TlsTypes, Trackers!Never
<1>2. 0 \in 0 .. Len(hello)
  BY <1>1
<1>3. \A j \in DOMAIN hello : hello[j] \in Hellos /\ hello[j].conn \in Conns /\ j # 0
  <2> TAKE j \in DOMAIN hello
  <2>1. hello[j] \in Hellos /\ j # 0
    BY <1>1
  <2> QED BY <2>1 DEF Hellos
<1>4. ASSUME NEW i \in Nat, Trackers!hs_timeout_callback(i) PROVE TlsTypes' /\ TlsRight'
  <2>1. /\ i \in DOMAIN hello /\ hsFired' = hsFired \ {i} /\ UNCHANGED <<now, hello>>
        /\ partial' = [partial EXCEPT ![hello[i].conn] = 0]
    BY <1>1, <1>4 DEF Trackers!hs_timeout_callback
  <2>2. partial' \in [Conns -> 0 .. Len(hello')]
    BY <1>1, <1>2, <2>1
  <2>3. TlsTypes'
    BY <1>1, <2>1, <2>2 DEF Typed, TlsTypes
  <2>4. ASSUME NEW c \in Conns, partial'[c] # 0 PROVE hello'[partial'[c]].conn = c
    BY <1>1, <2>1, <2>4 DEF TlsRight
  <2>5. ASSUME NEW j \in DOMAIN hello PROVE HelloRight(j)'
    <3>1. partial'[hello[j].conn] = j => partial[hello[j].conn] = j /\ j # i
      BY <1>1, <1>3, <2>1
    <3> QED BY <2>1, <3>1 DEF TlsRight, HelloRight, Ahead
  <2> QED BY <2>1, <2>3, <2>4, <2>5 DEF TlsRight
<1>5. CASE Trackers!Close
  <2> DEFINE flushed == {partial[c] : c \in Conns}
  <2>1. /\ UNCHANGED <<now, hsFired>> /\ partial' = [c \in Conns |-> 0]
        /\ hello' = [i \in DOMAIN hello |->
                       IF i \in flushed
                       THEN [hello[i] EXCEPT !.timeout = Trackers!Never] ELSE hello[i]]
    BY <1>5 DEF Trackers!Close
  <2> HIDE DEF flushed
  <2>2. ASSUME NEW j \in DOMAIN hello
        PROVE  /\ hello'[j] \in Hellos /\ hello'[j].conn = hello[j].conn
               /\ hello'[j].born = hello[j].born
               /\ hello'[j].timeout \in {hello[j].timeout, Trackers!Never}
    <3>1. hello'[j] = (IF j \in flushed
          THEN [hello[j] EXCEPT !.timeout = Trackers!Never] ELSE hello[j])
      BY <2>1
    <3>2. CASE j \in flushed
      BY <1>1, <1>3, <3>1, <3>2 DEF Hellos
    <3>3. CASE j \notin flushed
      BY <1>3, <3>1, <3>3
    <3> QED BY <3>2, <3>3
  <2>3. DOMAIN hello' = DOMAIN hello
    BY <2>1
  <2>4. hello' \in Seq(Hellos) /\ Len(hello') = Len(hello)
    <3>1. hello' \in [1 .. Len(hello) -> Hellos]
      BY <1>1, <2>1, <2>2
    <3> QED BY <1>1, <3>1
  <2>5. TlsTypes'
    BY <1>1, <1>2, <2>1, <2>3, <2>4 DEF Typed, TlsTypes
  <2>6. ASSUME NEW j \in DOMAIN hello PROVE HelloRight(j)'
    <3>1. ~(partial'[hello'[j].conn] = j)
      BY <1>3, <2>1, <2>2
    <3> QED BY <2>1, <2>2, <3>1 DEF TlsRight, HelloRight, Ahead, Trackers!Never
  <2> QED BY <2>1, <2>3, <2>5, <2>6 DEF TlsRight
<1> QED BY <1>4, <1>5

-----------------------------------------------------------------------------
\* Every step keeps the invariant.
LEMMA TrackersStep == TrackersInv /\ [Trackers!Next]_(Trackers!vars) => TrackersInv'
<1> SUFFICES ASSUME TrackersInv, [Trackers!Next]_(Trackers!vars) PROVE TrackersInv'
  OBVIOUS
<1> USE DEF TrackersInv
<1>1. ASSUME NEW c \in Conns, Trackers!Process(c) PROVE TrackersInv'
  <2>1. UNCHANGED <<now, Trackers!tls, stage>>
    BY <1>1 DEF Trackers!Process, Trackers!Process_new, Trackers!Process_known
  <2> QED BY <1>1, <2>1, ProcessStep, TlsUnchanged DEF Typed
<1>2. ASSUME NEW c \in Conns, NEW h \in {"client", "server"}, Trackers!Process_hello(c, h)
      PROVE  TrackersInv'
  <2>1. UNCHANGED <<now, Trackers!tcp, reports, resets, raced>> /\ stage' = stage
    BY <1>2 DEF Trackers!Process_hello, Trackers!history
  <2>2. TlsTypes' /\ TlsRight'
    BY <1>2, HelloStep
  <2>3. TcpTypes' /\ TcpRight'
    BY <2>1, TcpUnchanged
  <2> QED BY <2>1, <2>2, <2>3 DEF Typed
<1>3. CASE Trackers!close
  <2>1. UNCHANGED <<now, Trackers!tls>> /\ stage' = "tls"
    BY <1>3 DEF Trackers!close
  <2>2. TcpTypes' /\ TcpRight'
    BY <1>3, CloseStep
  <2> QED BY <2>1, <2>2, TlsUnchanged DEF Typed
<1>4. CASE Trackers!Close
  <2>1. UNCHANGED <<now, Trackers!tcp, reports, resets, raced>> /\ stage = "tls"
        /\ stage' = "closed"
    BY <1>4 DEF Trackers!Close, Trackers!history
  <2> QED BY <1>4, <2>1, HandshakeOver, TcpUnchanged DEF Typed
<1>5. ASSUME NEW i \in 1 .. MaxInfos, Trackers!timeout_fires(i)
             \/ Trackers!timeout_callback(i)
      PROVE  TrackersInv'
  <2>1. i \in Nat /\ i # 0
    BY TrackersAssumption
  <2>2. UNCHANGED <<now, Trackers!tls, stage>>
    BY <1>5 DEF Trackers!timeout_fires, Trackers!timeout_callback
  <2>3. TcpTypes' /\ TcpRight'
    BY <1>5, <2>1, TimerFires, TimerCallback
  <2> QED BY <2>2, <2>3, TlsUnchanged DEF Typed
<1>6. ASSUME NEW i \in 1 .. MaxHellos, Trackers!hs_timeout_fires(i)
             \/ Trackers!hs_timeout_callback(i)
      PROVE  TrackersInv'
  <2>1. i \in Nat /\ i # 0
    BY TrackersAssumption
  <2>2. UNCHANGED <<now, Trackers!tcp, reports, resets, raced>> /\ stage' = stage
    BY <1>6 DEF Trackers!hs_timeout_fires, Trackers!hs_timeout_callback, Trackers!history
  <2>3. TlsTypes' /\ TlsRight'
    BY <1>6, <2>1, HelloTimerFires, HandshakeOver
  <2>4. TcpTypes' /\ TcpRight'
    BY <2>2, TcpUnchanged
  <2> QED BY <2>2, <2>3, <2>4 DEF Typed
<1>7. CASE Trackers!Tick
  BY <1>7, TcpTick, TlsTick DEF Typed, Trackers!Tick
<1>8. CASE UNCHANGED Trackers!vars
  <2>1. UNCHANGED <<now, Trackers!tcp, reports, resets, raced>> /\ stage' = stage
        /\ UNCHANGED <<now, Trackers!tls>>
    BY <1>8 DEF Trackers!vars, Trackers!history
  <2>2. TcpTypes' /\ TcpRight'
    BY <2>1, TcpUnchanged
  <2>3. TlsTypes' /\ TlsRight'
    BY <2>1, TlsUnchanged
  <2> QED BY <2>1, <2>2, <2>3 DEF Typed
<1> QED BY <1>1, <1>2, <1>3, <1>4, <1>5, <1>6, <1>7, <1>8 DEF Trackers!Next

\* The invariant holds in every state.
LEMMA TrackersInvariant == Trackers!Spec => []TrackersInv
BY TrackersInit, TrackersStep, PTL DEF Trackers!Spec

\* The values of the fields: every index is that of an entry, and every timer is set to a
\* time within connectionTimeout, or not set.
THEOREM TrackersTypeTheorem == Trackers!Spec => []Trackers!TypeOK
<1>1. TrackersInv => Trackers!TypeOK
  <2> SUFFICES ASSUME TrackersInv PROVE Trackers!TypeOK
    OBVIOUS
  <2>1. now \in 0 .. MaxTime
    BY TrackersAssumption DEF TrackersInv, Typed, TcpTypes
  <2>2. ASSUME NEW i \in DOMAIN info
        PROVE  /\ info[i].conn \in Conns /\ info[i].src \in {"client", "server"}
               /\ info[i].initiator \in {"unknown", "source", "dest"}
               /\ info[i].end \in {"open", "closed", "reset"}
               /\ info[i].last \in 0 .. now
               /\ info[i].timeout \in now .. now + Timeout \cup {Trackers!Never}
    <3>1. info[i] \in Entries /\ EntryRight(i)
      BY DEF TrackersInv, Typed, TcpTypes, TcpRight
    <3> QED BY <2>1, <3>1, TrackersAssumption DEF Entries, EntryRight, Ahead
  <2> QED BY <2>1, <2>2 DEF TrackersInv, Typed, TcpTypes, TlsTypes, Trackers!TypeOK
<1> QED BY <1>1, TrackersInvariant, PTL

\* ReportedRight: an entry is reported once, whether its timer, an older entry's or Close
\* came first, and its summary is what the packets said
\* (tcp_conn_tracker/collector.go: flushConnection, Close, augmentWith).
THEOREM ReportTheorem == Trackers!Spec => []ReportedRight
<1>1. TrackersInv => ReportedRight
  BY DEF TrackersInv, TcpRight, Placed, EntryRight, InMap, ReportedRight,
    Trackers!ReportedRight, Trackers!ReportedOnce,
    Trackers!SummaryRight
<1> QED BY <1>1, TrackersInvariant, PTL

\* IdleIsFlushed: nothing stays in the maps for longer than connectionTimeout after the last
\* packet of a connection or the first hello of a handshake
\* (tcp_conn_tracker/collector.go, tls_conn_tracker/collector.go: timeouts).
THEOREM IdleTheorem == Trackers!Spec => []IdleIsFlushed
<1>1. TrackersInv => IdleIsFlushed
  <2> SUFFICES ASSUME TrackersInv, NEW c \in Conns
               PROVE  /\ active[c] # 0 => now - Trackers!Entry(c).last <= Timeout
                      /\ partial[c] # 0 => now - hello[partial[c]].born <= Timeout
    BY DEF IdleIsFlushed, Trackers!IdleIsFlushed
  <2>1. now \in Nat /\ Timeout \in Nat /\ now < Trackers!Never
    BY TrackersAssumption DEF TrackersInv, Typed, TcpTypes, Trackers!Never
  <2>2. ASSUME active[c] # 0, NEW i, i = active[c] PROVE now - info[i].last <= Timeout
    <3>1. i \in DOMAIN info /\ info[i] \in Entries /\ InMap(i) /\ EntryRight(i)
      BY <2>2 DEF TrackersInv, Typed, TcpTypes, TcpRight, Placed, InMap
    <3> QED BY <2>1, <3>1 DEF EntryRight, Ahead, Entries
  <2>3. ASSUME partial[c] # 0, NEW i, i = partial[c] PROVE now - hello[i].born <= Timeout
    <3>1. i \in DOMAIN hello /\ hello[i] \in Hellos /\ hello[i].conn = c /\ HelloRight(i)
      BY <2>3 DEF TrackersInv, Typed, TlsTypes, TlsRight
    <3> QED BY <2>1, <2>3, <3>1 DEF HelloRight, Ahead, Hellos
  <2> QED BY <2>2, <2>3 DEF Trackers!Entry
<1> QED BY <1>1, TrackersInvariant, PTL

\* BusyIsKept: while no packet comes between the firing of a timer and its callback, a
\* connection is flushed only after connectionTimeout without packets
\* (tcp_conn_tracker/collector.go: augmentWith, flushConnection).
THEOREM BusyTheorem == Trackers!Spec => BusyIsKept
<1>1. TrackersInv /\ [Trackers!Next]_(Trackers!vars) =>
        [\A c \in Conns :
           Trackers!Flushed(c) /\ c \notin raced =>
             now - Trackers!Entry(c).last >= Timeout]_(Trackers!vars)
  <2> SUFFICES ASSUME TrackersInv, Trackers!Next, NEW c \in Conns, Trackers!Flushed(c),
                      c \notin raced,
                      NEW m, m = active[c]
               PROVE  now - info[m].last >= Timeout
    BY DEF Trackers!Entry
  <2>1. m \in DOMAIN info /\ m # 0 /\ info[m].conn = c
    BY DEF Trackers!Flushed, TrackersInv, Typed, TcpTypes, TcpRight, Placed
  <2>2. stage = "open" /\ ~Trackers!close /\ ~Trackers!Close
    BY DEF Trackers!Flushed, Trackers!close, Trackers!Close, TrackersInv, TcpRight, Placed
  <2>3. ~\E d \in Conns : Trackers!Process(d)
    <3> SUFFICES ASSUME NEW d \in Conns, NEW p \in Trackers!Packets,
                        Trackers!Process_new(d, p[1], p[2])
                        \/ Trackers!Process_known(d, p[1], p[2])
                 PROVE  active'[c] = active[c] \/ active'[c] # 0
      BY DEF Trackers!Process, Trackers!Flushed
    <3>1. CASE active' = active
      BY <3>1
    <3>2. CASE active' = [active EXCEPT ![d] = Len(info')] /\ Len(info') # 0
      BY <3>2 DEF TrackersInv, Typed, TcpTypes
    <3>3. info \in Seq(Entries)
      BY DEF TrackersInv, Typed, TcpTypes
    <3>4. ASSUME Trackers!addConnection(d, p[1]) PROVE Len(info') # 0
      BY <3>3, <3>4 DEF Trackers!addConnection
    <3> QED BY <3>1, <3>2, <3>4 DEF Trackers!Process_new, Trackers!Process_known,
      Trackers!addConnection
  <2>4. active' # active
    BY DEF Trackers!Flushed
  <2>5. PICK i \in 1 .. MaxInfos : Trackers!timeout_callback(i)
    BY <2>2, <2>3, <2>4 DEF Trackers!Next, Trackers!Process_hello,
      Trackers!timeout_fires, Trackers!hs_timeout_fires, Trackers!hs_timeout_callback,
      Trackers!Tick, Trackers!tcp
  <2>6. i \in fired /\ i \in DOMAIN info /\ info[i].conn \in Conns
    <3>1. i \in fired /\ i \in DOMAIN info /\ info[i] \in Entries
      BY <2>5 DEF Trackers!timeout_callback, TrackersInv, Typed, TcpTypes
    <3> QED BY <3>1 DEF Entries
  <2>7. info[i].conn = c
    BY <2>5, <2>6 DEF Trackers!timeout_callback, Trackers!flushConnection,
      Trackers!Flushed, TrackersInv, Typed, TcpTypes
  <2>8. InMap(i) /\ info[i].timeout = Trackers!Never
    BY <2>2, <2>6, <2>7 DEF TrackersInv, TcpRight, TimerRight
  <2>9. i = m /\ EntryRight(i) /\ info[i] \in Entries
    BY <2>6, <2>7, <2>8 DEF InMap, TrackersInv, TcpRight, Typed, TcpTypes
  <2>10. now \in Nat /\ Timeout \in Nat /\ MaxTime \in Nat /\ info[i].last <= now
         /\ now <= MaxTime
         /\ info[i].last \in Nat
    BY <2>9, TrackersAssumption DEF TrackersInv, Typed, TcpTypes, Entries, EntryRight
  <2>11. now = info[i].last + Timeout
    BY <2>8, <2>9, <2>10 DEF EntryRight, Trackers!Never
  <2> QED BY <2>9, <2>10, <2>11
<1> QED BY <1>1, TrackersInvariant, PTL DEF Trackers!Spec, BusyIsKept, Trackers!BusyIsKept
=============================================================================
