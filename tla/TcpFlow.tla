------------------------------- MODULE TcpFlow -------------------------------
(***************************************************************************)
(* The reassembly of one direction of a TCP connection (tcpFlow, pcap/     *)
(* stream.go).  The assembler hands over the bytes of the direction, cut   *)
(* anywhere; the flow looks for a parser that accepts them, gives them to  *)
(* the parser until its message is complete, and begins again.             *)
(*                                                                         *)
(* It all happens in the goroutine that reads the packets.  reassembled is *)
(* split where it calls a parser, and where it calls itself for what is    *)
(* left of the last bytes.  The assembler and the parsers are libraries:   *)
(* they are modelled from the calls in stream.go and net_parse.go, and from *)
(* the parsers of the tests (pcap/util_test.go).                           *)
(***************************************************************************)
EXTENDS Naturals, Sequences

CONSTANT Streams \* what the peer may send, see MessageStream

VARIABLES
  stream,    \* what the peer sends; it may end anywhere
  delivered, \* the last byte that the assembler has handed over
  isEnd,     \* whether it was the last one (FIN or RST)
  closed,    \* ReassemblyComplete has been called
  pc,        \* "idle"; in reassembled: "select" or "parse"
  first,     \* the first byte that is handed over next (KeepFrom), or is now
  parser,    \* currentParser: the first of its bytes, or 0 for nil
  buf,       \* unusedAcceptBuf: the first of its bytes, or 0 if it is empty
  reported,  \* how many bytes have been sent to outChan, as messages or dropped
  msgs       \* the messages among them

vars == <<stream, delivered, isEnd, closed, pc, first, parser, buf, reported, msgs>>

Abstract == INSTANCE MessageStream WITH over <- isEnd \/ closed

ASSUME TcpFlowAssumption == \A st \in Streams : Abstract!WellFormed(st)

Starts == DOMAIN stream.kind

Size(from, to) == (to + 1) - from

\* The messages that a parser accepts, given the bytes from first on.
Accepted == {s \in Starts : first <= s /\ stream.head[s] <= delivered}
Earliest(s) == s \in Accepted /\ \A t \in Accepted : s <= t

-----------------------------------------------------------------------------
\* The assembler hands over what it has kept, and more; the last time, perhaps no
\* more.  A parser has its earlier bytes and gets the new ones.
reassembled(to, end) ==
  /\ pc = "idle" /\ ~isEnd /\ ~closed
  /\ to \in delivered .. stream.length
  /\ to > delivered \/ end
  /\ delivered' = to /\ isEnd' = end
  /\ pc' = IF parser = 0 THEN "select" ELSE "parse"
  /\ UNCHANGED <<stream, closed, first, parser, buf, reported, msgs>>

Select_Accept(s) ==
  /\ pc = "select" /\ Earliest(s)
  /\ pc' = "parse" /\ parser' = s
  /\ buf' = 0
  /\ reported' = reported + Size(first, s - 1)
  /\ UNCHANGED <<stream, delivered, isEnd, closed, first, msgs>>

\* Accepted, but the packet of the first byte is not known: all is dropped.
Select_no_ctx(s) ==
  /\ pc = "select" /\ Earliest(s) /\ s \in stream.noCtx
  /\ pc' = "idle" /\ first' = delivered + 1
  /\ buf' = 0
  /\ reported' = reported + Size(first, delivered)
  /\ UNCHANGED <<stream, delivered, isEnd, closed, parser, msgs>>

\* Mutant: what was discarded is kept.
Select_NeedMoreData_Mutant(keep) ==
  /\ pc = "select" /\ Accepted = {} /\ ~isEnd
  /\ keep \in first .. delivered + 1
  /\ \A s \in Starts : first <= s /\ s <= delivered => keep <= s
  /\ pc' = "idle"
  /\ buf' = IF keep <= delivered THEN keep ELSE 0
  /\ reported' = reported + Size(first, keep - 1)
  /\ UNCHANGED <<stream, delivered, isEnd, closed, parser, first, msgs>>

\* What may be the beginning of a message is kept, in the assembler and, for
\* reassemblyComplete, in unusedAcceptBuf.
Select_NeedMoreData(keep) ==
  /\ pc = "select" /\ Accepted = {} /\ ~isEnd
  /\ keep \in first .. delivered + 1
  /\ \A s \in Starts : first <= s /\ s <= delivered => keep <= s
  /\ pc' = "idle" /\ first' = keep
  /\ buf' = IF keep <= delivered THEN keep ELSE 0
  /\ reported' = reported + Size(first, keep - 1)
  /\ UNCHANGED <<stream, delivered, isEnd, closed, parser, msgs>>

\* Mutant: unusedAcceptBuf is not cleared.
Select_Reject_Mutant ==
  /\ pc = "select" /\ Accepted = {}
  /\ isEnd \/ \A s \in Starts : ~(first <= s /\ s <= delivered)
  /\ pc' = "idle" /\ first' = delivered + 1
  /\ reported' = reported + Size(first, delivered)
  /\ UNCHANGED <<stream, delivered, isEnd, closed, parser, buf, msgs>>

Select_Reject ==
  /\ pc = "select" /\ Accepted = {}
  /\ isEnd \/ \A s \in Starts : ~(first <= s /\ s <= delivered)
  /\ pc' = "idle" /\ first' = delivered + 1
  /\ buf' = 0
  /\ reported' = reported + Size(first, delivered)
  /\ UNCHANGED <<stream, delivered, isEnd, closed, parser, msgs>>

-----------------------------------------------------------------------------
\* What Parse returns.
Complete(to) ==
  \/ stream.kind[parser] = "whole" /\ to = stream.last[parser] /\ to <= delivered
  \/ stream.kind[parser] = "toEnd" /\ isEnd /\ to = delivered

Fails ==
  \/ stream.kind[parser] = "bad" /\ stream.last[parser] <= delivered
  \/ stream.kind[parser] # "toEnd" /\ isEnd /\ delivered < stream.last[parser]

\* Mutant: what is left of the last bytes is dropped.
Parse_complete_Mutant(to) ==
  /\ pc = "parse" /\ Complete(to)
  /\ msgs' = Append(msgs, parser)
  /\ reported' = reported + Size(parser, IF isEnd THEN delivered ELSE to)
  /\ parser' = 0
  /\ first' = IF isEnd THEN delivered + 1 ELSE to + 1
  /\ pc' = "idle"
  /\ UNCHANGED <<stream, delivered, isEnd, closed, buf>>

\* What the message has left unused is kept for the next call, or handled now if
\* there will be none.
Parse_complete(to) ==
  /\ pc = "parse" /\ Complete(to)
  /\ msgs' = Append(msgs, parser)
  /\ reported' = reported + Size(parser, to)
  /\ parser' = 0
  /\ first' = to + 1
  /\ pc' = IF isEnd /\ to < delivered THEN "select" ELSE "idle"
  /\ UNCHANGED <<stream, delivered, isEnd, closed, buf>>

\* All the bytes that the parser got are dropped.
Parse_error ==
  /\ pc = "parse" /\ Fails
  /\ reported' = reported + Size(parser, delivered)
  /\ parser' = 0
  /\ first' = delivered + 1
  /\ pc' = "idle"
  /\ UNCHANGED <<stream, delivered, isEnd, closed, buf, msgs>>

Parse_more ==
  /\ pc = "parse" /\ ~Fails /\ \A to \in 1 .. delivered : ~Complete(to)
  /\ first' = delivered + 1
  /\ pc' = "idle"
  /\ UNCHANGED <<stream, delivered, isEnd, closed, parser, buf, reported, msgs>>

-----------------------------------------------------------------------------
\* The connection has ended, or was idle for too long, or the capture ends; bytes
\* that the assembler keeps are not handed over.  A parser is told that there is
\* no more; else what has been waiting for a parser is dropped.
reassemblyComplete ==
  /\ pc = "idle" /\ ~closed
  /\ closed' = TRUE
  /\ parser' = 0
  /\ msgs' = IF parser # 0 /\ stream.kind[parser] = "toEnd" THEN Append(msgs, parser)
             ELSE msgs
  /\ reported' = CASE parser # 0 -> reported + Size(parser, delivered)
                   [] parser = 0 /\ buf # 0 -> reported + Size(buf, delivered)
                   [] OTHER -> reported
  /\ UNCHANGED <<stream, delivered, isEnd, pc, first, buf>>

-----------------------------------------------------------------------------
Init ==
  /\ stream \in Streams
  /\ delivered = 0 /\ isEnd = FALSE /\ closed = FALSE
  /\ pc = "idle" /\ first = 1 /\ parser = 0 /\ buf = 0
  /\ reported = 0 /\ msgs = <<>>

Next ==
  \/ \E to \in 0 .. stream.length, end \in BOOLEAN : reassembled(to, end)
  \/ \E s \in Starts : Select_Accept(s) \/ Select_no_ctx(s)
  \/ \E keep \in 1 .. stream.length + 1 : Select_NeedMoreData(keep)
  \/ Select_Reject
  \/ \E to \in 1 .. stream.length : Parse_complete(to)
  \/ Parse_error
  \/ Parse_more
  \/ reassemblyComplete

Spec == Init /\ [][Next]_vars

-----------------------------------------------------------------------------
(***************************************************************************)
(* Properties.                                                             *)
(***************************************************************************)
\* The values of the flow's fields.
TypeOK ==
  /\ Abstract!WellFormed(stream)
  /\ delivered \in 0 .. stream.length
  /\ isEnd \in BOOLEAN /\ closed \in BOOLEAN
  /\ pc \in {"idle", "select", "parse"}
  /\ first \in 1 .. delivered + 1
  /\ parser \in Starts \cup {0}
  /\ buf \in 0 .. delivered
  /\ reported \in 0 .. stream.length
  /\ msgs \in Seq(Starts)

\* The messages of the stream are found, in order, however it was cut, and the
\* sizes of what is reported in between add up (pcap/stream_test.go has examples).
Implements == Abstract!Spec

\* When a direction has ended, every byte of it has been reported.  Only those are
\* not that came behind a complete message, in the same packet, and were not
\* followed by any before the connection was given up (stream.go:195).
EndAccounted ==
  pc = "idle" /\ (isEnd \/ closed) =>
    \/ reported = delivered
    \/ ~isEnd /\ first <= delivered /\ buf = 0
=============================================================================
