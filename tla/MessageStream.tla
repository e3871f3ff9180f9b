---------------------------- MODULE MessageStream ----------------------------
(***************************************************************************)
(* What the reassembly of one direction of a TCP connection promises,      *)
(* whatever packets the bytes came in: its messages are reported in order, *)
(* each once, and every other byte is reported as dropped.  A message may  *)
(* be dropped only behind one that cannot be parsed.                       *)
(*                                                                         *)
(* The bytes of a stream are numbered from 1.  Messages are named by their *)
(* first byte.                                                             *)
(***************************************************************************)
EXTENDS Naturals, Sequences

CONSTANT Streams \* what the peer may send, all of them WellFormed

\* "whole": the message ends with byte last.  "toEnd": it ends with the stream.
\* "bad": it looks like a message, until its parser fails at byte last.  A parser
\* takes a message for its own when it has seen byte head.  The packet that brought
\* the first byte of a message of noCtx may not be known.
Kinds == {"whole", "toEnd", "bad"}

WellFormed(st) ==
  LET Starts == DOMAIN st.kind IN
  /\ st.length \in Nat
  /\ Starts \subseteq 1 .. st.length
  /\ st.kind \in [Starts -> Kinds]
  /\ st.noCtx \subseteq Starts
  /\ st.head \in [Starts -> Nat] /\ st.last \in [Starts -> Nat]
  /\ \A s \in Starts :
       /\ s <= st.head[s] /\ st.head[s] <= st.last[s]
       /\ st.last[s] <= st.length
       /\ st.kind[s] = "toEnd" => st.last[s] = st.length
       /\ \A t \in Starts : s < t => st.last[s] < t

VARIABLES
  stream,
  reported, \* how many bytes have been reported, in messages or as dropped
  msgs,     \* the messages that have been reported
  over      \* whether more bytes may come

vars == <<stream, reported, msgs, over>>

Starts == DOMAIN stream.kind

Unparseable(s) == s \in Starts /\ (s \in stream.noCtx \/ stream.kind[s] = "bad")

\* No message lies between the two bytes.
NoMessage(from, to) ==
  ~ \E s \in Starts : /\ stream.kind[s] = "whole"
                      /\ from <= s /\ stream.last[s] <= to

Report(s, to) ==
  /\ s \in Starts /\ s = reported + 1
  /\ \/ stream.kind[s] = "whole" /\ to = stream.last[s]
     \/ stream.kind[s] = "toEnd" /\ to >= stream.head[s] /\ over'
  /\ reported' = to
  /\ msgs' = Append(msgs, s)

Drop(to) ==
  /\ to > reported
  /\ \/ NoMessage(reported + 1, to)
     \/ \E s \in reported + 1 .. to :
          Unparseable(s) /\ NoMessage(reported + 1, s - 1)
  /\ reported' = to
  /\ UNCHANGED msgs

Init ==
  /\ stream \in Streams
  /\ reported = 0 /\ msgs = <<>> /\ over = FALSE

Next ==
  /\ over => over'
  /\ \/ \E to \in 0 .. stream.length : Drop(to) \/ \E s \in Starts : Report(s, to)
     \/ UNCHANGED <<reported, msgs>>
  /\ UNCHANGED stream

Spec == Init /\ [][Next]_vars
=============================================================================
