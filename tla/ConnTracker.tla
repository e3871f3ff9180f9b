----------------------------- MODULE ConnTracker -----------------------------
(***************************************************************************)
(* The connection trackers (tcp_conn_tracker and tls_conn_tracker) as they *)
(* are chained in front of the other collectors of an interface: the TCP   *)
(* tracker summarises the packets of each connection, the TLS tracker the  *)
(* hellos of each handshake.                                               *)
(*                                                                         *)
(* Goroutines: the capture goroutine, which calls Process for one packet   *)
(* after the other and then Close, and one for each timer that has fired.  *)
(* A handler holds the mutex of its tracker from its first to its last     *)
(* step, what it calls downstream included, so that it is one action; a    *)
(* timer's goroutine waits for the mutex between firing and its callback.  *)
(*                                                                         *)
(* Time is counted in units.  Timers fire, and their callbacks get the     *)
(* mutex, before the next unit begins.                                     *)
(***************************************************************************)
EXTENDS Naturals, Sequences

CONSTANTS
  Conns,    \* akid.ConnectionID
  Timeout,  \* connectionTimeout of both trackers
  MaxInfos, \* bound: entries that are ever made in the TCP tracker
  MaxHellos,\* bound: entries that are ever made in the TLS tracker
  MaxTime   \* bound: the time at which the model stops

VARIABLES
  now,
  active,   \* activeConnections of the TCP tracker: connection -> entry or 0
  info,     \* its entries (connectionInfo), those made so far
  fired,    \* the entries whose timer's goroutine waits for the mutex
  partial,  \* activeConnections of the TLS tracker: connection -> entry or 0
  hello,    \* its entries
  hsFired,  \* the entries whose timer's goroutine waits for the mutex
  stage,    \* "open"; "tls": the TCP tracker is closed; "closed": both are
  reports,  \* how often each entry of the TCP tracker was reported
  resets,   \* the entries for which a reset was seen
  raced     \* the connections with a timer that was reset after it had fired

tcp == <<active, info, fired>>
tls == <<partial, hello, hsFired>>
history == <<reports, resets, raced>>
vars == <<now, tcp, tls, stage, history>>

Never == MaxTime + Timeout + 1
Times == 0 .. MaxTime + Timeout

\* The client opens the connection.  A SYN comes from it, a SYN-ACK from the
\* server; an "ACK" has no payload and no other flag, "DATA" has a payload.
Packets ==
  {<<"client", "SYN">>, <<"server", "SYNACK">>}
  \cup {"client", "server"} \X {"ACK", "DATA", "FIN", "RST"}

-----------------------------------------------------------------------------
(***************************************************************************)
(* The TCP tracker.                                                        *)
(***************************************************************************)
Entry(c) == info[active[c]]

\* The flags of the first packet are not looked at.
addConnection(c, from) ==
  /\ Len(info) < MaxInfos
  /\ info' = Append(info, [conn |-> c, src |-> from, initiator |-> "unknown",
                           end |-> "open", last |-> now,
                           timeout |-> now + Timeout])
  /\ active' = [active EXCEPT ![c] = Len(info')]
  /\ reports' = Append(reports, 0)

\* "source" and "dest" are the ends of the first packet of the entry.
Initiator(e, from, flags) ==
  IF e.initiator # "unknown" \/ flags \notin {"SYN", "SYNACK"} THEN e.initiator
  ELSE IF (e.src = from) = (flags = "SYN") THEN "source"
  ELSE "dest"

\* Mutant: a FIN after a reset makes it an orderly end.
EndState_Mutant(e, flags) ==
  CASE flags = "FIN" -> "closed" [] flags = "RST" -> "reset" [] OTHER -> e.end

EndState(e, flags) ==
  CASE flags = "FIN" /\ e.end = "open" -> "closed"
    [] flags = "RST" -> "reset"
    [] OTHER -> e.end

\* Mutant: the timer is not set again.
augmentWith_Mutant(e, from, flags) ==
  [e EXCEPT !.last = now,
            !.initiator = Initiator(e, from, flags),
            !.end = EndState(e, flags)]

\* Timer.Reset.  It does not stop a goroutine that the timer has started.
augmentWith(e, from, flags) ==
  [e EXCEPT !.last = now,
            !.initiator = Initiator(e, from, flags),
            !.end = EndState(e, flags),
            !.timeout = now + Timeout]

\* A packet of a connection that is not in the map begins an entry, and goes no
\* further.  Bare ACKs and resets do not: they come after a connection's end.
Process_new(c, from, flags) ==
  /\ stage = "open" /\ active[c] = 0
  /\ IF flags \in {"ACK", "RST"} THEN UNCHANGED <<info, active, reports>>
                                 ELSE addConnection(c, from)
  /\ UNCHANGED <<now, fired, tls, stage, resets, raced>>

\* Any other packet is passed on, too.
Process_known(c, from, flags) ==
  LET i == active[c] IN
  /\ stage = "open" /\ i # 0
  /\ info' = [info EXCEPT ![i] = augmentWith(@, from, flags)]
  /\ resets' = IF flags = "RST" THEN resets \cup {i} ELSE resets
  /\ raced' = IF i \in fired THEN raced \cup {c} ELSE raced
  /\ UNCHANGED <<now, active, fired, tls, stage, reports>>

Process(c) == \E p \in Packets : Process_new(c, p[1], p[2]) \/ Process_known(c, p[1], p[2])

timeout_fires(i) ==
  /\ i <= Len(info) /\ info[i].timeout = now
  /\ info' = [info EXCEPT ![i].timeout = Never]
  /\ fired' = fired \cup {i}
  /\ UNCHANGED <<now, active, tls, stage, history>>

\* The callback looks for its connection, which may have another entry by then.
flushConnection(i) ==
  LET c == info[i].conn IN
  IF active[c] = 0 THEN UNCHANGED <<reports, active>>
  ELSE /\ reports' = [reports EXCEPT ![active[c]] = @ + 1]
       /\ active' = [active EXCEPT ![c] = 0]

timeout_callback(i) ==
  /\ i \in fired
  /\ fired' = fired \ {i}
  /\ flushConnection(i)
  /\ UNCHANGED <<now, info, tls, stage, resets, raced>>

\* Close: report every entry and stop its timer; then the TLS tracker is closed.
close ==
  /\ stage = "open"
  /\ stage' = "tls"
  /\ LET flushed == {active[c] : c \in Conns} IN
     /\ info' = [i \in DOMAIN info |->
                   IF i \in flushed THEN [info[i] EXCEPT !.timeout = Never] ELSE info[i]]
     /\ reports' = [i \in DOMAIN reports |->
                      IF i \in flushed THEN reports[i] + 1 ELSE reports[i]]
  /\ active' = [c \in Conns |-> 0]
  /\ UNCHANGED <<now, fired, tls, resets, raced>>

-----------------------------------------------------------------------------
(***************************************************************************)
(* The TLS tracker.                                                        *)
(***************************************************************************)
\* ensureConnection, AddClientHello or AddServerHello, flushConnection.  The
\* libraries refuse a second hello of the same kind (taken from the error that
\* the calls return).  A completed handshake is reported and leaves the map; its
\* timer goes on.
Process_hello(c, h) ==
  /\ stage = "open"
  /\ IF partial[c] = 0
     THEN /\ Len(hello) < MaxHellos
          /\ hello' = Append(hello, [conn |-> c, hello |-> h, born |-> now,
                                     timeout |-> now + Timeout, complete |-> FALSE])
          /\ partial' = [partial EXCEPT ![c] = Len(hello')]
     ELSE /\ hello[partial[c]].hello # h
          /\ hello' = [hello EXCEPT ![partial[c]].complete = TRUE]
          /\ partial' = [partial EXCEPT ![c] = 0]
  /\ UNCHANGED <<now, tcp, hsFired, stage, history>>

hs_timeout_fires(i) ==
  /\ i <= Len(hello) /\ hello[i].timeout = now
  /\ hello' = [hello EXCEPT ![i].timeout = Never]
  /\ hsFired' = hsFired \cup {i}
  /\ UNCHANGED <<now, tcp, partial, stage, history>>

\* Mutant: an entry that is not complete is left where it is.
hs_timeout_callback_Mutant(i) ==
  /\ i \in hsFired
  /\ hsFired' = hsFired \ {i}
  /\ partial' = IF hello[i].complete THEN [partial EXCEPT ![hello[i].conn] = 0]
                                     ELSE partial
  /\ UNCHANGED <<now, tcp, hello, stage, history>>

\* The callback deletes what the map has for its connection.
hs_timeout_callback(i) ==
  /\ i \in hsFired
  /\ hsFired' = hsFired \ {i}
  /\ partial' = [partial EXCEPT ![hello[i].conn] = 0]
  /\ UNCHANGED <<now, tcp, hello, stage, history>>

Close ==
  /\ stage = "tls"
  /\ stage' = "closed"
  /\ hello' = [i \in DOMAIN hello |->
                 IF i \in {partial[c] : c \in Conns}
                 THEN [hello[i] EXCEPT !.timeout = Never] ELSE hello[i]]
  /\ partial' = [c \in Conns |-> 0]
  /\ UNCHANGED <<now, tcp, hsFired, history>>

-----------------------------------------------------------------------------
Tick ==
  /\ now < MaxTime
  /\ fired = {} /\ hsFired = {}
  /\ \A i \in DOMAIN info : info[i].timeout # now
  /\ \A i \in DOMAIN hello : hello[i].timeout # now
  /\ now' = now + 1
  /\ UNCHANGED <<tcp, tls, stage, history>>

Init ==
  /\ now = 0
  /\ active = [c \in Conns |-> 0] /\ info = <<>> /\ fired = {}
  /\ partial = [c \in Conns |-> 0] /\ hello = <<>> /\ hsFired = {}
  /\ stage = "open"
  /\ reports = <<>> /\ resets = {} /\ raced = {}

Next ==
  \/ \E c \in Conns : Process(c) \/ \E h \in {"client", "server"} : Process_hello(c, h)
  \/ close
  \/ Close
  \/ \E i \in 1 .. MaxInfos : timeout_fires(i) \/ timeout_callback(i)
  \/ \E i \in 1 .. MaxHellos : hs_timeout_fires(i) \/ hs_timeout_callback(i)
  \/ Tick

Spec == Init /\ [][Next]_vars

-----------------------------------------------------------------------------
(***************************************************************************)
(* Properties.                                                             *)
(***************************************************************************)
\* The values of the trackers' fields.
TypeOK ==
  /\ now \in 0 .. MaxTime
  /\ active \in [Conns -> 0 .. Len(info)]
  /\ \A i \in DOMAIN info :
       /\ info[i].conn \in Conns
       /\ info[i].src \in {"client", "server"}
       /\ info[i].initiator \in {"unknown", "source", "dest"}
       /\ info[i].end \in {"open", "closed", "reset"}
       /\ info[i].last \in 0 .. now
       /\ info[i].timeout \in now .. now + Timeout \cup {Never}
  /\ fired \subseteq DOMAIN info
  /\ partial \in [Conns -> 0 .. Len(hello)]
  /\ hsFired \subseteq DOMAIN hello
  /\ stage \in {"open", "tls", "closed"}

\* An entry is in the map under its connection, or it has been reported: once,
\* whether its timer, a timer of an older entry, or Close came first; and none
\* is left when the tracker is closed.
ReportedOnce ==
  /\ \A i \in DOMAIN info : reports[i] = (IF active[info[i].conn] = i THEN 0 ELSE 1)
  /\ stage # "open" => \A c \in Conns : active[c] = 0

\* What is said of a connection is what its packets said, in whatever order and
\* from whichever packet on they were captured: the initiator is the client or
\* unknown, and a reset is not taken for an orderly end.
SummaryRight ==
  \A i \in DOMAIN info :
    /\ info[i].initiator # "unknown" =>
         (info[i].initiator = "source" <=> info[i].src = "client")
    /\ i \in resets => info[i].end = "reset"

\* The report of a connection is sent once and says what is so.
ReportedRight == ReportedOnce /\ SummaryRight

\* Neither map keeps what nothing more is heard of: an idle connection is
\* reported, and a handshake given up, within connectionTimeout.
IdleIsFlushed ==
  \A c \in Conns :
    /\ active[c] # 0 => now - Entry(c).last <= Timeout
    /\ partial[c] # 0 => now - hello[partial[c]].born <= Timeout

Flushed(c) == active[c] # 0 /\ active'[c] = 0 /\ stage' = "open"

\* A connection with packets in every period of connectionTimeout is one entry:
\* its timer is set again with every packet.  (As long as no packet came between
\* the firing of a timer and its callback.)
BusyIsKept ==
  [][\A c \in Conns :
       Flushed(c) /\ c \notin raced => now - Entry(c).last >= Timeout]_vars
=============================================================================
