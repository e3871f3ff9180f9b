------------------------- MODULE MCBackendCollector -------------------------
(***************************************************************************)
(* A small instance of BackendCollector for TLC.                           *)
(***************************************************************************)
EXTENDS BackendCollector, TLC

CONSTANTS q1, r1, q2, k1

\* Three messages with one key.  Keys are made from TCP sequence and
\* acknowledgement numbers, and nothing in the collector excludes a third
\* message with the key of a pair.
OneKey == q1 :> k1 @@ r1 :> k1 @@ q2 :> k1
=============================================================================
