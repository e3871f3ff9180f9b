---------------------------- MODULE MCDaemonset ----------------------------
(***************************************************************************)
(* Small instances of Daemonset for TLC.  Event handlers are               *)
(* interchangeable.                                                        *)
(***************************************************************************)
EXTENDS Daemonset, TLC

\* Two states that differ only in the contents of unused objects are the same.
View ==
  <<phase, podMap, [a \in Args |-> IF a \in FreeArgs THEN <<>> ELSE
      <<owner[a], mon[a], chan[a], closed[a], proc[a]>>],
    pc, uid, arg, todo, uids, stat, watching, down, sig, notified, late>>

HandlerSymmetry == Permutations(Handlers)
=============================================================================
