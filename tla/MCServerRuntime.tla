-------------------------- MODULE MCServerRuntime --------------------------
(* Small instances of ServerRuntime for TLC.                               *)
EXTENDS ServerRuntime, TLC

\* One connection that meets everything, on two requests; two connections that
\* share the queue and use the same IDs, each allowed one active request.
SafetyLoads ==
    {[conns |-> {c}, kinds |-> {"query", "cancel", "late", "bad"},
      faults |-> {"half", "full", "stall", "shutdown"}, requests |-> 2,
      active |-> 2, seq |-> 2] : c \in Conns}
    \cup {[conns |-> Conns, kinds |-> {"query"}, faults |-> {}, requests |-> 3,
           active |-> 1, seq |-> 1]}

LivenessLoads ==
    {[conns |-> Conns, kinds |-> {"query"}, faults |-> {"half", "stall", "shutdown"},
      requests |-> 2, active |-> 2, seq |-> 1]}

IdAndConnSymmetry == Permutations(Ids) \cup Permutations(Conns)
===========================================================================
