---------------------------- MODULE SingleFlight ----------------------------
(***************************************************************************)
(* What the metadata cache promises, without locks, counters, attempt      *)
(* identifiers or wake-ups: at most one scan at a time, and a failure is   *)
(* owed to the callers that joined the scan until each has taken it.       *)
(***************************************************************************)
CONSTANT Callers

VARIABLES cell,     \* "empty", "busy", "ready" or "failed"
          scanner,  \* the callers scanning the file
          owed      \* the callers that joined and have not left

vars == <<cell, scanner, owed>>

Init == cell = "empty" /\ scanner = {} /\ owed = {}

\* An empty cell elects one caller.
Elect(c) ==
    /\ cell = "empty"
    /\ scanner = {}
    /\ cell' = "busy"
    /\ scanner' = {c}
    /\ owed' = {}

Join(c) ==
    /\ cell = "busy"
    /\ c \notin scanner
    /\ owed' = owed \cup {c}
    /\ UNCHANGED <<cell, scanner>>

\* A caller gives up waiting, or takes the failure it is owed.
Leave(c) ==
    /\ cell \in {"busy", "failed"}
    /\ c \in owed
    /\ owed' = owed \ {c}
    /\ UNCHANGED <<cell, scanner>>

Succeed(c) ==
    /\ scanner = {c}
    /\ cell' = "ready"
    /\ scanner' = {}
    /\ owed' = {}

Fail(c) ==
    /\ scanner = {c}
    /\ cell' = "failed"
    /\ scanner' = {}
    /\ UNCHANGED owed

\* The scanner was cancelled: nothing is owed, somebody may start afresh.
Abandon(c) ==
    /\ scanner = {c}
    /\ cell' = "empty"
    /\ scanner' = {}
    /\ owed' = {}

\* A failure is forgotten only when it is owed to nobody.
Forget ==
    /\ cell = "failed"
    /\ owed = {}
    /\ cell' = "empty"
    /\ UNCHANGED <<scanner, owed>>

Next ==
    \/ \E c \in Callers :
          Elect(c) \/ Join(c) \/ Leave(c) \/ Succeed(c) \/ Fail(c) \/ Abandon(c)
    \/ Forget

Spec == Init /\ [][Next]_vars
=============================================================================
