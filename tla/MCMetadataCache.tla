-------------------------- MODULE MCMetadataCache --------------------------
(* Small instances of MetadataCache for TLC.                               *)
EXTENDS MetadataCache, TLC

CONSTANTS t1, t2, t3

\* One thread per entry point, two threads for each of them.
EachEntryPointTwice ==
    (t1 :> {"ctx", "retry"} @@ t2 :> {"plain", "ctx"} @@ t3 :> {"plain", "retry"})
===========================================================================
