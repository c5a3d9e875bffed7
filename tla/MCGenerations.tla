----------------------------- MODULE MCGenerations -----------------------------
(* Instances of Generations for TLC. *)
EXTENDS Generations, TLC

CONSTANTS r1, r2

\* One request of every kind while the source changes twice, every pair of
\* requests while it changes once, and a metadata request after another one.
SomeScenarios ==
    {[asks |-> (r1 :> k @@ r2 :> None), writes |-> 2, overlap |-> FALSE] : k \in Kinds}
    \cup {[asks |-> (r1 :> k @@ r2 :> l), writes |-> 1, overlap |-> TRUE] :
             k \in {"extract", "metadata"}, l \in {"list", "metadata"}}
    \cup {[asks |-> (r1 :> "metadata" @@ r2 :> "metadata"), writes |-> 2,
            overlap |-> FALSE]}
================================================================================
