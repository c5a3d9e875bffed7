-------------------------------- MODULE Compare --------------------------------
(***************************************************************************)
(* The comparison of two opened waveforms (src/query/compare.rs).  Each    *)
(* side is collected by the query engine, one after the other, and the two *)
(* timelines of every signal are merged by time.  The composition leaves   *)
(* queries that compare nothing to the engine.                             *)
(*                                                                         *)
(* q.targets holds the names both files have, sorted and filtered;         *)
(* q.backends and q.exponents describe both files.                         *)
(***************************************************************************)
EXTENDS QueryEngine

CONSTANT Never      \* u64::MAX, the time of a timeline that is used up

\* Times are 64 bit numbers, and a limit of mismatches is a natural number.
ASSUME CompareAssumption ==
    /\ Never \in Nat
    /\ \A command \in Commands["compare"] : command.kind = "time" => command.time <= Never
    /\ \A query \in Queries : query.op = "compare" =>
           /\ "max_mismatches" \in DOMAIN query
           /\ IsOption(query.max_mismatches)

VARIABLES
    stage,      \* where the comparison is; "done" when there is none
    lines,      \* the rows collected from each side
    behind,     \* the first source has changed while the second is read
    k,          \* the signal being merged
    at,         \* next entry of each of its timelines
    current,    \* its current value on each side
    count,      \* how many mismatches it has
    mismatches, \* what has been found
    outcome,    \* how the comparison ended
    apart       \* observation: the first source had changed when the second was read

merge == <<k, at, current, count, mismatches>>
comparison == <<stage, lines, behind, k, at, current, count, mismatches, outcome, apart>>
compareVars == <<vars, comparison>>

Sides == {1, 2}

\* A timescale of 1, 10 or 100 units, if the tick has one.  A VCD tick is that
\* of its header; an exponent without a timescale stands for a missing one.
timescale_from_exponent(exponent) ==
    {timescale \in (0..2) \X {0, -3, -6, -9, -12, -15} :
        timescale[1] + timescale[2] = exponent}

compatible_timescale ==
    LET timescale(s) == timescale_from_exponent(q.exponents[s]) IN
    CASE q.backends = <<"vcd", "vcd">> -> TRUE
      [] q.backends = <<"fst", "fst">> -> q.exponents[1] = q.exponents[2]
      [] OTHER -> timescale(1) # None /\ timescale(1) = timescale(2)

Unknown == Text(<<"x">>)
is_unknown(value) == value.kind = "text" /\ value.normal \in {"x", "z"}

\* Integers, texts without case and mixed pairs all agree as normalised text.
values_match(first, second) ==
    \/ q.ignore_unknown /\ (is_unknown(first) \/ is_unknown(second))
    \/ first.normal = second.normal

CompareInit ==
    /\ Init
    /\ stage = IF q.op = "compare" THEN "start" ELSE "done"
    /\ lines = [s \in Sides |-> <<>>]
    /\ behind = FALSE
    /\ k = 1
    /\ at = [s \in Sides |-> 1]
    /\ current = [s \in Sides |-> Unknown]
    /\ count = 0
    /\ mismatches = <<>>
    /\ outcome = "none"
    /\ apart = FALSE

Done(error) == stage' = "done" /\ outcome' = error
Go(next) == stage' = next /\ UNCHANGED outcome

Start ==
    /\ stage = "start"
    /\ IF ~compatible_timescale THEN Done("unsupported")
       ELSE IF cancelled THEN Done("cancelled")
       ELSE IF Exceeds(Len(q.targets), q.max_signals) THEN Done("signals")
       ELSE Go("first")
    /\ UNCHANGED <<vars, lines, behind, merge, apart>>

\* The engine collects a side, or serves a query that compares nothing.
Collect ==
    /\ stage \in {"first", "second"} \/ (stage = "done" /\ outcome = "none")
    /\ Step
    /\ UNCHANGED comparison

\* validate_complete of a side: check, validate, check.
Validated(stale, next) ==
    IF cancelled THEN Done("cancelled") ELSE IF stale THEN Done("stale") ELSE Go(next)

Collected(next) == IF result # "ok" THEN Done(result) ELSE Validated(changed, next)

\* The second scan starts from a fresh stream, over the other file.
CollectedFirst ==
    /\ stage = "first" /\ phase = "ended"
    /\ Collected("second")
    /\ IF stage' = "second"
       THEN /\ lines' = [lines EXCEPT ![1] = rows]
            /\ q' = [q EXCEPT !.backend = q.backends[2]]
            /\ file' = <<>> /\ time' = 0 /\ rows' = <<>> /\ bytes' = 0
            /\ phase' = "resolve" /\ result' = "none"
       ELSE UNCHANGED <<lines, q, file, time, rows, bytes, phase, result>>
    /\ UNCHANGED <<pending, consumer, environment, late, mixed, behind, merge, apart>>

CollectedSecond ==
    /\ stage = "second" /\ phase = "ended"
    /\ Collected("merge")
    /\ lines' = [lines EXCEPT ![2] = rows]
    /\ apart' = behind
    /\ UNCHANGED <<vars, behind, merge>>

\* values1.get(signal): the entries of a name, in their order.
Timeline(s, name) ==
    FlattenSeq([i \in DOMAIN lines[s] |->
        IF lines[s][i].signal = name THEN <<lines[s][i]>> ELSE <<>>])

TimeOf(line, i) == IF i <= Len(line) THEN line[i].time ELSE Never

\* The entry after those of one time.
After(line, i, t) ==
    CHOOSE n \in i..(Len(line) + 1) :
        /\ \A m \in i..(n - 1) : line[m].time = t
        /\ n <= Len(line) => line[n].time # t

NextSignal ==
    /\ k' = k + 1
    /\ at' = [s \in Sides |-> 1]
    /\ current' = [s \in Sides |-> Unknown]
    /\ count' = 0

\* Mutant: the first event of a time counts, not the last.
EntryBefore(line, i, n) == line[i]

Entry(line, i, n) == line[n - 1]

\* The values both sides have at the next time, and their comparison.
Judge(name, t, ends) ==
    LET line(s) == Timeline(s, name)
        now == [s \in Sides |-> IF ends[s] > at[s] THEN Entry(line(s), at[s], ends[s]).value
                                ELSE current[s]]
    IN  IF values_match(now[1], now[2])
        THEN /\ at' = ends /\ current' = now /\ Go("merge")
             /\ UNCHANGED <<k, count, mismatches>>
        ELSE IF cancelled THEN Done("cancelled") /\ UNCHANGED merge
        ELSE /\ mismatches' = Append(mismatches,
                    [signal |-> name, time |-> t, values |-> now])
             /\ Go("merge")
             /\ IF \E max \in q.max_mismatches : count + 1 >= max
                THEN NextSignal
                ELSE at' = ends /\ current' = now /\ count' = count + 1 /\ UNCHANGED k

\* One iteration of the loop over times, or of the loop over signals.
Tick ==
    /\ stage = "merge" /\ k <= Len(q.targets)
    /\ LET name == q.targets[k]
           heads == [s \in Sides |-> TimeOf(Timeline(s, name), at[s])]
           t == Min(Range(heads))
       IN  IF cancelled /\ at = [s \in Sides |-> 1] THEN Done("cancelled") /\ UNCHANGED merge
           ELSE IF t = Never THEN NextSignal /\ Go("merge") /\ UNCHANGED mismatches
           ELSE Judge(name, t, [s \in Sides |-> After(Timeline(s, name), at[s], t)])
    /\ UNCHANGED <<vars, lines, behind, apart>>

Merged ==
    /\ stage = "merge" /\ k > Len(q.targets)
    /\ IF cancelled THEN Done("cancelled") ELSE Go("revalidate first")
    /\ UNCHANGED <<vars, lines, behind, merge, apart>>

\* Mutant: only the second source is validated again.
RevalidateFirstNever ==
    /\ stage = "revalidate first"
    /\ Validated(FALSE, "revalidate second")
    /\ UNCHANGED <<vars, lines, behind, merge, apart>>

RevalidateFirst ==
    /\ stage = "revalidate first"
    /\ Validated(behind, "revalidate second")
    /\ UNCHANGED <<vars, lines, behind, merge, apart>>

RevalidateSecond ==
    /\ stage = "revalidate second"
    /\ Validated(changed, "publish")
    /\ UNCHANGED <<vars, lines, behind, merge, apart>>

Publish ==
    /\ stage = "publish"
    /\ Done(IF cancelled THEN "cancelled" ELSE "ok")
    /\ UNCHANGED <<vars, lines, behind, merge, apart>>

CompareStep ==
    \/ Start \/ Collect \/ CollectedFirst \/ CollectedSecond \/ Tick \/ Merged
    \/ RevalidateFirst \/ RevalidateSecond \/ Publish

\* The engine knows one source, the one it reads; a comparison goes on after
\* the engine has ended, and the first source may change while the second is read.
EngineDisturbed == (Cancel \/ ReplaceSource) /\ UNCHANGED comparison

CancelLater ==
    /\ phase = "ended" /\ stage # "done" /\ ~cancelled
    /\ cancelled' = TRUE
    /\ UNCHANGED <<q, file, time, pending, rows, bytes, consumer, phase, result, changed, late,
                   mixed, comparison>>

ReplaceLater ==
    /\ phase = "ended" /\ stage # "done" /\ ~changed
    /\ changed' = TRUE
    /\ UNCHANGED <<q, file, time, pending, rows, bytes, consumer, phase, result, cancelled, late,
                   mixed, comparison>>

ReplaceFirst ==
    /\ stage \notin {"start", "first", "done"} /\ ~behind
    /\ behind' = TRUE
    /\ UNCHANGED <<vars, stage, lines, merge, outcome, apart>>

Disturb == EngineDisturbed \/ CancelLater \/ ReplaceLater \/ ReplaceFirst

CompareSpec ==
    CompareInit /\ [][CompareStep \/ Disturb]_compareVars /\ WF_compareVars(CompareStep)

--------------------------------------------------------------------------------
(***************************************************************************)
(* Properties.                                                             *)
(***************************************************************************)
Sorted(line) == \A i \in 2..Len(line) : line[i - 1].time <= line[i].time

ValueAt(line, t) ==
    LET past == {i \in DOMAIN line : line[i].time <= t}
    IN  IF past = {} THEN Unknown ELSE line[Max(past)].value

Mismatch(name, t) ==
    [signal |-> name, time |-> t, values |-> [s \in Sides |-> ValueAt(Timeline(s, name), t)]]

Differs(name, t) ==
    LET values == Mismatch(name, t).values IN
    /\ \E s \in Sides : \E i \in DOMAIN Timeline(s, name) : Timeline(s, name)[i].time = t
    /\ ~values_match(values[1], values[2])

\* What is to be told of a name and the times before t, in their order.
Told(name, t) ==
    FlattenSeq([i \in 1..t |->
        IF Differs(name, i - 1) THEN <<Mismatch(name, i - 1)>> ELSE <<>>])

Mismatches(name) ==
    LET all == Told(name, Never)
    IN  SubSeq(all, 1, Min({Len(all)} \cup {Max({1, max}) : max \in q.max_mismatches}))

\* A comparison of waveforms whose times do not decrease reports, signal by
\* signal, every time before the last representable one at which the values
\* both sides hold differ, up to the limit of a signal; a limit of zero still
\* reports one.  (compare_providers, compare_signal_timeline)
CompareExact ==
    outcome = "ok" /\ (\A s \in Sides, n \in Range(q.targets) : Sorted(Timeline(s, n))) =>
        mismatches = FlattenSeq([i \in DOMAIN q.targets |-> Mismatches(q.targets[i])])

\* A comparison is published only if there was one moment at which both
\* timelines were those of the opened generations.  (compare_providers)
PublishedTogether == outcome = "ok" => ~apart /\ ~mixed

\* Every query ends, whatever the body holds and whatever happens around it.
QueryEnds == <>((phase = "ended" /\ stage = "done") \/ outcome # "none")
================================================================================
