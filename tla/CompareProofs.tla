----------------------------- MODULE CompareProofs -----------------------------
(***************************************************************************)
(* What a query or a comparison publishes was read before its sources      *)
(* changed, a cancelled VCD scan stops within a check interval, a query    *)
(* delivers what its window, names and limits ask for, and a comparison    *)
(* tells where its sides differ: for every catalog, every set of queries   *)
(* and every body, and however cancellation and replacement fall between   *)
(* the steps.                                                              *)
(***************************************************************************)
EXTENDS Compare, SequenceLemmas, SequenceTheorems, FiniteSetTheorems, TLAPS

(***************************************************************************)
(* The inductive invariant.  Where the query is tells what is known: what  *)
(* was read before the first step and after the last validation was read   *)
(* of one generation (Fresh), commands read since a cancellation are       *)
(* counted from the last checkpoint (Prompt), and the comparison is past   *)
(* what it has validated (Together).                                       *)
(***************************************************************************)
Merging == {"merge", "revalidate first", "revalidate second", "publish"}
Stages == {"start", "first", "second", "done"} \cup Merging

Flags ==
    /\ changed \in BOOLEAN /\ cancelled \in BOOLEAN /\ mixed \in BOOLEAN
    /\ behind \in BOOLEAN /\ apart \in BOOLEAN

Typed ==
    /\ phase \in Phases /\ stage \in Stages /\ Flags
    /\ {"op", "backend"} \subseteq DOMAIN q
    /\ file \in Seq(Commands[q.op])
    /\ late \in Nat
    /\ result = "none" <=> phase # "ended"
    /\ stage # "done" => q.op = "compare" /\ outcome = "none"

Fresh ==
    /\ mixed => changed
    /\ phase \in {"resolve", "admit", "recheck"} => ~mixed
    /\ phase = "recheck" => q.backend = "vcd"
    /\ NoMixedAnswer

Prompt ==
    /\ ~cancelled \/ phase \in {"resolve", "admit"} => late = 0
    /\ q.backend = "vcd" /\ phase = "scan" => late <= Len(file) % CheckInterval
    /\ StopIsPrompt

Together ==
    /\ stage \in Merging => phase = "ended" /\ ~mixed /\ (apart => behind)
    /\ stage \in {"revalidate second", "publish"} => ~apart
    /\ outcome = "ok" => stage = "done" /\ phase = "ended"
    /\ PublishedTogether

QInv == Typed /\ Fresh /\ Prompt /\ Together

\* Counting on by one, the remainder starts again or counts on.
LEMMA NextRemainder ==
    ASSUME NEW n \in Nat \ {0}, NEW d \in Int, NEW e \in Int,
           NEW r \in 0 .. n - 1, NEW s \in 0 .. n - 1, n * d + r + 1 = n * e + s
    PROVE  s = 0 \/ s = r + 1
  <1>1. n * (d - e) = s - r - 1
    OBVIOUS
  <1>2. d - e >= 1 => n * (d - e) >= n
    OBVIOUS
  <1>3. d - e <= -2 => n * (d - e) <= -2 * n
    OBVIOUS
  <1>4. d - e = 0 \/ d - e = -1
    BY <1>1, <1>2, <1>3
  <1> QED
    BY <1>1, <1>4

LEMMA Division ==
    ASSUME NEW m \in Nat, NEW n \in Nat \ {0}
    PROVE  /\ m % n \in 0 .. n - 1
           /\ \E d \in Int : m = n * d + (m % n)
  <1>1. m % n \in 0 .. n - 1
    OBVIOUS
  <1>2. m = n * (m \div n) + (m % n) /\ m \div n \in Int
    OBVIOUS
  <1> QED
    BY <1>1, <1>2

\* One more command is a checkpoint or one more since the last checkpoint.
LEMMA CountToCheckpoint ==
    ASSUME NEW n \in Nat
    PROVE  \/ (n + 1) % CheckInterval = 0
           \/ (n + 1) % CheckInterval = (n % CheckInterval) + 1
  <1> USE LimitsAssumption
  <1>1. PICK d \in Int : n = CheckInterval * d + (n % CheckInterval)
    BY Division
  <1>2. PICK e \in Int : n + 1 = CheckInterval * e + ((n + 1) % CheckInterval)
    <2>1. n + 1 \in Nat
      OBVIOUS
    <2> QED
      BY <2>1, Division
  <1>3. n % CheckInterval \in 0 .. CheckInterval - 1
        /\ (n + 1) % CheckInterval \in 0 .. CheckInterval - 1
    BY Division
  <1>4. PICK a \in 0 .. CheckInterval - 1, b \in 0 .. CheckInterval - 1 :
            a = n % CheckInterval /\ b = (n + 1) % CheckInterval
    BY <1>3
  <1>5. CheckInterval * d + a + 1 = CheckInterval * e + b
    BY <1>1, <1>2, <1>4
  <1>6. b = 0 \/ b = a + 1
    BY <1>5, NextRemainder
  <1> QED
    BY <1>4, <1>6

LEMMA InitQInv == CompareInit => QInv
  <1> SUFFICES ASSUME CompareInit PROVE QInv
    OBVIOUS
  <1> USE DEF CompareInit, Init
  <1>1. Typed
    <2>1. {"op", "backend"} \subseteq DOMAIN q
      BY QueriesAssumption
    <2>2. file \in Seq(Commands[q.op])
      OBVIOUS
    <2> QED
      BY <2>1, <2>2 DEF Typed, Flags, Phases, Stages, Merging
  <1>2. Fresh
    BY DEF Fresh, NoMixedAnswer
  <1>3. Prompt
    BY LimitsAssumption DEF Prompt, StopIsPrompt
  <1>4. Together
    BY DEF Together, Merging, PublishedTogether
  <1> QED
    BY <1>1, <1>2, <1>3, <1>4 DEF QInv

(***************************************************************************)
(* The engine.  Most of its steps read nothing and only move it on; how    *)
(* they may is what Moves says.                                            *)
(***************************************************************************)
Moves ==
    /\ phase' \in Phases
    /\ IF phase' = "ended" THEN result' # "none" ELSE result' = result
    /\ phase' \in {"resolve", "admit"} => phase \in {"resolve", "admit"}
    /\ phase' = "scan" => phase \in {"admit", "scan"}
    /\ phase' = "recheck" => ~mixed' /\ q.backend = "vcd"
    /\ phase' = "ended" /\ result' = "ok" =>
           /\ q.backend # "legacy" => ~mixed'
           /\ q.backend = "vcd" => ~cancelled

\* The engine runs for a comparison that collects, or for a query.
Collecting ==
    /\ phase # "ended" /\ stage \notin Merging /\ outcome = "none"
    /\ UNCHANGED comparison

LEMMA MoveKeepsQInv ==
    ASSUME QInv, Collecting, Moves, UNCHANGED <<q, file, environment, late, mixed>>
    PROVE  QInv'
  <1> USE DEF QInv, Collecting, Moves, comparison, merge, environment
  <1>1. Typed'
    BY DEF Typed, Flags
  <1>2. Fresh'
    BY DEF Typed, Fresh, NoMixedAnswer
  <1>3. Prompt'
    <2>0. Len(file) \in Nat
      BY DEF Typed
    <2>1. Len(file) % CheckInterval \in 0 .. CheckInterval - 1
      BY <2>0, LimitsAssumption, Division
    <2>2. q.backend = "vcd" /\ phase' = "scan" => late <= Len(file) % CheckInterval
      BY <2>1 DEF Typed, Prompt
    <2>3. q.backend = "vcd" => late <= CheckInterval
      BY DEF Prompt, StopIsPrompt
    <2>4. ~cancelled \/ phase' \in {"resolve", "admit"} => late = 0
      BY DEF Prompt
    <2>5. phase' # "ended" => result' # "ok"
      BY DEF Typed
    <2>6. StopIsPrompt'
      BY <2>3, <2>5 DEF StopIsPrompt
    <2> QED
      BY <2>2, <2>4, <2>6 DEF Prompt
  <1>4. Together'
    BY DEF Together, PublishedTogether
  <1> QED
    BY <1>1, <1>2, <1>3, <1>4

\* Only the body is read in a step that is not quiet.
LEMMA QuietSteps ==
    ASSUME QInv, Resolve \/ Admit \/ EndOfBody \/ Emit \/ Finish \/ Validate \/ Recheck
    PROVE  Moves /\ phase # "ended" /\ UNCHANGED <<q, file, environment, late, mixed>>
  <1> USE DEF QInv, Typed, Flags, Fresh, Moves, Phases, Untouched, End, Continue, Stopped
  <1>1. CASE Resolve
    BY <1>1 DEF Resolve
  <1>2. CASE Admit
    BY <1>2 DEF Admit
  <1>3. CASE EndOfBody
    BY <1>3 DEF EndOfBody
  <1>4. CASE Emit
    BY <1>4 DEF Emit, Refuse, Consume, ConsumeFind
  <1>5. CASE Finish
    BY <1>5 DEF Finish
  <1>6. CASE Validate
    BY <1>6 DEF Validate
  <1>7. CASE Recheck
    BY <1>7 DEF Recheck
  <1> QED
    BY <1>1, <1>2, <1>3, <1>4, <1>5, <1>6, <1>7

\* A command is read; a cancelled VCD scan that goes on has not read up to the
\* next checkpoint.
LEMMA ParseStep ==
    ASSUME QInv, Parse
    PROVE  /\ Moves /\ phase = "scan" /\ UNCHANGED <<q, environment>>
           /\ \E command \in Commands[q.op] : file' = Append(file, command)
           /\ late' = IF cancelled THEN late + 1 ELSE late
           /\ mixed' = (mixed \/ changed)
           /\ phase' = "scan" /\ q.backend = "vcd" /\ cancelled =>
                  Len(file') % CheckInterval # 0
  <1>1. PICK command \in Commands[q.op] :
            /\ Record(command)
            /\ ParseVcd(command) \/ CallbackFst(command) \/ ParseLegacy(command)
    BY DEF Parse
  <1>2. phase = "scan" /\ UNCHANGED <<q, environment>>
    BY DEF Parse
  <1> USE DEF QInv, Typed, Flags, Moves, Phases, End, Continue, environment
  <1>3. CASE ParseVcd(command)
    <2>1. q.backend = "vcd"
      BY <1>3 DEF ParseVcd
    <2>2. \/ phase' = "scan" /\ result' = result
              /\ ~(cancelled /\ Len(file') % CheckInterval = 0)
          \/ phase' = "finish" /\ result' = result
          \/ phase' = "ended" /\ result' \in {"cancelled", "commands", "parse"}
      BY <1>3 DEF ParseVcd, Checkpoint
    <2> QED
      BY <1>1, <1>2, <2>1, <2>2 DEF Record
  <1>4. CASE CallbackFst(command)
    <2>1. q.backend = "fst"
      BY <1>4 DEF CallbackFst
    <2>2. \/ phase' = "scan" /\ result' = result
          \/ phase' = "ended" /\ result' \in {"cancelled", "commands", "parse"}
      BY <1>4 DEF CallbackFst
    <2> QED
      BY <1>1, <1>2, <2>1, <2>2 DEF Record
  <1>5. CASE ParseLegacy(command)
    <2>1. q.backend = "legacy"
      BY <1>5 DEF ParseLegacy
    <2>2. \/ phase' = "scan" /\ result' = result
          \/ phase' = "ended" /\ result' \in {"ok", "parse"}
      BY <1>5 DEF ParseLegacy
    <2> QED
      BY <1>1, <1>2, <2>1, <2>2 DEF Record
  <1> QED
    BY <1>1, <1>3, <1>4, <1>5

LEMMA ParseKeepsQInv ==
    ASSUME QInv, Collecting, Parse
    PROVE  QInv'
  <1> USE DEF QInv, Collecting, Moves, comparison, merge, environment
  <1>1. PICK command \in Commands[q.op] : file' = Append(file, command)
    BY ParseStep
  <1>2. Moves /\ phase = "scan" /\ UNCHANGED <<q, environment>>
    BY ParseStep
  <1>3. /\ late' = IF cancelled THEN late + 1 ELSE late
        /\ mixed' = (mixed \/ changed)
    BY ParseStep
  <1>4. Len(file) \in Nat /\ Len(file') = Len(file) + 1 /\ file' \in Seq(Commands[q.op])
    BY <1>1 DEF Typed
  <1>5. Typed'
    BY <1>2, <1>3, <1>4 DEF Typed, Flags
  <1>6. Fresh'
    BY <1>2, <1>3 DEF Typed, Flags, Fresh, NoMixedAnswer
  <1>7. Prompt'
    <2>1. late \in Nat /\ (~cancelled => late = 0)
      BY DEF Typed, Prompt
    <2>2. q.backend = "vcd" => late <= Len(file) % CheckInterval
      BY <1>2 DEF Prompt
    <2>0. Len(file') \in Nat
      BY <1>4
    <2>3. /\ Len(file) % CheckInterval \in 0 .. CheckInterval - 1
          /\ Len(file') % CheckInterval \in 0 .. CheckInterval - 1
      BY <1>4, <2>0, LimitsAssumption, Division
    <2>4. q.backend = "vcd" => late' <= CheckInterval
      BY <1>3, <2>1, <2>2, <2>3, LimitsAssumption
    <2>5. q.backend = "vcd" /\ phase' = "scan" => late' <= Len(file') % CheckInterval
      <3>1. CASE ~cancelled
        BY <1>3, <2>1, <2>3, <3>1
      <3>2. CASE cancelled /\ q.backend = "vcd" /\ phase' = "scan"
        <4>1. Len(file') % CheckInterval # 0
          BY <3>2, ParseStep
        <4>2. Len(file') % CheckInterval = (Len(file) % CheckInterval) + 1
          BY <1>4, <4>1, CountToCheckpoint
        <4> QED
          BY <1>3, <2>1, <2>2, <2>3, <3>2, <4>2
      <3> QED
        BY <3>1, <3>2
    <2>6. ~cancelled' => late' = 0
      BY <1>2, <1>3, <2>1
    <2>7. StopIsPrompt'
      BY <1>2, <2>4 DEF StopIsPrompt, Typed
    <2> QED
      BY <1>2, <2>5, <2>6, <2>7 DEF Prompt
  <1>8. Together'
    BY <1>2 DEF Together, PublishedTogether
  <1> QED
    BY <1>5, <1>6, <1>7, <1>8

LEMMA CollectKeepsQInv ==
    ASSUME QInv, Collect
    PROVE  QInv'
  <1>1. CASE Parse
    <2>1. Collecting
      BY <1>1, ParseStep DEF Collect, Collecting, QInv, Typed, Merging
    <2> QED
      BY <1>1, <2>1, ParseKeepsQInv
  <1>2. CASE Resolve \/ Admit \/ EndOfBody \/ Emit \/ Finish \/ Validate \/ Recheck
    <2>1. Moves /\ phase # "ended" /\ UNCHANGED <<q, file, environment, late, mixed>>
      BY <1>2, QuietSteps
    <2>2. Collecting
      BY <2>1 DEF Collect, Collecting, QInv, Typed, Merging
    <2> QED
      BY <2>1, <2>2, MoveKeepsQInv
  <1> QED
    BY <1>1, <1>2 DEF Collect, Step

(***************************************************************************)
(* What other threads and programs do.                                     *)
(***************************************************************************)
LEMMA DisturbKeepsQInv ==
    ASSUME QInv, Disturb
    PROVE  QInv'
  <1> USE DEF QInv, comparison, merge, vars, environment, consumer
  <1>1. CASE EngineDisturbed \/ CancelLater
    <2>1. UNCHANGED <<q, file, phase, result, late, mixed, comparison>>
      BY <1>1 DEF EngineDisturbed, Cancel, ReplaceSource, CancelLater
    <2>2. \/ cancelled' = TRUE /\ changed' = changed
          \/ changed' = TRUE /\ cancelled' = cancelled
      BY <1>1 DEF EngineDisturbed, Cancel, ReplaceSource, CancelLater
    <2>3. phase = "ended" /\ cancelled' # cancelled => q.op = "compare"
      BY <1>1 DEF EngineDisturbed, Cancel, ReplaceSource, CancelLater, Typed
    <2>4. Typed'
      BY <2>1, <2>2 DEF Typed, Flags
    <2>5. Fresh'
      BY <2>1, <2>2 DEF Typed, Flags, Fresh, NoMixedAnswer
    <2>6. StopIsPrompt'
      BY <2>1, <2>3 DEF Typed, Prompt, StopIsPrompt
    <2>7. Prompt'
      BY <2>1, <2>2, <2>6 DEF Typed, Flags, Prompt
    <2>8. Together'
      BY <2>1 DEF Together, PublishedTogether
    <2> QED
      BY <2>4, <2>5, <2>7, <2>8
  <1>2. CASE ReplaceLater
    BY <1>2 DEF ReplaceLater, Typed, Flags, Fresh, NoMixedAnswer, Prompt, StopIsPrompt,
                Together, PublishedTogether
  <1>3. CASE ReplaceFirst
    BY <1>3 DEF ReplaceFirst, Typed, Flags, Fresh, NoMixedAnswer, Prompt, StopIsPrompt,
                Together, PublishedTogether
  <1> QED
    BY <1>1, <1>2, <1>3 DEF Disturb

(***************************************************************************)
(* The comparison.                                                         *)
(***************************************************************************)
\* A validation that lets the comparison go on found its source unchanged.
LEMMA CollectedFirstKeepsQInv ==
    ASSUME QInv, CollectedFirst
    PROVE  QInv'
  <1> USE DEF QInv, environment
  <1>1. /\ stage = "first" /\ phase = "ended" /\ outcome = "none" /\ q.op = "compare"
        /\ UNCHANGED <<cancelled, changed, late, mixed, behind, apart>>
    BY DEF CollectedFirst, Typed
  <1>2. CASE stage' = "second"
    <2>1. /\ ~cancelled /\ ~changed /\ outcome' = "none" /\ file' = <<>>
          /\ q' = [q EXCEPT !.backend = q.backends[2]]
          /\ phase' = "resolve" /\ result' = "none"
      BY <1>1, <1>2 DEF CollectedFirst, Collected, Validated, Done, Go
    <2>2. {"op", "backend"} \subseteq DOMAIN q' /\ q'.op = q.op
      BY <2>1 DEF Typed
    <2>3. ~mixed /\ late = 0
      BY <2>1 DEF Typed, Flags, Fresh, Prompt
    <2>4. Typed'
      BY <1>1, <1>2, <2>1, <2>2 DEF Typed, Flags, Stages, Phases
    <2>5. Fresh' /\ Together'
      BY <1>1, <1>2, <2>1, <2>3 DEF Fresh, NoMixedAnswer, Together, Merging, PublishedTogether
    <2>6. Prompt'
      BY <1>1, <2>1, <2>3, LimitsAssumption DEF Prompt, StopIsPrompt
    <2> QED
      BY <2>4, <2>5, <2>6
  <1>3. CASE stage' # "second"
    <2>1. stage' = "done" /\ outcome' \notin {"none", "ok"}
      BY <1>1, <1>3 DEF CollectedFirst, Collected, Validated, Done, Go, Typed
    <2>2. UNCHANGED <<q, file, phase, result>>
      BY <1>3 DEF CollectedFirst
    <2>3. Typed'
      BY <1>1, <2>1, <2>2 DEF Typed, Flags, Stages
    <2>4. Fresh' /\ Prompt'
      BY <1>1, <2>2 DEF Fresh, NoMixedAnswer, Prompt, StopIsPrompt
    <2>5. Together'
      BY <2>1 DEF Together, Merging, PublishedTogether
    <2> QED
      BY <2>3, <2>4, <2>5
  <1> QED
    BY <1>2, <1>3

\* The steps that leave the engine alone: what they must not do to the stage.
Advances ==
    /\ stage # "done" /\ UNCHANGED <<vars, behind>>
    /\ \/ stage' \in Stages \ {"done"} /\ outcome' = "none"
       \/ stage' = "done" /\ outcome' # "none"
    /\ stage' \in Merging \/ outcome' = "ok" => phase = "ended" /\ ~mixed /\ (apart' => behind)
    /\ stage' \in {"revalidate second", "publish"} \/ outcome' = "ok" => ~apart'
    /\ apart' \in BOOLEAN

LEMMA AdvanceKeepsQInv ==
    ASSUME QInv, Advances
    PROVE  QInv'
  <1> USE DEF QInv, Advances, vars, environment
  <1>1. Typed'
    BY DEF Typed, Flags, Stages, Merging
  <1>2. Fresh' /\ Prompt'
    BY DEF Fresh, NoMixedAnswer, Prompt, StopIsPrompt
  <1>3. Together'
    BY DEF Together, PublishedTogether, Merging, Stages
  <1> QED
    BY <1>1, <1>2, <1>3

LEMMA ComparisonSteps ==
    ASSUME QInv,
           \/ Start \/ CollectedSecond \/ Tick \/ Merged
           \/ RevalidateFirst \/ RevalidateSecond \/ Publish
    PROVE  Advances
  <1> USE DEF QInv, Typed, Flags, Together, Advances, Stages, Merging, Done, Go, merge
  <1>1. CASE Start
    BY <1>1 DEF Start
  <1>2. CASE CollectedSecond
    <2>1. /\ stage = "second" /\ phase = "ended" /\ UNCHANGED <<vars, behind>>
          /\ apart' = behind
      BY <1>2 DEF CollectedSecond
    <2>2. \/ stage' = "merge" /\ outcome' = outcome /\ ~changed
          \/ stage' = "done" /\ outcome' \notin {"none", "ok"}
      BY <1>2, <2>1 DEF CollectedSecond, Collected, Validated
    <2>3. ~changed => ~mixed
      BY DEF Fresh
    <2> QED
      BY <2>1, <2>2, <2>3
  <1>3. CASE Tick
    <2>1. stage = "merge" /\ UNCHANGED <<vars, behind, apart>>
      BY <1>3 DEF Tick
    <2>2. \/ stage' = "merge" /\ outcome' = outcome
          \/ stage' = "done" /\ outcome' = "cancelled"
      BY <1>3 DEF Tick, Judge
    <2> QED
      BY <2>1, <2>2
  <1>4. CASE Merged
    BY <1>4 DEF Merged
  <1>5. CASE RevalidateFirst
    BY <1>5 DEF RevalidateFirst, Validated
  <1>6. CASE RevalidateSecond
    BY <1>6 DEF RevalidateSecond, Validated
  <1>7. CASE Publish
    BY <1>7 DEF Publish
  <1> QED
    BY <1>1, <1>2, <1>3, <1>4, <1>5, <1>6, <1>7

LEMMA NextQInv ==
    ASSUME QInv, [CompareStep \/ Disturb]_compareVars
    PROVE  QInv'
  <1>1. CASE Start \/ CollectedSecond \/ Tick \/ Merged
                \/ RevalidateFirst \/ RevalidateSecond \/ Publish
    BY <1>1, ComparisonSteps, AdvanceKeepsQInv
  <1>2. CASE Collect
    BY <1>2, CollectKeepsQInv
  <1>3. CASE CollectedFirst
    BY <1>3, CollectedFirstKeepsQInv
  <1>4. CASE Disturb
    BY <1>4, DisturbKeepsQInv
  <1>5. CASE UNCHANGED compareVars
    <2> USE <1>5 DEF compareVars, vars, comparison, environment
    <2>1. Typed' /\ Fresh'
      BY DEF QInv, Typed, Flags, Fresh, NoMixedAnswer
    <2>2. Prompt'
      BY DEF QInv, Prompt, StopIsPrompt
    <2>3. Together'
      BY DEF QInv, Together, PublishedTogether
    <2> QED
      BY <2>1, <2>2, <2>3 DEF QInv
  <1> QED
    BY <1>1, <1>2, <1>3, <1>4, <1>5 DEF CompareStep

LEMMA Invariance == CompareSpec => []QInv
  <1>1. QInv /\ [CompareStep \/ Disturb]_compareVars => QInv'
    BY NextQInv
  <1> QED
    BY InitQInv, <1>1, PTL DEF CompareSpec

\* No answer that an opened generation gives to a query was read after the
\* source changed.  (Waveform queries validate after the last read.)
THEOREM AnswerIsUnmixed == CompareSpec => []NoMixedAnswer
  <1>1. QInv => NoMixedAnswer
    BY DEF QInv, Fresh
  <1> QED
    BY <1>1, Invariance, PTL

\* A cancelled VCD scan reads at most COMMAND_CHECK_INTERVAL more commands, and
\* a query that was cancelled does not succeed.
THEOREM CancellationIsPrompt == CompareSpec => []StopIsPrompt
  <1>1. QInv => StopIsPrompt
    BY DEF QInv, Prompt
  <1> QED
    BY <1>1, Invariance, PTL

\* A comparison that succeeds read its second side while the first was still
\* the opened generation.  (compare_providers validates the first side last.)
THEOREM ComparisonIsOfOneMoment == CompareSpec => []PublishedTogether
  <1>1. QInv => PublishedTogether
    BY DEF QInv, Together
  <1> QED
    BY <1>1, Invariance, PTL

(***************************************************************************)
(* What a query is expected to deliver.  Shaped is what the assumptions    *)
(* say of the query; it survives the change of backend between the sides   *)
(* of a comparison.                                                        *)
(***************************************************************************)

Shaped ==
    /\ {"op", "backend", "targets", "window", "max_rows", "max_bytes", "max_commands",
        "occurrence"} \subseteq DOMAIN q
    /\ q.targets \in Seq(Range(q.targets))
    /\ \A limit \in {q.window.start, q.window.end, q.max_rows, q.max_bytes,
                     q.max_commands} : IsOption(limit)
    /\ q.occurrence \in Nat
    /\ \A command \in Commands[q.op] : command.kind = "time" => command.time \in Nat

Event == [signal : Range(q.targets), time : Nat,
          value : {Convert(q.backend, command.raw) :
                       command \in {c \in Commands[q.op] : c.kind = "change"}}]

\* What a command is expected to add at a time.
RowsOf(command, t) ==
    FlattenSeq([j \in DOMAIN q.targets |->
        IF Catalog[q.targets[j]].id = command.id
        THEN <<[signal |-> q.targets[j], time |-> t, value |-> Convert(q.backend, command.raw)]>>
        ELSE <<>>])

LEMMA EventsAreRows ==
    ASSUME Shaped, NEW command \in Commands[q.op], command.kind = "change", NEW t \in Nat
    PROVE  Events(command, t) = RowsOf(command, t) /\ RowsOf(command, t) \in Seq(Event)
  <1> DEFINE S == Range(q.targets)
             event(name) == [signal |-> name, time |-> t, value |-> Convert(q.backend, command.raw)]
             h == [name \in S |-> event(name)]
             N == Len(q.targets)
             bound(j) == Catalog[q.targets[j]].id = command.id
             names == [j \in 1 .. N |-> IF bound(j) THEN <<q.targets[j]>> ELSE <<>>]
             events == [j \in 1 .. N |-> IF bound(j) THEN <<event(q.targets[j])>> ELSE <<>>]
  <1>1. /\ N \in Nat /\ DOMAIN q.targets = 1 .. N /\ \A j \in 1 .. N : q.targets[j] \in S
        /\ \A name \in S : event(name) \in Event
    BY DEF Shaped, Event
  <1> HIDE DEF S
  <1>2. h \in [S -> Event]
    BY <1>1
  <1>3. names \in Seq(Seq(S)) /\ Len(names) = N
    <2>1. \A j \in 1 .. N : names[j] \in Seq(S)
      BY <1>1
    <2> HIDE DEF bound, N
    <2> QED
      BY <1>1, <2>1
  <1>4. events \in Seq(Seq(Event)) /\ Len(events) = N
    <2>1. \A j \in 1 .. N : events[j] \in Seq(Event)
      BY <1>1
    <2>2. events = [j \in 1 .. N |-> events[j]]
      OBVIOUS
    <2> HIDE DEF events, N
    <2> QED
      BY <1>1, <2>1, <2>2
  <1>5. ASSUME NEW i \in 1 .. N
        PROVE  events[i] = [j \in 1 .. Len(names[i]) |-> h[names[i][j]]]
    <2>0. q.targets[i] \in S
      BY <1>1
    <2>1. CASE bound(i)
      <3>1. names[i] = <<q.targets[i]>> /\ events[i] = <<event(q.targets[i])>>
        BY <2>1
      <3>2. h[q.targets[i]] = event(q.targets[i])
        BY <2>0
      <3> HIDE DEF names, events, h, event
      <3> QED
        BY <3>1, <3>2
    <2>2. CASE ~bound(i)
      <3>1. names[i] = <<>> /\ events[i] = <<>>
        BY <2>2
      <3> HIDE DEF names, events
      <3> QED
        BY <3>1
    <2> QED
      BY <2>1, <2>2
  <1>6. Bindings(command.id) = FlattenSeq(names) /\ RowsOf(command, t) = FlattenSeq(events)
    BY <1>1 DEF Bindings, RowsOf
  <1> HIDE DEF names, events, h, N
  <1>7. /\ FlattenSeq(names) \in Seq(S)
        /\ Image(h, FlattenSeq(names), FlattenSeq(events))
    <2>1. Maps(h, names, events)
      BY <1>3, <1>4, <1>5 DEF Maps, Image
    <2> QED
      BY <1>2, <1>3, <1>4, <2>1, FlattenMap
  <1> DEFINE b == Bindings(command.id)
  <1>8. b \in Seq(S) /\ RowsOf(command, t) = [j \in 1 .. Len(b) |-> h[b[j]]]
    BY <1>6, <1>7 DEF Image
  <1> HIDE DEF b
  <1>9. \A j \in 1 .. Len(b) : h[b[j]] = event(b[j]) /\ h[b[j]] \in Event
    BY <1>1, <1>8 DEF h
  <1>10. Events(command, t) = [j \in 1 .. Len(b) |-> event(b[j])]
    BY DEF Events, b
  <1> HIDE DEF event
  <1> QED
    BY <1>8, <1>9, <1>10

\* The time of a command is that of the last timestamp so far.
LEMMA TimeIsNatural ==
    ASSUME Shaped, file \in Seq(Commands[q.op]), NEW i \in 0 .. Len(file)
    PROVE  TimeAt(i) \in Nat
  <1> DEFINE stamps == {j \in 1 .. i : file[j].kind = "time"}
  <1>1. Len(file) \in Nat /\ i \in Nat /\ stamps \in SUBSET (1 .. i)
    OBVIOUS
  <1>2. CASE stamps = {}
    BY <1>2 DEF TimeAt
  <1>3. CASE stamps # {}
    <2>1. Max(stamps) \in stamps
      BY <1>1, <1>3, MaxExists
    <2> DEFINE m == Max(stamps)
    <2>2. TimeAt(i) = file[m].time
      BY <1>3 DEF TimeAt
    <2>3. m \in stamps
      BY <2>1
    <2> HIDE DEF m
    <2>4. m \in 1 .. Len(file) /\ file[m].kind = "time"
      BY <2>3, <1>1
    <2>5. file[m] \in Commands[q.op]
      BY <2>4
    <2> QED
      BY <2>2, <2>4, <2>5 DEF Shaped
  <1> QED
    BY <1>2, <1>3

LEMMA ExpectedAtIs ==
    ASSUME Shaped, file \in Seq(Commands[q.op]), NEW i \in DOMAIN file
    PROVE  /\ ExpectedAt(i) =
                  IF file[i].kind = "change" /\ BeforeEnd(i) /\ InWindow(TimeAt(i))
                  THEN RowsOf(file[i], TimeAt(i)) ELSE <<>>
           /\ ExpectedAt(i) \in Seq(Event)
  <1>1. i \in 0 .. Len(file) /\ file[i] \in Commands[q.op]
    OBVIOUS
  <1>2. TimeAt(i) \in Nat
    BY <1>1, TimeIsNatural
  <1>3. file[i].kind = "change" => RowsOf(file[i], TimeAt(i)) \in Seq(Event)
    BY <1>1, <1>2, EventsAreRows
  <1>4. ExpectedAt(i) =
            IF file[i].kind = "change" /\ BeforeEnd(i) /\ InWindow(TimeAt(i))
            THEN RowsOf(file[i], TimeAt(i)) ELSE <<>>
    BY DEF ExpectedAt, RowsOf, Row
  <1>5. <<>> \in Seq(Event)
    OBVIOUS
  <1> QED
    BY <1>3, <1>4, <1>5

Parts == [i \in DOMAIN file |-> ExpectedAt(i)]

LEMMA PartsAreRows ==
    ASSUME Shaped, file \in Seq(Commands[q.op])
    PROVE  /\ Parts \in Seq(Seq(Event)) /\ Len(Parts) = Len(file)
           /\ Expected = FlattenSeq(Parts) /\ Expected \in Seq(Event)
  <1>1. \A i \in DOMAIN file : ExpectedAt(i) \in Seq(Event)
    BY ExpectedAtIs
  <1>2. DOMAIN file = 1 .. Len(file) /\ Len(file) \in Nat
    OBVIOUS
  <1>3. Parts = [i \in 1 .. Len(file) |-> Parts[i]] /\ \A i \in 1 .. Len(file) : Parts[i] \in Seq(Event)
    BY <1>1, <1>2 DEF Parts
  <1>4. Parts \in Seq(Seq(Event)) /\ Len(Parts) = Len(file)
    BY <1>2, <1>3
  <1>5. Expected = FlattenSeq(Parts)
    BY DEF Expected, Parts
  <1>6. <<>> \in Seq(Event)
    OBVIOUS
  <1>7. FlattenSeq(Parts) \in Seq(Event)
    BY <1>4, <1>6, FlattenAppend
  <1> QED
    BY <1>4, <1>5, <1>7

\* What the next command adds.
Added(command) ==
    IF command.kind = "change" /\ BeforeEnd(Len(file)) /\ InWindow(TimeAt(Len(file)))
    THEN RowsOf(command, TimeAt(Len(file))) ELSE <<>>

\* The last of the timestamps up to a command, when there is one.
LEMMA LastStamp ==
    ASSUME NEW i \in Nat, NEW f, NEW stamps, stamps = {j \in 1 .. i : f[j].kind = "time"}
    PROVE  stamps # {} =>
               Max(stamps) \in stamps /\ \A x \in stamps : Max(stamps) >= x
  <1>1. stamps \in SUBSET (1 .. i)
    OBVIOUS
  <1> QED
    BY <1>1, MaxExists

\* One more command adds what it is expected to add and changes nothing before.
LEMMA ExpectedGrows ==
    ASSUME Shaped, file \in Seq(Commands[q.op]), NEW command \in Commands[q.op],
           file' = Append(file, command), q' = q
    PROVE  /\ TimeAt(Len(file))' =
                   IF command.kind = "time" THEN command.time ELSE TimeAt(Len(file))
           /\ BeforeEnd(Len(file))' <=>
                  (/\ BeforeEnd(Len(file))
                   /\ command.kind = "time" => ~PastEnd(q.window, command.time))
           /\ Added(command) \in Seq(Event)
           /\ Expected' = Expected \o Added(command)
  <1> DEFINE stamps(i) == {j \in 1 .. i : file[j].kind = "time"}
             later(i) == {j \in 1 .. i : file'[j].kind = "time"}
  <1>0. PICK n \in Nat : n = Len(file)
    OBVIOUS
  <1>1. /\ DOMAIN file = 1 .. n /\ DOMAIN file' = 1 .. n + 1 /\ Len(file') = n + 1
        /\ file'[n + 1] = command /\ \A i \in 1 .. n : file'[i] = file[i]
        /\ file' \in Seq(Commands[q.op]) /\ n \in 0 .. n /\ n + 1 \in Nat
    BY <1>0
  <1>2. ASSUME NEW i \in Nat
        PROVE  /\ TimeAt(i) = IF stamps(i) = {} THEN 0 ELSE file[Max(stamps(i))].time
               /\ TimeAt(i)' = IF later(i) = {} THEN 0 ELSE file'[Max(later(i))].time
    BY DEF TimeAt, Max
  <1>3. ASSUME NEW i \in 0 .. n PROVE TimeAt(i)' = TimeAt(i) /\ BeforeEnd(i)' = BeforeEnd(i)
    <2>1. i \in Nat /\ \A j \in 1 .. i : file'[j] = file[j]
      BY <1>1
    <2>2. later(i) = stamps(i)
      BY <2>1
    <2>3. BeforeEnd(i)' = BeforeEnd(i)
      BY <2>1 DEF BeforeEnd, PastEnd
    <2>4. \A j \in stamps(i) : file'[j] = file[j]
      BY <2>1
    <2>5. stamps(i) # {} => Max(stamps(i)) \in stamps(i)
      <3>1. \E t : t = stamps(i)
        OBVIOUS
      <3> QED
        BY <2>1, LastStamp
    <2> HIDE DEF stamps, later
    <2> QED
      BY <1>2, <2>1, <2>2, <2>3, <2>4, <2>5
  <1>4. TimeAt(n + 1)' = IF command.kind = "time" THEN command.time ELSE TimeAt(n)
    <2>1. CASE command.kind = "time"
      <3>1. n + 1 \in later(n + 1) /\ \A x \in later(n + 1) : x \in 1 .. n + 1
        BY <1>1, <2>1
      <3>2. later(n + 1) # {} =>
                /\ Max(later(n + 1)) \in later(n + 1)
                /\ \A x \in later(n + 1) : Max(later(n + 1)) >= x
        BY <1>1, LastStamp
      <3> HIDE DEF later
      <3>3. Max(later(n + 1)) = n + 1
        BY <1>1, <3>1, <3>2
      <3>4. TimeAt(n + 1)' = file'[n + 1].time
        BY <1>1, <1>2, <3>1, <3>3
      <3> QED
        BY <1>1, <2>1, <3>4
    <2>2. CASE command.kind # "time"
      <3>1. later(n + 1) = later(n)
        BY <1>1, <2>2
      <3> HIDE DEF later, stamps
      <3>2. TimeAt(n + 1)' = TimeAt(n)'
        BY <1>1, <1>2, <3>1
      <3> QED
        BY <1>1, <1>3, <2>2, <3>2
    <2> QED
      BY <2>1, <2>2
  <1>5. BeforeEnd(n + 1)' <=>
            (/\ BeforeEnd(n)
             /\ command.kind = "time" => ~PastEnd(q.window, command.time))
    <2>1. 1 .. n + 1 = (1 .. n) \cup {n + 1}
      OBVIOUS
    <2>2. (\A i \in 1 .. n + 1 : file'[i].kind = "time" => ~PastEnd(q.window, file'[i].time)) <=>
              /\ \A i \in 1 .. n : file[i].kind = "time" => ~PastEnd(q.window, file[i].time)
              /\ command.kind = "time" => ~PastEnd(q.window, command.time)
      BY <1>1, <2>1
    <2> QED
      BY <2>2 DEF BeforeEnd, PastEnd
  <1>6. ASSUME NEW i \in 1 .. n PROVE ExpectedAt(i)' = ExpectedAt(i)
    <2>1. file'[i] = file[i] /\ i \in 0 .. n
      BY <1>1
    <2>2. TimeAt(i)' = TimeAt(i) /\ BeforeEnd(i)' = BeforeEnd(i)
      BY <1>3, <2>1
    <2> QED
      BY <2>1, <2>2 DEF ExpectedAt, Row, InWindow, PastEnd
  <1>7. ExpectedAt(n + 1)' = Added(command)
    <2>1. CASE command.kind = "change"
      <3>1. TimeAt(n + 1)' = TimeAt(n) /\ (BeforeEnd(n + 1)' <=> BeforeEnd(n))
        BY <1>4, <1>5, <2>1
      <3>2. file'[n + 1] = command
        BY <1>1
      <3> QED
        BY <1>0, <2>1, <3>1, <3>2 DEF ExpectedAt, Row, RowsOf, InWindow, PastEnd, Added
    <2>2. CASE command.kind # "change"
      BY <1>1, <2>2 DEF ExpectedAt, Added
    <2> QED
      BY <2>1, <2>2
  <1>8. Added(command) \in Seq(Event)
    <2>1. TimeAt(Len(file)) \in Nat
      BY <1>0, TimeIsNatural
    <2>2. command.kind = "change" => RowsOf(command, TimeAt(Len(file))) \in Seq(Event)
      BY <2>1, EventsAreRows
    <2>3. <<>> \in Seq(Event)
      OBVIOUS
    <2> QED
      BY <2>2, <2>3 DEF Added
  <1>9. Parts' = Append(Parts, Added(command))
    <2>1. Parts' = [i \in 1 .. n + 1 |-> ExpectedAt(i)']
      BY <1>1 DEF Parts
    <2>2. Parts = [i \in 1 .. n |-> ExpectedAt(i)]
      BY <1>1 DEF Parts
    <2>3. Len(Parts) = n /\ Parts \in Seq(Seq(Event))
      BY <1>0, PartsAreRows
    <2>4. \A i \in 1 .. n : Parts'[i] = Parts[i]
      BY <1>6, <2>1, <2>2
    <2>5. Parts'[n + 1] = Added(command) /\ Parts' = [i \in 1 .. n + 1 |-> Parts'[i]]
      BY <1>7, <2>1
    <2> QED
      BY <1>8, <2>3, <2>4, <2>5, AppendIs
  <1>10. Parts \in Seq(Seq(Event)) /\ Expected = FlattenSeq(Parts)
    BY PartsAreRows
  <1>11. Expected' = FlattenSeq(Parts')
    BY DEF Expected, Parts
  <1>12. Expected' = Expected \o Added(command)
    BY <1>8, <1>9, <1>10, <1>11, FlattenAppend
  <1>13. TimeAt(Len(file))' = TimeAt(n + 1)' /\ (BeforeEnd(Len(file))' <=> BeforeEnd(n + 1)')
    BY <1>1 DEF TimeAt, Max, BeforeEnd
  <1> QED
    BY <1>0, <1>4, <1>5, <1>8, <1>12, <1>13

\* The bytes of events are summed up one by one.
LEMMA BytesSums ==
    ASSUME NEW T, NEW events \in Seq(T), NEW a, NEW n \in Nat, n = Len(events),
           \A i \in 1 .. n : a[i] = logical_event_bytes(events[i].signal, events[i].value)
    PROVE  \E f : Sums(f, a, n) /\ BytesOf(events) = f[n]
  <1> DEFINE F == CHOOSE sum : sum = [i \in 0 .. Len(events) |->
                      IF i = 0 THEN 0
                      ELSE sum[i - 1] + logical_event_bytes(events[i].signal, events[i].value)]
  <1>1. BytesOf(events) = F[n]
    BY DEF BytesOf
  <1>2. PICK f : DOMAIN f = 0 .. n /\ Sums(f, a, n)
    BY SumsExist
  <1> DEFINE g == [i \in 0 .. n |-> f[i]]
             next(s, i) == IF i = 0 THEN 0 ELSE s[i - 1] + a[i]
             next2(s, i) == IF i = 0 THEN 0
                 ELSE s[i - 1] + logical_event_bytes(events[i].signal, events[i].value)
  <1>3. ASSUME NEW s, NEW i \in 0 .. n PROVE next(s, i) = next2(s, i)
    <2>1. i = 0 \/ i \in 1 .. n
      OBVIOUS
    <2> QED
      BY <2>1
  <1>4. ASSUME NEW i \in 0 .. n PROVE g[i] = next(g, i)
    <2>1. CASE i = 0
      BY <1>2, <2>1 DEF Sums
    <2>2. CASE i # 0
      <3>1. i \in 1 .. n /\ i - 1 \in 0 .. n
        BY <2>2
      <3>2. f[i] = f[i - 1] + a[i]
        BY <1>2, <3>1 DEF Sums
      <3> QED
        BY <2>2, <3>1, <3>2
    <2> QED
      BY <2>1, <2>2
  <1>5. g = [i \in 0 .. n |-> next2(g, i)]
    <2>1. g = [i \in 0 .. n |-> g[i]]
      OBVIOUS
    <2> HIDE DEF g, next, next2
    <2>2. \A i \in 0 .. n : g[i] = next2(g, i)
      BY <1>3, <1>4
    <2> QED
      BY <2>1, <2>2, Zenon
  <1>6. F = [i \in 0 .. n |-> next2(F, i)]
    <2> HIDE DEF g
    <2> QED
      BY <1>5, Zenon
  <1> HIDE DEF F
  <1>7. ASSUME NEW i \in 0 .. n PROVE F[i] = next(F, i)
    <2>1. F[i] = next2(F, i)
      <3> HIDE DEF next2
      <3> QED
        BY <1>6, Zenon
    <2> HIDE DEF next, next2
    <2> QED
      BY <1>3, <2>1
  <1>8. Sums(F, a, n)
    <2>1. F[0] = 0
      BY <1>7
    <2>2. ASSUME NEW i \in 1 .. n PROVE F[i] = F[i - 1] + a[i]
      <3>1. i \in 0 .. n /\ i # 0
        OBVIOUS
      <3> QED
        BY <1>7, <3>1
    <2> QED
      BY <2>1, <2>2 DEF Sums
  <1> QED
    BY <1>1, <1>8

LEMMA BytesOfNone == BytesOf(<<>>) = 0
  <1>1. PICK n \in Nat : n = 0
    OBVIOUS
  <1>2. PICK none \in Seq(Nat) : none = <<>>
    <2>1. <<>> \in Seq(Nat)
      OBVIOUS
    <2> QED
      BY <2>1
  <1>3. PICK a : a = <<>>
    OBVIOUS
  <1>4. /\ n = Len(none)
        /\ \A i \in 1 .. n : a[i] = logical_event_bytes(none[i].signal, none[i].value)
    BY <1>1, <1>2
  <1>5. PICK f : Sums(f, a, n) /\ BytesOf(none) = f[n]
    BY <1>4, BytesSums
  <1> QED
    BY <1>1, <1>2, <1>5 DEF Sums

LEMMA BytesGrow ==
    ASSUME NEW T, NEW events \in Seq(T), NEW event \in T
    PROVE  BytesOf(Append(events, event)) =
               BytesOf(events) + logical_event_bytes(event.signal, event.value)
  <1> DEFINE all == Append(events, event)
             n == Len(events)
             a == [i \in 1 .. n + 1 |-> logical_event_bytes(all[i].signal, all[i].value)]
  <1>1. /\ all \in Seq(T) /\ Len(all) = n + 1 /\ n \in Nat /\ n + 1 \in Nat /\ all[n + 1] = event
        /\ \A i \in 1 .. n : all[i] = events[i]
    OBVIOUS
  <1>2. /\ \A i \in 1 .. n + 1 : a[i] = logical_event_bytes(all[i].signal, all[i].value)
        /\ \A i \in 1 .. n : a[i] = logical_event_bytes(events[i].signal, events[i].value)
    BY <1>1
  <1> HIDE DEF all, n, a
  <1>3. PICK f : Sums(f, a, n + 1) /\ BytesOf(all) = f[n + 1]
    BY <1>1, <1>2, BytesSums
  <1>4. PICK g : Sums(g, a, n) /\ BytesOf(events) = g[n]
    BY <1>1, <1>2, BytesSums DEF n
  <1>5. Sums(f, a, n)
    BY <1>1, <1>3 DEF Sums
  <1>6. n \in 0 .. n /\ n + 1 \in 1 .. n + 1 /\ (n + 1) - 1 = n
    BY <1>1
  <1>7. f[n] = g[n]
    BY <1>1, <1>4, <1>5, <1>6, SumsUnique
  <1>8. f[n + 1] = f[(n + 1) - 1] + a[n + 1]
    BY <1>3, <1>6 DEF Sums
  <1>9. a[n + 1] = logical_event_bytes(event.signal, event.value)
    BY <1>1, <1>2, <1>6
  <1> QED
    BY <1>3, <1>4, <1>6, <1>7, <1>8, <1>9 DEF all

(***************************************************************************)
(* The second inductive invariant: what the query holds after any number   *)
(* of commands, told by what these commands are expected to be answered.   *)
(***************************************************************************)
Valued ==
    /\ Shaped
    /\ rows \in Seq(Event) /\ pending \in Seq(Event)
    /\ last = [n \in Range(q.targets) |-> last[n]]
    /\ counts = [n \in Range(q.targets) |-> counts[n]]

\* An FST reader goes on behind the end of the window, where nothing is
\* expected any more; the others do not.
Scanned ==
    /\ time = TimeAt(Len(file))
    /\ phase \in {"resolve", "admit"} => file = <<>>
    /\ phase = "scan" => (BeforeEnd(Len(file)) <=> ~PastEnd(q.window, time))
    /\ phase = "scan" /\ q.backend # "fst" => BeforeEnd(Len(file))

Completing == phase \in {"finish", "validate", "recheck"}

\* What has been read is delivered, pending or behind a hit or an error.
Delivery ==
    /\ phase # "scan" => pending = <<>>
    /\ phase \in {"resolve", "admit"} => rows = <<>>
    /\ phase = "scan" => rows \o pending = Expected
    /\ Completing \/ result = "ok" => rows = Expected \/ (q.op = "find" /\ found # None)
    /\ \E rest \in Seq(Event) : Expected = rows \o rest

Charged == IF q.backend = "vcd" THEN Len(file) ELSE Callbacks(file)

Budgets ==
    /\ bytes = BytesOf(rows)
    /\ ~Exceeds(Len(rows), q.max_rows) /\ ~Exceeds(bytes, q.max_bytes)
    /\ phase = "scan" /\ q.backend # "legacy" => ~Exceeds(Charged, q.max_commands)
    /\ q.backend = "vcd" /\ (Completing \/ result = "ok") =>
           ~Exceeds(Len(file), q.max_commands)
    /\ result = "rows" => q.max_rows = {Len(rows)} /\ Len(Expected) > Len(rows)
    /\ result = "bytes" => Exceeds(BytesOf(SubSeq(Expected, 1, Len(rows) + 1)), q.max_bytes)
    /\ result = "commands" => q.max_commands = {Charged - 1}

Searching == phase \in {"admit", "scan"} \/ Completing \/ result = "ok"

\* A find that has found nothing yet has not seen enough hits.
Finding ==
    /\ q.op # "find" \/ phase \in {"resolve", "admit", "scan"} => found = None
    /\ q.op = "find" /\ Searching => q.occurrence # 0
    /\ q.op = "find" /\ Searching /\ found = None => Cardinality(Hits(rows)) < q.occurrence
    /\ q.op = "find" /\ found # None =>
           /\ rows # <<>> /\ found = {rows[Len(rows)]} /\ Matches(rows[Len(rows)])
           /\ Cardinality(Hits(rows)) = q.occurrence

Own(events, n) == {i \in DOMAIN events : events[i].signal = n}
TextOf(events, i) == format_value_for_signal(events[i].value, Catalog[events[i].signal].size)

\* A toggle count remembers the text of the last event of every name.
LastIs(events, n, text) ==
    \/ text = EmptyText /\ Own(events, n) = {}
    \/ \E i \in Own(events, n) :
           text = TextOf(events, i) /\ \A m \in Own(events, n) : m <= i

Counting ==
    q.op = "toggles" => \A n \in Range(q.targets) :
        LastIs(rows, n, last[n]) /\ counts[n] = TogglesIn(rows, n)

AInv == Valued /\ Scanned /\ Delivery /\ Budgets /\ Finding /\ Counting

(***************************************************************************)
(* Steps that read and deliver nothing.                                    *)
(***************************************************************************)
Kept == UNCHANGED <<q, file, time, pending, rows, bytes, consumer>>

LEMMA KeptCounting ==
    ASSUME UNCHANGED <<q, rows, last, counts>>
    PROVE  Counting <=> Counting'
  BY DEF Counting, LastIs, Own, TextOf, TogglesIn

\* What is expected does not change before another command is read.
LEMMA SameBody ==
    ASSUME UNCHANGED <<q, file, time>>
    PROVE  /\ Expected' = Expected /\ Event' = Event /\ (Shaped <=> Shaped')
           /\ TimeAt(Len(file))' = TimeAt(Len(file))
           /\ (BeforeEnd(Len(file)) <=> BeforeEnd(Len(file))')
           /\ Charged' = Charged
  <1>1. Event' = Event /\ (Shaped <=> Shaped')
    BY DEF Event, Shaped
  <1>2. TimeAt(Len(file))' = TimeAt(Len(file)) /\ (BeforeEnd(Len(file)) <=> BeforeEnd(Len(file))')
    BY DEF TimeAt, BeforeEnd
  <1>3. Expected' = Expected
    BY DEF Expected, ExpectedAt, TimeAt, BeforeEnd, InWindow, Row
  <1>4. Charged' = Charged
    BY DEF Charged, Callbacks, Selected, Bindings
  <1> QED
    BY <1>1, <1>2, <1>3, <1>4

LEMMA KeptHistory ==
    ASSUME Kept
    PROVE  /\ (Valued <=> Valued') /\ Expected' = Expected /\ Event' = Event
           /\ TimeAt(Len(file))' = TimeAt(Len(file))
           /\ (BeforeEnd(Len(file)) <=> BeforeEnd(Len(file))')
           /\ Charged' = Charged
           /\ Hits(rows)' = Hits(rows)
           /\ (Counting <=> Counting')
  <1> USE DEF Kept, consumer
  <1>1. /\ Event' = Event /\ Expected' = Expected /\ (Shaped <=> Shaped')
        /\ TimeAt(Len(file))' = TimeAt(Len(file))
        /\ (BeforeEnd(Len(file)) <=> BeforeEnd(Len(file))')
        /\ Charged' = Charged
    BY SameBody
  <1>2. Valued <=> Valued'
    BY <1>1 DEF Valued
  <1>3. Hits(rows)' = Hits(rows)
    BY DEF Hits, Matches
  <1>4. Counting <=> Counting'
    BY KeptCounting
  <1> QED
    BY <1>1, <1>2, <1>3, <1>4

LEMMA NoBodyYet ==
    ASSUME Shaped, file = <<>>
    PROVE  /\ TimeAt(Len(file)) = 0 /\ BeforeEnd(Len(file)) /\ Expected = <<>>
           /\ Charged = 0 /\ ~PastEnd(q.window, 0)
  <1>1. DOMAIN file = {} /\ Len(file) = 0 /\ 1 .. 0 = {}
    OBVIOUS
  <1>2. TimeAt(Len(file)) = 0 /\ BeforeEnd(Len(file))
    BY <1>1 DEF TimeAt, BeforeEnd
  <1>3. Expected = <<>>
    <2>1. [i \in DOMAIN file |-> ExpectedAt(i)] = <<>>
      BY <1>1
    <2> QED
      BY <2>1, FlattenEmpty DEF Expected
  <1>4. Charged = 0
    <2>1. {i \in DOMAIN file : Selected(file[i])} = {}
      BY <1>1
    <2> QED
      BY <1>1, <2>1, FS_EmptySet DEF Charged, Callbacks
  <1>5. ~PastEnd(q.window, 0)
    BY DEF Shaped, IsOption, PastEnd
  <1> QED
    BY <1>2, <1>3, <1>4, <1>5

\* Nothing is within every limit, delivered or looked at.
LEMMA NothingYet ==
    ASSUME Shaped
    PROVE  /\ BytesOf(<<>>) = 0 /\ ~Exceeds(0, q.max_rows) /\ ~Exceeds(0, q.max_bytes)
           /\ ~Exceeds(0, q.max_commands)
           /\ q.occurrence # 0 => Cardinality(Hits(<<>>)) < q.occurrence
           /\ \A n : LastIs(<<>>, n, EmptyText) /\ TogglesIn(<<>>, n) = 0
  <1>1. \A limit \in {q.max_rows, q.max_bytes, q.max_commands} : ~Exceeds(0, limit)
    BY DEF Shaped, IsOption, Exceeds
  <1>2. DOMAIN <<>> = {}
    OBVIOUS
  <1>3. q.occurrence # 0 => Cardinality(Hits(<<>>)) < q.occurrence
    <2>1. Hits(<<>>) = {}
      BY <1>2 DEF Hits
    <2>2. Cardinality(Hits(<<>>)) = 0
      BY <2>1, FS_EmptySet
    <2>3. q.occurrence \in Nat
      BY DEF Shaped
    <2> QED
      BY <2>2, <2>3
  <1>4. ASSUME NEW n PROVE LastIs(<<>>, n, EmptyText) /\ TogglesIn(<<>>, n) = 0
    <2>1. Own(<<>>, n) = {}
      BY <1>2 DEF Own
    <2>2. TogglesIn(<<>>, n) = Cardinality({})
      <3> DEFINE own == {i \in DOMAIN <<>> : <<>>[i].signal = n}
                 text(i) == format_value_for_signal(<<>>[i].value, Catalog[n].size)
                 Before(i) == {j \in own : j < i /\ \A m \in own : m <= j \/ m >= i}
                 toggled == {i \in own : \E j \in Before(i) :
                                /\ text(i) # text(j)
                                /\ q.backend = "vcd" => text(j) # EmptyText}
      <3>1. toggled = {}
        BY <1>2
      <3>2. TogglesIn(<<>>, n) = Cardinality(toggled)
        BY DEF TogglesIn
      <3> QED
        BY <3>1, <3>2
    <2> QED
      BY <2>1, <2>2, FS_EmptySet DEF LastIs
  <1> QED
    BY <1>1, <1>3, <1>4, BytesOfNone

LEMMA InitAInv == CompareInit => AInv
  <1> SUFFICES ASSUME CompareInit PROVE AInv
    OBVIOUS
  <1>0. /\ q \in Queries /\ file = <<>> /\ time = 0 /\ pending = <<>> /\ rows = <<>> /\ bytes = 0
        /\ last = [n \in Range(q.targets) |-> EmptyText]
        /\ counts = [n \in Range(q.targets) |-> 0]
        /\ found = None /\ phase = "resolve" /\ result = "none"
    BY DEF CompareInit, Init
  <1>1. Shaped
    BY <1>0, QueriesAssumption, CommandsAssumption DEF Shaped
  <1>2. Valued
    <2>1. <<>> \in Seq(Event)
      OBVIOUS
    <2>2. last = [n \in Range(q.targets) |-> last[n]] /\ counts = [n \in Range(q.targets) |-> counts[n]]
      BY <1>0
    <2> QED
      BY <1>0, <1>1, <2>1, <2>2 DEF Valued
  <1>3. Scanned
    BY <1>0, <1>1, NoBodyYet DEF Scanned
  <1>4. Delivery
    <2>1. <<>> \in Seq(Event) /\ Expected = <<>> \o <<>>
      BY <1>0, <1>1, NoBodyYet
    <2> QED
      BY <1>0, <2>1 DEF Delivery, Completing
  <1>5. Budgets
    <2>1. Len(rows) = 0
      BY <1>0
    <2> QED
      BY <1>0, <1>1, <2>1, NothingYet DEF Budgets, Completing
  <1>6. Finding
    BY <1>0 DEF Finding, Searching, Completing
  <1>7. Counting
    BY <1>0, <1>1, NothingYet DEF Counting
  <1> QED
    BY <1>2, <1>3, <1>4, <1>5, <1>6, <1>7 DEF AInv

\* How a step that reads and delivers nothing may move a query on.
Turns ==
    \/ /\ phase \in {"resolve", "admit"} /\ phase' \in {"admit", "scan"} /\ result' = result
       /\ q.op = "find" => q.occurrence # 0
    \/ /\ phase = "resolve" /\ phase' = "ended" /\ result' = "ok" /\ q.backend = "fst"
       /\ q.op = "find" => q.occurrence # 0
    \/ /\ phase = "scan" /\ pending = <<>>
       /\ \/ phase' = "finish" /\ result' = result
          \/ phase' = "ended" /\ result' = "ok" /\ q.backend = "legacy"
    \/ /\ Completing
       /\ \/ phase' \in {"validate", "recheck"} /\ result' = result
          \/ phase' = "ended" /\ result' = "ok"
    \/ phase' = "ended" /\ result' \notin {"ok", "rows", "bytes", "commands"}
       /\ phase # "scan"

LEMMA TurnKeepsAInv ==
    ASSUME QInv, AInv, Kept, phase # "ended", Turns
    PROVE  AInv'
  <1>0. phase \in Phases /\ result = "none"
    BY DEF QInv, Typed
  <1> USE <1>0, KeptHistory DEF Kept, consumer, Phases
  <1>1. Valued'
    BY DEF AInv
  <1>2. Shaped
    BY DEF AInv, Valued
  <1>3. Scanned'
    <2>1. Scanned
      BY DEF AInv
    <2>2. phase' = "scan" => file = <<>>
      BY <2>1 DEF Scanned, Turns, Completing
    <2>3. phase' \in {"resolve", "admit"} => phase \in {"resolve", "admit"}
      BY DEF Turns, Completing
    <2>4. file = <<>> => time = 0 /\ BeforeEnd(Len(file)) /\ ~PastEnd(q.window, time)
      BY <1>2, <2>1, NoBodyYet DEF Scanned
    <2> QED
      BY <2>1, <2>2, <2>3, <2>4 DEF Scanned
  <1>4. Delivery'
    <2>1. Delivery /\ Scanned /\ rows \in Seq(Event) /\ (found = None \/ q.op = "find")
      BY DEF AInv, Valued, Finding
    <2>2. phase' # "scan" => pending = <<>>
      BY <2>1 DEF Delivery, Turns, Completing
    <2>3. phase' \in {"resolve", "admit"} => rows = <<>>
      BY <2>1 DEF Delivery, Turns, Completing
    <2>4. phase \in {"resolve", "admit"} => rows = <<>> /\ pending = <<>> /\ Expected = <<>>
      BY <1>2, <2>1, NoBodyYet DEF Delivery, Scanned
    <2>5. phase = "scan" /\ pending = <<>> => rows = Expected
      BY <2>1 DEF Delivery
    <2>6. phase' = "scan" => rows \o pending = Expected
      <3>1. <<>> \o <<>> = <<>>
        OBVIOUS
      <3> QED
        BY <2>4, <3>1 DEF Turns, Completing
    <2>7. Completing' \/ result' = "ok" => rows = Expected \/ (q.op = "find" /\ found # None)
      BY <2>1, <2>4, <2>5 DEF Turns, Completing, Delivery
    <2>8. \E rest \in Seq(Event) : Expected = rows \o rest
      BY <2>1 DEF Delivery
    <2> QED
      BY <2>2, <2>3, <2>6, <2>7, <2>8 DEF Delivery
  <1>5. Budgets'
    <2>1. Budgets /\ Scanned
      BY DEF AInv
    <2>2. bytes = BytesOf(rows) /\ ~Exceeds(Len(rows), q.max_rows) /\ ~Exceeds(bytes, q.max_bytes)
      BY <2>1 DEF Budgets
    <2>3. phase' = "scan" /\ q.backend # "legacy" => ~Exceeds(Charged, q.max_commands)
      BY <1>2, <2>1, NoBodyYet, NothingYet DEF Scanned, Turns, Completing
    <2>4. q.backend = "vcd" /\ (Completing' \/ result' = "ok") => ~Exceeds(Len(file), q.max_commands)
      BY <2>1 DEF Budgets, Turns, Completing, Charged
    <2>5. result' \notin {"rows", "bytes", "commands"}
      BY DEF Turns
    <2> QED
      BY <2>2, <2>3, <2>4, <2>5 DEF Budgets
  <1>6. Finding'
    <2>1. Finding /\ Delivery
      BY DEF AInv
    <2>2. q.op # "find" \/ phase' \in {"resolve", "admit", "scan"} => found = None
      BY <2>1 DEF Finding, Turns, Completing
    <2>3. q.op = "find" /\ Searching' => q.occurrence # 0
      BY <2>1 DEF Finding, Searching, Turns, Completing
    <2>4. q.op = "find" /\ Searching' /\ found = None => Cardinality(Hits(rows)) < q.occurrence
      <3>1. q.op = "find" /\ phase = "resolve" /\ q.occurrence # 0 =>
                Cardinality(Hits(rows)) < q.occurrence
        BY <1>2, <2>1, NothingYet DEF Delivery
      <3> QED
        BY <2>1, <2>3, <3>1 DEF Finding, Searching, Turns, Completing
    <2>5. q.op = "find" /\ found # None =>
              /\ rows # <<>> /\ found = {rows[Len(rows)]} /\ Matches(rows[Len(rows)])
              /\ Cardinality(Hits(rows)) = q.occurrence
      BY <2>1 DEF Finding
    <2>6. Matches(rows[Len(rows)])' = Matches(rows[Len(rows)])
      BY DEF Matches
    <2> QED
      BY <2>2, <2>3, <2>4, <2>5, <2>6 DEF Finding
  <1>7. Counting'
    BY DEF AInv
  <1> QED
    BY <1>1, <1>3, <1>4, <1>5, <1>6, <1>7 DEF AInv

LEMMA StepsTurn ==
    ASSUME QInv, AInv, Resolve \/ Admit \/ EndOfBody \/ Finish \/ Validate \/ Recheck
    PROVE  Kept /\ phase # "ended" /\ Turns
  <1>0. /\ phase # "ended" => result = "none"
        /\ phase \in {"admit", "scan"} /\ q.op = "find" => q.occurrence # 0
    BY DEF QInv, Typed, AInv, Finding, Searching
  <1> USE <1>0 DEF Kept, Turns, Completing, Untouched, End, Continue, Stopped
  <1>1. CASE Resolve
    BY <1>1 DEF Resolve
  <1>2. CASE Admit
    BY <1>2 DEF Admit
  <1>3. CASE EndOfBody
    BY <1>3 DEF EndOfBody
  <1>4. CASE Finish
    BY <1>4 DEF Finish
  <1>5. CASE Validate
    BY <1>5 DEF Validate
  <1>6. CASE Recheck
    BY <1>6 DEF Recheck
  <1> QED
    BY <1>1, <1>2, <1>3, <1>4, <1>5, <1>6

(***************************************************************************)
(* A command is read.                                                      *)
(***************************************************************************)
Reads(command) ==
    /\ file' = Append(file, command)
    /\ time' = IF command.kind = "time" THEN command.time ELSE time
    /\ phase = "scan" /\ pending = <<>> /\ q.backend \in {"vcd", "fst", "legacy"}
    /\ UNCHANGED <<q, rows, bytes, consumer>>

Tells(command) ==
    IF Selected(command) /\ contains(q.window, time) THEN Events(command, time) ELSE <<>>

OverBudget(command) ==
    \/ q.backend = "vcd" /\ Exceeds(Len(file'), q.max_commands)
    \/ q.backend = "fst" /\ Selected(command) /\ Exceeds(Callbacks(file'), q.max_commands)

Ends(command) ==
    command.kind = "time" /\ PastEnd(q.window, command.time) /\ q.backend # "fst"

Outcomes(command) ==
    \/ /\ phase' = "scan" /\ result' = result /\ pending' = Tells(command)
       /\ ~Ends(command) /\ ~OverBudget(command)
       /\ q.backend = "fst" /\ command.kind = "time" => command.time >= time
    \/ /\ pending' = <<>> /\ Ends(command) /\ ~OverBudget(command)
       /\ \/ phase' = "finish" /\ result' = result
          \/ phase' = "ended" /\ result' = "ok" /\ q.backend = "legacy"
    \/ pending' = <<>> /\ phase' = "ended" /\ result' \in {"cancelled", "parse"}
    \/ pending' = <<>> /\ phase' = "ended" /\ result' = "commands" /\ OverBudget(command)

LEMMA ParseOutcomes ==
    ASSUME Parse
    PROVE  \E command \in Commands[q.op] : Reads(command) /\ Outcomes(command)
  <1>1. PICK command \in Commands[q.op] :
            /\ Readable(command) /\ Record(command)
            /\ ParseVcd(command) \/ CallbackFst(command) \/ ParseLegacy(command)
    BY DEF Parse
  <1>2. Reads(command)
    BY <1>1 DEF Parse, Reads, Record, ParseVcd, CallbackFst, ParseLegacy
  <1>3. pending = <<>> /\ (Selected(command) => command.kind = "change")
    BY DEF Parse, Selected
  <1> SUFFICES Outcomes(command)
    BY <1>1, <1>2
  <1>4. CASE ParseVcd(command)
    <2>0. q.backend = "vcd"
      BY <1>4 DEF ParseVcd
    <2>1. CASE phase' = "ended"
      <3>1. \/ result' = "cancelled" /\ pending' = <<>>
            \/ result' = "commands" /\ pending' = <<>> /\ Exceeds(Len(file'), q.max_commands)
            \/ result' = "parse" /\ pending' = <<>>
        BY <1>3, <1>4, <2>1 DEF ParseVcd, Drop, End, Continue
      <3> QED
        BY <2>0, <2>1, <3>1 DEF Outcomes, OverBudget
    <2>2. CASE phase' # "ended"
      <3>1. /\ ~Exceeds(Len(file'), q.max_commands) /\ result' = result
            /\ \/ /\ command.kind = "time" /\ PastEnd(q.window, command.time)
                  /\ phase' = "finish" /\ pending' = <<>>
               \/ /\ ~(command.kind = "time" /\ PastEnd(q.window, command.time))
                  /\ phase' = "scan"
                  /\ pending' = IF Selected(command) /\ contains(q.window, time)
                                THEN Events(command, time) ELSE <<>>
        BY <1>3, <1>4, <2>2 DEF ParseVcd, Drop, End, Continue
      <3> QED
        BY <2>0, <3>1 DEF Outcomes, OverBudget, Ends, Tells
    <2> QED
      BY <2>1, <2>2
  <1>5. CASE CallbackFst(command)
    <2>0. q.backend = "fst" /\ (command.kind = "time" => command.time >= time)
      BY <1>1, <1>5 DEF CallbackFst, Readable
    <2>1. CASE phase' = "ended"
      <3>1. \/ result' = "cancelled" /\ pending' = <<>>
            \/ /\ result' = "commands" /\ pending' = <<>>
               /\ Selected(command) /\ Exceeds(Callbacks(file'), q.max_commands)
            \/ result' = "parse" /\ pending' = <<>>
        BY <1>3, <1>5, <2>1 DEF CallbackFst, Drop, End, Continue
      <3> QED
        BY <2>0, <2>1, <3>1 DEF Outcomes, OverBudget
    <2>2. CASE phase' # "ended"
      <3>1. /\ phase' = "scan" /\ result' = result
            /\ ~(Selected(command) /\ Exceeds(Callbacks(file'), q.max_commands))
            /\ pending' = IF Selected(command) /\ contains(q.window, time)
                          THEN Events(command, time) ELSE <<>>
        BY <1>3, <1>5, <2>2 DEF CallbackFst, Drop, End, Continue
      <3> QED
        BY <2>0, <3>1 DEF Outcomes, OverBudget, Ends, Tells
    <2> QED
      BY <2>1, <2>2
  <1>6. CASE ParseLegacy(command)
    <2>0. q.backend = "legacy"
      BY <1>6 DEF ParseLegacy
    <2>1. \/ phase' = "ended" /\ result' = "parse" /\ pending' = <<>>
          \/ /\ command.kind = "time" /\ PastEnd(q.window, command.time)
             /\ phase' = "ended" /\ result' = "ok" /\ pending' = <<>>
          \/ /\ ~(command.kind = "time" /\ PastEnd(q.window, command.time))
             /\ phase' = "scan" /\ result' = result
             /\ pending' = IF Selected(command) /\ contains(q.window, time)
                           THEN Events(command, time) ELSE <<>>
      BY <1>3, <1>6 DEF ParseLegacy, Drop, End, Continue
    <2> QED
      BY <2>0, <2>1 DEF Outcomes, OverBudget, Ends, Tells
  <1> QED
    BY <1>1, <1>4, <1>5, <1>6

\* What a command adds to the expected answer is what the scan tells of it.
LEMMA AddedIsTold ==
    ASSUME AInv, phase = "scan", file \in Seq(Commands[q.op]),
           NEW command \in Commands[q.op]
    PROVE  /\ Added(command) = Tells(command)
           /\ time \in Nat
  <1>1. Shaped /\ Scanned
    BY DEF AInv, Valued
  <1>2. time \in Nat /\ time = TimeAt(Len(file))
    BY <1>1, TimeIsNatural DEF Scanned
  <1>3. InWindow(time) /\ BeforeEnd(Len(file)) <=> contains(q.window, time)
    <2>1. q.window.start \subseteq Nat /\ q.window.end \subseteq Nat
      BY <1>1 DEF Shaped, IsOption
    <2>2. InWindow(time) <=> contains(q.window, time)
      BY <1>2, <2>1 DEF InWindow, contains, PastEnd
    <2>3. InWindow(time) => BeforeEnd(Len(file))
      BY <1>1 DEF Scanned, InWindow
    <2> QED
      BY <2>2, <2>3
  <1>4. command.kind = "change" => Events(command, time) = RowsOf(command, time)
    BY <1>1, <1>2, EventsAreRows
  <1>5. command.kind = "change" /\ ~Selected(command) => Events(command, time) = <<>>
    <2>1. Bindings(command.id) = <<>> => Events(command, time) = [i \in 1 .. 0 |-> i]
      BY DEF Events
    <2>2. [i \in 1 .. 0 |-> i] = <<>>
      OBVIOUS
    <2> QED
      BY <2>1, <2>2 DEF Selected
  <1>6. Selected(command) => command.kind = "change"
    BY DEF Selected
  <1> QED
    BY <1>2, <1>3, <1>4, <1>5, <1>6 DEF Added, Tells

\* A count of selected commands goes up by one or not at all.
LEMMA CallbacksGrow ==
    ASSUME file \in Seq(Commands[q.op]), NEW command \in Commands[q.op],
           file' = Append(file, command), q' = q
    PROVE  /\ Callbacks(file) \in Nat
           /\ Callbacks(file') = IF Selected(command) THEN Callbacks(file) + 1 ELSE Callbacks(file)
           /\ Callbacks(file)' = Callbacks(file')
  <1> DEFINE picked == {i \in DOMAIN file : Selected(file[i])}
             picked2 == {i \in DOMAIN file' : Selected(file'[i])}
             n == Len(file)
  <1>1. /\ n \in Nat /\ DOMAIN file = 1 .. n /\ DOMAIN file' = 1 .. n + 1
        /\ file'[n + 1] = command /\ \A i \in 1 .. n : file'[i] = file[i]
    OBVIOUS
  <1>2. IsFiniteSet(picked)
    <2>1. IsFiniteSet(1 .. n)
      BY <1>1, FS_Interval
    <2>2. picked \in SUBSET (1 .. n)
      BY <1>1
    <2> HIDE DEF picked, n
    <2> QED
      BY <2>1, <2>2, FS_Subset
  <1>3. picked2 = IF Selected(command) THEN picked \cup {n + 1} ELSE picked
    <2> HIDE DEF n
    <2>1. \A i : i \in 1 .. n + 1 <=> i \in 1 .. n \/ i = n + 1
      BY <1>1
    <2> QED
      BY <1>1, <2>1
  <1>4. n + 1 \notin picked
    BY <1>1
  <1>5. Callbacks(file)' = Callbacks(file')
    BY DEF Callbacks, Selected, Bindings
  <1>6. Callbacks(file) = Cardinality(picked) /\ Callbacks(file') = Cardinality(picked2)
    BY DEF Callbacks
  <1> HIDE DEF picked, picked2, n
  <1> QED
    BY <1>2, <1>3, <1>4, <1>5, <1>6, FS_AddElement, FS_CardinalityType

\* The next one is over a limit that is kept: the limit is used up.
LEMMA UsedUp ==
    ASSUME NEW limit, IsOption(limit), NEW n \in Nat,
           ~Exceeds(n, limit), Exceeds(n + 1, limit)
    PROVE  limit = {n}
  <1>1. PICK max \in limit : n + 1 > max
    BY DEF Exceeds
  <1>2. max \in Nat /\ ~(n > max)
    BY DEF Exceeds, IsOption
  <1>3. max = n
    BY <1>1, <1>2
  <1> QED
    BY <1>3 DEF IsOption

LEMMA ParseKeepsAInv ==
    ASSUME QInv, AInv, Parse
    PROVE  AInv'
  <1>1. PICK command \in Commands[q.op] : Reads(command) /\ Outcomes(command)
    BY ParseOutcomes
  <1>2. /\ file' = Append(file, command) /\ phase = "scan" /\ pending = <<>> /\ result = "none"
        /\ time' = IF command.kind = "time" THEN command.time ELSE time
        /\ UNCHANGED <<q, rows, bytes, last, counts, found>>
    BY <1>1 DEF Reads, consumer, QInv, Typed
  <1>3. /\ file \in Seq(Commands[q.op]) /\ Shaped /\ Valued /\ Scanned /\ Delivery /\ Budgets
        /\ Finding /\ Counting
    BY DEF QInv, Typed, AInv, Valued
  <1>4. /\ TimeAt(Len(file))' = IF command.kind = "time" THEN command.time ELSE TimeAt(Len(file))
        /\ BeforeEnd(Len(file))' <=>
               /\ BeforeEnd(Len(file))
               /\ command.kind = "time" => ~PastEnd(q.window, command.time)
        /\ Tells(command) \in Seq(Event)
        /\ Expected' = Expected \o Tells(command)
        /\ time \in Nat
    BY <1>2, <1>3, ExpectedGrows, AddedIsTold
  <1>5. rows = Expected /\ rows \in Seq(Event)
    BY <1>2, <1>3 DEF Delivery, Valued
  <1>6. Len(file) \in Nat /\ Len(file') = Len(file) + 1
    BY <1>2, <1>3
  <1>7. Ends(command) => command.kind = "time" /\ Tells(command) = <<>>
    BY DEF Ends, Tells, Selected
  <1>8. \/ phase' = "scan" /\ result' = "none"
        \/ phase' = "finish" /\ result' = "none"
        \/ phase' = "ended" /\ result' \in {"ok", "cancelled", "parse", "commands"}
    BY <1>1, <1>2 DEF Outcomes
  <1>9. Valued'
    <2>1. pending' \in Seq(Event)
      <3>1. <<>> \in Seq(Event)
        OBVIOUS
      <3> QED
        BY <1>1, <1>4, <3>1 DEF Outcomes
    <2>2. Event' = Event
      BY <1>2 DEF Event
    <2>3. Shaped'
      BY <1>2, <1>3 DEF Shaped
    <2> QED
      BY <1>2, <1>3, <2>1, <2>2, <2>3 DEF Valued
  <1>10. Scanned'
    <2>1. time' = TimeAt(Len(file))'
      BY <1>2, <1>3, <1>4 DEF Scanned
    <2>2. phase' = "scan" => (BeforeEnd(Len(file))' <=> ~PastEnd(q.window, time'))
      <3>1. BeforeEnd(Len(file)) <=> ~PastEnd(q.window, time)
        BY <1>2, <1>3 DEF Scanned
      <3>2. CASE command.kind # "time"
        BY <1>2, <1>4, <3>1, <3>2
      <3>3. CASE command.kind = "time" /\ q.backend # "fst"
        BY <1>2, <1>3, <1>4, <3>3 DEF Scanned
      <3>4. CASE command.kind = "time" /\ q.backend = "fst" /\ phase' = "scan"
        <4>1. command.time >= time /\ command.time \in Nat
          BY <1>1, <1>3, <3>4 DEF Outcomes, Shaped
        <4>2. q.window.end \subseteq Nat
          BY <1>3 DEF Shaped, IsOption
        <4>3. PastEnd(q.window, time) => PastEnd(q.window, command.time)
          BY <1>4, <4>1, <4>2 DEF PastEnd
        <4> QED
          BY <1>2, <1>4, <3>1, <3>4, <4>3
      <3> QED
        BY <3>2, <3>3, <3>4
    <2>3. phase' = "scan" /\ q.backend # "fst" => BeforeEnd(Len(file))'
      BY <1>1, <1>2, <1>3, <1>4 DEF Scanned, Outcomes, Ends
    <2> QED
      BY <1>2, <1>8, <2>1, <2>2, <2>3 DEF Scanned
  <1>11. Delivery'
    <2>1. phase' # "scan" => pending' = <<>>
      BY <1>1 DEF Outcomes
    <2>2. phase' = "scan" => rows \o pending' = Expected'
      BY <1>1, <1>4, <1>5 DEF Outcomes
    <2>3. Completing' \/ result' = "ok" => rows = Expected'
      <3>1. Completing' \/ result' = "ok" => Ends(command)
        BY <1>1, <1>2 DEF Outcomes, Completing
      <3>2. Expected \o <<>> = Expected
        BY <1>5
      <3> QED
        BY <1>4, <1>5, <1>7, <3>1, <3>2
    <2>4. \E rest \in Seq(Event) : Expected' = rows \o rest
      BY <1>4, <1>5
    <2>5. Event' = Event
      BY <1>2 DEF Event
    <2> QED
      BY <1>2, <1>8, <2>1, <2>2, <2>3, <2>4, <2>5 DEF Delivery
  <1>12. Budgets'
    <2>1. /\ Callbacks(file) \in Nat /\ Callbacks(file)' = Callbacks(file')
          /\ Callbacks(file') = IF Selected(command) THEN Callbacks(file) + 1 ELSE Callbacks(file)
      BY <1>2, <1>3, CallbacksGrow
    <2>2. /\ q.backend = "vcd" => Charged = Len(file) /\ Charged' = Len(file')
          /\ q.backend # "vcd" => Charged = Callbacks(file) /\ Charged' = Callbacks(file')
      BY <1>2, <2>1 DEF Charged
    <2>3. q.backend # "legacy" => ~Exceeds(Charged, q.max_commands)
      BY <1>2, <1>3 DEF Budgets
    <2>4. phase' = "scan" /\ q.backend # "legacy" => ~Exceeds(Charged', q.max_commands)
      <3>1. phase' = "scan" => ~OverBudget(command)
        BY <1>1 DEF Outcomes
      <3>2. CASE q.backend = "vcd"
        BY <2>2, <3>1, <3>2 DEF OverBudget
      <3>3. CASE q.backend = "fst"
        BY <2>1, <2>2, <2>3, <3>1, <3>3 DEF OverBudget
      <3> QED
        BY <1>1, <3>2, <3>3 DEF Reads
    <2>5. q.backend = "vcd" /\ (Completing' \/ result' = "ok") =>
              ~Exceeds(Len(file'), q.max_commands)
      BY <1>1, <1>2 DEF Outcomes, OverBudget, Completing
    <2>6. result' = "commands" => q.max_commands = {Charged' - 1}
      <3>1. result' = "commands" =>
                /\ Exceeds(Charged', q.max_commands) /\ Charged' = Charged + 1
                /\ q.backend # "legacy"
        BY <1>1, <1>2, <1>6, <2>1, <2>2 DEF Outcomes, OverBudget
      <3>2. Charged \in Nat
        BY <1>6, <2>1, <2>2
      <3>3. IsOption(q.max_commands)
        BY <1>3 DEF Shaped
      <3> QED
        BY <2>3, <3>1, <3>2, <3>3, UsedUp
    <2>7. result' \notin {"rows", "bytes"}
      BY <1>8
    <2>8. ~Exceeds(Len(rows), q.max_rows) /\ ~Exceeds(bytes, q.max_bytes) /\ bytes = BytesOf(rows)
      BY <1>3 DEF Budgets
    <2> QED
      BY <1>2, <2>4, <2>5, <2>6, <2>7, <2>8 DEF Budgets
  <1>13. Finding'
    <2>1. found = None /\ (q.op = "find" => q.occurrence # 0 /\ Cardinality(Hits(rows)) < q.occurrence)
      BY <1>2, <1>3 DEF Finding, Searching
    <2>2. Hits(rows)' = Hits(rows)
      BY <1>2 DEF Hits, Matches
    <2> QED
      BY <1>2, <2>1, <2>2 DEF Finding
  <1>14. Counting'
    BY <1>2, <1>3, KeptCounting
  <1> QED
    BY <1>9, <1>10, <1>11, <1>12, <1>13, <1>14 DEF AInv

LEMMA SomeNumbersAreFinite ==
    ASSUME NEW n \in Nat, NEW S \in SUBSET (1 .. n)
    PROVE  IsFiniteSet(S) /\ Cardinality(S) \in Nat
  <1>1. IsFiniteSet(1 .. n)
    BY FS_Interval
  <1>2. IsFiniteSet(S)
    BY <1>1, FS_Subset
  <1> QED
    BY <1>2, FS_CardinalityType

\* The hits among the events and one more.
LEMMA HitsGrow ==
    ASSUME NEW T, NEW events \in Seq(T), NEW event \in T
    PROVE  /\ Cardinality(Hits(events)) \in Nat
           /\ Cardinality(Hits(Append(events, event))) =
                  IF Matches(event) THEN Cardinality(Hits(events)) + 1
                  ELSE Cardinality(Hits(events))
  <1> DEFINE all == Append(events, event)
             n == Len(events)
  <1>1. /\ n \in Nat /\ DOMAIN events = 1 .. n /\ DOMAIN all = 1 .. n + 1
        /\ all[n + 1] = event /\ \A i \in 1 .. n : all[i] = events[i]
    OBVIOUS
  <1>2. \A i : i \in 1 .. n + 1 <=> i \in 1 .. n \/ i = n + 1
    BY <1>1
  <1> HIDE DEF all, n
  <1>3. Hits(events) \in SUBSET (1 .. n) /\ n + 1 \notin Hits(events)
    BY <1>1 DEF Hits
  <1>4. Hits(all) = IF Matches(event) THEN Hits(events) \cup {n + 1} ELSE Hits(events)
    BY <1>1, <1>2 DEF Hits
  <1>5. IsFiniteSet(Hits(events)) /\ Cardinality(Hits(events)) \in Nat
    BY <1>1, <1>3, SomeNumbersAreFinite
  <1> QED
    BY <1>3, <1>4, <1>5, FS_AddElement DEF all

Latest(events, n, i) ==
    {j \in Own(events, n) : j < i /\ \A m \in Own(events, n) : m <= j \/ m >= i}

Toggled(events, n) ==
    {i \in Own(events, n) : \E j \in Latest(events, n, i) :
        /\ TextOf(events, i) # TextOf(events, j)
        /\ q.backend = "vcd" => TextOf(events, j) # EmptyText}

LEMMA TogglesAre == ASSUME NEW events, NEW n PROVE TogglesIn(events, n) = Cardinality(Toggled(events, n))
  <1> DEFINE own == {i \in DOMAIN events : events[i].signal = n}
             text(i) == format_value_for_signal(events[i].value, Catalog[n].size)
             Before(i) == {j \in own : j < i /\ \A m \in own : m <= j \/ m >= i}
             toggled == {i \in own : \E j \in Before(i) :
                            /\ text(i) # text(j)
                            /\ q.backend = "vcd" => text(j) # EmptyText}
  <1>1. TogglesIn(events, n) = Cardinality(toggled)
    BY DEF TogglesIn
  <1>2. own = Own(events, n) /\ \A i \in own : text(i) = TextOf(events, i)
    BY DEF Own, TextOf
  <1>3. \A i : Before(i) = Latest(events, n, i)
    BY <1>2 DEF Latest
  <1>4. \A i : Before(i) \subseteq own
    OBVIOUS
  <1> HIDE DEF own, text, Before
  <1>5. toggled = Toggled(events, n)
    BY <1>2, <1>3, <1>4 DEF Toggled
  <1> QED
    BY <1>1, <1>5

NewText(event, n) == format_value_for_signal(event.value, Catalog[n].size)

Seen(events, n, text) ==
    IF q.backend = "vcd" THEN text # EmptyText
    ELSE \E i \in DOMAIN events : events[i].signal = n

Counted(events, all, event, n, text) ==
    TogglesIn(all, n) = IF n = event.signal /\ Seen(events, n, text) /\ text # NewText(event, n)
                        THEN TogglesIn(events, n) + 1 ELSE TogglesIn(events, n)

\* One more event toggles its name or not, according to the last text before.
LEMMA TogglesGrow ==
    ASSUME NEW T, NEW events \in Seq(T), NEW event \in T, NEW n, NEW text,
           LastIs(events, n, text), NEW all, all = Append(events, event)
    PROVE  /\ Counted(events, all, event, n, text)
           /\ n # event.signal => LastIs(all, n, text)
           /\ n = event.signal => LastIs(all, n, NewText(event, n))
  <1> DEFINE next == Len(events) + 1
             own == Own(events, n)
             new == NewText(event, n)
             seen == Seen(events, n, text)
  <1>1. /\ next \in Nat /\ Len(events) \in Nat /\ DOMAIN events = 1 .. Len(events)
        /\ DOMAIN all = 1 .. next
        /\ all[next] = event /\ \A i \in 1 .. Len(events) : all[i] = events[i]
    OBVIOUS
  <1>2. \A i : i \in 1 .. next <=> i \in 1 .. Len(events) \/ i = next
    BY <1>1
  <1>3. \A i \in 1 .. Len(events) : i < next /\ i \in Nat
    BY <1>1
  <1>4. own \in SUBSET (1 .. Len(events)) /\ Toggled(events, n) \in SUBSET (1 .. Len(events))
    BY <1>1 DEF Own, Toggled
  <1> HIDE DEF next
  <1>5. IsFiniteSet(Toggled(events, n)) /\ TogglesIn(events, n) \in Nat
    BY <1>1, <1>4, SomeNumbersAreFinite, TogglesAre
  <1>6. Own(all, n) = IF n = event.signal THEN own \cup {next} ELSE own
    BY <1>1, <1>2 DEF Own
  <1>7. \A i \in own : TextOf(all, i) = TextOf(events, i)
    BY <1>1, <1>4 DEF TextOf
  <1>8. \A i \in own : Latest(all, n, i) = Latest(events, n, i)
    <2> SUFFICES ASSUME NEW i \in own PROVE Latest(all, n, i) = Latest(events, n, i)
      OBVIOUS
    <2>1. ~(next < i) /\ next >= i
      BY <1>1, <1>3, <1>4
    <2> HIDE DEF own
    <2>2. CASE n = event.signal
      <3>1. Own(all, n) = own \cup {next}
        BY <1>6, <2>2
      <3> QED
        BY <2>1, <3>1 DEF Latest, own
    <2>3. CASE n # event.signal
      BY <1>6, <2>3 DEF Latest, own
    <2> QED
      BY <2>2, <2>3
  <1>9. \A i : Latest(events, n, i) \subseteq own
    BY DEF Latest
  <1>10. \A i \in own : i \in Toggled(all, n) <=> i \in Toggled(events, n)
    BY <1>6, <1>7, <1>8, <1>9 DEF Toggled
  <1>11. CASE n # event.signal
    <2>1. Toggled(all, n) = Toggled(events, n)
      <3>1. Toggled(all, n) \subseteq own /\ Toggled(events, n) \subseteq own
        BY <1>6, <1>11 DEF Toggled
      <3> QED
        BY <1>10, <3>1
    <2>2. LastIs(all, n, text)
      BY <1>6, <1>7, <1>11 DEF LastIs
    <2>3. TogglesIn(all, n) = TogglesIn(events, n)
      BY <2>1, TogglesAre
    <2> QED
      BY <1>11, <2>2, <2>3 DEF Counted
  <1>12. CASE n = event.signal
    <2>1. next \in Own(all, n) /\ TextOf(all, next) = new /\ next \notin own
      BY <1>1, <1>3, <1>4, <1>6, <1>12 DEF TextOf, NewText
    <2>2. LastIs(all, n, new)
      BY <1>1, <1>3, <1>4, <1>6, <1>12, <2>1 DEF LastIs
    <2>3. next \in Toggled(all, n) <=> seen /\ text # new
      <3>1. CASE own = {}
        <4>1. Latest(all, n, next) = {}
          BY <1>1, <1>6, <3>1 DEF Latest
        <4>2. text = EmptyText /\ ~seen
          BY <1>4, <3>1 DEF LastIs, Own, Seen
        <4> QED
          BY <4>1, <4>2 DEF Toggled
      <3>2. CASE own # {}
        <4>1. PICK i \in own : text = TextOf(events, i) /\ \A m \in own : m <= i
          BY <3>2 DEF LastIs
        <4>2. Latest(all, n, next) = {i}
          <5>1. i \in Latest(all, n, next)
            <6>1. i < next /\ next >= next /\ Own(all, n) = own \cup {next} /\ i \in Own(all, n)
              BY <1>1, <1>3, <1>4, <1>6, <1>12
            <6> HIDE DEF own
            <6> QED
              BY <4>1, <6>1 DEF Latest
          <5>2. ASSUME NEW j \in Latest(all, n, next) PROVE j = i
            <6>1. j \in Own(all, n) /\ j < next /\ (i <= j \/ i >= next)
              BY <1>6, <1>12, <4>1, <5>2 DEF Latest
            <6>2. j \in own
              BY <1>1, <1>6, <6>1
            <6> QED
              BY <1>1, <1>3, <1>4, <4>1, <6>1, <6>2
          <5> QED
            BY <5>1, <5>2
        <4>3. next \in Toggled(all, n) <=> new # text /\ (q.backend = "vcd" => text # EmptyText)
          BY <1>7, <2>1, <4>1, <4>2 DEF Toggled
        <4>4. \E m \in DOMAIN events : events[m].signal = n
          BY <4>1 DEF Own
        <4> QED
          BY <4>3, <4>4 DEF Seen
      <3> QED
        BY <3>1, <3>2
    <2>4. Toggled(all, n) = IF seen /\ text # new THEN Toggled(events, n) \cup {next}
                            ELSE Toggled(events, n)
      <3>1. Toggled(all, n) \subseteq own \cup {next} /\ Toggled(events, n) \subseteq own
        BY <1>6 DEF Toggled
      <3> HIDE DEF seen, new, own
      <3>2. CASE seen /\ text # new
        BY <1>10, <2>1, <2>3, <3>1, <3>2
      <3>3. CASE ~(seen /\ text # new)
        <4>1. next \notin Toggled(all, n)
          BY <2>3, <3>3
        <4>2. Toggled(all, n) = Toggled(events, n)
          BY <1>10, <3>1, <4>1
        <4> QED
          BY <3>3, <4>2, Zenon
      <3> QED
        BY <3>2, <3>3
    <2>5. next \notin Toggled(events, n)
      BY <2>1 DEF Toggled
    <2> HIDE DEF seen, new
    <2>6. TogglesIn(all, n) = IF seen /\ text # new THEN TogglesIn(events, n) + 1
                              ELSE TogglesIn(events, n)
      BY <1>5, <2>4, <2>5, FS_AddElement, TogglesAre
    <2> QED
      BY <1>12, <2>2, <2>6 DEF seen, new, Counted
  <1> QED
    BY <1>11, <1>12

(***************************************************************************)
(* An event is delivered or refused.                                       *)
(***************************************************************************)
\* The event at the head of what is pending comes after what is delivered.
LEMMA NextEvent ==
    ASSUME AInv, phase = "scan", pending # <<>>
    PROVE  /\ Head(pending) \in Event /\ Tail(pending) \in Seq(Event)
           /\ Append(rows, Head(pending)) \o Tail(pending) = Expected
           /\ Len(Expected) > Len(rows) /\ Len(rows) \in Nat
           /\ SubSeq(Expected, 1, Len(rows) + 1) = Append(rows, Head(pending))
           /\ BytesOf(Append(rows, Head(pending))) =
                  bytes + logical_event_bytes(Head(pending).signal, Head(pending).value)
  <1>1. rows \in Seq(Event) /\ pending \in Seq(Event) /\ rows \o pending = Expected /\ bytes = BytesOf(rows)
    BY DEF AInv, Valued, Delivery, Budgets
  <1>2. Head(pending) \in Event /\ Tail(pending) \in Seq(Event) /\ Len(pending) >= 1
    BY <1>1
  <1> DEFINE event == Head(pending)
             rest == Tail(pending)
             all == Append(rows, event)
             n == Len(rows)
  <1>3. /\ all \in Seq(Event) /\ Len(all) = n + 1 /\ n \in Nat
        /\ all[n + 1] = event /\ \A i \in 1 .. n : all[i] = rows[i]
    BY <1>1, <1>2
  <1>4. all \o rest = Expected
    <2>1. <<event>> \in Seq(Event) /\ rest \in Seq(Event) /\ pending = <<event>> \o rest
      BY <1>1, <1>2
    <2>2. all = rows \o <<event>>
      BY <1>1, <1>2, AppendIsConcat
    <2> HIDE DEF all, rest, event
    <2>3. (rows \o <<event>>) \o rest = rows \o (<<event>> \o rest)
      BY <1>1, <2>1, ConcatAssociative
    <2> QED
      BY <1>1, <2>1, <2>2, <2>3
  <1>5. SubSeq(Expected, 1, n + 1) = all
    <2>1. rest \in Seq(Event)
      BY <1>2
    <2> HIDE DEF all, rest, n
    <2>2. SubSeq(all \o rest, 1, n + 1) = all
      BY <1>3, <2>1
    <2> QED
      BY <1>4, <2>2
  <1>6. Len(Expected) > n
    <2>1. Len(rows \o pending) = Len(rows) + Len(pending)
      BY <1>1
    <2> QED
      BY <1>1, <1>2, <2>1
  <1>7. BytesOf(all) = bytes + logical_event_bytes(event.signal, event.value)
    BY <1>1, <1>2, BytesGrow
  <1> QED
    BY <1>2, <1>3, <1>4, <1>5, <1>6, <1>7

Refused ==
    /\ phase' = "ended" /\ pending' = <<>> /\ UNCHANGED <<rows, bytes, last, counts, found>>
    /\ \/ result' = "cancelled"
       \/ result' = "rows" /\ Exceeds(Len(rows) + 1, q.max_rows)
       \/ result' = "bytes" /\ Exceeds(bytes + logical_event_bytes(Head(pending).signal,
                                                Head(pending).value), q.max_bytes)

Accepted ==
    /\ rows' = Append(rows, Head(pending))
    /\ bytes' = bytes + logical_event_bytes(Head(pending).signal, Head(pending).value)
    /\ ~Exceeds(Len(rows) + 1, q.max_rows) /\ ~Exceeds(bytes', q.max_bytes)
    /\ Consume(Head(pending))

LEMMA EmitOutcomes ==
    ASSUME Emit
    PROVE  /\ phase = "scan" /\ pending # <<>> /\ UNCHANGED <<q, file, time>>
           /\ Refused \/ Accepted
  <1>1. phase = "scan" /\ pending # <<>> /\ UNCHANGED <<q, file, time>>
    BY DEF Emit
  <1> DEFINE event == Head(pending)
             size == bytes + logical_event_bytes(event.signal, event.value)
  <1>2. \/ Refuse("cancelled")
        \/ Exceeds(Len(rows) + 1, q.max_rows) /\ Refuse("rows")
        \/ Exceeds(size, q.max_bytes) /\ Refuse("bytes")
        \/ /\ ~Exceeds(Len(rows) + 1, q.max_rows) /\ ~Exceeds(size, q.max_bytes)
           /\ rows' = Append(rows, event) /\ bytes' = size /\ Consume(event)
    <2> HIDE DEF size, event
    <2> QED
      BY DEF Emit, event, size
  <1>3. ASSUME Refuse("cancelled") PROVE Refused
    BY <1>3 DEF Refuse, Refused, End, Delivered, consumer
  <1>4. ASSUME Exceeds(Len(rows) + 1, q.max_rows), Refuse("rows") PROVE Refused
    BY <1>4 DEF Refuse, Refused, End, Delivered, consumer
  <1>5. ASSUME Exceeds(size, q.max_bytes), Refuse("bytes") PROVE Refused
    BY <1>5 DEF Refuse, Refused, End, Delivered, consumer
  <1> QED
    BY <1>1, <1>2, <1>3, <1>4, <1>5 DEF Accepted

LEMMA RefusalKeepsAInv ==
    ASSUME QInv, AInv, phase = "scan", pending # <<>>, UNCHANGED <<q, file, time>>, Refused
    PROVE  AInv'
  <1>1. Valued /\ Scanned /\ Delivery /\ Budgets /\ Finding /\ Counting
    BY DEF AInv
  <1>2. phase' = "ended" /\ pending' = <<>> /\ UNCHANGED <<q, rows, bytes, last, counts, found>>
        /\ result' \in {"cancelled", "rows", "bytes"}
    BY DEF Refused
  <1>3. Valued'
    <2>1. <<>> \in Seq(Event)
      OBVIOUS
    <2> QED
      BY <1>1, <1>2, <2>1, SameBody DEF Valued
  <1>4. Scanned'
    BY <1>1, <1>2, SameBody DEF Scanned
  <1>5. Delivery'
    <2>1. pending \in Seq(Event) /\ Expected = rows \o pending
      BY <1>1 DEF Valued, Delivery
    <2> QED
      BY <1>1, <1>2, <2>1, SameBody DEF Delivery, Completing
  <1>6. Budgets'
    <2>1. ~Exceeds(Len(rows), q.max_rows) /\ ~Exceeds(bytes, q.max_bytes) /\ bytes = BytesOf(rows)
      BY <1>1 DEF Budgets
    <2>2. result' = "rows" => q.max_rows = {Len(rows)} /\ Len(Expected) > Len(rows)
      <3>1. IsOption(q.max_rows)
        BY <1>1 DEF Valued, Shaped
      <3> QED
        BY <2>1, <3>1, NextEvent, UsedUp DEF Refused
    <2>3. result' = "bytes" => Exceeds(BytesOf(SubSeq(Expected, 1, Len(rows) + 1)), q.max_bytes)
      BY NextEvent DEF Refused
    <2> QED
      BY <1>2, <2>1, <2>2, <2>3, SameBody DEF Budgets, Completing
  <1>7. Finding'
    BY <1>1, <1>2 DEF Finding, Searching, Completing
  <1>8. Counting'
    BY <1>1, <1>2, KeptCounting
  <1> QED
    BY <1>3, <1>4, <1>5, <1>6, <1>7, <1>8 DEF AInv

LEMMA DeliveryKeepsAInv ==
    ASSUME QInv, AInv, phase = "scan", pending # <<>>, UNCHANGED <<q, file, time>>, Accepted
    PROVE  AInv'
  <1> DEFINE event == Head(pending)
  <1>1. Valued /\ Shaped /\ Scanned /\ Delivery /\ Budgets /\ Finding /\ Counting /\ result = "none"
    BY DEF AInv, Valued, QInv, Typed
  <1>2. /\ event \in Event /\ rows' = Append(rows, event) /\ rows \in Seq(Event)
        /\ rows' \in Seq(Event) /\ Tail(pending) \in Seq(Event)
    BY <1>1, NextEvent DEF Accepted, Valued
  <1>3. \/ /\ q.op = "find" /\ UNCHANGED <<last, counts>>
           /\ Matches(event) /\ Cardinality(Hits(rows')) = q.occurrence
           /\ found' = {event} /\ pending' = <<>> /\ phase' = "finish" /\ result' = result
        \/ /\ q.op = "find" /\ UNCHANGED <<last, counts, found>>
           /\ ~(Matches(event) /\ Cardinality(Hits(rows')) = q.occurrence)
           /\ pending' = Tail(pending) /\ phase' = "scan" /\ result' = result
        \/ /\ q.op # "find" /\ UNCHANGED found
           /\ q.op = "toggles" => Toggles(event)
           /\ q.op # "toggles" => UNCHANGED <<last, counts>>
           /\ pending' = Tail(pending) /\ phase' = "scan" /\ result' = result
    BY DEF Accepted, Consume, ConsumeFind, Continue
  <1> HIDE DEF event
  <1>4. phase' \in {"scan", "finish"} /\ result' = "none"
    BY <1>1, <1>3
  <1>5. Valued'
    <2>1. pending' \in Seq(Event)
      <3>1. <<>> \in Seq(Event)
        OBVIOUS
      <3> QED
        BY <1>2, <1>3, <3>1
    <2>2. /\ last' = [n \in Range(q.targets) |-> last'[n]]
          /\ counts' = [n \in Range(q.targets) |-> counts'[n]]
      <3>1. /\ last = [n \in Range(q.targets) |-> last[n]]
            /\ counts = [n \in Range(q.targets) |-> counts[n]]
        BY <1>1 DEF Valued
      <3>2. CASE UNCHANGED <<last, counts>>
        BY <3>1, <3>2
      <3>3. CASE Toggles(event)
        BY <3>1, <3>3 DEF Toggles
      <3> QED
        BY <1>3, <3>2, <3>3
    <2> QED
      BY <1>1, <1>2, <2>1, <2>2, SameBody DEF Valued
  <1>6. Scanned'
    BY <1>1, <1>4, SameBody DEF Scanned
  <1>7. Delivery'
    <2>1. rows' \o Tail(pending) = Expected
      BY <1>2, NextEvent DEF event
    <2>2. rows' \o pending' = Expected \/ (phase' = "finish" /\ q.op = "find" /\ found' # None)
      BY <1>3, <2>1 DEF None
    <2>3. phase' = "finish" => pending' = <<>> /\ q.op = "find" /\ found' # None
      BY <1>3 DEF None
    <2>4. \E rest \in Seq(Event) : Expected = rows' \o rest
      BY <1>2, <2>1
    <2> QED
      BY <1>4, <2>2, <2>3, <2>4, SameBody DEF Delivery, Completing
  <1>8. Budgets'
    <2>1. bytes' = BytesOf(rows')
      BY <1>2, NextEvent DEF Accepted, event
    <2>2. Len(rows') = Len(rows) + 1
      BY <1>2
    <2>3. ~Exceeds(Len(rows'), q.max_rows) /\ ~Exceeds(bytes', q.max_bytes)
      BY <2>2 DEF Accepted
    <2>4. q.backend # "legacy" => ~Exceeds(Charged, q.max_commands)
      BY <1>1 DEF Budgets
    <2>5. q.backend = "vcd" => ~Exceeds(Len(file), q.max_commands)
      BY <2>4 DEF Charged
    <2> QED
      BY <1>4, <2>1, <2>3, <2>4, <2>5, SameBody DEF Budgets
  <1>9. Finding'
    <2>1. CASE q.op # "find"
      <3>1. found = None
        BY <1>1, <2>1 DEF Finding
      <3> QED
        BY <1>3, <2>1, <3>1 DEF Finding
    <2>2. CASE q.op = "find"
      <3>1. found = None /\ q.occurrence # 0 /\ Cardinality(Hits(rows)) < q.occurrence
            /\ q.occurrence \in Nat
        BY <1>1, <2>2 DEF Finding, Searching, Shaped
      <3>2. /\ Cardinality(Hits(rows)) \in Nat
            /\ Cardinality(Hits(rows')) = IF Matches(event) THEN Cardinality(Hits(rows)) + 1
                                          ELSE Cardinality(Hits(rows))
        BY <1>2, HitsGrow
      <3>3. Hits(rows)' = Hits(rows')
        BY DEF Hits, Matches
      <3>4. rows' # <<>> /\ rows'[Len(rows')] = event
        BY <1>2
      <3>5. Matches(rows[Len(rows)])' <=> Matches(event)
        BY <3>4 DEF Matches
      <3>6. CASE found' = {event} /\ Matches(event) /\ Cardinality(Hits(rows')) = q.occurrence
                 /\ phase' = "finish"
        <4>1. found' # None /\ found' = {rows'[Len(rows')]}
          BY <3>4, <3>6 DEF None
        <4>2. Matches(rows[Len(rows)])' /\ Cardinality(Hits(rows)') = q.occurrence
          BY <3>3, <3>5, <3>6
        <4> QED
          BY <1>4, <2>2, <3>1, <3>4, <3>6, <4>1, <4>2 DEF Finding
      <3>7. CASE UNCHANGED found /\ ~(Matches(event) /\ Cardinality(Hits(rows')) = q.occurrence)
                 /\ phase' = "scan"
        <4>1. Cardinality(Hits(rows')) < q.occurrence
          BY <3>1, <3>2, <3>7
        <4> QED
          BY <3>1, <3>3, <3>7, <4>1 DEF Finding
      <3> QED
        BY <1>3, <2>2, <3>6, <3>7
    <2> QED
      BY <2>1, <2>2
  <1>10. Counting'
    <2> SUFFICES ASSUME q.op = "toggles", NEW n \in Range(q.targets)
                 PROVE  LastIs(rows, n, last[n])' /\ counts'[n] = TogglesIn(rows, n)'
      BY DEF Counting
    <2>1. LastIs(rows, n, last[n]) /\ counts[n] = TogglesIn(rows, n)
      BY <1>1 DEF Counting
    <2>2. /\ last = [m \in Range(q.targets) |-> last[m]]
          /\ counts = [m \in Range(q.targets) |-> counts[m]]
      BY <1>1 DEF Valued
    <2>3. Toggles(event)
      BY <1>3
    <2>4. TogglesIn(rows, n)' = TogglesIn(rows', n) /\ (LastIs(rows, n, last[n])' <=> LastIs(rows', n, last'[n]))
      BY DEF TogglesIn, LastIs, Own, TextOf
    <2>5. PICK text, all : text = last[n] /\ all = rows'
      OBVIOUS
    <2>6. /\ Counted(rows, all, event, n, text)
          /\ n # event.signal => LastIs(all, n, text)
          /\ n = event.signal => LastIs(all, n, NewText(event, n))
      <3>1. LastIs(rows, n, text) /\ all = Append(rows, event)
        BY <1>2, <2>1, <2>5
      <3> QED
        BY <1>2, <3>1, TogglesGrow
    <2>7. CASE n # event.signal
      <3>1. last'[n] = last[n] /\ counts'[n] = counts[n]
        BY <2>2, <2>3, <2>7 DEF Toggles
      <3>2. TogglesIn(all, n) = TogglesIn(rows, n)
        BY <2>6, <2>7 DEF Counted
      <3> QED
        BY <2>1, <2>4, <2>5, <2>6, <2>7, <3>1, <3>2
    <2>8. CASE n = event.signal
      <3>1. last'[n] = NewText(event, n)
        BY <2>2, <2>3, <2>8 DEF Toggles, NewText
      <3>2. counts'[n] = IF Seen(rows, n, text) /\ text # NewText(event, n)
                         THEN counts[n] + 1 ELSE counts[n]
        BY <2>2, <2>3, <2>5, <2>8 DEF Toggles, NewText, Seen
      <3>3. counts'[n] = TogglesIn(all, n)
        BY <2>1, <2>6, <2>8, <3>2 DEF Counted
      <3> QED
        BY <2>4, <2>5, <2>6, <2>8, <3>1, <3>3
    <2> QED
      BY <2>7, <2>8
  <1> QED
    BY <1>5, <1>6, <1>7, <1>8, <1>9, <1>10 DEF AInv

LEMMA CollectKeepsAInv ==
    ASSUME QInv, AInv, Collect
    PROVE  AInv'
  <1>1. CASE Parse
    BY <1>1, ParseKeepsAInv
  <1>2. CASE Emit
    BY <1>2, EmitOutcomes, RefusalKeepsAInv, DeliveryKeepsAInv
  <1>3. CASE Resolve \/ Admit \/ EndOfBody \/ Finish \/ Validate \/ Recheck
    BY <1>3, StepsTurn, TurnKeepsAInv
  <1> QED
    BY <1>1, <1>2, <1>3 DEF Collect, Step

(***************************************************************************)
(* The comparison and the environment.                                     *)
(***************************************************************************)
LEMMA RestKeepsAInv ==
    ASSUME AInv, Kept, UNCHANGED <<phase, result>>
    PROVE  AInv'
  <1> USE KeptHistory DEF Kept, consumer
  <1>1. Valued' /\ Scanned' /\ Counting'
    BY DEF AInv, Scanned
  <1>2. Delivery'
    BY DEF AInv, Delivery, Completing
  <1>3. Budgets'
    BY DEF AInv, Budgets, Completing
  <1>4. Finding'
    BY DEF AInv, Finding, Searching, Completing, Matches
  <1> QED
    BY <1>1, <1>2, <1>3, <1>4 DEF AInv

\* The second side is read as if nothing had been read.
LEMMA CollectedFirstKeepsAInv ==
    ASSUME QInv, AInv, CollectedFirst
    PROVE  AInv'
  <1>1. CASE stage' # "second"
    <2>1. Kept /\ UNCHANGED <<phase, result>>
      BY <1>1 DEF CollectedFirst, Kept
    <2> QED
      BY <2>1, RestKeepsAInv
  <1>2. CASE stage' = "second"
    <2>1. /\ q' = [q EXCEPT !.backend = q.backends[2]] /\ file' = <<>> /\ time' = 0
          /\ rows' = <<>> /\ bytes' = 0 /\ phase' = "resolve" /\ result' = "none"
          /\ UNCHANGED <<pending, last, counts, found>>
      BY <1>2 DEF CollectedFirst, consumer
    <2>2. q.op = "compare" /\ phase = "ended"
      BY DEF CollectedFirst, QInv, Typed
    <2>3. Shaped /\ Valued /\ pending = <<>> /\ found = None
      BY <2>2 DEF AInv, Valued, Delivery, Finding
    <2>4. /\ DOMAIN q' = DOMAIN q /\ q'.op = q.op /\ q'.targets = q.targets /\ q'.window = q.window
          /\ q'.max_rows = q.max_rows /\ q'.max_bytes = q.max_bytes
          /\ q'.max_commands = q.max_commands /\ q'.occurrence = q.occurrence
      BY <2>1, <2>3 DEF Shaped
    <2>5. Shaped'
      BY <2>3, <2>4 DEF Shaped
    <2>6. Valued'
      <3>1. <<>> \in Seq(Event')
        OBVIOUS
      <3> QED
        BY <2>1, <2>3, <2>4, <2>5, <3>1 DEF Valued
    <2>7. DOMAIN file' = {} /\ Len(file') = 0 /\ 1 .. 0 = {} /\ Len(rows') = 0
      BY <2>1
    <2>8. Scanned'
      <3>1. TimeAt(Len(file))' = 0
        BY <2>7 DEF TimeAt
      <3> QED
        BY <2>1, <3>1 DEF Scanned
    <2>9. Delivery'
      <3>1. Expected' = FlattenSeq(<<>>)
        <4>1. [i \in DOMAIN file' |-> ExpectedAt(i)'] = <<>>
          BY <2>7
        <4> QED
          BY <4>1 DEF Expected
      <3>2. <<>> \in Seq(Event') /\ <<>> = <<>> \o <<>>
        OBVIOUS
      <3> QED
        BY <2>1, <2>3, <3>1, <3>2, FlattenEmpty DEF Delivery, Completing
    <2>10. Budgets'
      BY <2>1, <2>3, <2>4, <2>7, NothingYet DEF Budgets, Completing
    <2>11. Finding' /\ Counting'
      BY <2>1, <2>2, <2>3, <2>4 DEF Finding, Counting
    <2> QED
      BY <2>6, <2>8, <2>9, <2>10, <2>11 DEF AInv
  <1> QED
    BY <1>1, <1>2

LEMMA NextAInv ==
    ASSUME QInv, AInv, [CompareStep \/ Disturb]_compareVars
    PROVE  AInv'
  <1>1. CASE Start \/ CollectedSecond \/ Tick \/ Merged
                \/ RevalidateFirst \/ RevalidateSecond \/ Publish
    <2>1. Kept /\ UNCHANGED <<phase, result>>
      BY <1>1, ComparisonSteps DEF Advances, vars, consumer, Kept
    <2> QED
      BY <2>1, RestKeepsAInv
  <1>2. CASE Collect
    BY <1>2, CollectKeepsAInv
  <1>3. CASE CollectedFirst
    BY <1>3, CollectedFirstKeepsAInv
  <1>4. CASE Disturb \/ UNCHANGED compareVars
    <2>1. Kept /\ UNCHANGED <<phase, result>>
      BY <1>4 DEF Disturb, EngineDisturbed, Cancel, ReplaceSource, CancelLater, ReplaceLater,
                  ReplaceFirst, compareVars, vars, consumer, Kept
    <2> QED
      BY <2>1, RestKeepsAInv
  <1> QED
    BY <1>1, <1>2, <1>3, <1>4 DEF CompareStep

LEMMA AnswerInvariance == CompareSpec => [](QInv /\ AInv)
  <1>1. CompareInit => QInv /\ AInv
    BY InitQInv, InitAInv
  <1>2. QInv /\ AInv /\ [CompareStep \/ Disturb]_compareVars => (QInv /\ AInv)'
    BY NextQInv, NextAInv
  <1> QED
    BY <1>1, <1>2, PTL DEF CompareSpec

(***************************************************************************)
(* What the invariant says of the answers.                                 *)
(***************************************************************************)
LEMMA FirstOf ==
    ASSUME NEW T, NEW s \in Seq(T), NEW t \in Seq(T), NEW all, all = s \o t
    PROVE  /\ Len(s) <= Len(all) /\ Len(s) \in Nat /\ Len(all) \in Nat /\ all \in Seq(T)
           /\ SubSeq(s, 1, Len(s)) = s /\ SubSeq(all, 1, Len(s)) = s
           /\ \A i \in 1 .. Len(s) : all[i] = s[i]
  OBVIOUS

\* The rows of a query are a prefix of those its window and names ask for, and
\* all of them when it succeeds.  (SelectedChangeStream, emit_pending, and the
\* FST and legacy scans)
THEOREM RowsAreExact == CompareSpec => []RowsExact
  <1>1. ASSUME QInv, AInv PROVE RowsExact
    <2>1. PICK rest \in Seq(Event) : Expected = rows \o rest
      BY <1>1 DEF AInv, Delivery
    <2>2. IsPrefix(rows, Expected)
      BY <1>1, <2>1, FirstOf DEF AInv, Valued, IsPrefix
    <2>3. result = "ok" /\ q.op # "find" => rows = Expected
      BY <1>1 DEF AInv, Delivery
    <2> QED
      BY <2>2, <2>3 DEF RowsExact
  <1> QED
    BY <1>1, AnswerInvariance, PTL

\* No budget is exceeded by what is delivered, and an error for a budget means
\* that exactly this budget is used up.  (emit_pending, command budget)
THEOREM LimitsAreExact == CompareSpec => []LimitsExact
  <1>1. QInv /\ AInv => LimitsExact
    BY DEF AInv, Budgets, LimitsExact, Charged
  <1> QED
    BY <1>1, AnswerInvariance, PTL

\* Among more events there are no fewer hits.
LEMMA HitsBefore ==
    ASSUME NEW T, NEW events \in Seq(T), NEW m \in 0 .. Len(events), NEW n \in m .. Len(events)
    PROVE  /\ Cardinality(Hits(SubSeq(events, 1, m))) \in Nat
           /\ Cardinality(Hits(SubSeq(events, 1, n))) \in Nat
           /\ Cardinality(Hits(SubSeq(events, 1, m))) <= Cardinality(Hits(SubSeq(events, 1, n)))
           /\ n > m /\ n \in Hits(events) =>
                  Cardinality(Hits(SubSeq(events, 1, m))) < Cardinality(Hits(SubSeq(events, 1, n)))
  <1> DEFINE H(j) == {i \in 1 .. j : Matches(events[i])}
  <1>1. ASSUME NEW j \in 0 .. Len(events) PROVE Hits(SubSeq(events, 1, j)) = H(j)
    <2>1. DOMAIN SubSeq(events, 1, j) = 1 .. j /\ \A i \in 1 .. j : SubSeq(events, 1, j)[i] = events[i]
      OBVIOUS
    <2> QED
      BY <2>1 DEF Hits
  <1>2. m \in Nat /\ n \in Nat /\ m <= n /\ n \in 0 .. Len(events)
    OBVIOUS
  <1>3. H(m) \in SUBSET (1 .. m) /\ H(n) \in SUBSET (1 .. n) /\ H(m) \in SUBSET H(n)
    BY <1>2
  <1>4. n > m /\ n \in Hits(events) => n \in H(n) /\ n \notin H(m)
    BY <1>2 DEF Hits
  <1>5. Hits(SubSeq(events, 1, m)) = H(m) /\ Hits(SubSeq(events, 1, n)) = H(n)
    BY <1>1, <1>2
  <1> HIDE DEF H
  <1>6. IsFiniteSet(H(n)) /\ Cardinality(H(n)) \in Nat /\ Cardinality(H(m)) \in Nat
    BY <1>2, <1>3, SomeNumbersAreFinite
  <1>7. Cardinality(H(m)) <= Cardinality(H(n))
        /\ (Cardinality(H(n)) = Cardinality(H(m)) => H(n) = H(m))
    BY <1>3, <1>6, FS_Subset
  <1> QED
    BY <1>4, <1>5, <1>6, <1>7

LEMMA FindIsExact ==
    ASSUME QInv, AInv, result = "ok", q.op = "find"
    PROVE  found = {Expected[i] : i \in {h \in Hits(Expected) :
                       Cardinality(Hits(SubSeq(Expected, 1, h))) = q.occurrence}}
  <1> DEFINE among(h) == Cardinality(Hits(SubSeq(Expected, 1, h)))
             chosen == {h \in Hits(Expected) : among(h) = q.occurrence}
  <1>1. PICK rest \in Seq(Event) : Expected = rows \o rest
    BY DEF AInv, Delivery
  <1>2. rows \in Seq(Event) /\ q.occurrence \in Nat
    BY DEF AInv, Valued, Shaped
  <1> DEFINE n == Len(rows)
  <1>3. /\ Expected \in Seq(Event) /\ n \in Nat /\ Len(Expected) \in Nat /\ n <= Len(Expected)
        /\ SubSeq(Expected, 1, n) = rows /\ SubSeq(rows, 1, n) = rows
        /\ \A i \in 1 .. n : Expected[i] = rows[i]
    BY <1>1, <1>2, FirstOf
  <1>4. Hits(Expected) \subseteq 1 .. Len(Expected)
    BY <1>3 DEF Hits
  <1> HIDE DEF n
  <1>5. CASE found = None
    <2>1. rows = Expected /\ Cardinality(Hits(rows)) < q.occurrence
      BY <1>5 DEF AInv, Delivery, Finding, Searching
    <2>2. ASSUME NEW h \in Hits(Expected) PROVE among(h) # q.occurrence
      <3>1. h \in 0 .. Len(Expected) /\ Len(Expected) \in h .. Len(Expected)
        BY <1>3, <1>4
      <3>2. SubSeq(Expected, 1, Len(Expected)) = Expected
        BY <1>3, <2>1 DEF n
      <3>3. among(h) <= Cardinality(Hits(Expected)) /\ among(h) \in Nat
            /\ Cardinality(Hits(Expected)) \in Nat
        BY <1>3, <3>1, <3>2, HitsBefore
      <3> HIDE DEF among
      <3> QED
        BY <1>2, <2>1, <3>3
    <2>3. chosen = {}
      BY <2>2
    <2> HIDE DEF chosen
    <2>4. {Expected[i] : i \in chosen} = {}
      BY <2>3
    <2> QED
      BY <1>5, <2>4 DEF chosen, None
  <1>6. CASE found # None
    <2>1. /\ rows # <<>> /\ found = {rows[n]} /\ Matches(rows[n])
          /\ Cardinality(Hits(rows)) = q.occurrence
      BY <1>6 DEF AInv, Finding, n
    <2>2. n \in 1 .. Len(Expected) /\ Expected[n] = rows[n] /\ n >= 1
      BY <1>2, <1>3, <2>1 DEF n
    <2>3. n \in chosen
      <3>1. n \in Hits(Expected)
        BY <1>3, <2>1, <2>2 DEF Hits
      <3>2. among(n) = q.occurrence
        BY <1>3, <2>1
      <3> HIDE DEF among
      <3> QED
        BY <3>1, <3>2
    <2>4. ASSUME NEW h \in chosen PROVE h = n
      <3>1. h \in Hits(Expected) /\ h \in 1 .. Len(Expected) /\ among(h) = q.occurrence
        BY <1>4
      <3>2. among(n) = q.occurrence /\ n \in Hits(Expected)
        BY <2>3
      <3>3. CASE h > n
        <4>1. n \in 0 .. Len(Expected) /\ h \in n .. Len(Expected)
          BY <1>3, <2>2, <3>1, <3>3
        <4>2. among(n) < among(h)
          BY <1>3, <3>1, <3>3, <4>1, HitsBefore
        <4> QED
          BY <1>2, <3>1, <3>2, <4>2
      <3>4. CASE n > h
        <4>1. h \in 0 .. Len(Expected) /\ n \in h .. Len(Expected)
          BY <1>3, <2>2, <3>1, <3>4
        <4>2. among(h) < among(n)
          BY <1>3, <3>2, <3>4, <4>1, HitsBefore
        <4> QED
          BY <1>2, <3>1, <3>2, <4>2
      <3> QED
        BY <1>3, <3>1, <3>3, <3>4
    <2>5. chosen = {n}
      BY <2>3, <2>4
    <2> HIDE DEF chosen
    <2>6. {Expected[i] : i \in chosen} = {rows[n]}
      BY <2>2, <2>5
    <2> QED
      BY <2>1, <2>6 DEF chosen
  <1> QED
    BY <1>5, <1>6

\* A find that succeeds names the hit it was asked for, or says that there are
\* not so many; a toggle count is the number of changes of the text.
\* (Waveform::find, toggles, and the VCD consumers of ops.rs)
THEOREM AnswersAreExact == CompareSpec => []AnswerExact
  <1>1. ASSUME QInv, AInv PROVE AnswerExact
    <2> SUFFICES ASSUME result = "ok"
                 PROVE CASE q.op = "find" ->
                              found = {Expected[i] : i \in {h \in Hits(Expected) :
                                  Cardinality(Hits(SubSeq(Expected, 1, h))) = q.occurrence}}
                         [] q.op = "toggles" ->
                              \A n \in Range(q.targets) : counts[n] = TogglesIn(Expected, n)
                         [] OTHER -> found = None
      BY DEF AnswerExact
    <2>1. CASE q.op = "find"
      BY <1>1, <2>1, FindIsExact
    <2>2. CASE q.op = "toggles"
      <3>1. rows = Expected
        BY <1>1, <2>2 DEF AInv, Delivery
      <3>2. \A n \in Range(q.targets) : counts[n] = TogglesIn(rows, n)
        BY <1>1, <2>2 DEF AInv, Counting
      <3> QED
        BY <2>2, <3>1, <3>2
    <2>3. CASE q.op \notin {"find", "toggles"}
      <3>1. found = None
        BY <1>1, <2>3 DEF AInv, Finding
      <3> QED
        BY <2>3, <3>1
    <2> QED
      BY <2>1, <2>2, <2>3
  <1> QED
    BY <1>1, AnswerInvariance, PTL

(***************************************************************************)
(* The third inductive invariant: the merge of a comparison.  Between two  *)
(* of its steps there is a time such that every entry before it has been   *)
(* merged and none after it (Standing), and what was found is what there   *)
(* is to tell of the signals before and of this signal up to that time.    *)
(***************************************************************************)
InTime(events) == \A i \in DOMAIN events : events[i].time \in 0 .. Never

\* A comparison knows the times of both sides, whatever it has read of them.
Timely ==
    /\ q.op = "compare" =>
           /\ "max_mismatches" \in DOMAIN q /\ IsOption(q.max_mismatches)
           /\ time <= Never /\ InTime(rows) /\ InTime(pending)
    /\ DOMAIN lines = Sides
    /\ \A s \in Sides : lines[s] \in Seq(Range(lines[s])) /\ InTime(lines[s])

\* Entries i and later are those of time t and later.
Splits(line, i, t) ==
    /\ i \in 1 .. Len(line) + 1
    /\ \A m \in 1 .. Len(line) : IF m < i THEN line[m].time < t ELSE line[m].time >= t

StandsAt(name, i, values, t) ==
    \A s \in Sides :
        /\ Splits(Timeline(s, name), i[s], t)
        /\ values[s] = IF i[s] = 1 THEN Unknown ELSE Timeline(s, name)[i[s] - 1].value

Standing(name, t) == StandsAt(name, at, current, t)

\* What there is to tell of the first n signals.
ToldBefore(n) == FlattenSeq([i \in 1 .. n |-> Mismatches(q.targets[i])])

Underway(t) ==
    LET name == q.targets[k] IN
    /\ Standing(name, t)
    /\ mismatches = ToldBefore(k - 1) \o Told(name, t)
    /\ count = Len(Told(name, t))
    /\ count # 0 => \A max \in q.max_mismatches : count < max

InOrder == \A s \in Sides, n \in Range(q.targets) : Sorted(Timeline(s, n))

\* A signal is begun.
AtStart ==
    /\ at = [s \in Sides |-> 1] /\ current = [s \in Sides |-> Unknown] /\ count = 0

MergeInv ==
    /\ Timely
    /\ stage \in {"start", "first", "second"} => k = 1 /\ mismatches = <<>> /\ AtStart
    /\ stage = "merge" /\ InOrder =>
           /\ k \in Nat \ {0}
           /\ IF k <= Len(q.targets) THEN \E t \in 0 .. Never : Underway(t)
              ELSE mismatches = ToldBefore(Len(q.targets))
    /\ (stage \in Merging \ {"merge"} \/ outcome = "ok") /\ InOrder =>
           mismatches = ToldBefore(Len(q.targets))

(***************************************************************************)
(* What there is to tell, one time and one signal after the other.         *)
(***************************************************************************)
Tellings(name) == {Mismatch(name, t) : t \in Int}
Telling(name) ==
    [i \in Nat |-> IF Differs(name, i - 1) THEN <<Mismatch(name, i - 1)>> ELSE <<>>]

LEMMA ToldIs ==
    ASSUME NEW name
    PROVE  /\ Telling(name) \in [Nat -> Seq(Tellings(name))]
           /\ \A t \in Nat : Told(name, t) = Upto(Telling(name), t)
  <1>1. ASSUME NEW i \in Nat PROVE Telling(name)[i] \in Seq(Tellings(name))
    <2>1. Mismatch(name, i - 1) \in Tellings(name)
      BY DEF Tellings
    <2>2. PICK x \in Tellings(name) : x = Mismatch(name, i - 1)
      BY <2>1
    <2>3. <<x>> \in Seq(Tellings(name)) /\ <<>> \in Seq(Tellings(name))
      OBVIOUS
    <2> QED
      BY <2>2, <2>3 DEF Telling
  <1>2. ASSUME NEW t \in Nat PROVE Told(name, t) = Upto(Telling(name), t)
    <2>1. [i \in 1 .. t |-> IF Differs(name, i - 1) THEN <<Mismatch(name, i - 1)>> ELSE <<>>]
          = [i \in 1 .. t |-> Telling(name)[i]]
      BY DEF Telling
    <2> QED
      BY <2>1, Zenon DEF Told, Upto
  <1>3. Telling(name) = [i \in Nat |-> Telling(name)[i]]
    BY DEF Telling
  <1> QED
    BY <1>1, <1>2, <1>3

LEMMA ToldGrows ==
    ASSUME NEW name, NEW t \in Nat
    PROVE  /\ Told(name, 0) = <<>> /\ Told(name, t) \in Seq(Tellings(name))
           /\ Differs(name, t) => Told(name, t + 1) = Told(name, t) \o <<Mismatch(name, t)>>
           /\ ~Differs(name, t) => Told(name, t + 1) = Told(name, t)
  <1>1. /\ Telling(name)[t + 1] = IF Differs(name, t) THEN <<Mismatch(name, t)>> ELSE <<>>
        /\ t + 1 \in Nat
    <2>1. t + 1 \in Nat /\ (t + 1) - 1 = t
      OBVIOUS
    <2> QED
      BY <2>1 DEF Telling
  <1>2. /\ Told(name, t) \in Seq(Tellings(name)) /\ Told(name, 0) = <<>>
        /\ Told(name, t + 1) = Told(name, t) \o Telling(name)[t + 1]
    <2>1. PICK p : p = Telling(name) /\ p \in [Nat -> Seq(Tellings(name))]
      BY ToldIs
    <2>2. /\ Upto(p, t) \in Seq(Tellings(name)) /\ Upto(p, t + 1) = Upto(p, t) \o p[t + 1]
          /\ Upto(p, 0) = <<>>
      BY <2>1, UptoGrows
    <2>3. /\ Told(name, t) = Upto(p, t) /\ Told(name, t + 1) = Upto(p, t + 1)
          /\ Told(name, 0) = Upto(p, 0)
      BY <1>1, <2>1, ToldIs
    <2> QED
      BY <2>1, <2>2, <2>3
  <1>3. Told(name, t) \o <<>> = Told(name, t)
    BY <1>2
  <1> QED
    BY <1>1, <1>2, <1>3

\* Times at which nothing happens add nothing.
LEMMA ToldQuiet ==
    ASSUME NEW name, NEW t \in Nat, NEW u \in Nat, t <= u,
           \A v \in t .. u - 1 : ~Differs(name, v)
    PROVE  Told(name, u) = Told(name, t)
  <1>1. \A i \in t + 1 .. u : Telling(name)[i] = <<>>
    <2>1. \A i \in t + 1 .. u : i - 1 \in t .. u - 1 /\ i \in Nat
      OBVIOUS
    <2> QED
      BY <2>1 DEF Telling
  <1> QED
    BY <1>1, ToldIs, UptoQuiet, SMTT(30)

LEMMA ToldPrefix ==
    ASSUME NEW name, NEW t \in Nat, NEW u \in Nat, t <= u
    PROVE  \E rest \in Seq(Tellings(name)) : Told(name, u) = Told(name, t) \o rest
  <1>1. UptoFollows(Tellings(name), Telling(name), t, u)
    BY ToldIs, UptoPrefix
  <1> QED
    BY <1>1, ToldIs, Zenon DEF UptoFollows

LEMMA LeastOfTwo ==
    ASSUME NEW a \in Nat, NEW b \in Nat
    PROVE  Min({a, b}) = (IF a <= b THEN a ELSE b) /\ Min({a}) = a
  BY DEF Min

\* The limit of a signal, at least one.
LEMMA MismatchesAre ==
    ASSUME IsOption(q.max_mismatches), NEW name, NEW all, all = Told(name, Never)
    PROVE  /\ Mismatches(name) \in Seq(Tellings(name)) /\ all \in Seq(Tellings(name))
           /\ (\A max \in q.max_mismatches : Len(all) <= max) \/ Len(all) = 0 =>
                  Mismatches(name) = all
           /\ \A max \in q.max_mismatches, n \in 1 .. Len(all) :
                  n >= max /\ (n = 1 \/ n <= max) => Mismatches(name) = SubSeq(all, 1, n)
  <1> DEFINE limits == {Max({1, max}) : max \in q.max_mismatches}
             least == Min({Len(all)} \cup limits)
  <1>1. all \in Seq(Tellings(name)) /\ Len(all) \in Nat
    <2>1. Never \in Nat
      BY CompareAssumption
    <2>2. all \in Seq(Tellings(name))
      BY <2>1, ToldGrows
    <2> QED
      BY <2>2
  <1>2. Mismatches(name) = SubSeq(all, 1, least)
    BY DEF Mismatches
  <1>3. ASSUME NEW max \in q.max_mismatches
        PROVE  Max({1, max}) = IF max > 1 THEN max ELSE 1
    <2>1. max \in Nat
      BY DEF IsOption
    <2> QED
      BY <2>1 DEF Max
  <1>4. CASE q.max_mismatches = {}
    <2>1. limits = {}
      BY <1>4
    <2>2. least = Len(all)
      <3>1. {Len(all)} \cup limits = {Len(all)}
        BY <2>1
      <3> QED
        BY <1>1, <3>1, LeastOfTwo
    <2>3. SubSeq(all, 1, Len(all)) = all
      BY <1>1
    <2> QED
      BY <1>1, <1>2, <1>4, <2>2, <2>3
  <1>5. CASE q.max_mismatches # {}
    <2>1. PICK max \in Nat : q.max_mismatches = {max}
      BY <1>5 DEF IsOption
    <2>2. PICK n \in Nat \ {0} : limits = {n} /\ n = IF max > 1 THEN max ELSE 1
      BY <1>3, <2>1
    <2>3. least = IF Len(all) <= n THEN Len(all) ELSE n
      <3>1. {Len(all)} \cup limits = {Len(all), n}
        BY <2>2
      <3>2. Min({Len(all), n}) = IF Len(all) <= n THEN Len(all) ELSE n
        BY <1>1, LeastOfTwo
      <3>3. least = Min({Len(all), n})
        BY <3>1
      <3> QED
        BY <3>2, <3>3
    <2> HIDE DEF limits, least
    <2>4. SubSeq(all, 1, Len(all)) = all
      BY <1>1
    <2>5. least \in 0 .. Len(all)
      BY <1>1, <2>3
    <2>6. SubSeq(all, 1, least) \in Seq(Tellings(name))
      BY <1>1, <2>5
    <2>7. /\ Len(all) <= max \/ Len(all) = 0 => least = Len(all)
          /\ \A m \in 1 .. Len(all) : m >= max /\ (m = 1 \/ m <= max) => least = m
      BY <1>1, <2>2, <2>3
    <2>8. \A x \in q.max_mismatches : x = max
      BY <2>1
    <2>9. Mismatches(name) \in Seq(Tellings(name))
      BY <1>2, <2>6
    <2> QED
      BY <1>1, <1>2, <2>1, <2>4, <2>7, <2>8, <2>9
  <1> QED
    BY <1>4, <1>5

Everything == UNION {Tellings(q.targets[i]) : i \in Nat}

LEMMA ToldBeforeGrows ==
    ASSUME IsOption(q.max_mismatches), NEW n \in Nat
    PROVE  /\ ToldBefore(n) \in Seq(Everything) /\ ToldBefore(0) = <<>>
           /\ ToldBefore(n + 1) = ToldBefore(n) \o Mismatches(q.targets[n + 1])
  <1> DEFINE p == [i \in Nat |-> Mismatches(q.targets[i])]
  <1>1. ASSUME NEW i \in Nat PROVE Mismatches(q.targets[i]) \in Seq(Everything)
    <2>1. Tellings(q.targets[i]) \subseteq Everything
      BY DEF Everything
    <2>2. Mismatches(q.targets[i]) \in Seq(Tellings(q.targets[i]))
      BY MismatchesAre
    <2>3. \A S, T : S \subseteq T => Seq(S) \subseteq Seq(T)
      OBVIOUS
    <2> QED
      BY <2>1, <2>2, <2>3
  <1>2. p \in [Nat -> Seq(Everything)]
    BY <1>1
  <1>3. ASSUME NEW m \in Nat PROVE ToldBefore(m) = Upto(p, m)
    <2>1. [i \in 1 .. m |-> Mismatches(q.targets[i])] = [i \in 1 .. m |-> p[i]]
      OBVIOUS
    <2> QED
      BY <2>1, Zenon DEF ToldBefore, Upto
  <1>4. n + 1 \in Nat /\ p[n + 1] = Mismatches(q.targets[n + 1])
    OBVIOUS
  <1> HIDE DEF p
  <1> QED
    BY <1>2, <1>3, <1>4, UptoGrows

(***************************************************************************)
(* A timeline and where the merge stands in it.                            *)
(***************************************************************************)
LEMMA TimelineIs ==
    ASSUME NEW s \in Sides, lines[s] \in Seq(Range(lines[s])), InTime(lines[s]), NEW name
    PROVE  Timeline(s, name) \in Seq(Range(lines[s])) /\ InTime(Timeline(s, name))
  <1> DEFINE T == Range(lines[s])
             own == [i \in DOMAIN lines[s] |->
                        IF lines[s][i].signal = name THEN <<lines[s][i]>> ELSE <<>>]
  <1>1. \A e \in T : e.time \in 0 .. Never
    BY DEF InTime, Range
  <1>2. PICK line \in Seq(T) : line = lines[s]
    OBVIOUS
  <1>3. /\ DOMAIN lines[s] = 1 .. Len(line) /\ Len(line) \in Nat
        /\ \A i \in 1 .. Len(line) : lines[s][i] \in T
    BY <1>2
  <1>4. own \in Seq(Seq(T)) /\ <<>> \in Seq(T)
    <2> HIDE DEF T
    <2>1. \A i \in 1 .. Len(line) : own[i] \in Seq(T)
      BY <1>3
    <2>2. own = [i \in 1 .. Len(line) |-> own[i]]
      BY <1>3
    <2> HIDE DEF own
    <2> QED
      BY <1>3, <2>1, <2>2
  <1>5. Timeline(s, name) = FlattenSeq(own)
    BY DEF Timeline
  <1> HIDE DEF own, T
  <1>6. Timeline(s, name) \in Seq(T)
    BY <1>4, <1>5, FlattenAppend
  <1>7. PICK t \in Seq(T) : t = Timeline(s, name)
    BY <1>6
  <1>8. \A i \in DOMAIN t : t[i] \in T
    OBVIOUS
  <1>9. InTime(t)
    BY <1>1, <1>8 DEF InTime
  <1> QED
    BY <1>6, <1>7, <1>9 DEF T

\* Adjacent entries are in order, so any two are.
LEMMA SortedPairs ==
    ASSUME NEW T, NEW line \in Seq(T), InTime(line), Sorted(line), Never \in Nat,
           NEW i \in 1 .. Len(line), NEW j \in i .. Len(line)
    PROVE  line[i].time <= line[j].time
  <1> DEFINE S == {d \in Nat : i + d <= Len(line) => line[i].time <= line[i + d].time}
  <1>0. /\ Len(line) \in Nat /\ DOMAIN line = 1 .. Len(line)
        /\ \A m \in 1 .. Len(line) : line[m].time \in Nat
    BY DEF InTime
  <1>1. 0 \in S
    BY <1>0
  <1>2. ASSUME NEW d \in S PROVE d + 1 \in S
    <2>1. d \in Nat /\ d + 1 \in Nat /\ i + (d + 1) = (i + d) + 1
      OBVIOUS
    <2> SUFFICES ASSUME i + (d + 1) <= Len(line)
                 PROVE  line[i].time <= line[i + (d + 1)].time
      BY <2>1
    <2>2. i + d \in 1 .. Len(line) /\ (i + d) + 1 \in 2 .. Len(line)
      BY <1>0, <2>1
    <2>3. line[i].time <= line[i + d].time
      BY <1>0, <2>2
    <2>4. line[((i + d) + 1) - 1].time <= line[(i + d) + 1].time
      BY <2>2 DEF Sorted
    <2>5. ((i + d) + 1) - 1 = i + d
      BY <2>1
    <2>6. line[i + d].time <= line[(i + d) + 1].time
      BY <2>4, <2>5
    <2> QED
      BY <1>0, <2>1, <2>2, <2>3, <2>6
  <1>3. S = Nat
    <2>1. S \in SUBSET Nat
      OBVIOUS
    <2> HIDE DEF S
    <2> QED
      BY <1>1, <1>2, <2>1, SetInduction
  <1>4. j - i \in Nat /\ i + (j - i) = j
    BY <1>0
  <1>5. j - i \in S
    BY <1>3, <1>4
  <1> QED
    BY <1>0, <1>4, <1>5

\* What the merge has passed is of earlier times, and all of it counts.
LEMMA ValueThen ==
    ASSUME NEW T, NEW line \in Seq(T), InTime(line), Never \in Nat, NEW t \in Nat, NEW n,
           Splits(line, n, t + 1)
    PROVE  ValueAt(line, t) = IF n = 1 THEN Unknown ELSE line[n - 1].value
  <1> DEFINE past == {i \in DOMAIN line : line[i].time <= t}
  <1>1. /\ Len(line) \in Nat /\ DOMAIN line = 1 .. Len(line) /\ n \in 1 .. Len(line) + 1
        /\ \A m \in 1 .. Len(line) : line[m].time \in Nat
    BY DEF InTime, Splits
  <1>2. \A m \in 1 .. Len(line) : m < n <=> line[m].time <= t
    <2>1. \A m \in 1 .. Len(line) : IF m < n THEN line[m].time < t + 1 ELSE line[m].time >= t + 1
      BY DEF Splits
    <2> QED
      BY <1>1, <2>1
  <1>3. past = 1 .. n - 1
    BY <1>1, <1>2
  <1>4. CASE n = 1
    <2>1. past = {}
      BY <1>3, <1>4
    <2> QED
      BY <1>4, <2>1 DEF ValueAt
  <1>5. CASE n # 1
    <2>1. past # {} /\ past \in SUBSET (1 .. Len(line)) /\ n - 1 \in past
      BY <1>1, <1>3, <1>5
    <2> HIDE DEF past
    <2>2. Max(past) \in past /\ \A x \in past : Max(past) >= x
      BY <1>1, <2>1, MaxExists
    <2>3. Max(past) = n - 1
      BY <1>1, <1>3, <2>1, <2>2
    <2>4. ValueAt(line, t) = line[Max(past)].value
      BY <2>1 DEF ValueAt, past
    <2> QED
      BY <1>5, <2>3, <2>4
  <1> QED
    BY <1>4, <1>5

\* The entries of time t are passed, and no more.
LEMMA AfterIs ==
    ASSUME NEW T, NEW line \in Seq(T), InTime(line), Sorted(line), Never \in Nat,
           NEW u \in Nat, NEW t \in Nat, u <= t, NEW i, Splits(line, i, u),
           TimeOf(line, i) >= t, t < Never
    PROVE  LET n == After(line, i, t) IN
           /\ Splits(line, n, t + 1) /\ n \in i .. Len(line) + 1
  <1> DEFINE same(n) == \A m \in i .. n - 1 : line[m].time = t
             S == {n \in 1 .. Len(line) + 1 : n >= i /\ same(n)}
             n == After(line, i, t)
  <1>1. /\ Len(line) \in Nat /\ DOMAIN line = 1 .. Len(line) /\ i \in 1 .. Len(line) + 1
        /\ \A m \in 1 .. Len(line) : line[m].time \in Nat
    BY DEF InTime, Splits
  <1>2. PICK m \in i .. Len(line) + 1 : same(m) /\ (m <= Len(line) => line[m].time # t)
    <2>1. i \in S
      BY <1>1
    <2>2. S \in SUBSET (1 .. Len(line) + 1) /\ S # {} /\ Len(line) + 1 \in Nat
      BY <1>1, <2>1
    <2> DEFINE m == Max(S)
    <2>3. m \in S /\ \A x \in S : m >= x
      <3> HIDE DEF S
      <3> QED
        BY <2>2, MaxExists
    <2> HIDE DEF m
    <2>4. ASSUME m <= Len(line), line[m].time = t PROVE FALSE
      <3>1. m + 1 \in 1 .. Len(line) + 1 /\ m + 1 >= i /\ m \in Nat
        BY <1>1, <2>3, <2>4
      <3>2. \A l \in i .. (m + 1) - 1 : l = m \/ l \in i .. m - 1
        BY <1>1, <3>1
      <3>3. same(m + 1)
        BY <2>3, <2>4, <3>2
      <3>4. m + 1 \in S
        BY <3>1, <3>3
      <3> QED
        BY <2>3, <3>1, <3>4
    <2>5. m \in i .. Len(line) + 1 /\ same(m)
      BY <1>1, <2>3
    <2> QED
      BY <2>4, <2>5
  <1>3. n \in i .. Len(line) + 1 /\ same(n) /\ (n <= Len(line) => line[n].time # t)
    BY <1>2 DEF After
  <1> HIDE DEF n
  <1>4. ASSUME NEW l \in 1 .. Len(line), l < n PROVE line[l].time < t + 1
    <2>1. CASE l < i
      <3>1. line[l].time < u
        BY <1>1, <2>1 DEF Splits
      <3> QED
        BY <1>1, <3>1
    <2>2. CASE l >= i
      <3>1. l \in i .. n - 1
        BY <1>1, <1>3, <1>4, <2>2
      <3> QED
        BY <1>1, <1>3, <3>1
    <2> QED
      BY <1>1, <2>1, <2>2
  <1>5. ASSUME NEW l \in 1 .. Len(line), l >= n PROVE line[l].time >= t + 1
    <2>1. n \in 1 .. Len(line) /\ i \in 1 .. Len(line) /\ n \in i .. Len(line)
          /\ l \in n .. Len(line)
      BY <1>1, <1>3, <1>5
    <2>2. line[i].time <= line[n].time /\ line[n].time <= line[l].time
      BY <2>1, SortedPairs
    <2>3. line[i].time >= t
      BY <2>1 DEF TimeOf
    <2>4. line[n].time # t
      BY <1>3, <2>1
    <2> QED
      BY <1>1, <2>1, <2>2, <2>3, <2>4
  <1>6. Splits(line, n, t + 1)
    BY <1>1, <1>3, <1>4, <1>5 DEF Splits
  <1> QED
    BY <1>3, <1>6 DEF n

(***************************************************************************)
(* One step of the merge.                                                  *)
(***************************************************************************)
\* What there is to tell does not change while the merge goes on.
LEMMA SameLines ==
    ASSUME UNCHANGED <<q, lines>>
    PROVE  /\ InOrder' <=> InOrder
           /\ \A n : ToldBefore(n)' = ToldBefore(n)
           /\ \A s, name : Timeline(s, name)' = Timeline(s, name)
           /\ \A name, t : Told(name, t)' = Told(name, t)
  <1>1. \A s, name : Timeline(s, name)' = Timeline(s, name)
    BY DEF Timeline
  <1>2. \A name, t : Mismatch(name, t)' = Mismatch(name, t)
    BY <1>1 DEF Mismatch
  <1>3. \A name, t : Differs(name, t)' <=> Differs(name, t)
    BY <1>1, <1>2 DEF Differs, values_match
  <1>4. \A name, t : Told(name, t)' = Told(name, t)
    BY <1>2, <1>3 DEF Told
  <1>5. \A name : Mismatches(name)' = Mismatches(name)
    BY <1>4 DEF Mismatches
  <1>6. \A n : ToldBefore(n)' = ToldBefore(n)
    BY <1>5 DEF ToldBefore
  <1>7. InOrder' <=> InOrder
    BY <1>1 DEF InOrder
  <1> QED
    BY <1>1, <1>4, <1>6, <1>7

\* Where the merge goes on with the next signal.
Onward ==
    /\ k \in Nat \ {0}
    /\ IF k <= Len(q.targets) THEN \E t \in 0 .. Never : Underway(t)
       ELSE mismatches = ToldBefore(Len(q.targets))

LEMMA NextSignalKeeps ==
    ASSUME Timely, UNCHANGED <<q, lines>>, NextSignal, IsOption(q.max_mismatches),
           k \in 1 .. Len(q.targets), Len(q.targets) \in Nat, mismatches' = ToldBefore(k)
    PROVE  Onward'
  <1>1. /\ k' = k + 1 /\ count' = 0 /\ at' = [s \in Sides |-> 1]
        /\ current' = [s \in Sides |-> Unknown] /\ UNCHANGED <<q, lines>>
    BY DEF NextSignal
  <1>2. CASE ~(k' <= Len(q'.targets))
    <2>1. k = Len(q.targets)
      BY <1>1, <1>2
    <2> QED
      BY <1>1, <1>2, <2>1, SameLines DEF Onward
  <1>3. CASE k' <= Len(q'.targets)
    <2>1. PICK name : name = q.targets[k + 1]
      OBVIOUS
    <2>2. Standing(name, 0)'
      <3>1. ASSUME NEW s \in Sides PROVE Splits(Timeline(s, name), 1, 0)
        <4>1. Timeline(s, name) \in Seq(Range(lines[s])) /\ InTime(Timeline(s, name))
          BY TimelineIs DEF Timely
        <4> QED
          BY <4>1 DEF Splits, InTime
      <3>2. \A s \in Sides : Timeline(s, name)' = Timeline(s, name)
        BY <1>1, SameLines
      <3> QED
        BY <1>1, <3>1, <3>2 DEF Standing, StandsAt
    <2>3. Told(name, 0) = <<>> /\ Len(<<>>) = 0
      BY ToldGrows
    <2>4. mismatches' = ToldBefore(k) \o Told(name, 0)
      <3>1. ToldBefore(k) \in Seq(Everything)
        BY ToldBeforeGrows
      <3>2. ToldBefore(k) \o <<>> = ToldBefore(k)
        BY <3>1
      <3> QED
        BY <2>3, <3>2
    <2>5. Underway(0)'
      <3>1. k' - 1 = k /\ q'.targets[k'] = name
        BY <1>1, <2>1
      <3>2. PICK n \in Nat : n = k
        OBVIOUS
      <3>3. ToldBefore(n)' = ToldBefore(n) /\ Told(name, 0)' = Told(name, 0)
        BY <1>1, SameLines
      <3>4. mismatches' = ToldBefore(n)' \o Told(name, 0)' /\ count' = Len(Told(name, 0)')
        BY <1>1, <2>3, <2>4, <3>2, <3>3
      <3>5. ToldBefore(k - 1)' = ToldBefore(n)'
        <4>1. k' - 1 = n
          BY <3>1, <3>2
        <4> QED
          BY <4>1 DEF ToldBefore
      <3> QED
        BY <1>1, <2>2, <3>1, <3>4, <3>5 DEF Underway
    <2>6. 0 \in 0 .. Never
      BY CompareAssumption
    <2> QED
      BY <1>1, <1>3, <2>5, <2>6 DEF Onward
  <1> QED
    BY <1>2, <1>3

LEMMA QuietUntil ==
    ASSUME Timely, NEW name, \A s \in Sides : Sorted(Timeline(s, name)),
           NEW t \in Nat, NEW u \in 0 .. Never, t <= u, Standing(name, t),
           \A s \in Sides : TimeOf(Timeline(s, name), at[s]) >= u
    PROVE  Told(name, u) = Told(name, t)
  <1>0. Never \in Nat /\ u \in Nat
    BY CompareAssumption
  <1>1. ASSUME NEW v \in t .. u - 1, NEW s \in Sides, NEW i \in DOMAIN Timeline(s, name),
               Timeline(s, name)[i].time = v
        PROVE  FALSE
    <2>1. PICK line \in Seq(Range(lines[s])) : line = Timeline(s, name) /\ InTime(line) /\ Sorted(line)
      BY TimelineIs DEF Timely
    <2>2. /\ Splits(line, at[s], t) /\ TimeOf(line, at[s]) >= u /\ i \in 1 .. Len(line)
          /\ line[i].time = v /\ Len(line) \in Nat
      BY <1>1, <2>1 DEF Standing, StandsAt
    <2>3. /\ at[s] \in 1 .. Len(line) + 1
          /\ IF i < at[s] THEN line[i].time < t ELSE line[i].time >= t
      BY <2>2 DEF Splits
    <2>4. i >= at[s]
      BY <1>0, <2>2, <2>3
    <2>5. at[s] \in 1 .. Len(line) /\ i \in at[s] .. Len(line)
      BY <2>2, <2>3, <2>4
    <2>6. line[at[s]].time <= line[i].time
      BY <1>0, <2>1, <2>5, SortedPairs
    <2>7. line[at[s]].time >= u /\ line[at[s]].time \in Nat
      BY <1>0, <2>1, <2>2, <2>5 DEF TimeOf, InTime
    <2> QED
      BY <1>0, <2>2, <2>6, <2>7
  <1>2. \A v \in t .. u - 1 : ~Differs(name, v)
    BY <1>1 DEF Differs
  <1> QED
    BY <1>0, <1>2, ToldQuiet

\* The next time is not behind the merge, nor behind either side.
IsNext(name, u) ==
    /\ \A s \in Sides : TimeOf(Timeline(s, name), at[s]) >= u
    /\ \E s \in Sides : TimeOf(Timeline(s, name), at[s]) = u

LEMMA NextTime ==
    ASSUME Timely, NEW name, NEW t \in 0 .. Never, Standing(name, t),
           NEW heads, heads = [s \in Sides |-> TimeOf(Timeline(s, name), at[s])],
           NEW u, u = Min(Range(heads))
    PROVE  u \in t .. Never /\ IsNext(name, u)
  <1>0. Never \in Nat
    BY CompareAssumption
  <1>1. ASSUME NEW s \in Sides PROVE heads[s] \in t .. Never
    <2>1. PICK line \in Seq(Range(lines[s])) : line = Timeline(s, name) /\ InTime(line)
      BY TimelineIs DEF Timely
    <2>2. Splits(line, at[s], t) /\ heads[s] = TimeOf(line, at[s])
      BY <2>1 DEF Standing, StandsAt
    <2> QED
      BY <1>0, <2>1, <2>2 DEF Splits, TimeOf, InTime
  <1>2. PICK a \in Nat, b \in Nat : a = heads[1] /\ b = heads[2]
    BY <1>0, <1>1 DEF Sides
  <1>3. Range(heads) = {a, b}
    BY <1>2 DEF Range, Sides
  <1>4. u = IF a <= b THEN a ELSE b
    <2>1. Min({a, b}) = IF a <= b THEN a ELSE b
      BY LeastOfTwo
    <2> QED
      BY <1>3, <2>1
  <1>5. u \in t .. Never /\ (\A s \in Sides : heads[s] >= u) /\ (\E s \in Sides : heads[s] = u)
    BY <1>1, <1>2, <1>4 DEF Sides
  <1> QED
    BY <1>5 DEF IsNext

\* The merge stands behind a time, with what there is to tell up to it.
LEMMA UnderwayNext ==
    ASSUME UNCHANGED <<q, lines, k>>, k \in 1 .. Len(q.targets), Len(q.targets) \in Nat,
           NEW name, name = q.targets[k], NEW u \in 0 .. Never,
           StandsAt(name, at', current', u),
           mismatches' = ToldBefore(k - 1) \o Told(name, u), count' = Len(Told(name, u)),
           count' # 0 => \A max \in q.max_mismatches : count' < max
    PROVE  Onward'
  <1>1. PICK n \in Nat : n = k - 1
    OBVIOUS
  <1>2. /\ \A s \in Sides : Timeline(s, name)' = Timeline(s, name)
        /\ ToldBefore(n)' = ToldBefore(n) /\ Told(name, u)' = Told(name, u)
    BY SameLines
  <1>3. Standing(name, u)'
    BY <1>2 DEF Standing, StandsAt
  <1>4. ToldBefore(k - 1)' = ToldBefore(n)'
    <2>1. k' - 1 = n
      BY <1>1
    <2> QED
      BY <2>1 DEF ToldBefore
  <1>5. mismatches' = ToldBefore(n)' \o Told(name, u)' /\ count' = Len(Told(name, u)')
    BY <1>1, <1>2
  <1>6. q'.targets[k'] = name
    OBVIOUS
  <1>7. Underway(u)'
    BY <1>3, <1>4, <1>5, <1>6 DEF Underway
  <1> QED
    BY <1>7 DEF Onward

\* The values the merge compares at a time are those both sides hold then.
Passed(name, u) == [s \in Sides |-> After(Timeline(s, name), at[s], u)]

Held(name, u) ==
    [s \in Sides |->
        IF Passed(name, u)[s] > at[s]
        THEN Entry(Timeline(s, name), at[s], Passed(name, u)[s]).value
        ELSE current[s]]

LEMMA ValuesAre ==
    ASSUME Timely, NEW name, \A s \in Sides : Sorted(Timeline(s, name)),
           NEW t \in Nat, NEW u \in Nat, t <= u, u < Never, Standing(name, t),
           IsNext(name, u)
    PROVE  /\ Mismatch(name, u).values = Held(name, u)
           /\ Differs(name, u) <=> ~values_match(Held(name, u)[1], Held(name, u)[2])
           /\ StandsAt(name, Passed(name, u), Held(name, u), u + 1)
  <1> DEFINE ends == Passed(name, u)
             now == Held(name, u)
  <1>0. Never \in Nat
    BY CompareAssumption
  <1>1. ASSUME NEW s \in Sides
        PROVE  /\ Splits(Timeline(s, name), ends[s], u + 1)
               /\ now[s] = IF ends[s] = 1 THEN Unknown
                           ELSE Timeline(s, name)[ends[s] - 1].value
               /\ ValueAt(Timeline(s, name), u) = now[s]
    <2>1. PICK line \in Seq(Range(lines[s])) :
              line = Timeline(s, name) /\ InTime(line) /\ Sorted(line)
      BY TimelineIs DEF Timely
    <2>2. PICK i : i = at[s]
      OBVIOUS
    <2>3. /\ Splits(line, i, t) /\ TimeOf(line, i) >= u
          /\ current[s] = IF i = 1 THEN Unknown ELSE line[i - 1].value
      BY <2>1, <2>2 DEF Standing, StandsAt, IsNext
    <2>4. PICK n : n = After(line, i, u)
      OBVIOUS
    <2>5. Splits(line, n, u + 1) /\ n \in i .. Len(line) + 1
      BY <1>0, <2>1, <2>3, <2>4, AfterIs
    <2>6. ends[s] = n
      BY <2>1, <2>2, <2>4 DEF Passed
    <2>7. Len(line) \in Nat /\ i \in 1 .. Len(line) + 1
      BY <2>1, <2>3 DEF Splits
    <2>8. now[s] = IF n > i THEN line[n - 1].value ELSE current[s]
      BY <2>1, <2>2, <2>6 DEF Entry, Held
    <2>9. now[s] = IF n = 1 THEN Unknown ELSE line[n - 1].value
      BY <2>3, <2>5, <2>7, <2>8
    <2>10. ValueAt(line, u) = now[s]
      BY <1>0, <2>1, <2>5, <2>9, ValueThen
    <2> QED
      BY <2>1, <2>5, <2>6, <2>9, <2>10
  <1>2. Mismatch(name, u).values = now
    <2>1. now = [s \in Sides |-> now[s]]
      BY DEF Held
    <2> HIDE DEF now
    <2> QED
      BY <1>1, <2>1 DEF Mismatch
  <1>3. \E s \in Sides : \E i \in DOMAIN Timeline(s, name) : Timeline(s, name)[i].time = u
    <2>1. PICK s \in Sides : TimeOf(Timeline(s, name), at[s]) = u
      BY DEF IsNext
    <2>2. PICK line \in Seq(Range(lines[s])) : line = Timeline(s, name)
      BY TimelineIs DEF Timely
    <2>3. Splits(line, at[s], t) /\ TimeOf(line, at[s]) = u
      BY <2>1, <2>2 DEF Standing, StandsAt
    <2>4. at[s] \in DOMAIN line /\ line[at[s]].time = u
      BY <1>0, <2>2, <2>3 DEF Splits, TimeOf
    <2> QED
      BY <2>2, <2>4
  <1>4. Differs(name, u) <=> ~values_match(now[1], now[2])
    BY <1>2, <1>3 DEF Differs
  <1> QED
    BY <1>1, <1>2, <1>4 DEF StandsAt

\* What is told of a signal once there is as much as its limit allows.
LEMMA AtTheLimit ==
    ASSUME IsOption(q.max_mismatches), NEW name, NEW u \in 0 .. Never,
           NEW n, n = Len(Told(name, u)), n # 0,
           NEW max \in q.max_mismatches, n >= max, n = 1 \/ n <= max
    PROVE  Mismatches(name) = Told(name, u)
  <1>0. Never \in Nat /\ u \in Nat
    BY CompareAssumption
  <1>1. PICK told \in Seq(Tellings(name)) : told = Told(name, u)
    BY <1>0, ToldGrows
  <1>2. PICK rest \in Seq(Tellings(name)) : Told(name, Never) = told \o rest
    <2>1. u <= Never
      BY <1>0
    <2>2. \E rest \in Seq(Tellings(name)) : Told(name, Never) = Told(name, u) \o rest
      BY <1>0, <2>1, ToldPrefix, Zenon
    <2> QED
      BY <1>1, <2>2
  <1>3. PICK all : all = Told(name, Never) /\ all = told \o rest
    BY <1>2
  <1>4. n = Len(told) /\ n \in 1 .. Len(all) /\ SubSeq(all, 1, n) = told
    <2>1. n = Len(told) /\ n \in Nat
      BY <1>1
    <2>2. Len(all) >= n /\ Len(all) \in Nat /\ SubSeq(all, 1, Len(told)) = told
      BY <1>3, <2>1, FirstOf
    <2> QED
      BY <2>1, <2>2
  <1>5. Mismatches(name) = SubSeq(all, 1, n)
    BY <1>3, <1>4, MismatchesAre
  <1> QED
    BY <1>1, <1>4, <1>5

\* One more time is merged.
LEMMA JudgeKeeps ==
    ASSUME Timely, UNCHANGED <<q, lines>>, IsOption(q.max_mismatches),
           k \in 1 .. Len(q.targets), Len(q.targets) \in Nat,
           NEW name, name = q.targets[k], \A s \in Sides : Sorted(Timeline(s, name)),
           NEW t \in Nat, NEW u \in Nat, t <= u, u < Never, Underway(t), IsNext(name, u),
           Judge(name, u, Passed(name, u)), stage' # "done"
    PROVE  Onward'
  <1> DEFINE now == Held(name, u)
  <1>0. Never \in Nat /\ u + 1 \in 0 .. Never /\ u \in 0 .. Never
    BY CompareAssumption
  <1>2. /\ Standing(name, t) /\ mismatches = ToldBefore(k - 1) \o Told(name, t)
        /\ count = Len(Told(name, t))
        /\ count # 0 => \A max \in q.max_mismatches : count < max
    BY DEF Underway
  <1>3. /\ Mismatch(name, u).values = now
        /\ Differs(name, u) <=> ~values_match(now[1], now[2])
        /\ StandsAt(name, Passed(name, u), now, u + 1)
    BY <1>2, ValuesAre
  <1>4. Told(name, u) = Told(name, t)
    <2>1. \A s \in Sides : TimeOf(Timeline(s, name), at[s]) >= u
      BY DEF IsNext
    <2> QED
      BY <1>0, <1>2, <2>1, QuietUntil
  <1> DEFINE M == Mismatch(name, u)
  <1>1. M = [signal |-> name, time |-> u, values |-> now]
    BY <1>3 DEF Mismatch
  <1> HIDE DEF M
  <1>7. \/ /\ values_match(now[1], now[2])
           /\ at' = Passed(name, u) /\ current' = now /\ UNCHANGED <<k, count, mismatches>>
        \/ /\ ~values_match(now[1], now[2]) /\ mismatches' = Append(mismatches, M)
           /\ IF \E max \in q.max_mismatches : count + 1 >= max THEN NextSignal
              ELSE at' = Passed(name, u) /\ current' = now /\ count' = count + 1 /\ UNCHANGED k
    BY <1>1 DEF Judge, Done, Held
  <1> HIDE DEF now
  <1>5. CASE /\ values_match(now[1], now[2])
             /\ at' = Passed(name, u) /\ current' = now /\ UNCHANGED <<k, count, mismatches>>
    <2>2. Told(name, u + 1) = Told(name, t)
      BY <1>3, <1>4, <1>5, ToldGrows
    <2>3. /\ mismatches' = ToldBefore(k - 1) \o Told(name, u + 1)
          /\ count' = Len(Told(name, u + 1))
          /\ count' # 0 => \A max \in q.max_mismatches : count' < max
      BY <1>2, <1>5, <2>2
    <2>4. StandsAt(name, at', current', u + 1)
      BY <1>3, <1>5
    <2> QED
      BY <1>0, <1>5, <2>3, <2>4, UnderwayNext
  <1>6. CASE /\ ~values_match(now[1], now[2]) /\ mismatches' = Append(mismatches, M)
             /\ IF \E max \in q.max_mismatches : count + 1 >= max THEN NextSignal
                ELSE at' = Passed(name, u) /\ current' = now /\ count' = count + 1 /\ UNCHANGED k
    <2>3. PICK told \in Seq(Tellings(name)) : told = Told(name, t)
      BY ToldGrows
    <2>4. PICK before \in Seq(Everything) : before = ToldBefore(k - 1)
      BY ToldBeforeGrows
    <2>5. Told(name, u + 1) = told \o <<M>>
      BY <1>3, <1>4, <1>6, <2>3, ToldGrows DEF M
    <2>6. Len(told \o <<M>>) = Len(told) + 1 /\ Len(told) \in Nat
      <3>1. PICK m : m = M
        OBVIOUS
      <3> QED
        BY <2>3, <3>1, ConcatFacts
    <2>7. mismatches' = before \o Told(name, u + 1)
      <3>1. PICK m \in Everything : m = M
        BY DEF Everything, Tellings, M
      <3>2. told \in Seq(Everything)
        <4>1. Tellings(name) \subseteq Everything
          BY DEF Everything
        <4>2. \A S, T : S \subseteq T => Seq(S) \subseteq Seq(T)
          OBVIOUS
        <4> QED
          BY <4>1, <4>2
      <3>3. /\ told \o <<m>> = Append(told, m)
            /\ before \o Append(told, m) = Append(before \o told, m)
        BY <3>2, ConcatFacts
      <3>4. mismatches = before \o told
        BY <1>2, <2>3, <2>4
      <3>5. mismatches' = Append(before \o told, m)
        BY <1>6, <3>1, <3>4
      <3>6. Told(name, u + 1) = told \o <<m>>
        BY <2>5, <3>1
      <3> QED
        BY <3>3, <3>5, <3>6
    <2>10. Len(Told(name, u + 1)) = count + 1 /\ count \in Nat
      BY <1>2, <2>3, <2>5, <2>6
    <2>8. CASE \E max \in q.max_mismatches : count + 1 >= max
      <3>1. PICK max \in q.max_mismatches : count + 1 >= max
        BY <2>8
      <3>2. max \in Nat
        BY DEF IsOption
      <3>3. PICK n : n = count + 1
        OBVIOUS
      <3>4. n = Len(Told(name, u + 1)) /\ n # 0 /\ n >= max /\ (n = 1 \/ n <= max)
        <4>1. count # 0 => count < max
          BY <1>2, <3>1
        <4>2. PICK c \in Nat : c = count
          BY <2>10
        <4>3. n = c + 1 /\ c + 1 >= max /\ (c # 0 => c < max)
          BY <3>1, <3>3, <4>1, <4>2
        <4>4. n # 0 /\ n >= max /\ (n = 1 \/ n <= max)
          BY <3>2, <4>3
        <4>5. n = Len(Told(name, u + 1))
          BY <2>10, <3>3
        <4> QED
          BY <4>4, <4>5
      <3>5. Mismatches(name) = Told(name, u + 1)
        BY <1>0, <3>4, AtTheLimit
      <3>6. PICK n1 \in Nat : n1 = k - 1 /\ n1 + 1 = k
        OBVIOUS
      <3>7. ToldBefore(k) = ToldBefore(k - 1) \o Mismatches(name)
        <4>1. ToldBefore(n1 + 1) = ToldBefore(n1) \o Mismatches(q.targets[n1 + 1])
          BY ToldBeforeGrows
        <4> QED
          BY <3>6, <4>1
      <3>8. mismatches' = ToldBefore(k)
        BY <2>4, <2>7, <3>5, <3>7
      <3>9. NextSignal
        BY <1>6, <2>8
      <3> QED
        BY <3>8, <3>9, NextSignalKeeps
    <2>9. CASE ~(\E max \in q.max_mismatches : count + 1 >= max)
      <3>1. at' = Passed(name, u) /\ current' = now /\ count' = count + 1 /\ UNCHANGED k
        BY <1>6, <2>9
      <3>2. StandsAt(name, at', current', u + 1)
        BY <1>3, <3>1
      <3>3. mismatches' = ToldBefore(k - 1) \o Told(name, u + 1)
        BY <2>4, <2>7
      <3>4. count' = Len(Told(name, u + 1))
        BY <2>10, <3>1
      <3>5. ASSUME NEW max \in q.max_mismatches PROVE count' < max
        <4>1. max \in Nat /\ ~(count + 1 >= max)
          BY <2>9 DEF IsOption
        <4> QED
          BY <2>10, <3>1, <4>1
      <3> QED
        BY <1>0, <3>1, <3>2, <3>3, <3>4, <3>5, UnderwayNext
    <2> QED
      BY <2>8, <2>9
  <1> QED
    BY <1>5, <1>6, <1>7

\* One iteration of the merge.
LEMMA TickKeeps ==
    ASSUME QInv, AInv, MergeInv, Tick
    PROVE  MergeInv'
  <1> DEFINE name == q.targets[k]
             heads == [s \in Sides |-> TimeOf(Timeline(s, name), at[s])]
             u == Min(Range(heads))
  <1>1. /\ stage = "merge" /\ k <= Len(q.targets) /\ q.op = "compare" /\ outcome = "none"
        /\ UNCHANGED <<vars, lines>> /\ UNCHANGED <<q, lines, time, rows, pending>>
    BY DEF Tick, QInv, Typed, vars
  <1>2. IsOption(q.max_mismatches) /\ Timely /\ Timely'
    BY <1>1 DEF MergeInv, Timely
  <1>3. Len(q.targets) \in Nat
    BY DEF AInv, Valued, Shaped
  <1>4. \/ stage' = "done" /\ outcome' = "cancelled"
        \/ /\ stage' = "merge" /\ outcome' = "none"
           /\ \/ u = Never /\ NextSignal /\ UNCHANGED mismatches
              \/ u # Never /\ Judge(name, u, Passed(name, u))
    BY <1>1 DEF Tick, Judge, Done, Go, Passed
  <1>5. CASE stage' = "done" /\ outcome' = "cancelled"
    BY <1>2, <1>5 DEF MergeInv, Merging
  <1>6. CASE /\ stage' = "merge" /\ outcome' = "none"
             /\ \/ u = Never /\ NextSignal /\ UNCHANGED mismatches
                \/ u # Never /\ Judge(name, u, Passed(name, u))
    <2> SUFFICES ASSUME InOrder PROVE Onward'
      BY <1>1, <1>2, <1>6, SameLines DEF MergeInv, Merging, Onward
    <2>1. k \in 1 .. Len(q.targets) /\ \E t \in 0 .. Never : Underway(t)
      BY <1>1, <1>3 DEF MergeInv
    <2>2. PICK t \in 0 .. Never : Underway(t)
      BY <2>1
    <2>3. Standing(name, t)
      BY <2>2 DEF Underway
    <2>4. u \in t .. Never /\ IsNext(name, u)
      BY <1>2, <2>3, NextTime
    <2>5. \A s \in Sides : Sorted(Timeline(s, name))
      <3>1. name \in Range(q.targets)
        BY <2>1 DEF AInv, Valued, Shaped
      <3> QED
        BY <3>1 DEF InOrder
    <2> HIDE DEF u
    <2>6. Never \in Nat /\ t \in Nat /\ u \in Nat /\ t <= u
      BY <2>4, CompareAssumption
    <2>7. CASE u = Never
      <3>1. Told(name, Never) = Told(name, t)
        <4>1. u \in 0 .. Never /\ \A s \in Sides : TimeOf(Timeline(s, name), at[s]) >= u
          BY <2>4, <2>6 DEF IsNext
        <4>2. Told(name, u) = Told(name, t)
          BY <1>2, <2>3, <2>5, <2>6, <4>1, QuietUntil
        <4> QED
          BY <2>7, <4>2
      <3>2. PICK all : all = Told(name, Never)
        OBVIOUS
      <3>3. /\ mismatches = ToldBefore(k - 1) \o all /\ count = Len(all)
            /\ count # 0 => \A max \in q.max_mismatches : count < max
        BY <2>2, <3>1, <3>2 DEF Underway
      <3>4. all \in Seq(Tellings(name))
        BY <1>2, <3>2, MismatchesAre
      <3>5. (\A max \in q.max_mismatches : Len(all) <= max) \/ Len(all) = 0
        <4>1. \A max \in q.max_mismatches : max \in Nat
          BY <1>2 DEF IsOption
        <4> QED
          BY <3>3, <3>4, <4>1
      <3>6. Mismatches(name) = all
        BY <1>2, <3>2, <3>5, MismatchesAre
      <3>7. ToldBefore(k) = ToldBefore(k - 1) \o Mismatches(name)
        <4>1. PICK n \in Nat : n = k - 1 /\ n + 1 = k
          BY <2>1
        <4>2. ToldBefore(n + 1) = ToldBefore(n) \o Mismatches(q.targets[n + 1])
          BY <1>2, ToldBeforeGrows
        <4> QED
          BY <4>1, <4>2
      <3>8. NextSignal /\ mismatches' = ToldBefore(k)
        BY <1>6, <2>7, <3>3, <3>6, <3>7
      <3> QED
        BY <1>1, <1>2, <1>3, <2>1, <3>8, NextSignalKeeps
    <2>8. CASE u # Never
      <3>1. u < Never
        BY <2>4, <2>6, <2>8
      <3>2. Judge(name, u, Passed(name, u)) /\ stage' # "done"
        BY <1>6, <2>8
      <3> QED
        BY <1>1, <1>2, <1>3, <2>1, <2>2, <2>4, <2>5, <2>6, <3>1, <3>2, JudgeKeeps
    <2> QED
      BY <2>7, <2>8
  <1> QED
    BY <1>4, <1>5, <1>6

(***************************************************************************)
(* The steps that merge nothing.                                           *)
(***************************************************************************)
\* The merge stays where it is; how the comparison may go on then.
LEMMA MoveKeepsMerge ==
    ASSUME MergeInv, Timely', UNCHANGED <<q, lines, merge>>, Len(q.targets) \in Nat,
           stage' \in {"start", "first", "second"} => stage \in {"start", "first", "second"},
           stage' = "merge" => stage = "merge",
           stage' \in Merging \ {"merge"} \/ outcome' = "ok" =>
               \/ stage \in Merging \ {"merge"} \/ outcome = "ok"
               \/ stage = "merge" /\ k > Len(q.targets)
    PROVE  MergeInv'
  <1>0. UNCHANGED <<q, lines, k, at, current, count, mismatches>>
    BY DEF merge
  <1>1. InOrder' <=> InOrder
    BY SameLines
  <1>2. ToldBefore(Len(q.targets))' = ToldBefore(Len(q.targets))
    <2>1. PICK n \in Nat : n = Len(q.targets)
      OBVIOUS
    <2>2. ToldBefore(n)' = ToldBefore(n)
      BY SameLines
    <2>3. ToldBefore(Len(q.targets))' = ToldBefore(n)'
      BY <2>1 DEF ToldBefore
    <2> QED
      BY <2>1, <2>2, <2>3
  <1>3. CASE stage' \in {"start", "first", "second"}
    <2>1. k' = 1 /\ mismatches' = <<>> /\ AtStart'
      BY <1>0, <1>3 DEF MergeInv, AtStart
    <2>2. outcome' = "ok" /\ InOrder' => mismatches' = ToldBefore(Len(q.targets))'
      BY <1>0, <1>1, <1>2, <1>3 DEF MergeInv, Merging
    <2> QED
      BY <1>3, <2>1, <2>2 DEF MergeInv, Merging
  <1>4. CASE stage' \notin {"start", "first", "second"}
    <2>1. stage' = "merge" /\ InOrder' => Onward'
      <3> SUFFICES ASSUME stage = "merge", Onward PROVE Onward'
        BY <1>1 DEF MergeInv, Onward
      <3>1. CASE ~(k <= Len(q.targets))
        BY <1>0, <1>2, <3>1 DEF Onward
      <3>2. CASE k <= Len(q.targets)
        <4>1. PICK t \in 0 .. Never : k \in Nat \ {0} /\ Underway(t)
          BY <3>2 DEF Onward
        <4>2. PICK n, name : n \in Nat /\ n = k - 1 /\ name = q.targets[k]
          BY <4>1
        <4>3. /\ \A s \in Sides : Timeline(s, name)' = Timeline(s, name)
              /\ ToldBefore(n)' = ToldBefore(n) /\ Told(name, t)' = Told(name, t)
          BY SameLines
        <4>4. ToldBefore(k - 1)' = ToldBefore(n)'
          BY <1>0, <4>2 DEF ToldBefore
        <4>5. q'.targets[k'] = name
          BY <1>0, <4>2
        <4>6. Standing(name, t)'
          BY <1>0, <4>1, <4>2, <4>3 DEF Underway, Standing, StandsAt
        <4>7. mismatches' = ToldBefore(n)' \o Told(name, t)' /\ count' = Len(Told(name, t)')
          BY <1>0, <4>1, <4>2, <4>3 DEF Underway
        <4>8. Underway(t)'
          BY <1>0, <4>1, <4>4, <4>5, <4>6, <4>7 DEF Underway
        <4> QED
          BY <1>0, <3>2, <4>1, <4>8 DEF Onward
      <3> QED
        BY <3>1, <3>2
    <2>2. (stage' \in Merging \ {"merge"} \/ outcome' = "ok") /\ InOrder' =>
              mismatches' = ToldBefore(Len(q.targets))'
      BY <1>0, <1>1, <1>2 DEF MergeInv
    <2> QED
      BY <1>4, <2>1, <2>2 DEF MergeInv, Onward
  <1> QED
    BY <1>3, <1>4

LEMMA SameTimes ==
    ASSUME Timely, UNCHANGED <<q, lines, time, rows, pending>>
    PROVE  Timely'
  BY DEF Timely, InTime

\* The engine reads no time that is not one.
LEMMA CollectKeepsTimely ==
    ASSUME QInv, AInv, Timely, Collect
    PROVE  Timely' /\ UNCHANGED q
  <1>1. UNCHANGED <<lines, q>>
    BY ParseStep, QuietSteps DEF Collect, Step, comparison
  <1>2. CASE q.op # "compare"
    BY <1>1, <1>2 DEF Timely, InTime
  <1>3. CASE q.op = "compare"
    <2>0. /\ time <= Never /\ InTime(rows) /\ InTime(pending) /\ Never \in Nat /\ time \in Nat
          /\ rows \in Seq(Event) /\ pending \in Seq(Event)
      <3>1. TimeAt(Len(file)) \in Nat
        BY TimeIsNatural DEF AInv, Valued, QInv, Typed
      <3> QED
        BY <1>3, <3>1, CompareAssumption DEF Timely, AInv, Valued, Scanned
    <2> SUFFICES time' <= Never /\ InTime(rows') /\ InTime(pending')
      BY <1>1, <1>3 DEF Timely, InTime
    <2>1. CASE Parse
      <3>1. PICK command \in Commands[q.op] : Reads(command) /\ Outcomes(command)
        BY <2>1, ParseOutcomes
      <3>2. time' <= Never /\ UNCHANGED rows
        BY <1>3, <2>0, <3>1, CompareAssumption DEF Reads
      <3>3. pending' = <<>> \/ pending' = Tells(command)
        BY <3>1 DEF Outcomes
      <3>4. InTime(<<>>) /\ InTime(Events(command, time))
        <4>1. \A i \in DOMAIN Events(command, time) : Events(command, time)[i].time = time
          BY DEF Events
        <4> QED
          BY <2>0, <4>1 DEF InTime
      <3> QED
        BY <2>0, <3>2, <3>3, <3>4 DEF Tells
    <2>2. CASE Emit
      <3>1. UNCHANGED time /\ pending # <<>> /\ (Refused \/ Accepted)
        BY <2>2, EmitOutcomes
      <3>2. /\ UNCHANGED rows \/ rows' = Append(rows, Head(pending))
            /\ pending' = <<>> \/ pending' = Tail(pending)
        BY <3>1 DEF Refused, Accepted, Consume, ConsumeFind
      <3>3. InTime(<<>>) /\ InTime(Tail(pending)) /\ Head(pending).time \in 0 .. Never
        BY <2>0, <3>1 DEF InTime
      <3>4. PICK x \in Event : x = Head(pending)
        BY <2>0, <3>1
      <3>5. InTime(Append(rows, x))
        BY <2>0, <3>3, <3>4 DEF InTime
      <3> QED
        BY <2>0, <3>1, <3>2, <3>3, <3>4, <3>5
    <2>3. CASE Resolve \/ Admit \/ EndOfBody \/ Finish \/ Validate \/ Recheck
      BY <2>0, <2>3, StepsTurn DEF Kept
    <2> QED
      BY <2>1, <2>2, <2>3 DEF Collect, Step
  <1> QED
    BY <1>1, <1>2, <1>3

\* The first signal is begun.
LEMMA FirstSignal ==
    ASSUME Timely, q.op = "compare", Len(q.targets) \in Nat, k = 1, mismatches = <<>>, AtStart
    PROVE  Onward
  <1>1. IsOption(q.max_mismatches)
    BY DEF Timely
  <1>2. CASE ~(k <= Len(q.targets))
    <2>1. Len(q.targets) = 0
      BY <1>2
    <2> QED
      BY <1>1, <1>2, <2>1, ToldBeforeGrows DEF Onward
  <1>3. CASE k <= Len(q.targets)
    <2>1. PICK name : name = q.targets[k]
      OBVIOUS
    <2>2. ASSUME NEW s \in Sides PROVE Splits(Timeline(s, name), 1, 0)
      <3>1. Timeline(s, name) \in Seq(Range(lines[s])) /\ InTime(Timeline(s, name))
        BY TimelineIs DEF Timely
      <3> QED
        BY <3>1 DEF Splits, InTime
    <2>3. Standing(name, 0)
      BY <2>2 DEF Standing, StandsAt, AtStart
    <2>4. Told(name, 0) = <<>> /\ ToldBefore(0) = <<>>
      BY <1>1, ToldGrows, ToldBeforeGrows
    <2>5. ToldBefore(k - 1) = <<>>
      <3>1. k - 1 = 0
        OBVIOUS
      <3> QED
        BY <2>4, <3>1
    <2>6. mismatches = ToldBefore(k - 1) \o Told(name, 0) /\ count = Len(Told(name, 0))
      BY <2>4, <2>5 DEF AtStart
    <2>7. Underway(0)
      BY <2>1, <2>3, <2>6 DEF Underway, AtStart
    <2>8. 0 \in 0 .. Never
      BY CompareAssumption
    <2> QED
      BY <1>3, <2>7, <2>8 DEF Onward
  <1> QED
    BY <1>2, <1>3

LEMMA InitMergeInv == CompareInit => MergeInv
  <1> SUFFICES ASSUME CompareInit PROVE MergeInv
    OBVIOUS
  <1>1. /\ q \in Queries /\ time = 0 /\ pending = <<>> /\ rows = <<>>
        /\ lines = [s \in Sides |-> <<>>] /\ outcome = "none" /\ stage \in {"start", "done"}
        /\ k = 1 /\ mismatches = <<>> /\ AtStart
    BY DEF CompareInit, Init, AtStart
  <1>2. InTime(<<>>) /\ \A T : <<>> \in Seq(T)
    BY DEF InTime
  <1>3. Timely
    BY <1>1, <1>2, CompareAssumption DEF Timely
  <1> QED
    BY <1>1, <1>3 DEF MergeInv, Merging

\* A side has been collected.
LEMMA CollectedKeepsMerge ==
    ASSUME QInv, AInv, MergeInv, CollectedFirst \/ CollectedSecond
    PROVE  MergeInv'
  <1>0. q.op = "compare" /\ outcome = "none" /\ Timely /\ Len(q.targets) \in Nat
    BY DEF CollectedFirst, CollectedSecond, QInv, Typed, MergeInv, AInv, Valued, Shaped
  <1>1. InTime(rows) /\ rows \in Seq(Range(rows))
    <2>1. rows \in Seq(Event)
      BY DEF AInv, Valued
    <2>2. \A i \in DOMAIN rows : rows[i] \in Range(rows)
      BY DEF Range
    <2> QED
      BY <1>0, <2>1, <2>2 DEF Timely
  <1>2. CASE CollectedFirst /\ stage' # "second"
    <2>1. /\ UNCHANGED <<q, lines, time, rows, pending, merge>>
          /\ stage' = "done" /\ outcome' # "ok"
      BY <1>2 DEF CollectedFirst, Collected, Validated, Done, Go
    <2> QED
      BY <1>0, <2>1, SameTimes, MoveKeepsMerge DEF Merging
  <1>3. CASE CollectedFirst /\ stage' = "second"
    <2>1. /\ q' = [q EXCEPT !.backend = q.backends[2]] /\ lines' = [lines EXCEPT ![1] = rows]
          /\ time' = 0 /\ rows' = <<>> /\ UNCHANGED pending /\ UNCHANGED merge
          /\ stage = "first" /\ outcome' = "none"
      BY <1>0, <1>3 DEF CollectedFirst, Collected, Validated, Done, Go
    <2>2. DOMAIN q' = DOMAIN q /\ q'.op = q.op /\ q'.max_mismatches = q.max_mismatches
      BY <1>0, <2>1 DEF Timely
    <2>3. Timely'
      <3>1. InTime(<<>>) /\ Never \in Nat
        BY CompareAssumption DEF InTime
      <3>2. DOMAIN lines' = Sides /\ lines'[1] = rows /\ lines'[2] = lines[2]
        BY <1>0, <2>1 DEF Timely, Sides
      <3>3. ASSUME NEW s \in Sides PROVE lines'[s] \in Seq(Range(lines'[s])) /\ InTime(lines'[s])
        BY <1>0, <1>1, <3>2 DEF Timely, Sides
      <3>4. time' <= Never /\ InTime(rows') /\ InTime(pending')
        BY <1>0, <2>1, <3>1 DEF Timely
      <3> QED
        BY <1>0, <2>2, <3>2, <3>3, <3>4 DEF Timely, InTime
    <2>4. k' = 1 /\ mismatches' = <<>> /\ AtStart'
      BY <2>1 DEF MergeInv, AtStart, merge
    <2> QED
      BY <1>3, <2>1, <2>3, <2>4 DEF MergeInv, Merging
  <1>4. CASE CollectedSecond
    <2>1. /\ UNCHANGED <<q, time, rows, pending, merge>> /\ lines' = [lines EXCEPT ![2] = rows]
          /\ stage = "second"
          /\ \/ stage' = "merge" /\ outcome' = "none"
             \/ stage' = "done" /\ outcome' # "ok"
      BY <1>0, <1>4 DEF CollectedSecond, Collected, Validated, Done, Go, vars
    <2>2. DOMAIN lines' = Sides /\ lines'[2] = rows /\ lines'[1] = lines[1]
      BY <1>0, <2>1 DEF Timely, Sides
    <2>3. ASSUME NEW s \in Sides PROVE lines'[s] \in Seq(Range(lines'[s])) /\ InTime(lines'[s])
      BY <1>0, <1>1, <2>2 DEF Timely, Sides
    <2>4. Timely'
      BY <1>0, <2>1, <2>2, <2>3 DEF Timely, InTime
    <2>5. k' = 1 /\ mismatches' = <<>> /\ AtStart' /\ q'.op = "compare" /\ Len(q'.targets) \in Nat
      BY <1>0, <2>1 DEF MergeInv, AtStart, merge
    <2>6. Onward'
      <3>1. (Timely /\ q.op = "compare" /\ Len(q.targets) \in Nat /\ k = 1 /\ mismatches = <<>>
                /\ AtStart)' => Onward'
        BY FirstSignal, PTL
      <3> QED
        BY <2>4, <2>5, <3>1
    <2> QED
      BY <2>1, <2>4, <2>6 DEF MergeInv, Merging, Onward
  <1> QED
    BY <1>2, <1>3, <1>4

LEMMA NextMergeInv ==
    ASSUME QInv, AInv, MergeInv, [CompareStep \/ Disturb]_compareVars
    PROVE  MergeInv'
  <1>0. Timely /\ Len(q.targets) \in Nat
    BY DEF MergeInv, AInv, Valued, Shaped
  <1>1. CASE Tick
    BY <1>1, TickKeeps
  <1>2. CASE CollectedFirst \/ CollectedSecond
    BY <1>2, CollectedKeepsMerge
  <1>3. CASE Collect
    <2>1. Timely' /\ UNCHANGED q
      BY <1>0, <1>3, CollectKeepsTimely
    <2>2. UNCHANGED <<lines, merge, stage, outcome>>
      BY <1>3 DEF Collect, comparison, merge
    <2> QED
      BY <1>0, <2>1, <2>2, MoveKeepsMerge, Zenon
  <1>4. CASE Start \/ Merged \/ RevalidateFirst \/ RevalidateSecond \/ Publish
    <2>1. UNCHANGED <<q, lines, time, rows, pending, merge>>
      BY <1>4 DEF Start, Merged, RevalidateFirst, RevalidateSecond, Publish, vars
    <2>2. Timely'
      BY <1>0, <2>1, SameTimes
    <2>3. /\ stage' \in {"start", "first", "second"} => stage \in {"start", "first", "second"}
          /\ stage' = "merge" => stage = "merge"
          /\ stage' \in Merging \ {"merge"} \/ outcome' = "ok" =>
                 \/ stage \in Merging \ {"merge"} \/ outcome = "ok"
                 \/ stage = "merge" /\ k > Len(q.targets)
      <3> USE DEF Done, Go, Validated, Merging
      <3>1. CASE Start
        BY <3>1 DEF Start
      <3>2. CASE Merged
        BY <3>2 DEF Merged
      <3>3. CASE RevalidateFirst \/ RevalidateSecond
        BY <3>3 DEF RevalidateFirst, RevalidateSecond
      <3>4. CASE Publish
        BY <3>4 DEF Publish
      <3> QED
        BY <1>4, <3>1, <3>2, <3>3, <3>4
    <2> QED
      BY <1>0, <2>1, <2>2, <2>3, MoveKeepsMerge
  <1>5. CASE Disturb \/ UNCHANGED compareVars
    <2>1. UNCHANGED <<q, lines, time, rows, pending, merge, stage, outcome>>
      BY <1>5 DEF Disturb, EngineDisturbed, Cancel, ReplaceSource, CancelLater, ReplaceLater,
                  ReplaceFirst, compareVars, vars, comparison, merge
    <2>2. Timely'
      BY <1>0, <2>1, SameTimes
    <2> QED
      BY <1>0, <2>1, <2>2, MoveKeepsMerge, Zenon
  <1> QED
    BY <1>1, <1>2, <1>3, <1>4, <1>5 DEF CompareStep

LEMMA MergeInvariance == CompareSpec => [](QInv /\ AInv /\ MergeInv)
  <1>1. CompareInit => QInv /\ AInv /\ MergeInv
    BY InitQInv, InitAInv, InitMergeInv
  <1>2. QInv /\ AInv /\ MergeInv /\ [CompareStep \/ Disturb]_compareVars =>
            (QInv /\ AInv /\ MergeInv)'
    BY NextQInv, NextAInv, NextMergeInv
  <1> QED
    BY <1>1, <1>2, PTL DEF CompareSpec

\* A comparison that succeeds, of waveforms whose times do not decrease, reports
\* signal by signal every time at which the values both sides hold differ, up to
\* the limit of a signal.  (compare_providers, compare_signal_timeline)
THEOREM ComparisonIsExact == CompareSpec => []CompareExact
  <1>1. QInv /\ AInv /\ MergeInv => CompareExact
    <2> SUFFICES ASSUME QInv, AInv, MergeInv, outcome = "ok", InOrder
                 PROVE  mismatches = FlattenSeq([i \in DOMAIN q.targets |-> Mismatches(q.targets[i])])
      BY DEF CompareExact, InOrder
    <2>1. mismatches = ToldBefore(Len(q.targets))
      BY DEF MergeInv
    <2>2. DOMAIN q.targets = 1 .. Len(q.targets)
      BY DEF AInv, Valued, Shaped
    <2> QED
      BY <2>1, <2>2 DEF ToldBefore
  <1> QED
    BY <1>1, MergeInvariance, PTL
================================================================================
