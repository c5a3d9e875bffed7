---------------------------- MODULE MCRequestLines ----------------------------
(* Instance of RequestLines for TLC: every short stream over a few lines,   *)
(* and one line of every shape near what a method accepts.                  *)
EXTENDS RequestLines

SomeConfig == [max_commands |-> 4, max_rows |-> 4, max_response_bytes |-> 4]

W(w) == Text(Word(w))
D(n) == Text(Digits(DigitsOf[n]))

Line(id, method, params) ==
    Object(<< <<"v", Number(1)>>, <<"id", id>>, <<"method", W(method)>>,
              <<"params", Object(params)>> >>)

\* What a, b and c say in the streams: three requests; two that share an ID and
\* the cancel of it; one whose timeout is refused, one, and the cancel of that.
Three ==
    [a |-> Line(W("p"), "list", <<>>), b |-> Line(W("q"), "list", <<>>),
     c |-> Line(W("r"), "list", <<>>)]
Twice ==
    [a |-> Line(W("p"), "list", <<>>), b |-> Line(W("p"), "metadata", <<>>),
     c |-> Line(W("r"), "cancel", << <<"request_id", W("p")>> >>)]
Mixed ==
    [a |-> Line(W("p"), "list", << <<"timeout_ms", D(5)>> >>),
     b |-> Line(W("q"), "list", <<>>),
     c |-> Line(W("r"), "cancel", << <<"request_id", W("q")>> >>)]

Streams ==
    {[bytes |-> s, says |-> m] : s \in SeqOf({"a", "b", "c", Newline}, 6), m \in {Twice, Mixed}}
    \cup {[bytes |-> s, says |-> Mixed] : s \in SeqOf({"b", NotUtf8, Newline}, 5)}
    \cup {[bytes |-> <<"a", Newline, "b", Newline, "c", Newline>>, says |-> Three]}

--------------------------------------------------------------------------------
Base ==
    [ping |-> <<>>, describe |-> <<>>, list |-> <<>>, metadata |-> <<>>,
     extract |-> << <<"signals", Array(<<W("s")>>)>> >>,
     find |-> << <<"signal", W("s")>>, <<"value", D(1)>> >>,
     toggles |-> << <<"signals", Array(<<W("s"), W("s")>>)>> >>,
     cancel |-> << <<"request_id", W("p")>> >>,
     paint |-> <<>>]

Names4 == {Array(<<>>), Array(<<W("s"), Number(1)>>), Array(<<W("")>>), W("s")}
Odd == {Other("null"), Number(1), W("x"), W("long"), Text(Digits(<<0, 1>>)),
        Text(Digits(<<2, 0>>)), Object(<< <<"k", D(1)>>, <<"k", D(1)>> >>)}
Values == Odd \cup Names4 \cup {D(n) : n \in {0, 1, 2, 4, 5, 19}} \cup {Text(Empty)}
Keywords == Window \cup Limits
    \cup {"signals", "signal", "value", "occurrence", "filter", "request_id", "more"}

Without(ps, k) == SelectSeq(ps, LAMBDA f : f[1] # k)
With(ps, k, v) == Append(Without(ps, k), <<k, v>>)
Changed(ps) ==
    {ps} \cup {Without(ps, k) : k \in {"signals", "signal", "value", "request_id"}}
    \cup {With(ps, k, v) : k \in Keywords, v \in Values}
    \cup {Append(With(ps, k, D(1)), <<k, D(2)>>) : k \in {"max_rows", "value"}}
Pairs(ps) ==
    {With(With(ps, k, v), l, w) :
        k \in {"start", "occurrence", "max_response_bytes"}, v \in {D(0), D(2), W("x")},
        l \in {"end", "max_response_bytes", "more", "timeout_ms"}, w \in {D(1), D(2), D(5)}}

Requests ==
    UNION {{Line(W("p"), m, ps) : ps \in Changed(Base[m]) \cup Pairs(Base[m])} :
              m \in DOMAIN Base}

\* A text inside n arrays.
Deep[n \in 0 .. 5] == IF n = 0 THEN W("x") ELSE Array(<<Deep[n - 1]>>)

Good == Line(W("p"), "ping", <<>>)
Envelopes ==
    {Garbage, Number(1), Array(<<Good>>), Other("null")}
    \cup {Object(With(Good.fields, k, v)) :
            k \in {"v", "id", "method", "params", "more"},
            v \in Values \cup {Number(2), Object(<<>>)}}
    \cup {Object(Without(Good.fields, k)) : k \in {"v", "id", "method", "params"}}
    \cup {Object(Append(Good.fields, <<k, Number(1)>>)) : k \in {"v", "params"}}
    \cup {Object(Append(Good.fields, <<"more", Deep[n]>>)) : n \in DOMAIN Deep}

SomeInputs ==
    Streams \cup {[bytes |-> <<"a", Newline>>, says |-> [Mixed EXCEPT !["a"] = doc]] :
                     doc \in Requests \cup Envelopes}
================================================================================
