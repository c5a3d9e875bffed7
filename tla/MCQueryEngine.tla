----------------------------- MODULE MCQueryEngine -----------------------------
EXTENDS Compare

\* A scalar with an alias, and a two-bit vector.
SmallCatalog ==
    ("clk" :> [id |-> 1, size |-> 1, bytes |-> 3])
        @@ ("alias" :> [id |-> 1, size |-> 1, bytes |-> 5])
        @@ ("bus" :> [id |-> 2, size |-> 2, bytes |-> 3])

Timestamp(t) == [kind |-> "time", time |-> t]
Change(id, kind, bits) == [kind |-> "change", id |-> id, raw |-> [kind |-> kind, bits |-> bits]]

Zero == Change(1, "scalar", <<"0">>)
One == Change(1, "scalar", <<"1">>)
Empty == Change(1, "string", <<>>)
Unknowns == Change(1, "string", <<"X">>)
Bus == Change(2, "vector", <<"0", "1">>)
BusText == Change(2, "string", <<"X">>)
Bad == [kind |-> "bad"]

\* What the bodies hold: of compared waveforms two times, the second the last
\* there is.
SmallCommands ==
    ("extract" :> {Timestamp(1), Timestamp(3), Zero, One, Bus, [kind |-> "other"], Bad})
        @@ ("find" :> {Timestamp(1), Timestamp(3), Zero, Bus, BusText, Bad})
        @@ ("toggles" :> {Timestamp(3), Zero, One, Empty, Bus, BusText})
        @@ ("compare" :> {Timestamp(1), Timestamp(2), One, Unknowns, Bus})

Window(start, end) == [start |-> start, end |-> end]
Whole == Window(None, None)

Query(op, backend, targets, window) ==
    [op |-> op, body |-> 3, backend |-> backend, backends |-> <<backend, "vcd">>,
     exponents |-> <<-9, -9>>, max_mismatches |-> None, ignore_unknown |-> FALSE, targets |-> targets, window |-> window,
     target |-> [base |-> "int", n |-> 1, text |-> ""], occurrence |-> 1,
     max_signals |-> None, max_rows |-> None, max_bytes |-> None, max_commands |-> None]

Checking == {"vcd", "fst"}

\* Windows with open ends, of one instant, reversed; aliases and repeats.
Windowed ==
    {Query("extract", b, <<"alias", "clk">>, w) : b \in Checking \cup {"legacy"},
        w \in {Window({2}, None), Window(None, {1}), Window({1}, {1}), Window({2}, {1})}}

\* Every budget just large enough for part of an event group.
Limited ==
    {[Query("extract", b, <<"clk", "bus", "clk">>, Whole) EXCEPT ![limit[1]] = limit[2]] :
        b \in Checking,
        limit \in {<<"max_rows", {1}>>, <<"max_rows", {2}>>, <<"max_bytes", {23}>>, <<"max_bytes", {24}>>,
                   <<"max_commands", {0}>>, <<"max_commands", {2}>>, <<"max_signals", {2}>>}}

Found ==
    {[Query("find", b, <<"bus">>, Window({1}, {2})) EXCEPT !.occurrence = wanted[1],
                                                           !.target = wanted[2]] :
        b \in Checking,
        wanted \in {<<0, [base |-> "int", n |-> 1, text |-> ""]>>,
                   <<2, [base |-> "int", n |-> 1, text |-> ""]>>,
                   <<1, [base |-> "text", n |-> 0, text |-> "x"]>>}}

Toggled ==
    {[Query("toggles", b, targets, Window(None, {2})) EXCEPT !.body = 4] : b \in Checking,
        targets \in {<<"clk", "alias">>, <<"bus", "bus">>}}

Missed == {Query(op, b, <<"gone">>, w) : op \in {"extract", "find"}, b \in Checking,
               w \in {Whole, Window({2}, {1})}}

Compared ==
    {[Query("compare", options[4], <<"bus", "clk">>, Whole) EXCEPT !.body = 2,
                                                          !.max_mismatches = options[1],
                                                          !.ignore_unknown = options[2],
                                                          !.exponents[2] = options[3]] :
        options \in {<<{0}, FALSE, -8, "vcd">>, <<None, TRUE, -9, "fst">>,
                     <<None, FALSE, -8, "fst">>}}

SmallQueries == Compared \cup Windowed \cup Limited \cup Found \cup Toggled \cup Missed
================================================================================
