----------------------------- MODULE RequestDecode -----------------------------
(***************************************************************************)
(* How one line becomes a request (server/protocol.rs decode_request) and  *)
(* what its limits become against the configured ones (server/runtime.rs   *)
(* effective_timeout_ms, server/service.rs query_context).                 *)
(*                                                                         *)
(* A JSON value is a record with a kind; an object keeps its fields as a   *)
(* sequence of pairs, because a key may be repeated.  A text is a word or  *)
(* a sequence of decimal digits; the empty text is both.                   *)
(***************************************************************************)
EXTENDS Integers, Sequences, FiniteSets, SequencesExt

CONSTANTS
    Nesting,  \* scaled: how deep serde_json reads; its limit is 128
    U64Max,   \* scaled: the largest value a decimal may have
    Reserve,  \* scaled: TERMINAL_FRAME_RESERVE_BYTES
    LongIds   \* the words longer than MAX_REQUEST_ID_BYTES

ASSUME DecodeAssumption ==
    Nesting \in Nat /\ Nesting > 3 /\ U64Max \in Nat /\ Reserve \in 1 .. U64Max

Word(w) == [word |-> w, digits |-> <<>>]
Digits(ds) == [word |-> "", digits |-> ds]
Empty == Word("")

Garbage == [kind |-> "garbage"]  \* no JSON, or more than one value
Missing == [kind |-> "missing"]
Other(kind) == [kind |-> kind]   \* null or a boolean
Number(n) == [kind |-> "number", n |-> n]
Text(t) == [kind |-> "text", text |-> t]
Array(vs) == [kind |-> "array", items |-> vs]
Object(fs) == [kind |-> "object", fields |-> fs]

IsText(v) == v.kind = "text"
TextOf(v) == IF IsText(v) THEN v.text ELSE Empty

Members(v) ==
    CASE v.kind = "object" -> {f[2] : f \in Range(v.fields)}
      [] v.kind = "array" -> Range(v.items)
      [] OTHER -> {}

\* The values n levels below a document, as far as it is read.
Level(doc) ==
    LET level[n \in 0 .. Nesting - 1] ==
            IF n = 0 THEN {doc} ELSE UNION {Members(v) : v \in level[n - 1]}
    IN  level

\* A strict document repeats no key, at any depth, and is not nested too deep.
Strict(doc) ==
    /\ \A n \in 0 .. Nesting - 1 : \A v \in Level(doc)[n] :
           /\ v.kind # "garbage"
           /\ v.kind = "object" =>
                  \A i, j \in DOMAIN v.fields : v.fields[i][1] = v.fields[j][1] => i = j
    /\ \A v \in Level(doc)[Nesting - 1] : v.kind \notin {"object", "array"}

Keys(v) == IF v.kind = "object" THEN {f[1] : f \in Range(v.fields)} ELSE {}

Take(v, key) ==
    IF key \in Keys(v)
    THEN v.fields[CHOOSE i \in DOMAIN v.fields : v.fields[i][1] = key][2]
    ELSE Missing

\* The value of a decimal, read digit by digit.
Value(t) ==
    LET read[i \in 0 .. Len(t.digits)] ==
            IF i = 0 THEN 0 ELSE 10 * read[i - 1] + t.digits[i]
    IN  read[Len(t.digits)]

\* A bug: leading zeros are read past.
ParsesWithZeros(t) == t.word = "" /\ t.digits # <<>> /\ Value(t) <= U64Max

\* A canonical decimal has no sign and no leading zero, and fits its type.
Parses(t) ==
    /\ t.word = "" /\ t.digits # <<>>
    /\ Len(t.digits) > 1 => t.digits[1] # 0
    /\ Value(t) <= U64Max

--------------------------------------------------------------------------------
(***************************************************************************)
(* Decoding: checks in the order of the code; the first that fails names   *)
(* the error.                                                              *)
(***************************************************************************)

Check(ok, code) == [ok |-> ok, code |-> code]
Need(ok) == Check(ok, "BAD_REQUEST")

ValidId(t) == t # Empty /\ t.word \notin LongIds
Decimals(p, keys) ==
    \A k \in keys \cap Keys(p) : IsText(Take(p, k)) /\ Parses(TextOf(Take(p, k)))
Names(v) == v.kind = "array" /\ \A i \in DOMAIN v.items : IsText(v.items[i])
NoneEmpty(v) == Names(v) => v.items # <<>> /\ \A i \in DOMAIN v.items : v.items[i].text # Empty
Given(p, keys) == [k \in keys \cap Keys(p) |-> Value(TextOf(Take(p, k)))]

Window == {"start", "end"}
Limits == {"max_rows", "max_response_bytes", "max_commands", "timeout_ms"}

ValidWindow(p) ==
    Check(Window \subseteq Keys(p) =>
              Value(TextOf(Take(p, "start"))) <= Value(TextOf(Take(p, "end"))),
          "INVALID_WINDOW")

ValidResponse(p) ==
    Need("max_response_bytes" \in Keys(p) =>
             Value(TextOf(Take(p, "max_response_bytes"))) >= Reserve)

\* reject_unknown sees what the fields taken before have left.
OnlyKeys(p, keys) == Need(Keys(p) \subseteq keys)

ListChecks(p) ==
    LET decimals == Limits \ {"max_commands"}
    IN  <<Need(Take(p, "filter").kind \in {"missing", "text"}), Need(Decimals(p, decimals)),
          OnlyKeys(p, decimals \cup {"filter"}), ValidResponse(p)>>

MetadataChecks(p) ==
    LET decimals == {"timeout_ms", "max_commands"}
    IN  <<Need(Decimals(p, decimals)), OnlyKeys(p, decimals)>>

\* extract and toggles differ in the limits they know.
SignalsChecks(p, limits) ==
    LET decimals == Window \cup limits
    IN  <<Need(Names(Take(p, "signals"))), Need(NoneEmpty(Take(p, "signals"))),
          Need(Decimals(p, decimals)), OnlyKeys(p, decimals \cup {"signals"}),
          ValidWindow(p), ValidResponse(p)>>

FindChecks(p) ==
    LET decimals == Window \cup (Limits \ {"max_rows"})
    IN  <<Need(IsText(Take(p, "signal"))), Need(TextOf(Take(p, "signal")) # Empty),
          Need(Decimals(p, {"occurrence"})),
          Check("occurrence" \in Keys(p) => Value(TextOf(Take(p, "occurrence"))) # 0,
                "INVALID_OCCURRENCE"),
          Need(IsText(Take(p, "value"))), Need(Decimals(p, decimals)),
          OnlyKeys(p, decimals \cup {"signal", "value", "occurrence"}),
          ValidWindow(p), ValidResponse(p)>>

CancelChecks(p) ==
    <<Need(IsText(Take(p, "request_id"))), Need(ValidId(TextOf(Take(p, "request_id")))),
      OnlyKeys(p, {"request_id"})>>

MethodChecks(name, p) ==
    CASE name \in {"ping", "describe"} -> <<OnlyKeys(p, {})>>
      [] name = "list" -> ListChecks(p)
      [] name = "metadata" -> MetadataChecks(p)
      [] name = "extract" -> SignalsChecks(p, Limits)
      [] name = "find" -> FindChecks(p)
      [] name = "toggles" -> SignalsChecks(p, Limits \ {"max_rows"})
      [] name = "cancel" -> CancelChecks(p)
      [] OTHER -> <<Check(FALSE, "UNKNOWN_METHOD")>>

Version(line) == Take(line, "v")
MethodOf(line) == TextOf(Take(line, "method")).word
Params(line) == Take(line, "params")

EnvelopeChecks(line) ==
    <<Need(Strict(line)), Need(line.kind = "object"),
      Need(Version(line).kind = "number"),
      Check(Version(line) = Number(1), "UNSUPPORTED_VERSION"),
      Need(IsText(Take(line, "id"))), Need(ValidId(TextOf(Take(line, "id")))),
      Need(IsText(Take(line, "method"))), Need(Params(line).kind = "object")>>

FirstError(checks) ==
    LET failed == {i \in DOMAIN checks : ~checks[i].ok}
    IN  IF failed = {} THEN "ok" ELSE checks[Min(failed)].code

DecodeRequest(line) ==
    LET envelope == FirstError(EnvelopeChecks(line))
        method == FirstError(MethodChecks(MethodOf(line), Params(line)))
    IN  IF envelope # "ok" THEN [code |-> envelope]
        ELSE IF method # "ok" THEN [code |-> method]
        ELSE [code |-> "ok", id |-> TextOf(Take(line, "id")), method |-> MethodOf(line),
              given |-> Given(Params(line), Limits \cup Window \cup {"occurrence"}),
              target |-> TextOf(Take(Params(line), "request_id"))]

--------------------------------------------------------------------------------
(***************************************************************************)
(* Limits: a request may only lower what is configured.                    *)
(***************************************************************************)

Asked(request, key, configured) ==
    IF key \in DOMAIN request.given THEN request.given[key] ELSE configured

TimeoutAllowed(request, maximum) == Asked(request, "timeout_ms", maximum) <= maximum

\* A bug: a request may raise a limit.
LimitsUnbounded(request, config) ==
    [code |-> "ok",
     limits |-> [k \in DOMAIN config |-> Asked(request, k, config[k])]]

QueryLimits(request, config) ==
    LET asked == [k \in DOMAIN config |-> Asked(request, k, config[k])]
    IN  IF (\E k \in DOMAIN config : asked[k] > config[k])
               \/ asked["max_response_bytes"] < Reserve
        THEN [code |-> "BAD_REQUEST"]
        ELSE [code |-> "ok", limits |-> asked]
================================================================================
