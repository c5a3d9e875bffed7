--------------------------- MODULE GenerationsProofs ---------------------------
(***************************************************************************)
(* An answer is of one content, a request fails for its source only when   *)
(* the source changed, and the server opens at most one generation per     *)
(* change: for every set of files and requests and any number of changes.  *)
(***************************************************************************)
EXTENDS Generations, FiniteSetTheorems, TLAPS

(***************************************************************************)
(* Types.                                                                  *)
(***************************************************************************)
Formats == {"vcd", "fst"}
PrintNames == {"header", "samples", "full"}
Regions == UNION {[B -> Values] : B \in SUBSET Blocks}
PrintMaps == UNION {[P -> Regions] : P \in SUBSET PrintNames}

\* What metadata tells of a file with the stamp, and the stamp it tells.
StatOf(format, stamp) == IF format = "vcd" THEN <<stamp[1], stamp>> ELSE <<stamp>>
StampOf(format, stat) == IF format = "vcd" THEN stat[2] ELSE stat[1]
Stats == (Inodes \X Values) \cup Seq(Values)

PrintSet(format, strict) ==
    IF format = "fst" THEN {"samples"}
    ELSE IF strict THEN PrintNames ELSE {"header", "samples"}

Metadata == [state : {"none", "building", "ready", "failed"}, got : Regions, from : Nat]
GenerationType ==
    [format : Formats, strict : BOOLEAN, stat : Stats, prints : PrintMaps,
     catalog : Values, metadata : Metadata]

Names == {"stat", "admit", "open", "create", "catalog", "same", "canonicalize", "store"}
Ops == {<<name>> : name \in Names} \cup {Hash(p) : p \in PrintNames}
          \cup {Load(p) : p \in PrintNames} \cup {Read(b) : b \in Blocks}

Pcs == {"idle", "current", "probe", "detect", "open", "ready", "run", "done", "failed"}
RequestType ==
    [pc : Pcs, kind : Kinds, todo : Seq(Ops), fd : Inodes \cup {None}, gen : Nat,
     asked : Nat, from : Nat, read : Nat, format : Formats, stat : Stats,
     prints : PrintMaps, catalog : Values \cup {None}, got : Regions]

(***************************************************************************)
(* What changes do.  The files and the history are linked: while a file    *)
(* keeps the stamp of a content the path led to, it is that content, but   *)
(* for what silent writes have changed since.                              *)
(***************************************************************************)
FileOf(f, i, n) ==
    /\ f \in Files
    /\ \A v \in {f.stamp, f.head, f.a, f.b, f.tail} : v[1] = i /\ v[2] < n

NoSilent(k) == \A m \in k + 1 .. Len(history) : ~history[m].silent
OneSilent(k) ==
    \A m, n \in k + 1 .. Len(history) : history[m].silent /\ history[n].silent => m = n
NoneRestored(k) == \A m \in k + 1 .. Len(history) : ~history[m].restored

SameBlocks(f, h) == \A x \in Blocks : f[x] = h[x]
OneBlockApart(f, h) == \E b \in Blocks : \A x \in Blocks \ {b} : f[x] = h[x]

Linked(h, k) ==
    disk[h.stamp[1]].stamp = h.stamp =>
        /\ NoSilent(k) => SameBlocks(disk[h.stamp[1]], h)
        /\ OneSilent(k) => OneBlockApart(disk[h.stamp[1]], h)

Changes == [now : Files \cup {None}, silent : BOOLEAN, restored : BOOLEAN]

World ==
    /\ scenario \in Scenarios
    /\ path \in Inodes \cup {None}
    /\ disk \in [Inodes -> Files]
    /\ \A i \in Inodes : FileOf(disk[i], i, Len(history))
    /\ history \in Seq(Changes)
    /\ Len(history) >= 1
    /\ history[Len(history)].now = IF path = None THEN None ELSE disk[path]
    /\ \A k \in DOMAIN history :
           LET h == history[k].now IN
           h # None => FileOf(h, h.stamp[1], Len(history)) /\ Linked(h, k)

(***************************************************************************)
(* What a request has read.  Snap is the heart of the argument: since from *)
(* the path has led to a content with the stamp, and what was read is of   *)
(* that content or of what the file is now, as long as the file keeps the  *)
(* stamp and at most one silent write has happened.                        *)
(***************************************************************************)
Agrees(f, catalog, known, got) ==
    (known => f.head = catalog) /\ \A x \in DOMAIN got : f[x] = got[x]

SnapAt(k, stamp, catalog, known, got) ==
    LET f == disk[stamp[1]] IN
    /\ history[k].now # None /\ history[k].now.stamp = stamp
    /\ OneSilent(k) /\ f.stamp = stamp =>
           Agrees(history[k].now, catalog, known, got) \/ Agrees(f, catalog, known, got)

Snap(stamp, catalog, known, got, from) ==
    \E k \in from .. Len(history) : SnapAt(k, stamp, catalog, known, got)

Stamp(g) == StampOf(g.format, g.stat)
Owner(g) == Stamp(g)[1]

\* The file i is the one the generation was opened on, as far as its identity tells.
Matches(g, i) ==
    /\ i \in Inodes /\ Stat(g.format, i) = g.stat
    /\ \A p \in PrintSet(g.format, g.strict) : Region(i, p) = g.prints[p]

\* The source a request found was not there, or has changed since.
Excused(from) == history[from].now # None => from < Len(history)

\* The header fingerprint of a file with the catalog.
HeaderOf(catalog) == [block \in {"head"} |-> catalog]

GenOk(g) ==
    /\ g \in GenerationType
    /\ Stamp(g) \in Values /\ Stamp(g)[2] < Len(history) /\ g.stat = StatOf(g.format, Stamp(g))
    /\ disk[Owner(g)].format = g.format
    /\ DOMAIN g.prints = PrintSet(g.format, g.strict)
    /\ g.format = "vcd" => g.prints["header"] = HeaderOf(g.catalog)
    /\ g.strict =>
           /\ g.format = "vcd" /\ DOMAIN g.prints["full"] = Blocks
           /\ \A x \in Blocks : g.prints["full"][x][2] < Len(history)
    /\ g.format = "fst" /\ NoSilent(0) /\ disk[Owner(g)].stamp = Stamp(g) =>
           disk[Owner(g)].head = g.catalog
    /\ g.metadata.from \in 1 .. Len(history)
    /\ g.metadata.state = "ready" =>
           /\ g.format = "vcd"
           /\ Snap(Stamp(g), g.catalog, TRUE, g.metadata.got, g.metadata.from)
    /\ g.metadata.state = "failed" => Excused(g.metadata.from)

(***************************************************************************)
(* Programs, by what is still to be done.                                  *)
(***************************************************************************)
Has(P, op) == \E n \in DOMAIN P : P[n] = op
Only(P, ops) == \A n \in DOMAIN P : P[n] \in ops
OnlyFirst(P, op) == \A n \in DOMAIN P : P[n] = op => n = 1
Before(P, op, next) == \A m, n \in DOMAIN P : P[m] = op /\ P[n] = next => m < n
Followed(P, ops, next) ==
    \A n \in DOMAIN P : P[n] \in ops => \E m \in DOMAIN P : m > n /\ P[m] = next

Hashes(prints) == {Hash(p) : p \in prints}
Loads(prints) == {Load(p) : p \in prints}
Reads == {Read(block) : block \in {"a", "b", "tail"}}

Prints_(g) == PrintSet(g.format, g.strict)

CheckShape(P, g) ==
    /\ Only(P, {<<"admit">>, <<"stat">>} \cup Hashes(Prints_(g)))
    /\ OnlyFirst(P, <<"admit">>)

OpenShape(P, prints) ==
    /\ Only(P, {<<"create">>, <<"catalog">>, <<"same">>, <<"canonicalize">>} \cup Loads(prints))
    /\ OnlyFirst(P, <<"create">>)
    /\ Before(P, <<"catalog">>, Load("header"))

\* What is read is validated by opening the path again, with a full fingerprint
\* where the generation has one.
RunShape(P, kind, g) ==
    /\ Only(P, {<<"admit">>, <<"stat">>, <<"open">>, <<"store">>}
                   \cup Hashes(Prints_(g)) \cup Reads)
    /\ Has(P, <<"open">>) => g.format = "fst"
    /\ Has(P, <<"store">>) => g.format = "vcd" /\ kind = "metadata"
    /\ Followed(P, Reads, <<"admit">>)
    /\ g.strict => Followed(P, {<<"admit">>, Hash("header")}, Hash("full"))

(***************************************************************************)
(* A request x on the generation g.                                        *)
(***************************************************************************)
\* The claim about an answer, for each way Tolerated allows changes.
Answers(x, g, since) ==
    \E k \in since .. Len(history) :
        /\ history[k].now # None
        /\ Agrees(history[k].now, g.catalog, TRUE, x.got)

ClaimSilent(x, g) ==
    /\ NoSilent(x.from) => Answers(x, g, x.read)
    /\ OneSilent(x.from) => Answers(x, g, x.from)
ClaimStrict(x, g) == NoneRestored(x.from) => Answers(x, g, x.read)
ClaimFst(x, g) == Len(history) <= x.from + 1 /\ NoSilent(0) => Answers(x, g, x.read)

\* A block that is as the full fingerprint has it was so when it was read.
Recalls(f, print, x) == \A block \in DOMAIN x.got :
    f[block] = print[block] => x.got[block] = print[block]
RecallsHead(f, g) == f.head = g.prints["full"]["head"] => g.catalog = f.head

\* The last file the path was found to lead to, as far as it has not changed.
Recent(x, g) ==
    NoneRestored(x.from) =>
        \E k \in x.read .. Len(history) :
            /\ history[k].now # None
            /\ \A block \in Blocks :
                   disk[Owner(g)][block] = g.prints["full"][block] =>
                       history[k].now[block] = g.prints["full"][block]

\* The handle is on the file of the generation; an FST handle that FstReader
\* opened may be on another one, while the path leads there.
OnOwner(x, g) ==
    \/ x.fd = Owner(g)
    \/ g.format = "fst" /\ (Len(history) > x.from + 1
                               \/ (Len(history) > x.from /\ path # Owner(g)))
PathKnown(x, g) == path = Owner(g) \/ Len(history) > x.from

Current_(x, g) ==
    /\ x.got = <<>> /\ CheckShape(x.todo, g)
    /\ Has(x.todo, <<"admit">>) => \A p \in Prints_(g) : Has(x.todo, Hash(p))
    /\ ~Has(x.todo, <<"admit">>) =>
           /\ x.fd = Owner(g) /\ PathKnown(x, g)
           /\ g.format = "vcd" =>
                  Snap(Stamp(g), g.catalog, ~Has(x.todo, Hash("header")), x.got, x.from)

Open_(x) ==
    LET prints == PrintSet(x.format, x.kind = "library")
        stamp == StampOf(x.format, x.stat)
    IN
    /\ x.got = <<>> /\ OpenShape(x.todo, prints)
    /\ x.kind = "library" \/ x.pc = "detect" => x.format = "vcd"
    /\ Has(x.todo, <<"create">>) =>
           Has(x.todo, <<"catalog">>) /\ \A p \in prints : Has(x.todo, Load(p))
    /\ ~Has(x.todo, <<"create">>) =>
           /\ stamp \in Values /\ stamp[2] < Len(history) /\ x.stat = StatOf(x.format, stamp)
           /\ x.fd = stamp[1] /\ (path = x.fd \/ Len(history) > x.from)
           /\ \A p \in prints : p \in DOMAIN x.prints \/ Has(x.todo, Load(p))
           /\ DOMAIN x.prints \subseteq prints
           /\ x.format = "vcd" =>
                  Snap(stamp, x.catalog, ~Has(x.todo, <<"catalog">>), x.got, x.from)
           /\ ~Has(x.todo, <<"catalog">>) =>
                  /\ x.catalog \in Values /\ disk[x.fd].format = x.format
                  /\ x.format = "fst" /\ NoSilent(0) /\ disk[x.fd].stamp = stamp =>
                         disk[x.fd].head = x.catalog
    /\ "header" \in DOMAIN x.prints /\ ~Has(x.todo, <<"create">>) =>
           /\ ~Has(x.todo, <<"catalog">>)
           /\ x.prints["header"] = HeaderOf(x.catalog)
    /\ "full" \in DOMAIN x.prints /\ ~Has(x.todo, <<"create">>) =>
           /\ DOMAIN x.prints["full"] = Blocks
           /\ \A block \in Blocks : x.prints["full"][block][2] < Len(history)

Run_(x, g) ==
    /\ x.fd \in Inodes /\ OnOwner(x, g) /\ PathKnown(x, g)
    /\ g.format = "vcd" => Snap(Stamp(g), g.catalog, TRUE, x.got, x.from)
    /\ /\ g.format = "fst" /\ x.fd = Owner(g) /\ disk[x.fd].stamp = Stamp(g)
       /\ Len(history) <= x.from + 1 /\ NoSilent(0)
       => \A block \in DOMAIN x.got : disk[x.fd][block] = x.got[block]
    /\ g.strict /\ NoneRestored(x.from) => Recalls(disk[Owner(g)], g.prints["full"], x)

Running(x, g) ==
    LET last == ~Has(x.todo, <<"admit">>)
        hashed == ~Has(x.todo, Hash("full"))
    IN
    /\ RunShape(x.todo, x.kind, g)
    /\ g.strict /\ NoneRestored(x.from) =>
           Has(x.todo, Hash("header")) \/ RecallsHead(disk[Owner(g)], g)
    /\ last /\ g.format = "vcd" => ClaimSilent(x, g)
    /\ last /\ g.strict => Recent(x, g)
    /\ last /\ hashed /\ g.strict => ClaimStrict(x, g)
    /\ last /\ g.format = "fst" => ClaimFst(x, g)

Done_(x, g) ==
    /\ g.format = "vcd" => ClaimSilent(x, g)
    /\ g.strict => ClaimStrict(x, g)
    /\ g.format = "fst" => ClaimFst(x, g)

ReqOk(x, g) ==
    /\ x \in RequestType
    /\ x.from \in 1 .. Len(history) /\ x.read \in x.from .. Len(history)
    /\ x.pc \in {"idle", "ready", "done", "failed"} => x.todo = <<>>
    /\ x.pc \in {"current", "probe", "detect"} => x.kind # "library"
    /\ x.pc \in {"current", "ready", "run", "done"} /\ x.kind # "library" => ~g.strict
    /\ x.pc = "current" => Current_(x, g)
    /\ x.pc = "probe" =>
           x.got = <<>> /\ (x.todo = << <<"open">> >> \/ (x.todo = <<>> /\ x.fd \in Inodes))
    /\ x.pc \in {"detect", "open"} => Open_(x)
    /\ x.pc = "ready" => x.got = <<>>
    /\ x.pc \in {"ready", "run"} => Run_(x, g)
    /\ x.pc = "run" => Running(x, g)
    /\ x.pc = "done" => Done_(x, g)

(***************************************************************************)
(* What is known while nothing changes.                                    *)
(***************************************************************************)
Served == {id \in DOMAIN gens : ~gens[id].strict}
Count == Cardinality(Served)

\* The source has not changed since the request began, or since the server
\* opened the generation it validates, or began to open it.
Steady(x, count) ==
    \/ x.from = Len(history)
    \/ x.pc = "current" /\ count = Len(history)
    \/ x.pc = "open" /\ x.kind # "library" /\ count + 1 = Len(history)

Certain(x, g) ==
    /\ x.pc = "current" =>
           /\ Has(x.todo, <<"admit">>) \/ (path = x.fd /\ Stat(g.format, path) = g.stat)
           /\ \A p \in Prints_(g) : Has(x.todo, Hash(p)) \/ Region(path, p) = g.prints[p]
    /\ x.pc = "probe" /\ x.todo = <<>> => path = x.fd
    /\ x.pc \in {"detect", "open"} /\ ~Has(x.todo, <<"create">>) =>
           /\ path = x.fd /\ Stat(x.format, path) = x.stat
           /\ Has(x.todo, <<"catalog">>) \/ x.catalog = disk[path].head
           /\ \A p \in PrintSet(x.format, x.kind = "library") :
                  Has(x.todo, Load(p)) \/ Region(path, p) = x.prints[p]
    /\ x.pc \in {"ready", "run"} => path = x.fd /\ Matches(g, path)

FormatKnown(x) ==
    x.from = Len(history) /\ x.pc \in {"detect", "open"} /\ x.kind # "library" =>
        path \in Inodes /\ disk[path].format = x.format

Excuse(x) ==
    x.pc = "failed" /\ history[x.from].now # None =>
        \/ x.from < Len(history)
        \/ x.kind = "library" /\ history[x.from].now.format = "fst"

\* The mutex of the slot.
Holds(x) == x.pc \in {"current", "probe", "detect"} \/ (x.pc = "open" /\ x.kind # "library")

SlotOk ==
    /\ slot \in DOMAIN gens /\ ~gens[slot].strict
    /\ holder \in Requests \cup {None}
    /\ \A r \in Requests :
           /\ Holds(req[r]) => holder = r
           /\ Holds(req[r]) /\ req[r].pc = "current" => req[r].gen = slot
           /\ Holds(req[r]) /\ req[r].pc # "current" => Count < Len(history)
    /\ Count \in 0 .. Len(history)
    /\ Count = Len(history) => \A g \in {gens[slot]}, i \in {path} : Matches(g, i)

GensOk ==
    /\ gens \in Seq(GenerationType) /\ Len(gens) >= 1
    /\ \A id \in DOMAIN gens : \A g \in {gens[id]} : GenOk(g)

RequestOk(r) ==
    /\ req[r].gen \in DOMAIN gens
    /\ \A x \in {req[r]} : \A g \in {gens[x.gen]}, n \in {Count} :
           /\ ReqOk(x, g) /\ (Steady(x, n) => Certain(x, g))
           /\ FormatKnown(x) /\ Excuse(x)

RequestsOk ==
    /\ req \in [Requests -> RequestType]
    /\ \A r \in Requests : RequestOk(r)

GInv == World /\ GensOk /\ RequestsOk /\ SlotOk

(***************************************************************************)
(* Programs: what is left when the first operation is done, and what two   *)
(* programs in a row are.                                                  *)
(***************************************************************************)
LEMMA TailHas ==
    ASSUME NEW P \in Seq(Ops), P # <<>>
    PROVE  /\ Tail(P) \in Seq(Ops) /\ Head(P) \in Ops
           /\ \A op : Has(P, op) <=> (Head(P) = op \/ Has(Tail(P), op))
  <1>1. /\ Tail(P) \in Seq(Ops) /\ Head(P) = P[1] /\ Head(P) \in Ops
        /\ Len(P) \in Nat \ {0} /\ DOMAIN P = 1 .. Len(P)
        /\ Len(Tail(P)) = Len(P) - 1 /\ DOMAIN Tail(P) = 1 .. Len(P) - 1
    OBVIOUS
  <1>2. \A n \in 1 .. Len(P) - 1 : Tail(P)[n] = P[n + 1]
    OBVIOUS
  <1>3. ASSUME NEW op PROVE Has(P, op) <=> (Head(P) = op \/ Has(Tail(P), op))
    <2>1. ASSUME Has(P, op) PROVE Head(P) = op \/ Has(Tail(P), op)
      <3>1. PICK n \in 1 .. Len(P) : P[n] = op
        BY <1>1, <2>1 DEF Has
      <3>2. n # 1 => n - 1 \in DOMAIN Tail(P) /\ Tail(P)[n - 1] = op
        BY <1>1, <1>2, <3>1
      <3> QED
        BY <1>1, <3>1, <3>2 DEF Has
    <2>2. ASSUME Has(Tail(P), op) PROVE Has(P, op)
      <3>1. PICK n \in 1 .. Len(P) - 1 : P[n + 1] = op
        BY <1>1, <1>2, <2>2 DEF Has
      <3>2. n + 1 \in DOMAIN P
        BY <1>1
      <3> QED
        BY <3>1, <3>2 DEF Has
    <2>3. Head(P) = op => Has(P, op)
      BY <1>1 DEF Has
    <2> QED
      BY <2>1, <2>2, <2>3
  <1> QED
    BY <1>1, <1>3

LEMMA TailOnly ==
    ASSUME NEW P \in Seq(Ops), P # <<>>, NEW ops, Only(P, ops)
    PROVE  Head(P) \in ops /\ Only(Tail(P), ops)
  BY DEF Only

LEMMA TailOnlyFirst ==
    ASSUME NEW P \in Seq(Ops), P # <<>>, NEW op, OnlyFirst(P, op)
    PROVE  ~Has(Tail(P), op) /\ OnlyFirst(Tail(P), op)
  BY DEF OnlyFirst, Has

LEMMA TailBefore ==
    ASSUME NEW P \in Seq(Ops), P # <<>>, NEW op, NEW next, Before(P, op, next)
    PROVE  Before(Tail(P), op, next) /\ (Head(P) = next => ~Has(P, op))
  <1>1. \A n \in 1 .. Len(P) - 1 : Tail(P)[n] = P[n + 1] /\ n + 1 \in DOMAIN P
    OBVIOUS
  <1>2. DOMAIN Tail(P) = 1 .. Len(P) - 1 /\ DOMAIN P = 1 .. Len(P) /\ Head(P) = P[1]
    OBVIOUS
  <1> QED
    BY <1>1, <1>2 DEF Before, Has

LEMMA TailFollowed ==
    ASSUME NEW P \in Seq(Ops), P # <<>>, NEW ops, NEW next, Followed(P, ops, next)
    PROVE  Followed(Tail(P), ops, next) /\ (Head(P) \in ops => Has(Tail(P), next))
  <1>1. /\ DOMAIN Tail(P) = 1 .. Len(P) - 1 /\ DOMAIN P = 1 .. Len(P) /\ Head(P) = P[1]
        /\ Len(P) \in Nat \ {0}
    OBVIOUS
  <1>2. \A n \in 1 .. Len(P) - 1 : Tail(P)[n] = P[n + 1]
    OBVIOUS
  <1>3. \A n \in 2 .. Len(P) : n - 1 \in DOMAIN Tail(P) /\ Tail(P)[n - 1] = P[n]
    BY <1>1, <1>2
  <1>4. ASSUME NEW n \in DOMAIN Tail(P), Tail(P)[n] \in ops
        PROVE  \E m \in DOMAIN Tail(P) : m > n /\ Tail(P)[m] = next
    <2>1. n + 1 \in DOMAIN P /\ P[n + 1] \in ops
      BY <1>1, <1>2, <1>4
    <2>2. PICK m \in DOMAIN P : m > n + 1 /\ P[m] = next
      BY <2>1 DEF Followed
    <2>3. m - 1 \in DOMAIN Tail(P) /\ m - 1 > n /\ Tail(P)[m - 1] = next
      BY <1>1, <1>3, <2>2
    <2> QED
      BY <2>3
  <1>5. ASSUME Head(P) \in ops PROVE Has(Tail(P), next)
    <2>1. PICK m \in DOMAIN P : m > 1 /\ P[m] = next
      BY <1>1, <1>5 DEF Followed
    <2>2. m - 1 \in DOMAIN Tail(P) /\ Tail(P)[m - 1] = next
      BY <1>1, <1>3, <2>1
    <2> QED
      BY <2>2 DEF Has
  <1> QED
    BY <1>4, <1>5 DEF Followed

LEMMA ConcatHas ==
    ASSUME NEW P \in Seq(Ops), NEW Q \in Seq(Ops)
    PROVE  /\ P \o Q \in Seq(Ops)
           /\ \A op : Has(P \o Q, op) <=> (Has(P, op) \/ Has(Q, op))
  <1>1. /\ P \o Q \in Seq(Ops) /\ Len(P) \in Nat /\ Len(Q) \in Nat
        /\ DOMAIN (P \o Q) = 1 .. Len(P) + Len(Q)
        /\ DOMAIN P = 1 .. Len(P) /\ DOMAIN Q = 1 .. Len(Q)
    OBVIOUS
  <1>2. \A n \in DOMAIN P : n \in DOMAIN (P \o Q) /\ (P \o Q)[n] = P[n]
    OBVIOUS
  <1>3. \A n \in DOMAIN Q : Len(P) + n \in DOMAIN (P \o Q) /\ (P \o Q)[Len(P) + n] = Q[n]
    OBVIOUS
  <1>4. ASSUME NEW op PROVE Has(P \o Q, op) <=> (Has(P, op) \/ Has(Q, op))
    <2>1. ASSUME Has(P \o Q, op) PROVE Has(P, op) \/ Has(Q, op)
      <3>1. PICK n \in DOMAIN (P \o Q) : (P \o Q)[n] = op
        BY <2>1 DEF Has
      <3>2. n \in DOMAIN P \/ (n - Len(P) \in DOMAIN Q /\ n = Len(P) + (n - Len(P)))
        BY <1>1
      <3> QED
        BY <1>2, <1>3, <3>1, <3>2 DEF Has
    <2>2. Has(P, op) => Has(P \o Q, op)
      BY <1>2 DEF Has
    <2>3. Has(Q, op) => Has(P \o Q, op)
      BY <1>3 DEF Has
    <2> QED
      BY <2>1, <2>2, <2>3
  <1> QED
    BY <1>1, <1>4

LEMMA ConcatOnly ==
    ASSUME NEW P \in Seq(Ops), NEW Q \in Seq(Ops), NEW ops, Only(P, ops), Only(Q, ops)
    PROVE  Only(P \o Q, ops)
  <1>1. \A n \in DOMAIN (P \o Q) :
            \/ n \in DOMAIN P /\ (P \o Q)[n] = P[n]
            \/ n - Len(P) \in DOMAIN Q /\ (P \o Q)[n] = Q[n - Len(P)]
    OBVIOUS
  <1> QED
    BY <1>1 DEF Only

LEMMA ConcatFollowed ==
    ASSUME NEW P \in Seq(Ops), NEW Q \in Seq(Ops), NEW ops, NEW next,
           Followed(Q, ops, next), Followed(P, ops, next) \/ Has(Q, next)
    PROVE  Followed(P \o Q, ops, next)
  <1>1. Len(P) \in Nat /\ Len(Q) \in Nat
        /\ DOMAIN P = 1 .. Len(P) /\ DOMAIN Q = 1 .. Len(Q)
    OBVIOUS
  <1>2. \A n \in DOMAIN P : n \in DOMAIN (P \o Q) /\ (P \o Q)[n] = P[n]
    OBVIOUS
  <1>3. \A n \in DOMAIN Q : Len(P) + n \in DOMAIN (P \o Q) /\ (P \o Q)[Len(P) + n] = Q[n]
    OBVIOUS
  <1>4. ASSUME NEW n \in DOMAIN (P \o Q), (P \o Q)[n] \in ops
        PROVE  \E m \in DOMAIN (P \o Q) : m > n /\ (P \o Q)[m] = next
    <2>1. CASE n \in DOMAIN P
      <3>1. P[n] \in ops
        BY <1>2, <1>4, <2>1
      <3>2. CASE Followed(P, ops, next)
        <4>1. PICK m \in DOMAIN P : m > n /\ P[m] = next
          BY <2>1, <3>1, <3>2 DEF Followed
        <4> QED
          BY <1>2, <4>1
      <3>3. CASE Has(Q, next)
        <4>1. PICK m \in DOMAIN Q : Q[m] = next
          BY <3>3 DEF Has
        <4>2. Len(P) + m \in DOMAIN (P \o Q) /\ (P \o Q)[Len(P) + m] = next /\ Len(P) + m > n
          BY <1>1, <1>3, <2>1, <4>1
        <4> QED
          BY <4>2
      <3> QED
        BY <3>2, <3>3
    <2>2. CASE n \notin DOMAIN P
      <3>1. n - Len(P) \in DOMAIN Q /\ (P \o Q)[n] = Q[n - Len(P)]
        BY <2>2
      <3>2. PICK m \in DOMAIN Q : m > n - Len(P) /\ Q[m] = next
        BY <1>4, <3>1 DEF Followed
      <3>3. Len(P) + m \in DOMAIN (P \o Q) /\ (P \o Q)[Len(P) + m] = next /\ Len(P) + m > n
        BY <1>1, <1>3, <3>2
      <3> QED
        BY <3>3
    <2> QED
      BY <2>1, <2>2
  <1> QED
    BY <1>4 DEF Followed

LEMMA ConcatOnlyFirst ==
    ASSUME NEW P \in Seq(Ops), NEW Q \in Seq(Ops), NEW op, OnlyFirst(P, op), ~Has(Q, op)
    PROVE  OnlyFirst(P \o Q, op)
  <1>1. \A n \in DOMAIN (P \o Q) :
            \/ n \in DOMAIN P /\ (P \o Q)[n] = P[n]
            \/ n - Len(P) \in DOMAIN Q /\ (P \o Q)[n] = Q[n - Len(P)]
    OBVIOUS
  <1> QED
    BY <1>1 DEF OnlyFirst, Has

LEMMA ConcatBefore ==
    ASSUME NEW P \in Seq(Ops), NEW Q \in Seq(Ops), NEW op, NEW next,
           Before(P, op, next), Before(Q, op, next), ~Has(P, next) \/ ~Has(Q, op)
    PROVE  Before(P \o Q, op, next)
  <1>1. \A n \in DOMAIN (P \o Q) :
            \/ n \in DOMAIN P /\ (P \o Q)[n] = P[n]
            \/ n - Len(P) \in DOMAIN Q /\ (P \o Q)[n] = Q[n - Len(P)]
    OBVIOUS
  <1>2. \A m \in DOMAIN P, n \in Int : n - Len(P) \in DOMAIN Q => m < n
    OBVIOUS
  <1>3. \A m, n \in Int : m - Len(P) < n - Len(P) => m < n
    OBVIOUS
  <1>4. DOMAIN (P \o Q) \subseteq Int
    OBVIOUS
  <1> QED
    BY <1>1, <1>2, <1>3, <1>4 DEF Before, Has

LEMMA OneOp ==
    ASSUME NEW u \in Ops
    PROVE  /\ <<u>> \in Seq(Ops) /\ (\A op : Has(<<u>>, op) <=> op = u)
           /\ (\A op : OnlyFirst(<<u>>, op)) /\ (\A op, next : op # next => Before(<<u>>, op, next))
  BY DEF Has, OnlyFirst, Before

LEMMA TwoOps ==
    ASSUME NEW u \in Ops, NEW v \in Ops
    PROVE  <<u, v>> \in Seq(Ops) /\ \A op : Has(<<u, v>>, op) <=> op \in {u, v}
  BY DEF Has

LEMMA ThreeOps ==
    ASSUME NEW u \in Ops, NEW v \in Ops, NEW w \in Ops
    PROVE  <<u, v, w>> \in Seq(Ops) /\ \A op : Has(<<u, v, w>>, op) <=> op \in {u, v, w}
  BY DEF Has

LEMMA OnlyHas ==
    ASSUME NEW P, NEW ops
    PROVE  Only(P, ops) <=> \A op : Has(P, op) => op \in ops
  BY DEF Only, Has

LEMMA OpsDiffer ==
    /\ \A name \in Names : <<name>> \in Ops
    /\ \A p \in PrintNames : Hash(p) \in Ops /\ Load(p) \in Ops
    /\ \A block \in Blocks : Read(block) \in Ops
    /\ \A name, p : <<name>> # Hash(p) /\ <<name>> # Load(p) /\ <<name>> # Read(p)
    /\ \A p, q : Hash(p) # Load(q) /\ Hash(p) # Read(q) /\ Load(p) # Read(q)
    /\ \A p, q : Hash(p) = Hash(q) \/ Load(p) = Load(q) \/ Read(p) = Read(q) => p = q
    /\ \A name, other : <<name>> = <<other>> => name = other
  BY DEF Ops, Hash, Load, Read

\* Each makes a program of the operations on the names.
LEMMA EachIs ==
    /\ Each(Hash, Prints("fst", FALSE)) = <<Hash("samples")>>
    /\ Each(Hash, Prints("vcd", FALSE)) = <<Hash("header"), Hash("samples")>>
    /\ Each(Hash, Prints("vcd", TRUE)) = <<Hash("header"), Hash("samples"), Hash("full")>>
    /\ Each(Load, Prints("fst", FALSE)) = <<Load("samples")>>
    /\ Each(Load, Prints("vcd", FALSE)) = <<Load("header"), Load("samples")>>
    /\ Each(Load, Prints("vcd", TRUE)) = <<Load("header"), Load("samples"), Load("full")>>
    /\ Each(Read, <<"a", "b", "tail">>) = <<Read("a"), Read("b"), Read("tail")>>
  BY DEF Each, Prints

LEMMA EachHas ==
    ASSUME NEW format \in Formats, NEW strict \in BOOLEAN, strict => format = "vcd"
    PROVE  /\ Each(Hash, Prints(format, strict)) \in Seq(Ops)
           /\ \A op : Has(Each(Hash, Prints(format, strict)), op)
                          <=> op \in Hashes(PrintSet(format, strict))
           /\ Each(Load, Prints(format, strict)) \in Seq(Ops)
           /\ \A op : Has(Each(Load, Prints(format, strict)), op)
                          <=> op \in Loads(PrintSet(format, strict))
           /\ strict => Followed(Each(Hash, Prints(format, strict)),
                                 {<<"admit">>, Hash("header")}, Hash("full"))
  <1>0. /\ Hash("header") \in Ops /\ Hash("samples") \in Ops /\ Hash("full") \in Ops
        /\ Load("header") \in Ops /\ Load("samples") \in Ops /\ Load("full") \in Ops
    BY OpsDiffer DEF PrintNames
  <1> DEFINE H == Each(Hash, Prints(format, strict))
             L == Each(Load, Prints(format, strict))
  <1>1. CASE format = "fst"
    <2>1. strict = FALSE
      BY <1>1
    <2>2. H = <<Hash("samples")>> /\ L = <<Load("samples")>>
      BY <1>1, <2>1, EachIs
    <2>3. Hashes(PrintSet(format, strict)) = {Hash("samples")}
          /\ Loads(PrintSet(format, strict)) = {Load("samples")}
      BY <1>1, <2>1 DEF PrintSet, Hashes, Loads
    <2>4. H \in Seq(Ops) /\ \A op : Has(H, op) <=> op = Hash("samples")
      BY <1>0, <2>2, OneOp
    <2>5. L \in Seq(Ops) /\ \A op : Has(L, op) <=> op = Load("samples")
      BY <1>0, <2>2, OneOp
    <2> QED
      BY <2>1, <2>3, <2>4, <2>5
  <1>2. CASE format = "vcd" /\ strict = FALSE
    <2>2. H = <<Hash("header"), Hash("samples")>> /\ L = <<Load("header"), Load("samples")>>
      BY <1>2, EachIs
    <2>3. Hashes(PrintSet(format, strict)) = {Hash("header"), Hash("samples")}
          /\ Loads(PrintSet(format, strict)) = {Load("header"), Load("samples")}
      BY <1>2 DEF PrintSet, Hashes, Loads
    <2>4. H \in Seq(Ops) /\ \A op : Has(H, op) <=> op \in {Hash("header"), Hash("samples")}
      BY <1>0, <2>2, TwoOps
    <2>5. L \in Seq(Ops) /\ \A op : Has(L, op) <=> op \in {Load("header"), Load("samples")}
      BY <1>0, <2>2, TwoOps
    <2> QED
      BY <1>2, <2>3, <2>4, <2>5
  <1>3. CASE format = "vcd" /\ strict = TRUE
    <2>2. H = <<Hash("header"), Hash("samples"), Hash("full")>>
          /\ L = <<Load("header"), Load("samples"), Load("full")>>
      BY <1>3, EachIs
    <2>3. Hashes(PrintSet(format, strict)) = {Hash("header"), Hash("samples"), Hash("full")}
          /\ Loads(PrintSet(format, strict)) = {Load("header"), Load("samples"), Load("full")}
      BY <1>3 DEF PrintSet, PrintNames, Hashes, Loads
    <2>4. H \in Seq(Ops)
          /\ \A op : Has(H, op) <=> op \in {Hash("header"), Hash("samples"), Hash("full")}
      BY <1>0, <2>2, ThreeOps
    <2>5. L \in Seq(Ops)
          /\ \A op : Has(L, op) <=> op \in {Load("header"), Load("samples"), Load("full")}
      BY <1>0, <2>2, ThreeOps
    <2>6. Followed(<<Hash("header"), Hash("samples"), Hash("full")>>,
                   {<<"admit">>, Hash("header")}, Hash("full"))
      BY OpsDiffer DEF Followed
    <2> QED
      BY <1>3, <2>2, <2>3, <2>4, <2>5, <2>6
  <1> QED
    BY <1>1, <1>2, <1>3 DEF Formats

\* A generation of a reader: strict only for VCD.
Checkable(g) == g.format \in Formats /\ g.strict \in BOOLEAN /\ (g.strict => g.format = "vcd")

Ends == {<<"admit">>, Hash("header")}

LEMMA ValidateHas ==
    ASSUME NEW g, Checkable(g)
    PROVE  LET P == ValidatePath(g) IN
           /\ P \in Seq(Ops) /\ P # <<>> /\ CheckShape(P, g)
           /\ Has(P, <<"admit">>) /\ \A p \in Prints_(g) : Has(P, Hash(p))
           /\ \A op : Has(P, op) => op \in {<<"admit">>, <<"stat">>} \cup Hashes(Prints_(g))
           /\ g.strict => Followed(P, Ends, Hash("full"))
  <1> DEFINE H == Each(Hash, Prints(g.format, g.strict))
             A == << <<"admit">> >>
             S == << <<"stat">> >>
  <1>1. H \in Seq(Ops) /\ \A op : Has(H, op) <=> op \in Hashes(Prints_(g))
    BY EachHas DEF Checkable, Prints_
  <1>2. /\ A \in Seq(Ops) /\ (\A op : Has(A, op) <=> op = <<"admit">>)
        /\ S \in Seq(Ops) /\ (\A op : Has(S, op) <=> op = <<"stat">>)
        /\ OnlyFirst(A, <<"admit">>)
    BY OneOp, OpsDiffer DEF Names
  <1> DEFINE AH == A \o H
  <1>3. AH \in Seq(Ops) /\ \A op : Has(AH, op) <=> Has(A, op) \/ Has(H, op)
    BY <1>1, <1>2, ConcatHas
  <1>4. ~Has(H, <<"admit">>) /\ ~Has(S, <<"admit">>)
    <2>1. <<"admit">> \notin Hashes(Prints_(g)) /\ <<"admit">> # <<"stat">>
      BY OpsDiffer DEF Hashes
    <2> QED
      BY <1>1, <1>2, <2>1
  <1>5. OnlyFirst(AH, <<"admit">>)
    BY <1>1, <1>2, <1>4, ConcatOnlyFirst
  <1>6. CASE g.format = "fst"
    <2>1. ValidatePath(g) = AH
      <3>1. g.strict = FALSE
        BY <1>6 DEF Checkable
      <3> QED
        BY <1>6, <3>1 DEF ValidatePath, ValidateFst
    <2>2. \A op : Has(AH, op) <=> op \in {<<"admit">>} \cup Hashes(Prints_(g))
      BY <1>1, <1>2, <1>3
    <2>3. ~g.strict
      BY <1>6 DEF Checkable
    <2>4. AH # <<>>
      BY <2>2 DEF Has
    <2>5. Only(AH, {<<"admit">>, <<"stat">>} \cup Hashes(Prints_(g)))
      BY <2>2, OnlyHas
    <2> QED
      BY <1>3, <1>5, <2>1, <2>2, <2>3, <2>4, <2>5 DEF CheckShape, Hashes
  <1>7. CASE g.format = "vcd"
    <2> DEFINE P == AH \o S
    <2>1. ValidatePath(g) = P
      BY <1>7 DEF ValidatePath, ValidateVcd
    <2>2. P \in Seq(Ops) /\ \A op : Has(P, op) <=> Has(AH, op) \/ Has(S, op)
      BY <1>2, <1>3, ConcatHas
    <2>3. \A op : Has(P, op) <=> op \in {<<"admit">>, <<"stat">>} \cup Hashes(Prints_(g))
      BY <1>1, <1>2, <1>3, <2>2
    <2>4. OnlyFirst(P, <<"admit">>)
      BY <1>2, <1>3, <1>4, <1>5, ConcatOnlyFirst
    <2>5. ASSUME g.strict PROVE Followed(P, Ends, Hash("full"))
      <3>1. Followed(H, Ends, Hash("full")) /\ Has(H, Hash("full"))
        BY <1>1, <1>7, <2>5, EachHas DEF Checkable, Ends, Prints_, PrintSet, PrintNames, Hashes, Formats
      <3>2. Followed(AH, Ends, Hash("full"))
        BY <1>1, <1>2, <3>1, ConcatFollowed
      <3>3. ~Has(S, <<"admit">>) /\ ~Has(S, Hash("header"))
        BY <1>2, OpsDiffer
      <3>4. Followed(S, Ends, Hash("full"))
        BY <3>3 DEF Followed, Ends, Has
      <3> QED
        BY <1>2, <1>3, <3>2, <3>4, ConcatFollowed
    <2>6. P # <<>>
      BY <2>3 DEF Has
    <2>7. Only(P, {<<"admit">>, <<"stat">>} \cup Hashes(Prints_(g)))
      BY <2>3, OnlyHas
    <2> QED
      BY <2>1, <2>2, <2>3, <2>4, <2>5, <2>6, <2>7 DEF CheckShape, Hashes
  <1> QED
    BY <1>6, <1>7 DEF Checkable, Formats

\* A part of a program, and one that ends by validating the path.
Part(P, ops, g) ==
    /\ P \in Seq(Ops) /\ Only(P, ops)
    /\ g.strict => Followed(P, Ends, Hash("full"))
Validated(P, ops, g) ==
    /\ Part(P, ops, g) /\ Followed(P, Reads, <<"admit">>)
    /\ Has(P, <<"admit">>) /\ \A p \in Prints_(g) : Has(P, Hash(p))

RunOps(g) == {<<"admit">>, <<"stat">>} \cup Hashes(Prints_(g)) \cup Reads

LEMMA NoneFollowed ==
    ASSUME NEW P, NEW ops, NEW next, \A op \in ops : ~Has(P, op)
    PROVE  Followed(P, ops, next)
  BY DEF Followed, Has

LEMMA PartConcat ==
    ASSUME NEW P, NEW Q, NEW ops, NEW g, Part(P, ops, g), Part(Q, ops, g)
    PROVE  Part(P \o Q, ops, g)
  <1>1. P \in Seq(Ops) /\ Q \in Seq(Ops) /\ P \o Q \in Seq(Ops)
    BY ConcatHas DEF Part
  <1>2. Only(P \o Q, ops)
    BY <1>1, ConcatOnly DEF Part
  <1>3. g.strict => Followed(P \o Q, Ends, Hash("full"))
    BY <1>1, ConcatFollowed DEF Part
  <1> QED
    BY <1>1, <1>2, <1>3 DEF Part

LEMMA ValidatedConcat ==
    ASSUME NEW P, NEW Q, NEW ops, NEW g, Part(P, ops, g), Validated(Q, ops, g)
    PROVE  Validated(P \o Q, ops, g)
  <1>1. P \in Seq(Ops) /\ Q \in Seq(Ops)
    BY DEF Part, Validated
  <1>2. Part(P \o Q, ops, g)
    BY PartConcat DEF Validated
  <1>3. Followed(P \o Q, Reads, <<"admit">>)
    BY <1>1, ConcatFollowed DEF Validated
  <1>4. \A op : Has(Q, op) => Has(P \o Q, op)
    BY <1>1, ConcatHas
  <1> QED
    BY <1>2, <1>3, <1>4 DEF Validated

LEMMA ValidatePathIsValidated ==
    ASSUME NEW g, Checkable(g), NEW ops, RunOps(g) \subseteq ops
    PROVE  Validated(ValidatePath(g), ops, g)
  <1> DEFINE P == ValidatePath(g)
  <1>1. /\ P \in Seq(Ops) /\ Has(P, <<"admit">>) /\ \A p \in Prints_(g) : Has(P, Hash(p))
        /\ \A op : Has(P, op) => op \in {<<"admit">>, <<"stat">>} \cup Hashes(Prints_(g))
        /\ g.strict => Followed(P, Ends, Hash("full"))
    BY ValidateHas
  <1>2. Only(P, ops)
    BY <1>1, OnlyHas DEF RunOps
  <1>3. \A op \in Reads : op \notin {<<"admit">>, <<"stat">>} \cup Hashes(Prints_(g))
    BY OpsDiffer DEF Reads, Hashes
  <1>4. Followed(P, Reads, <<"admit">>)
    BY <1>1, <1>3, NoneFollowed
  <1> QED
    BY <1>1, <1>2, <1>4 DEF Validated, Part

\* A part without validation of its own.
LEMMA SimplePart ==
    ASSUME NEW P \in Seq(Ops), NEW ops, NEW g, Only(P, ops),
           ~Has(P, <<"admit">>), ~Has(P, Hash("header"))
    PROVE  Part(P, ops, g)
  <1>1. Followed(P, Ends, Hash("full"))
    BY NoneFollowed DEF Ends
  <1> QED
    BY <1>1 DEF Part

LEMMA BodyPart ==
    ASSUME NEW ops, Reads \subseteq ops, NEW g
    PROVE  Part(Body, ops, g)
  <1>1. Read("a") \in Ops /\ Read("b") \in Ops /\ Read("tail") \in Ops
    BY OpsDiffer DEF Blocks
  <1>2. Body = <<Read("a"), Read("b"), Read("tail")>>
    BY EachIs DEF Body
  <1>3. Body \in Seq(Ops) /\ \A op : Has(Body, op) <=> op \in {Read("a"), Read("b"), Read("tail")}
    BY <1>1, <1>2, ThreeOps
  <1>4. Only(Body, ops)
    BY <1>3, OnlyHas DEF Reads
  <1>5. \A op \in {Read("a"), Read("b"), Read("tail")} : op # <<"admit">> /\ op # Hash("header")
    BY OpsDiffer
  <1> QED
    BY <1>3, <1>4, <1>5, SimplePart

LEMMA HandlePart ==
    ASSUME NEW g, Checkable(g), NEW ops, RunOps(g) \subseteq ops
    PROVE  Part(ValidateHandle(g), ops, g)
  <1> DEFINE H == Each(Hash, Prints(g.format, g.strict))
             S == << <<"stat">> >>
  <1>1. /\ H \in Seq(Ops) /\ \A op : Has(H, op) <=> op \in Hashes(Prints_(g))
        /\ g.strict => Followed(H, Ends, Hash("full"))
    BY EachHas DEF Checkable, Prints_, Ends
  <1>2. S \in Seq(Ops) /\ \A op : Has(S, op) <=> op = <<"stat">>
    BY OneOp, OpsDiffer DEF Names
  <1>3. <<"stat">> # <<"admit">> /\ <<"stat">> # Hash("header")
    BY OpsDiffer
  <1>4. Part(S, ops, g)
    <2>1. Only(S, ops)
      BY <1>2, OnlyHas DEF RunOps
    <2> QED
      BY <1>2, <1>3, <2>1, SimplePart
  <1>5. Part(H, ops, g)
    <2>1. Only(H, ops)
      BY <1>1, OnlyHas DEF RunOps
    <2> QED
      BY <1>1, <2>1 DEF Part
  <1>6. Part(S \o H, ops, g)
    BY <1>4, <1>5, PartConcat
  <1>7. Part((S \o H) \o S, ops, g)
    BY <1>4, <1>6, PartConcat
  <1> QED
    BY <1>7 DEF ValidateHandle

LEMMA OpPart ==
    ASSUME NEW name \in {"open", "store"}, NEW ops, <<name>> \in ops, NEW g
    PROVE  Part(<< <<name>> >>, ops, g)
  <1>1. <<name>> \in Ops /\ <<name>> # <<"admit">> /\ <<name>> # Hash("header")
    BY OpsDiffer DEF Names
  <1> DEFINE P == << <<name>> >>
  <1>2. P \in Seq(Ops) /\ \A op : Has(P, op) <=> op = <<name>>
    BY <1>1, OneOp
  <1>3. Only(P, ops)
    BY <1>2, OnlyHas
  <1> QED
    BY <1>1, <1>2, <1>3, SimplePart

LEMMA ScanVcdValidated ==
    ASSUME NEW g, Checkable(g), g.format = "vcd", NEW ops, RunOps(g) \subseteq ops
    PROVE  Validated(ScanVcd(g), ops, g)
  <1> DEFINE V == ValidateVcd(g)
  <1>1. Validated(V, ops, g) /\ Part(V, ops, g)
    BY ValidatePathIsValidated DEF ValidatePath, Validated
  <1>2. Part(V \o Body, ops, g)
    BY <1>1, BodyPart, PartConcat DEF RunOps
  <1>3. Validated(Complete(g), ops, g)
    BY <1>1, HandlePart, ValidatedConcat DEF Complete
  <1>4. Validated((V \o Body) \o Complete(g), ops, g)
    BY <1>2, <1>3, ValidatedConcat
  <1> QED
    BY <1>4 DEF ScanVcd

LEMMA ScanFstValidated ==
    ASSUME NEW g, Checkable(g), g.format = "fst",
           NEW ops, RunOps(g) \cup {<<"open">>} \subseteq ops
    PROVE  Validated(ScanFst, ops, g)
  <1> DEFINE V == ValidateFst
  <1>1. Validated(V, ops, g) /\ Part(V, ops, g)
    BY ValidatePathIsValidated DEF ValidatePath, Validated
  <1>2. Part(V \o << <<"open">> >>, ops, g)
    BY <1>1, OpPart, PartConcat
  <1>3. Part((V \o << <<"open">> >>) \o Body, ops, g)
    BY <1>2, BodyPart, PartConcat DEF RunOps
  <1>4. Validated(((V \o << <<"open">> >>) \o Body) \o V, ops, g)
    BY <1>1, <1>3, ValidatedConcat
  <1> QED
    BY <1>4 DEF ScanFst

LEMMA MetadataVcdValidated ==
    ASSUME NEW g, Checkable(g), g.format = "vcd",
           NEW ops, RunOps(g) \cup {<<"store">>} \subseteq ops
    PROVE  Validated(MetadataVcd(g), ops, g)
  <1> DEFINE V == ValidateVcd(g)
  <1>1. Validated(V, ops, g)
    BY ValidatePathIsValidated DEF ValidatePath
  <1>2. Part(ScanVcd(g) \o << <<"store">> >>, ops, g)
    BY ScanVcdValidated, OpPart, PartConcat DEF Validated
  <1>3. Validated((ScanVcd(g) \o << <<"store">> >>) \o V, ops, g)
    BY <1>1, <1>2, ValidatedConcat
  <1> QED
    BY <1>1, <1>3 DEF MetadataVcd

LEMMA ProgramIsValidated ==
    ASSUME NEW g, Checkable(g), NEW kind \in Kinds
    PROVE  LET ops == RunOps(g)
                   \cup (IF g.format = "fst" THEN {<<"open">>} ELSE {})
                   \cup (IF g.format = "vcd" /\ kind = "metadata" THEN {<<"store">>} ELSE {})
           IN  Validated(Program(kind, g), ops, g)
  <1> DEFINE ops == RunOps(g)
                   \cup (IF g.format = "fst" THEN {<<"open">>} ELSE {})
                   \cup (IF g.format = "vcd" /\ kind = "metadata" THEN {<<"store">>} ELSE {})
             V == ValidatePath(g)
  <1>1. Validated(V, ops, g) /\ Part(V, ops, g)
    BY ValidatePathIsValidated DEF Validated
  <1>2. Validated(V \o V, ops, g)
    BY <1>1, ValidatedConcat
  <1>3. CASE kind = "list"
    BY <1>2, <1>3 DEF Program, List
  <1>4. CASE kind = "metadata" /\ g.format = "vcd"
    <2>1. Validated(MetadataVcd(g), ops, g)
      BY <1>4, MetadataVcdValidated
    <2> QED
      BY <1>4, <2>1 DEF Program
  <1>5. CASE kind = "metadata" /\ g.format = "fst"
    <2>1. Part(V \o V, ops, g)
      BY <1>2 DEF Validated
    <2>2. Validated((V \o V) \o V, ops, g)
      BY <1>1, <2>1, ValidatedConcat
    <2> QED
      BY <1>5, <2>2 DEF Program, MetadataFst, ValidatePath
  <1>6. CASE kind \notin {"list", "metadata"} /\ g.format = "vcd"
    <2>1. Validated(ScanVcd(g), ops, g)
      BY <1>6, ScanVcdValidated
    <2> QED
      BY <1>6, <2>1 DEF Program
  <1>7. CASE kind \notin {"list", "metadata"} /\ g.format = "fst"
    <2>1. Validated(ScanFst, ops, g)
      BY <1>7, ScanFstValidated
    <2> QED
      BY <1>7, <2>1 DEF Program
  <1> QED
    BY <1>3, <1>4, <1>5, <1>6, <1>7 DEF Checkable, Formats

LEMMA ProgramShape ==
    ASSUME NEW g, Checkable(g), NEW kind \in Kinds
    PROVE  LET P == Program(kind, g) IN
           /\ P \in Seq(Ops) /\ RunShape(P, kind, g)
           /\ Has(P, <<"admit">>)
           /\ g.strict => Has(P, Hash("header")) /\ Has(P, Hash("full"))
  <1> DEFINE P == Program(kind, g)
             ops == RunOps(g)
                   \cup (IF g.format = "fst" THEN {<<"open">>} ELSE {})
                   \cup (IF g.format = "vcd" /\ kind = "metadata" THEN {<<"store">>} ELSE {})
  <1>1. Validated(P, ops, g)
    BY ProgramIsValidated
  <1>2. P \in Seq(Ops) /\ Only(P, ops)
    BY <1>1 DEF Validated, Part
  <1>3. \A op : Has(P, op) => op \in ops
    BY <1>2, OnlyHas
  <1>4. <<"open">> \notin RunOps(g) /\ <<"store">> \notin RunOps(g)
        /\ <<"open">> # <<"store">>
    BY OpsDiffer DEF RunOps, Hashes, Reads
  <1>5. Has(P, <<"open">>) => g.format = "fst"
    BY <1>3, <1>4
  <1>6. Has(P, <<"store">>) => g.format = "vcd" /\ kind = "metadata"
    BY <1>3, <1>4
  <1>7. Only(P, {<<"admit">>, <<"stat">>, <<"open">>, <<"store">>}
                   \cup Hashes(Prints_(g)) \cup Reads)
    BY <1>3, OnlyHas DEF RunOps
  <1>8. g.strict => Prints_(g) = PrintNames
    BY DEF Checkable, Prints_, PrintSet
  <1> QED
    BY <1>1, <1>2, <1>5, <1>6, <1>7, <1>8 DEF Validated, Part, RunShape, Ends, PrintNames

\* The program that opens a file of the format.
Opening(format, strict) == IF format = "vcd" THEN OpenVcd(strict) ELSE OpenFst

LEMMA OpenProgram ==
    ASSUME NEW format \in Formats, NEW strict \in BOOLEAN, strict => format = "vcd"
    PROVE  LET P == Opening(format, strict)
               prints == PrintSet(format, strict)
           IN  /\ P \in Seq(Ops) /\ OpenShape(P, prints)
               /\ Has(P, <<"create">>) /\ Has(P, <<"catalog">>)
               /\ \A p \in prints : Has(P, Load(p))
  <1> DEFINE L == Each(Load, Prints(format, strict))
             prints == PrintSet(format, strict)
             ops == {<<"create">>, <<"catalog">>, <<"same">>, <<"canonicalize">>} \cup Loads(prints)
  <1>1. L \in Seq(Ops) /\ \A op : Has(L, op) <=> op \in Loads(prints)
    BY EachHas
  <1>2. /\ <<"create">> \in Ops /\ <<"catalog">> \in Ops
        /\ <<"same">> \in Ops /\ <<"canonicalize">> \in Ops
    BY OpsDiffer DEF Names
  <1>3. /\ <<"create">> # <<"catalog">> /\ <<"same">> # <<"create">> /\ <<"same">> # <<"catalog">>
        /\ <<"canonicalize">> # <<"create">> /\ <<"canonicalize">> # <<"catalog">>
        /\ \A p : <<"create">> # Load(p) /\ <<"catalog">> # Load(p)
                  /\ <<"same">> # Load(p) /\ <<"canonicalize">> # Load(p)
        /\ \A p, q : Load(p) = Load(q) => p = q
    BY OpsDiffer
  <1>4. ~Has(L, <<"create">>) /\ ~Has(L, <<"catalog">>)
    BY <1>1, <1>3 DEF Loads
  <1>5. \A p \in prints : Has(L, Load(p))
    BY <1>1 DEF Loads
  <1>6. Before(L, <<"catalog">>, Load("header"))
    BY <1>4 DEF Before, Has
  <1>7. CASE format = "vcd"
    <2> DEFINE A == << <<"create">>, <<"catalog">> >>
               Z == << <<"same">>, <<"canonicalize">> >>
               P == (A \o L) \o Z
    <2>1. A \in Seq(Ops) /\ \A op : Has(A, op) <=> op \in {<<"create">>, <<"catalog">>}
      BY <1>2, TwoOps
    <2>2. Z \in Seq(Ops) /\ \A op : Has(Z, op) <=> op \in {<<"same">>, <<"canonicalize">>}
      BY <1>2, TwoOps
    <2>3. A \o L \in Seq(Ops) /\ \A op : Has(A \o L, op) <=> Has(A, op) \/ Has(L, op)
      BY <1>1, <2>1, ConcatHas
    <2>4. P \in Seq(Ops) /\ \A op : Has(P, op) <=> Has(A \o L, op) \/ Has(Z, op)
      <3> HIDE DEF L, A, Z
      <3> QED
        BY <2>2, <2>3, ConcatHas
    <2>5. OnlyFirst(A, <<"create">>)
      BY <1>3 DEF OnlyFirst
    <2>6. OnlyFirst(A \o L, <<"create">>)
      BY <1>1, <1>4, <2>1, <2>5, ConcatOnlyFirst
    <2>7. ~Has(Z, <<"create">>) /\ ~Has(Z, <<"catalog">>)
      BY <1>3, <2>2
    <2>8. OnlyFirst(P, <<"create">>)
      BY <2>2, <2>3, <2>6, <2>7, ConcatOnlyFirst
    <2>9. ~Has(A, Load("header"))
      BY <1>3, <2>1
    <2>10. Before(A, <<"catalog">>, Load("header"))
      BY <2>9 DEF Before, Has
    <2>11. Before(A \o L, <<"catalog">>, Load("header"))
      BY <1>1, <1>6, <2>1, <2>9, <2>10, ConcatBefore
    <2>12. Before(Z, <<"catalog">>, Load("header"))
      BY <2>7 DEF Before, Has
    <2>13. Before(P, <<"catalog">>, Load("header"))
      BY <2>2, <2>3, <2>7, <2>11, <2>12, ConcatBefore
    <2>14. \A op : Has(P, op) => op \in ops
      BY <1>1, <2>1, <2>2, <2>3, <2>4
    <2>15. Only(P, ops)
      BY <2>14, OnlyHas
    <2>16. P = Opening(format, strict)
      BY <1>7 DEF Opening, OpenVcd
    <2>17. Has(P, <<"create">>) /\ Has(P, <<"catalog">>) /\ \A p \in prints : Has(P, Load(p))
      BY <1>5, <2>1, <2>3, <2>4
    <2> QED
      BY <2>4, <2>8, <2>13, <2>15, <2>16, <2>17 DEF OpenShape
  <1>8. CASE format = "fst"
    <2> DEFINE A == << <<"create">> >>
               Z == << <<"catalog">> >>
               P == (A \o L) \o Z
    <2>0. strict = FALSE
      BY <1>8
    <2>1. A \in Seq(Ops) /\ (\A op : Has(A, op) <=> op = <<"create">>) /\ OnlyFirst(A, <<"create">>)
      BY <1>2, OneOp
    <2>2. Z \in Seq(Ops) /\ \A op : Has(Z, op) <=> op = <<"catalog">>
      BY <1>2, OneOp
    <2>3. A \o L \in Seq(Ops) /\ \A op : Has(A \o L, op) <=> Has(A, op) \/ Has(L, op)
      BY <1>1, <2>1, ConcatHas
    <2>4. P \in Seq(Ops) /\ \A op : Has(P, op) <=> Has(A \o L, op) \/ Has(Z, op)
      BY <2>2, <2>3, ConcatHas
    <2>6. OnlyFirst(A \o L, <<"create">>)
      BY <1>1, <1>4, <2>1, ConcatOnlyFirst
    <2>8. OnlyFirst(P, <<"create">>)
      BY <1>3, <2>2, <2>3, <2>6, ConcatOnlyFirst
    <2>9. Load("header") \notin Loads(prints)
      BY <1>3, <1>8, <2>0 DEF PrintSet, Loads
    <2>10. ~Has(P, Load("header"))
      BY <1>1, <1>3, <2>1, <2>2, <2>3, <2>4, <2>9
    <2>13. Before(P, <<"catalog">>, Load("header"))
      BY <2>10 DEF Before, Has
    <2>14. \A op : Has(P, op) => op \in ops
      BY <1>1, <2>1, <2>2, <2>3, <2>4
    <2>15. Only(P, ops)
      BY <2>14, OnlyHas
    <2>16. P = Opening(format, strict)
      BY <1>8, <2>0 DEF Opening, OpenFst
    <2>17. Has(P, <<"create">>) /\ Has(P, <<"catalog">>) /\ \A p \in prints : Has(P, Load(p))
      BY <1>5, <2>1, <2>2, <2>3, <2>4
    <2> QED
      BY <2>4, <2>8, <2>13, <2>15, <2>16, <2>17 DEF OpenShape
  <1> QED
    BY <1>7, <1>8 DEF Formats

(***************************************************************************)
(* Metadata and fingerprints of a file.                                    *)
(***************************************************************************)
LEMMA StatFacts ==
    ASSUME NEW format \in Formats, NEW stamp \in Values
    PROVE  /\ StatOf(format, stamp) \in Stats
           /\ StampOf(format, StatOf(format, stamp)) = stamp
           /\ \A other \in Values : StatOf(format, other) = StatOf(format, stamp) => other = stamp
  <1>1. stamp[1] \in Inodes
    BY DEF Values
  <1>2. CASE format = "vcd"
    BY <1>1, <1>2 DEF StatOf, StampOf, Stats
  <1>3. CASE format = "fst"
    BY <1>3 DEF StatOf, StampOf, Stats
  <1> QED
    BY <1>2, <1>3 DEF Formats

\* A file's content is one of Files.
LEMMA FileFacts ==
    ASSUME World, NEW i \in Inodes
    PROVE  /\ disk[i] \in Files /\ disk[i].format \in Formats
           /\ disk[i].stamp \in Values /\ disk[i].stamp[1] = i /\ disk[i].stamp[2] < Len(history)
           /\ \A b \in Blocks : disk[i][b] \in Values /\ disk[i][b][2] < Len(history)
           /\ \A format : Stat(format, i) = StatOf(format, disk[i].stamp)
           /\ \A format \in Formats : StampOf(format, Stat(format, i)) = disk[i].stamp
           /\ \A format \in Formats : Stat(format, i) \in Stats
  <1>1. disk[i] \in Files /\ FileOf(disk[i], i, Len(history))
    BY DEF World
  <1>2. /\ disk[i].format \in Formats /\ disk[i].stamp \in Values
        /\ \A b \in Blocks : disk[i][b] \in Values
    BY <1>1 DEF Files, Blocks, Formats
  <1>3. disk[i].stamp[1] = i /\ disk[i].stamp[2] < Len(history)
        /\ \A b \in Blocks : disk[i][b][2] < Len(history)
    BY <1>1 DEF FileOf, Blocks
  <1>4. ASSUME NEW format PROVE Stat(format, i) = StatOf(format, disk[i].stamp)
    BY <1>3 DEF Stat, StatOf
  <1> QED
    BY <1>1, <1>2, <1>3, <1>4, StatFacts

LEMMA RegionFacts ==
    ASSUME World, NEW i \in Inodes, NEW p \in PrintNames
    PROVE  /\ Region(i, p) \in Regions
           /\ Region(i, "header") = HeaderOf(disk[i].head)
           /\ DOMAIN Region(i, "full") = Blocks
           /\ \A b \in Blocks : Region(i, "full")[b] = disk[i][b]
  <1>1. \A b \in Blocks : disk[i][b] \in Values
    BY FileFacts
  <1>2. Covers(p) \in SUBSET Blocks
    BY DEF Covers, PrintNames, Blocks
  <1>3. Region(i, p) \in [Covers(p) -> Values]
    BY <1>1, <1>2 DEF Region
  <1>4. Region(i, "header") = [block \in {"head"} |-> disk[i][block]]
    BY DEF Region, Covers
  <1>5. [block \in {"head"} |-> disk[i][block]] = HeaderOf(disk[i].head)
    BY DEF HeaderOf
  <1>6. DOMAIN Region(i, "full") = Blocks /\ \A b \in Blocks : Region(i, "full")[b] = disk[i][b]
    BY DEF Region, Covers
  <1> QED
    BY <1>2, <1>3, <1>4, <1>5, <1>6 DEF Regions

LEMMA EmptyIsTyped == <<>> \in Regions /\ <<>> \in PrintMaps /\ DOMAIN <<>> = {}
  <1>1. DOMAIN <<>> = {}
    OBVIOUS
  <1>2. <<>> \in [{} -> Values] /\ <<>> \in [{} -> Regions]
    OBVIOUS
  <1>3. {} \in SUBSET Blocks /\ {} \in SUBSET PrintNames
    OBVIOUS
  <1> QED
    BY <1>1, <1>2, <1>3 DEF Regions, PrintMaps

(***************************************************************************)
(* The initial state.                                                      *)
(***************************************************************************)
LEMMA InitWorld == Init => World /\ path \in Inodes
  <1> SUFFICES ASSUME Init PROVE World /\ path \in Inodes
    OBVIOUS
  <1>1. scenario \in Scenarios /\ path \in Inodes /\ path # None
    BY GenerationsAssumption DEF Init
  <1>2. PICK formats \in [Inodes -> {"vcd", "fst"}] :
            disk = [i \in Inodes |-> NewFile(i, formats[i])]
    BY DEF Init
  <1>3. ASSUME NEW i \in Inodes
        PROVE  disk[i] \in Files /\ FileOf(disk[i], i, 1)
    <2>1. disk[i] = NewFile(i, formats[i]) /\ formats[i] \in Formats /\ <<i, 0>> \in Values
      BY <1>2 DEF Formats, Values
    <2>2. disk[i] \in Files
      BY <2>1 DEF NewFile, Files, Formats
    <2> QED
      BY <2>1, <2>2 DEF NewFile, FileOf
  <1>4. disk \in [Inodes -> Files]
    BY <1>2, <1>3
  <1>5. Len(history) = 1 /\ history[1].now = disk[path]
        /\ history = << [now |-> disk[path], silent |-> FALSE, restored |-> FALSE] >>
    BY DEF Init
  <1>6. history \in Seq(Changes)
    BY <1>1, <1>3, <1>5 DEF Changes
  <1>7. disk[path].stamp[1] = path
    BY <1>1, <1>3 DEF FileOf
  <1>8. Linked(disk[path], 1)
    BY <1>7 DEF Linked, SameBlocks, OneBlockApart, Blocks
  <1>9. FileOf(disk[path], disk[path].stamp[1], 1)
    BY <1>1, <1>3, <1>7
  <1>10. \A k \in DOMAIN history : k = 1
    BY <1>5
  <1> QED
    BY <1>1, <1>3, <1>4, <1>5, <1>6, <1>8, <1>9, <1>10 DEF World

LEMMA HistoryFacts ==
    ASSUME World
    PROVE  /\ Len(history) \in Nat \ {0} /\ DOMAIN history = 1 .. Len(history)
           /\ path \in Inodes => history[Len(history)].now = disk[path] /\ path # None
           /\ path = None => history[Len(history)].now = None
           /\ path \in Inodes \cup {None}
           /\ \A i \in Inodes : disk[i] # None
           /\ \A k \in 1 .. Len(history) : history[k].silent \in BOOLEAN
                                           /\ history[k].now \in Files \cup {None}
  <1>1. history \in Seq(Changes)
    BY DEF World
  <1>2. Len(history) \in Nat \ {0} /\ DOMAIN history = 1 .. Len(history)
    BY <1>1 DEF World
  <1>3. path \in Inodes \cup {None} /\ None \notin Inodes
    BY GenerationsAssumption DEF World
  <1>4. history[Len(history)].now = IF path = None THEN None ELSE disk[path]
    BY DEF World
  <1>5. \A i \in Inodes : disk[i] # None
    BY GenerationsAssumption DEF World
  <1>6. \A k \in 1 .. Len(history) : history[k].silent \in BOOLEAN
                                     /\ history[k].now \in Files \cup {None}
    <2>1. \A k \in 1 .. Len(history) : history[k] \in Changes
      BY <1>1, <1>2
    <2> QED
      BY <2>1 DEF Changes
  <1> QED
    BY <1>2, <1>3, <1>4, <1>5, <1>6

LEMMA NewGenerationOk ==
    ASSUME World,
           NEW format \in Formats, NEW strict \in BOOLEAN, strict => format = "vcd",
           NEW stamp \in Values, stamp[2] < Len(history),
           NEW prints \in PrintMaps, DOMAIN prints = PrintSet(format, strict),
           NEW catalog \in Values,
           disk[stamp[1]].format = format,
           format = "vcd" => prints["header"] = HeaderOf(catalog),
           strict => /\ DOMAIN prints["full"] = Blocks
                     /\ \A x \in Blocks : prints["full"][x][2] < Len(history),
           format = "fst" /\ NoSilent(0) /\ disk[stamp[1]].stamp = stamp =>
               disk[stamp[1]].head = catalog
    PROVE  LET g == Generation(format, strict, StatOf(format, stamp), prints, catalog) IN
           GenOk(g) /\ g \in GenerationType /\ Stamp(g) = stamp
  <1> DEFINE g == Generation(format, strict, StatOf(format, stamp), prints, catalog)
  <1>1. Len(history) \in Nat \ {0}
    BY HistoryFacts
  <1>2. StatOf(format, stamp) \in Stats /\ StampOf(format, StatOf(format, stamp)) = stamp
    BY StatFacts
  <1>3. NoMetadata \in Metadata /\ NoMetadata.from = 1 /\ NoMetadata.state = "none"
    BY EmptyIsTyped DEF NoMetadata, Metadata
  <1>4. g \in GenerationType
    BY <1>2, <1>3 DEF Generation, GenerationType
  <1>5. /\ g.format = format /\ g.strict = strict /\ g.stat = StatOf(format, stamp)
        /\ g.prints = prints /\ g.catalog = catalog /\ g.metadata = NoMetadata
    BY DEF Generation
  <1>6. Stamp(g) = stamp /\ Owner(g) = stamp[1]
    BY <1>2, <1>5 DEF Stamp, Owner
  <1> HIDE DEF g
  <1>7. GenOk(g)
    <2>1. /\ Stamp(g) \in Values /\ Stamp(g)[2] < Len(history)
          /\ g.stat = StatOf(g.format, Stamp(g)) /\ disk[Owner(g)].format = g.format
          /\ DOMAIN g.prints = PrintSet(g.format, g.strict)
      BY <1>5, <1>6
    <2>2. /\ g.format = "vcd" => g.prints["header"] = HeaderOf(g.catalog)
          /\ g.format = "fst" /\ NoSilent(0) /\ disk[Owner(g)].stamp = Stamp(g) =>
                 disk[Owner(g)].head = g.catalog
      BY <1>5, <1>6
    <2>3. g.strict => /\ g.format = "vcd" /\ DOMAIN g.prints["full"] = Blocks
                      /\ \A x \in Blocks : g.prints["full"][x][2] < Len(history)
      BY <1>5
    <2>4. /\ g.metadata.from \in 1 .. Len(history)
          /\ g.metadata.state # "ready" /\ g.metadata.state # "failed"
      BY <1>1, <1>3, <1>5
    <2> QED
      BY <1>4, <2>1, <2>2, <2>3, <2>4 DEF GenOk
  <1> QED
    BY <1>4, <1>6, <1>7 DEF g

LEMMA InitGens ==
    ASSUME Init, World, path \in Inodes
    PROVE  /\ GensOk /\ Len(gens) = 1 /\ ~gens[1].strict
           /\ \A g \in {gens[1]}, i \in {path} : Matches(g, i)
  <1> DEFINE format == disk[path].format
             prints == [p \in {Prints(format, FALSE)[n] : n \in DOMAIN Prints(format, FALSE)}
                            |-> Region(path, p)]
             catalog == disk[path].head
             g == Generation(format, FALSE, Stat(format, path), prints, catalog)
  <1>1. gens = <<g>>
    BY DEF Init
  <1>2. /\ format \in Formats /\ disk[path].stamp \in Values /\ disk[path].stamp[1] = path
        /\ disk[path].stamp[2] < Len(history) /\ catalog \in Values
        /\ Stat(format, path) = StatOf(format, disk[path].stamp)
    BY FileFacts DEF Blocks
  <1>3. {Prints(format, FALSE)[n] : n \in DOMAIN Prints(format, FALSE)} = PrintSet(format, FALSE)
    <2>1. CASE format = "fst"
      <3>1. Prints(format, FALSE) = <<"samples">> /\ PrintSet(format, FALSE) = {"samples"}
        BY <2>1 DEF Prints, PrintSet
      <3>2. \A P : P = <<"samples">> => {P[n] : n \in DOMAIN P} = {"samples"}
        OBVIOUS
      <3> QED
        BY <3>1, <3>2
    <2>2. CASE format = "vcd"
      <3>1. Prints(format, FALSE) = <<"header", "samples">>
            /\ PrintSet(format, FALSE) = {"header", "samples"}
        BY <2>2 DEF Prints, PrintSet
      <3>2. \A P : P = <<"header", "samples">> => {P[n] : n \in DOMAIN P} = {"header", "samples"}
        OBVIOUS
      <3> QED
        BY <3>1, <3>2
    <2> QED
      BY <1>2, <2>1, <2>2 DEF Formats
  <1>4. PrintSet(format, FALSE) \subseteq PrintNames
        /\ (format = "vcd" => "header" \in PrintSet(format, FALSE))
    BY DEF PrintSet, PrintNames
  <1>5. DOMAIN prints = PrintSet(format, FALSE) /\ prints \in [PrintSet(format, FALSE) -> Regions]
        /\ \A p \in PrintSet(format, FALSE) : prints[p] = Region(path, p)
    BY <1>3, <1>4, RegionFacts
  <1>6. prints \in PrintMaps
    BY <1>4, <1>5 DEF PrintMaps
  <1>7. format = "vcd" => prints["header"] = HeaderOf(catalog)
    <2>1. Region(path, "header") = HeaderOf(catalog)
      BY RegionFacts DEF PrintNames
    <2> QED
      BY <1>4, <1>5, <2>1
  <1> HIDE DEF prints
  <1>8. GenOk(g) /\ g \in GenerationType /\ Stamp(g) = disk[path].stamp
    <2>1. /\ disk[disk[path].stamp[1]].format = format
          /\ disk[disk[path].stamp[1]].head = catalog
      BY <1>2
    <2>2. PICK stamp \in Values : stamp = disk[path].stamp
      BY <1>2
    <2>3. stamp[2] < Len(history) /\ disk[stamp[1]].format = format /\ disk[stamp[1]].head = catalog
      BY <1>2, <2>1, <2>2
    <2>4. PICK strict \in BOOLEAN : strict = FALSE
      OBVIOUS
    <2>5. DOMAIN prints = PrintSet(format, strict) /\ ~strict
      BY <1>5, <2>4
    <2> HIDE DEF format, catalog
    <2>6. LET h == Generation(format, strict, StatOf(format, stamp), prints, catalog) IN
          GenOk(h) /\ h \in GenerationType /\ Stamp(h) = stamp
      BY <1>2, <1>6, <1>7, <2>3, <2>5, NewGenerationOk
    <2> QED
      BY <1>2, <2>2, <2>4, <2>6
  <1>9. /\ g.format = format /\ g.strict = FALSE /\ g.stat = Stat(format, path)
        /\ g.prints = prints
    BY DEF Generation
  <1>10. Matches(g, path)
    BY <1>5, <1>9 DEF Matches
  <1> HIDE DEF g
  <1>11. gens \in Seq(GenerationType) /\ Len(gens) = 1 /\ gens[1] = g /\ DOMAIN gens = {1}
    BY <1>1, <1>8
  <1>12. GensOk
    BY <1>8, <1>11 DEF GensOk
  <1> QED
    BY <1>9, <1>10, <1>11, <1>12

LEMMA InitGInv == Init => GInv
  <1> SUFFICES ASSUME Init PROVE GInv
    OBVIOUS
  <1>1. World /\ path \in Inodes
    BY InitWorld
  <1>2. /\ GensOk /\ Len(gens) = 1 /\ ~gens[1].strict
        /\ \A g \in {gens[1]}, i \in {path} : Matches(g, i)
    BY <1>1, InitGens
  <1>3. gens \in Seq(GenerationType) /\ DOMAIN gens = {1}
    BY <1>2 DEF GensOk
  <1>4. Idle \in RequestType
    BY EmptyIsTyped DEF Idle, RequestType, Pcs, Kinds, Formats, Stats, Values
  <1>5. Len(history) = 1 /\ slot = 1 /\ holder = None
        /\ req = [r \in Requests |-> Idle]
    BY DEF Init
  <1>6. ReqOk(Idle, gens[1]) /\ FormatKnown(Idle) /\ Excuse(Idle) /\ ~Holds(Idle)
    BY <1>4, <1>5 DEF Idle, ReqOk, FormatKnown, Excuse, Holds
  <1>7. Certain(Idle, gens[1])
    BY DEF Idle, Certain
  <1>8. RequestsOk
    BY <1>3, <1>4, <1>5, <1>6, <1>7 DEF RequestsOk, RequestOk, Idle
  <1>9. Served = {1} /\ Count = 1
    <2>1. Served = {1}
      BY <1>2, <1>3 DEF Served
    <2> QED
      BY <2>1, FS_Singleton DEF Count
  <1>10. SlotOk
    BY <1>2, <1>3, <1>5, <1>6, <1>9 DEF SlotOk
  <1> QED
    BY <1>1, <1>2, <1>8, <1>10 DEF GInv

(***************************************************************************)
(* A change by another program keeps the invariant: what was true of a     *)
(* content with an old stamp or of an old value stays true, and nobody is  *)
(* steady any more.                                                        *)
(***************************************************************************)
Altered(e) ==
    /\ scenario' = scenario
    /\ path' \in Inodes \cup {None}
    /\ disk' \in [Inodes -> Files]
    /\ e \in Changes /\ history' = Append(history, e)
    /\ e.now = IF path' = None THEN None ELSE disk'[path']
    /\ \A i \in Inodes :
           /\ FileOf(disk'[i], i, Len(history) + 1)
           /\ disk'[i].format = disk[i].format
           /\ disk'[i].stamp = disk[i].stamp \/ disk'[i].stamp[2] = Len(history)
           /\ disk'[i].stamp = disk[i].stamp /\ ~e.silent => disk'[i] = disk[i]
           /\ e.silent =>
                  \E b \in Blocks : \A x \in Blocks \ {b} : disk'[i][x] = disk[i][x]
           /\ ~e.restored =>
                  \A x \in Blocks : disk'[i][x] = disk[i][x] \/ disk'[i][x][2] = Len(history)

LEMMA FileOfLater ==
    ASSUME NEW f, NEW i, NEW n \in Nat, FileOf(f, i, n)
    PROVE  FileOf(f, i, n + 1)
  <1>1. \A v \in {f.stamp, f.head, f.a, f.b, f.tail} : v \in Values
    BY DEF FileOf, Files
  <1>2. \A v \in Values : v[2] \in Nat
    BY DEF Values
  <1> QED
    BY <1>1, <1>2 DEF FileOf

LEMMA RetargetAlters ==
    ASSUME World, Retarget
    PROVE  (\E e : Altered(e)) /\ UNCHANGED <<gens, slot, holder, req>>
  <1>1. PICK i \in (Inodes \cup {None}) \ {path} : Changed(i, disk, FALSE, FALSE)
    BY DEF Retarget
  <1> DEFINE e == [now |-> IF i = None THEN None ELSE disk[i],
                   silent |-> FALSE, restored |-> FALSE]
  <1>2. /\ path' = i /\ disk' = disk /\ scenario' = scenario /\ history' = Append(history, e)
        /\ UNCHANGED <<gens, slot, holder, req>>
    BY <1>1 DEF Changed
  <1>3. e \in Changes /\ e.now = (IF i = None THEN None ELSE disk[i]) /\ ~e.silent
    BY DEF World, Changes
  <1>4. \A j \in Inodes : FileOf(disk[j], j, Len(history) + 1)
    BY HistoryFacts, FileOfLater DEF World
  <1> HIDE DEF e
  <1>5. Altered(e)
    BY <1>2, <1>3, <1>4 DEF Altered, World
  <1> QED
    BY <1>2, <1>5

LEMMA WriteAlters ==
    ASSUME World, WriteBlock
    PROVE  (\E e : Altered(e)) /\ UNCHANGED <<gens, slot, holder, req>>
  <1>1. PICK i \in Inodes, block \in Blocks, silent \in BOOLEAN, n \in {0, Len(history)} :
            /\ n = 0 => silent
            /\ LET stamp == IF silent THEN disk[i].stamp ELSE <<i, Len(history)>>
               IN  Changed(path, Written(i, block, <<i, n>>, stamp), silent, n = 0)
    BY DEF WriteBlock
  <1> DEFINE stamp == IF silent THEN disk[i].stamp ELSE <<i, Len(history)>>
             now == [disk[i] EXCEPT ![block] = <<i, n>>, !.stamp = stamp]
             new == Written(i, block, <<i, n>>, stamp)
             e == [now |-> IF path = None THEN None ELSE new[path],
                   silent |-> silent, restored |-> n = 0]
  <1>2. Len(history) \in Nat \ {0} /\ path \in Inodes \cup {None} /\ disk \in [Inodes -> Files]
    BY HistoryFacts DEF World
  <1>3. /\ path' = path /\ scenario' = scenario /\ history' = Append(history, e)
        /\ disk' = new
        /\ UNCHANGED <<gens, slot, holder, req>>
    <2>1. Changed(path, new, silent, n = 0)
      BY <1>1
    <2> HIDE DEF new
    <2> QED
      BY <2>1 DEF Changed
  <1>12. new = [disk EXCEPT ![i] = now]
    BY DEF Written
  <1>4. <<i, n>> \in Values /\ <<i, Len(history)>> \in Values
    BY <1>2 DEF Values
  <1>5. disk[i] \in Files /\ FileOf(disk[i], i, Len(history) + 1)
    BY <1>2, FileOfLater DEF World
  <1>6. /\ now \in Files /\ now.format = disk[i].format
        /\ now.stamp = stamp
        /\ now[block] = <<i, n>> /\ \A x \in Blocks \ {block} : now[x] = disk[i][x]
    BY <1>4, <1>5 DEF Files, Blocks
  <1> HIDE DEF now, new
  <1>7. disk' \in [Inodes -> Files] /\ disk'[i] = now
        /\ \A j \in Inodes \ {i} : disk'[j] = disk[j]
    BY <1>2, <1>3, <1>6, <1>12
  <1>8. /\ e \in Changes /\ e.now = (IF path = None THEN None ELSE disk'[path])
        /\ e.silent = silent /\ (e.restored <=> n = 0)
    BY <1>2, <1>3, <1>7 DEF Changes
  <1> HIDE DEF e
  <1>9. FileOf(now, i, Len(history) + 1)
    <2>1. /\ disk[i].stamp[1] = i /\ disk[i].stamp[2] < Len(history) + 1
          /\ \A x \in Blocks : disk[i][x][1] = i /\ disk[i][x][2] < Len(history) + 1
      BY <1>5 DEF FileOf, Blocks
    <2>2. now.stamp[1] = i /\ now.stamp[2] < Len(history) + 1
      BY <1>2, <1>6, <2>1
    <2>3. \A x \in Blocks : now[x][1] = i /\ now[x][2] < Len(history) + 1
      BY <1>2, <1>6, <2>1
    <2> QED
      BY <1>6, <2>2, <2>3 DEF FileOf, Blocks
  <1>10. ASSUME NEW j \in Inodes
         PROVE  /\ FileOf(disk'[j], j, Len(history) + 1)
                /\ disk'[j].format = disk[j].format
                /\ disk'[j].stamp = disk[j].stamp \/ disk'[j].stamp[2] = Len(history)
                /\ disk'[j].stamp = disk[j].stamp /\ ~e.silent => disk'[j] = disk[j]
                /\ e.silent =>
                       \E b \in Blocks : \A x \in Blocks \ {b} : disk'[j][x] = disk[j][x]
                /\ ~e.restored =>
                       \A x \in Blocks : disk'[j][x] = disk[j][x] \/ disk'[j][x][2] = Len(history)
    <2>1. CASE j # i
      <3>1. disk'[j] = disk[j]
        BY <1>7, <2>1
      <3>2. FileOf(disk[j], j, Len(history) + 1)
        BY <1>2, FileOfLater DEF World
      <3> QED
        BY <3>1, <3>2 DEF Blocks
    <2>2. CASE j = i
      <3>1. disk[i].stamp[2] < Len(history)
        BY FileFacts
      <3>2. disk'[i].stamp = disk[i].stamp => silent
        BY <1>2, <1>6, <1>7, <3>1
      <3>3. disk'[i].stamp = disk[i].stamp \/ disk'[i].stamp[2] = Len(history)
        BY <1>6, <1>7
      <3>4. ~e.restored =>
                \A x \in Blocks : disk'[i][x] = disk[i][x] \/ disk'[i][x][2] = Len(history)
        <4>1. ~e.restored => now[block][2] = Len(history)
          BY <1>6, <1>8
        <4> QED
          BY <1>6, <1>7, <4>1
      <3>5. \A x \in Blocks \ {block} : disk'[i][x] = disk[i][x]
        BY <1>6, <1>7
      <3> QED
        BY <1>6, <1>7, <1>8, <1>9, <2>2, <3>2, <3>3, <3>4, <3>5
    <2> QED
      BY <2>1, <2>2
  <1>11. Altered(e)
    BY <1>2, <1>3, <1>7, <1>8, <1>10 DEF Altered
  <1> QED
    BY <1>3, <1>11

LEMMA AlteredHistory ==
    ASSUME World, NEW e, Altered(e)
    PROVE  /\ Len(history') = Len(history) + 1 /\ Len(history) \in Nat \ {0}
           /\ \A k \in 1 .. Len(history) : history'[k] = history[k]
           /\ history'[Len(history) + 1] = e
           /\ \A k \in 0 .. Len(history) :
                  /\ NoSilent(k)' => NoSilent(k) /\ ~e.silent
                  /\ OneSilent(k)' => OneSilent(k) /\ (e.silent => NoSilent(k))
                  /\ NoneRestored(k)' => NoneRestored(k) /\ ~e.restored
  <1>1. history \in Seq(Changes) /\ e \in Changes /\ history' = Append(history, e)
    BY DEF World, Altered
  <1>2. /\ Len(history') = Len(history) + 1 /\ Len(history) \in Nat \ {0}
        /\ \A k \in 1 .. Len(history) : history'[k] = history[k]
        /\ history'[Len(history) + 1] = e
    BY <1>1, HistoryFacts
  <1>3. \A k \in 0 .. Len(history) :
            /\ \A m \in k + 1 .. Len(history) :
                   m \in k + 1 .. Len(history') /\ history'[m] = history[m]
            /\ Len(history) + 1 \in k + 1 .. Len(history')
            /\ \A m \in k + 1 .. Len(history) : m # Len(history) + 1
    BY <1>2
  <1>4. ASSUME NEW k \in 0 .. Len(history)
        PROVE  /\ NoSilent(k)' => NoSilent(k) /\ ~e.silent
               /\ NoneRestored(k)' => NoneRestored(k) /\ ~e.restored
    BY <1>2, <1>3 DEF NoSilent, NoneRestored
  <1>5. ASSUME NEW k \in 0 .. Len(history), OneSilent(k)'
        PROVE  OneSilent(k) /\ (e.silent => NoSilent(k))
    BY <1>2, <1>3, <1>5 DEF NoSilent, OneSilent
  <1> QED
    BY <1>2, <1>4, <1>5

LEMMA AlteredFiles ==
    ASSUME World, NEW e, Altered(e), NEW i \in Inodes
    PROVE  /\ disk'[i].format = disk[i].format
           /\ disk'[i].stamp[2] < Len(history) => disk'[i].stamp = disk[i].stamp
           /\ disk'[i].stamp = disk[i].stamp /\ ~e.silent => disk'[i] = disk[i]
           /\ e.silent =>
                  \E b \in Blocks : \A x \in Blocks \ {b} : disk'[i][x] = disk[i][x]
           /\ ~e.restored =>
                  \A x \in Blocks : disk'[i][x][2] < Len(history) => disk'[i][x] = disk[i][x]
  <1>1. Len(history) \in Nat \ {0}
    BY HistoryFacts
  <1> QED
    BY <1>1 DEF Altered

\* The file keeps the content that has its stamp, or what silent writes left.
LEMMA AlteredLinked ==
    ASSUME World, NEW e, Altered(e), NEW k \in 1 .. Len(history), NEW h \in Files,
           FileOf(h, h.stamp[1], Len(history)), Linked(h, k)
    PROVE  Linked(h, k)'
  <1> DEFINE i == h.stamp[1]
  <1>1. i \in Inodes /\ h.stamp[2] < Len(history)
    BY DEF Files, Values, FileOf
  <1>2. /\ NoSilent(k)' => NoSilent(k) /\ ~e.silent
        /\ OneSilent(k)' => OneSilent(k) /\ (e.silent => NoSilent(k))
    BY AlteredHistory
  <1>3. /\ disk'[i].stamp[2] < Len(history) => disk'[i].stamp = disk[i].stamp
        /\ disk'[i].stamp = disk[i].stamp /\ ~e.silent => disk'[i] = disk[i]
        /\ e.silent => \E b \in Blocks : \A x \in Blocks \ {b} : disk'[i][x] = disk[i][x]
    BY <1>1, AlteredFiles
  <1>4. SUFFICES ASSUME disk'[i].stamp = h.stamp
                 PROVE  /\ NoSilent(k)' => SameBlocks(disk'[i], h)
                        /\ OneSilent(k)' => OneBlockApart(disk'[i], h)
    BY DEF Linked
  <1>5. disk[i].stamp = h.stamp /\ disk'[i].stamp = disk[i].stamp
    BY <1>1, <1>3, <1>4
  <1>6. /\ NoSilent(k) => SameBlocks(disk[i], h)
        /\ OneSilent(k) => OneBlockApart(disk[i], h)
    BY <1>5 DEF Linked
  <1>7. NoSilent(k)' => SameBlocks(disk'[i], h)
    BY <1>2, <1>3, <1>5, <1>6
  <1>8. ASSUME OneSilent(k)' PROVE OneBlockApart(disk'[i], h)
    <2>1. CASE ~e.silent
      BY <1>2, <1>3, <1>5, <1>6, <1>8, <2>1
    <2>2. CASE e.silent
      <3>1. SameBlocks(disk[i], h)
        BY <1>2, <1>6, <1>8, <2>2
      <3>2. PICK b \in Blocks : \A x \in Blocks \ {b} : disk'[i][x] = disk[i][x]
        BY <1>3, <2>2
      <3> QED
        BY <3>1, <3>2 DEF SameBlocks, OneBlockApart
    <2> QED
      BY <2>1, <2>2
  <1> QED
    BY <1>7, <1>8

LEMMA AlteredWorld ==
    ASSUME World, NEW e, Altered(e)
    PROVE  World'
  <1>1. /\ Len(history') = Len(history) + 1 /\ Len(history) \in Nat \ {0}
        /\ \A k \in 1 .. Len(history) : history'[k] = history[k]
        /\ history'[Len(history) + 1] = e
    BY AlteredHistory
  <1>2. /\ scenario' \in Scenarios /\ path' \in Inodes \cup {None} /\ disk' \in [Inodes -> Files]
        /\ history' \in Seq(Changes) /\ Len(history') >= 1 /\ DOMAIN history' = 1 .. Len(history')
    BY <1>1 DEF World, Altered
  <1>3. \A i \in Inodes : FileOf(disk'[i], i, Len(history'))
    BY <1>1 DEF Altered
  <1>4. history'[Len(history')].now = IF path' = None THEN None ELSE disk'[path']
    BY <1>1 DEF Altered
  <1>5. ASSUME NEW k \in DOMAIN history', NEW h, h = history'[k].now, h # None
        PROVE  FileOf(h, h.stamp[1], Len(history')) /\ Linked(h, k)'
    <2>1. CASE k = Len(history) + 1
      <3>1. path' \in Inodes /\ h = disk'[path']
        BY <1>1, <1>4, <1>2, <1>5, <2>1
      <3>2. FileOf(h, path', Len(history')) /\ h.stamp[1] = path'
        BY <1>3, <3>1 DEF FileOf
      <3>3. Linked(h, k)'
        BY <3>1, <3>2 DEF Linked, SameBlocks, OneBlockApart, Blocks
      <3> QED
        BY <3>2, <3>3
    <2>2. CASE k # Len(history) + 1
      <3>1. k \in 1 .. Len(history) /\ h = history[k].now /\ k \in DOMAIN history
        BY <1>1, <1>2, <1>5, <2>2, HistoryFacts
      <3>2. FileOf(h, h.stamp[1], Len(history)) /\ Linked(h, k)
        BY <1>5, <3>1 DEF World
      <3>3. h \in Files
        BY <3>2 DEF FileOf
      <3> QED
        BY <1>1, <3>1, <3>2, <3>3, AlteredLinked, FileOfLater
    <2> QED
      BY <2>1, <2>2
  <1> QED
    BY <1>2, <1>3, <1>4, <1>5 DEF World

\* What was read of contents with an old stamp stays as good as it was.
LEMMA AlteredSnap ==
    ASSUME World, NEW e, Altered(e), NEW stamp \in Values, stamp[2] < Len(history),
           NEW catalog, NEW known, NEW got, DOMAIN got \subseteq Blocks,
           NEW from \in 1 .. Len(history), Snap(stamp, catalog, known, got, from)
    PROVE  Snap(stamp, catalog, known, got, from)'
  <1>1. PICK k \in from .. Len(history) : SnapAt(k, stamp, catalog, known, got)
    BY DEF Snap
  <1> DEFINE i == stamp[1]
  <1>2. /\ Len(history') = Len(history) + 1 /\ Len(history) \in Nat \ {0}
        /\ k \in 1 .. Len(history) /\ k \in from .. Len(history') /\ history'[k] = history[k]
    BY AlteredHistory
  <1>3. OneSilent(k)' => OneSilent(k) /\ (e.silent => NoSilent(k))
    BY <1>2, AlteredHistory
  <1>4. /\ i \in Inodes
        /\ disk'[i].stamp[2] < Len(history) => disk'[i].stamp = disk[i].stamp
        /\ disk'[i].stamp = disk[i].stamp /\ ~e.silent => disk'[i] = disk[i]
    <2>1. i \in Inodes
      BY DEF Values
    <2> QED
      BY <2>1, AlteredFiles
  <1>5. history[k].now # None /\ history[k].now.stamp = stamp
    BY <1>1 DEF SnapAt
  <1>6. ASSUME OneSilent(k)', disk'[i].stamp = stamp
        PROVE  Agrees(history[k].now, catalog, known, got) \/ Agrees(disk'[i], catalog, known, got)
    <2>1. disk'[i].stamp = disk[i].stamp /\ disk[i].stamp = stamp
      BY <1>4, <1>6
    <2>2. Agrees(history[k].now, catalog, known, got) \/ Agrees(disk[i], catalog, known, got)
      BY <1>1, <1>3, <1>6, <2>1 DEF SnapAt
    <2>3. CASE ~e.silent
      BY <1>4, <2>1, <2>2, <2>3
    <2>4. CASE e.silent
      <3>1. Linked(history[k].now, k)
        BY <1>2, <1>5, HistoryFacts DEF World
      <3>2. SameBlocks(disk[i], history[k].now)
        BY <1>3, <1>5, <1>6, <2>1, <2>4, <3>1 DEF Linked
      <3>3. Agrees(disk[i], catalog, known, got) => Agrees(history[k].now, catalog, known, got)
        BY <3>2 DEF SameBlocks, Agrees, Blocks
      <3> QED
        BY <2>2, <3>3
    <2> QED
      BY <2>3, <2>4
  <1>7. SnapAt(k, stamp, catalog, known, got)'
    BY <1>2, <1>5, <1>6 DEF SnapAt
  <1> QED
    BY <1>2, <1>7 DEF Snap

LEMMA RegionDomain == \A got \in Regions : DOMAIN got \subseteq Blocks
  BY DEF Regions

LEMMA OwnerIsFile ==
    ASSUME NEW g, GenOk(g)
    PROVE  /\ Owner(g) \in Inodes /\ Stamp(g) \in Values /\ Stamp(g)[1] = Owner(g)
           /\ Stamp(g)[2] < Len(history) /\ g.stat = StatOf(g.format, Stamp(g))
           /\ Checkable(g) /\ g.catalog \in Values /\ g.stat \in Stats
           /\ Prints_(g) \subseteq PrintNames /\ DOMAIN g.prints = Prints_(g)
  <1>1. g \in GenerationType /\ Stamp(g) \in Values /\ (g.strict => g.format = "vcd")
        /\ Stamp(g)[2] < Len(history) /\ DOMAIN g.prints = PrintSet(g.format, g.strict)
        /\ g.stat = StatOf(g.format, Stamp(g))
    BY DEF GenOk
  <1>2. g.format \in Formats /\ g.strict \in BOOLEAN /\ g.catalog \in Values /\ g.stat \in Stats
    BY <1>1 DEF GenerationType
  <1>3. Prints_(g) \subseteq PrintNames
    BY DEF Prints_, PrintSet, PrintNames
  <1> QED
    BY <1>1, <1>2, <1>3 DEF Owner, Checkable, Values, Prints_

LEMMA AlteredGeneration ==
    ASSUME World, NEW e, Altered(e), NEW g, GenOk(g)
    PROVE  GenOk(g)'
  <1> DEFINE i == Owner(g)
  <1>1. /\ i \in Inodes /\ Stamp(g) \in Values /\ Stamp(g)[1] = i /\ Stamp(g)[2] < Len(history)
        /\ g.stat = StatOf(g.format, Stamp(g))
    BY OwnerIsFile
  <1>2. /\ Len(history') = Len(history) + 1 /\ Len(history) \in Nat \ {0}
        /\ NoSilent(0)' => NoSilent(0) /\ ~e.silent
    BY AlteredHistory
  <1>3. /\ disk'[i].format = disk[i].format
        /\ disk'[i].stamp[2] < Len(history) => disk'[i].stamp = disk[i].stamp
        /\ disk'[i].stamp = disk[i].stamp /\ ~e.silent => disk'[i] = disk[i]
    BY <1>1, AlteredFiles
  <1>4. /\ disk'[i].format = g.format
        /\ g.format = "fst" /\ NoSilent(0)' /\ disk'[i].stamp = Stamp(g) => disk'[i].head = g.catalog
    BY <1>1, <1>2, <1>3 DEF GenOk
  <1>5. g.strict =>
           /\ g.format = "vcd" /\ DOMAIN g.prints["full"] = Blocks
           /\ \A x \in Blocks : g.prints["full"][x][2] < Len(history')
    <2>1. ASSUME g.strict, NEW x \in Blocks PROVE g.prints["full"][x][2] < Len(history')
      <3>1. g.prints["full"] \in Regions
        BY <2>1 DEF GenOk, GenerationType, PrintMaps, PrintSet, PrintNames
      <3>2. g.prints["full"][x] \in Values
        BY <2>1, <3>1 DEF GenOk, Regions
      <3> QED
        BY <1>2, <2>1, <3>2 DEF GenOk, Values
    <2> QED
      BY <2>1 DEF GenOk
  <1>6. Stamp(g)[2] < Len(history')
    BY <1>1, <1>2 DEF Values
  <1> DEFINE m == g.metadata
  <1>7. /\ m.from \in 1 .. Len(history) /\ m.from \in 1 .. Len(history')
        /\ DOMAIN m.got \subseteq Blocks
    <2>1. m \in Metadata /\ m.from \in 1 .. Len(history)
      BY DEF GenOk, GenerationType
    <2> QED
      BY <1>2, <2>1, RegionDomain DEF Metadata
  <1>8. m.state = "ready" =>
            /\ g.format = "vcd"
            /\ Snap(Stamp(g), g.catalog, TRUE, m.got, m.from)'
    <2>1. CASE m.state = "ready"
      <3>1. g.format = "vcd" /\ Snap(Stamp(g), g.catalog, TRUE, m.got, m.from)
        BY <2>1 DEF GenOk
      <3>2. PICK known : known = TRUE
        OBVIOUS
      <3>3. Snap(Stamp(g), g.catalog, known, m.got, m.from)'
        BY <1>1, <1>7, <3>1, <3>2, AlteredSnap
      <3> QED
        BY <3>1, <3>2, <3>3
    <2> QED
      BY <2>1
  <1>9. Excused(m.from)'
    BY <1>2, <1>7 DEF Excused
  <1> HIDE DEF m
  <1> QED
    BY <1>1, <1>4, <1>5, <1>6, <1>7, <1>8, <1>9 DEF GenOk, m

LEMMA AlteredAnswers ==
    ASSUME World, NEW e, Altered(e), NEW x, NEW g,
           x.from \in 1 .. Len(history), x.read \in x.from .. Len(history)
    PROVE  /\ \A since \in 1 .. Len(history) : Answers(x, g, since) => Answers(x, g, since)'
           /\ ClaimSilent(x, g) => ClaimSilent(x, g)'
           /\ ClaimStrict(x, g) => ClaimStrict(x, g)'
           /\ ClaimFst(x, g) => ClaimFst(x, g)'
  <1>1. /\ Len(history') = Len(history) + 1 /\ Len(history) \in Nat \ {0}
        /\ \A k \in 1 .. Len(history) : history'[k] = history[k]
        /\ x.from \in 0 .. Len(history) /\ x.read \in 1 .. Len(history)
    BY AlteredHistory
  <1>2. ASSUME NEW since \in 1 .. Len(history), Answers(x, g, since)
        PROVE  Answers(x, g, since)'
    <2>1. PICK k \in since .. Len(history) :
              history[k].now # None /\ Agrees(history[k].now, g.catalog, TRUE, x.got)
      BY <1>2 DEF Answers
    <2>2. k \in since .. Len(history') /\ history'[k] = history[k]
      BY <1>1
    <2> QED
      BY <2>1, <2>2 DEF Answers
  <1>3. /\ NoSilent(x.from)' => NoSilent(x.from)
        /\ OneSilent(x.from)' => OneSilent(x.from)
        /\ NoneRestored(x.from)' => NoneRestored(x.from)
        /\ NoSilent(0)' => NoSilent(0)
    BY <1>1, AlteredHistory
  <1>4. Len(history') <= x.from + 1 => Len(history) <= x.from + 1
    BY <1>1
  <1>5. /\ Answers(x, g, x.from) => Answers(x, g, x.from)'
        /\ Answers(x, g, x.read) => Answers(x, g, x.read)'
    BY <1>1, <1>2
  <1> QED
    BY <1>2, <1>3, <1>4, <1>5 DEF ClaimSilent, ClaimStrict, ClaimFst

LEMMA AlteredRecent ==
    ASSUME World, NEW e, Altered(e), NEW x, NEW g, GenOk(g), g.strict,
           x.from \in 1 .. Len(history), x.read \in x.from .. Len(history)
    PROVE  /\ Recent(x, g) => Recent(x, g)'
           /\ NoneRestored(x.from)' =>
                  /\ NoneRestored(x.from)
                  /\ Recalls(disk[Owner(g)], g.prints["full"], x) /\ DOMAIN x.got \subseteq Blocks =>
                         Recalls(disk'[Owner(g)], g.prints["full"], x)
                  /\ RecallsHead(disk[Owner(g)], g) => RecallsHead(disk'[Owner(g)], g)
  <1> DEFINE i == Owner(g)
             full == g.prints["full"]
  <1>1. /\ Len(history') = Len(history) + 1 /\ Len(history) \in Nat \ {0}
        /\ \A k \in 1 .. Len(history) : history'[k] = history[k]
        /\ NoneRestored(x.from)' => NoneRestored(x.from) /\ ~e.restored
    BY AlteredHistory
  <1>2. i \in Inodes /\ \A b \in Blocks : full[b][2] < Len(history)
    BY OwnerIsFile DEF GenOk
  <1>3. ASSUME NoneRestored(x.from)'
        PROVE  \A b \in Blocks : disk'[i][b] = full[b] => disk[i][b] = full[b]
    BY <1>1, <1>2, <1>3, AlteredFiles
  <1> HIDE DEF i, full
  <1>4. ASSUME NoneRestored(x.from)', Recalls(disk[i], full, x), DOMAIN x.got \subseteq Blocks
        PROVE  Recalls(disk'[i], full, x)
    BY <1>3, <1>4 DEF Recalls
  <1>5. ASSUME NoneRestored(x.from)', RecallsHead(disk[i], g)
        PROVE  RecallsHead(disk'[i], g)
    <2>1. disk'[i]["head"] = full["head"] => disk[i]["head"] = full["head"]
      BY <1>3, <1>5 DEF Blocks
    <2> QED
      BY <1>5, <2>1 DEF RecallsHead, full
  <1>6. ASSUME Recent(x, g) PROVE Recent(x, g)'
    <2>1. CASE NoneRestored(x.from)'
      <3>1. PICK k \in x.read .. Len(history) :
                /\ history[k].now # None
                /\ \A b \in Blocks : disk[i][b] = full[b] => history[k].now[b] = full[b]
        BY <1>1, <1>6, <2>1 DEF Recent, i, full
      <3>2. k \in x.read .. Len(history') /\ history'[k] = history[k]
        BY <1>1
      <3> QED
        BY <1>3, <2>1, <3>1, <3>2 DEF Recent, i, full
    <2> QED
      BY <2>1 DEF Recent
  <1> QED
    BY <1>1, <1>4, <1>5, <1>6 DEF i, full

LEMMA AlteredCurrent ==
    ASSUME World, NEW e, Altered(e), NEW g, GenOk(g),
           NEW x, x.from \in 1 .. Len(history), Current_(x, g)
    PROVE  Current_(x, g)'
  <1>1. /\ Len(history') = Len(history) + 1 /\ Len(history) \in Nat \ {0}
    BY AlteredHistory
  <1>2. /\ Owner(g) \in Inodes /\ Stamp(g) \in Values /\ Stamp(g)[2] < Len(history)
    BY OwnerIsFile
  <1>3. PathKnown(x, g)'
    BY <1>1 DEF PathKnown
  <1>4. x.got = <<>> /\ DOMAIN x.got \subseteq Blocks
    BY EmptyIsTyped DEF Current_
  <1>5. PICK known : known = ~Has(x.todo, Hash("header"))
    OBVIOUS
  <1>6. Snap(Stamp(g), g.catalog, known, x.got, x.from) =>
            Snap(Stamp(g), g.catalog, known, x.got, x.from)'
    BY <1>2, <1>4, AlteredSnap
  <1> QED
    BY <1>3, <1>5, <1>6 DEF Current_

LEMMA AlteredOpen ==
    ASSUME World, NEW e, Altered(e), NEW x \in RequestType, x.from \in 1 .. Len(history), Open_(x)
    PROVE  Open_(x)'
  <1> DEFINE prints == PrintSet(x.format, x.kind = "library")
             stamp == StampOf(x.format, x.stat)
  <1>1. /\ Len(history') = Len(history) + 1 /\ Len(history) \in Nat \ {0}
        /\ NoSilent(0)' => NoSilent(0) /\ ~e.silent
    BY AlteredHistory
  <1>2. x.got = <<>> /\ DOMAIN x.got \subseteq Blocks
    BY EmptyIsTyped DEF Open_
  <1>3. ASSUME ~Has(x.todo, <<"create">>)
        PROVE  /\ stamp[2] < Len(history') /\ Len(history') > x.from
               /\ x.format = "vcd" =>
                      Snap(stamp, x.catalog, ~Has(x.todo, <<"catalog">>), x.got, x.from)'
               /\ ~Has(x.todo, <<"catalog">>) =>
                      /\ disk'[x.fd].format = x.format
                      /\ x.format = "fst" /\ NoSilent(0)' /\ disk'[x.fd].stamp = stamp =>
                             disk'[x.fd].head = x.catalog
    <2>1. stamp \in Values /\ stamp[2] < Len(history) /\ x.fd = stamp[1] /\ x.fd \in Inodes
      BY <1>3 DEF Open_, Values
    <2>2. /\ disk'[x.fd].format = disk[x.fd].format
          /\ disk'[x.fd].stamp[2] < Len(history) => disk'[x.fd].stamp = disk[x.fd].stamp
          /\ disk'[x.fd].stamp = disk[x.fd].stamp /\ ~e.silent => disk'[x.fd] = disk[x.fd]
      BY <2>1, AlteredFiles
    <2>3. PICK known : known = ~Has(x.todo, <<"catalog">>)
      OBVIOUS
    <2>4. x.format = "vcd" => Snap(stamp, x.catalog, known, x.got, x.from)
      BY <1>3, <2>3 DEF Open_
    <2>5. x.format = "vcd" => Snap(stamp, x.catalog, known, x.got, x.from)'
      <3> HIDE DEF stamp
      <3> QED
        BY <1>2, <2>1, <2>4, AlteredSnap
    <2>6. stamp[2] < Len(history') /\ Len(history') > x.from
      BY <1>1, <2>1 DEF Values
    <2>7. ~Has(x.todo, <<"catalog">>) =>
              /\ disk[x.fd].format = x.format
              /\ x.format = "fst" /\ NoSilent(0) /\ disk[x.fd].stamp = stamp =>
                     disk[x.fd].head = x.catalog
      BY <1>3 DEF Open_
    <2> HIDE DEF stamp
    <2> QED
      BY <1>1, <2>1, <2>2, <2>3, <2>5, <2>6, <2>7
  <1>4. ASSUME "full" \in DOMAIN x.prints, ~Has(x.todo, <<"create">>)
        PROVE  \A block \in Blocks : x.prints["full"][block][2] < Len(history')
    <2>1. /\ DOMAIN x.prints["full"] = Blocks
          /\ \A block \in Blocks : x.prints["full"][block][2] < Len(history)
      BY <1>4 DEF Open_
    <2>2. x.prints["full"] \in Regions
      BY <1>4 DEF RequestType, PrintMaps
    <2>3. \A block \in Blocks : x.prints["full"][block] \in Values
      BY <2>1, <2>2 DEF Regions
    <2> QED
      BY <1>1, <2>1, <2>3 DEF Values
  <1> QED
    BY <1>3, <1>4 DEF Open_

LEMMA AlteredRun ==
    ASSUME World, NEW e, Altered(e), NEW g, GenOk(g),
           NEW x \in RequestType, x.from \in 1 .. Len(history), x.read \in x.from .. Len(history),
           Run_(x, g)
    PROVE  Run_(x, g)'
  <1>1. /\ Len(history') = Len(history) + 1 /\ Len(history) \in Nat \ {0}
        /\ NoSilent(0)' => NoSilent(0) /\ ~e.silent
        /\ x.from \in Nat
    BY AlteredHistory
  <1>2. /\ Owner(g) \in Inodes /\ Stamp(g) \in Values /\ Stamp(g)[2] < Len(history)
    BY OwnerIsFile
  <1>3. DOMAIN x.got \subseteq Blocks /\ x.fd \in Inodes
    BY RegionDomain DEF RequestType, Run_
  <1>4. PathKnown(x, g)' /\ OnOwner(x, g)'
    <2>1. Len(history) > x.from => Len(history') > x.from + 1
      BY <1>1
    <2> QED
      BY <1>1, <2>1 DEF PathKnown, OnOwner, Run_
  <1>5. g.format = "vcd" => Snap(Stamp(g), g.catalog, TRUE, x.got, x.from)'
    <2>1. PICK known : known = TRUE
      OBVIOUS
    <2>2. g.format = "vcd" => Snap(Stamp(g), g.catalog, known, x.got, x.from)
      BY <2>1 DEF Run_
    <2>3. g.format = "vcd" => Snap(Stamp(g), g.catalog, known, x.got, x.from)'
      BY <1>2, <1>3, <2>2, AlteredSnap
    <2> QED
      BY <2>1, <2>3
  <1>6. ASSUME g.format = "fst", x.fd = Owner(g), disk'[x.fd].stamp = Stamp(g),
               Len(history') <= x.from + 1, NoSilent(0)'
        PROVE  \A block \in DOMAIN x.got : disk'[x.fd][block] = x.got[block]
    <2>1. disk'[x.fd] = disk[x.fd] /\ disk[x.fd].stamp = Stamp(g)
      BY <1>1, <1>2, <1>3, <1>6, AlteredFiles
    <2>2. Len(history) <= x.from + 1 /\ NoSilent(0)
      BY <1>1, <1>6
    <2> QED
      BY <1>6, <2>1, <2>2 DEF Run_
  <1>7. ASSUME g.strict, NoneRestored(x.from)'
        PROVE  Recalls(disk'[Owner(g)], g.prints["full"], x)
    <2>1. NoneRestored(x.from)
      BY <1>7, AlteredRecent
    <2>2. Recalls(disk[Owner(g)], g.prints["full"], x)
      BY <1>7, <2>1 DEF Run_
    <2> QED
      BY <1>3, <1>7, <2>2, AlteredRecent
  <1> QED
    BY <1>3, <1>4, <1>5, <1>6, <1>7 DEF Run_

LEMMA AlteredRunning ==
    ASSUME World, NEW e, Altered(e), NEW g, GenOk(g),
           NEW x \in RequestType, x.from \in 1 .. Len(history), x.read \in x.from .. Len(history),
           Running(x, g)
    PROVE  Running(x, g)'
  <1>1. /\ ClaimSilent(x, g) => ClaimSilent(x, g)'
        /\ ClaimStrict(x, g) => ClaimStrict(x, g)'
        /\ ClaimFst(x, g) => ClaimFst(x, g)'
    BY AlteredAnswers
  <1>2. ASSUME g.strict
        PROVE  /\ Recent(x, g) => Recent(x, g)'
               /\ NoneRestored(x.from)' =>
                      /\ NoneRestored(x.from)
                      /\ RecallsHead(disk[Owner(g)], g) => RecallsHead(disk'[Owner(g)], g)
    BY <1>2, AlteredRecent
  <1>3. /\ RunShape(x.todo, x.kind, g)
        /\ g.strict /\ NoneRestored(x.from) =>
               Has(x.todo, Hash("header")) \/ RecallsHead(disk[Owner(g)], g)
        /\ ~Has(x.todo, <<"admit">>) =>
               /\ g.format = "vcd" => ClaimSilent(x, g)
               /\ g.strict => Recent(x, g)
               /\ ~Has(x.todo, Hash("full")) /\ g.strict => ClaimStrict(x, g)
               /\ g.format = "fst" => ClaimFst(x, g)
    BY DEF Running
  <1> QED
    BY <1>1, <1>2, <1>3 DEF Running

LEMMA AlteredRequest ==
    ASSUME World, NEW e, Altered(e), NEW g, GenOk(g), NEW x, ReqOk(x, g)
    PROVE  /\ ReqOk(x, g)' /\ Excuse(x)' /\ FormatKnown(x)'
           /\ \A n \in 0 .. Len(history) :
                  (Holds(x) /\ x.pc # "current" => n < Len(history)) => ~Steady(x, n)'
  <1>1. /\ Len(history') = Len(history) + 1 /\ Len(history) \in Nat \ {0}
    BY AlteredHistory
  <1>2. x \in RequestType /\ x.from \in 1 .. Len(history) /\ x.read \in x.from .. Len(history)
    BY DEF ReqOk
  <1>3. /\ x.from \in 1 .. Len(history') /\ x.read \in x.from .. Len(history')
        /\ x.from < Len(history')
    BY <1>1, <1>2
  <1>4. /\ x.pc = "current" => Current_(x, g)'
        /\ x.pc \in {"detect", "open"} => Open_(x)'
        /\ x.pc \in {"ready", "run"} => Run_(x, g)'
        /\ x.pc = "run" => Running(x, g)'
    BY <1>2, AlteredCurrent, AlteredOpen, AlteredRun, AlteredRunning DEF ReqOk
  <1>5. x.pc = "done" => Done_(x, g)'
    BY <1>2, AlteredAnswers DEF ReqOk, Done_
  <1>6. ReqOk(x, g)'
    BY <1>2, <1>3, <1>4, <1>5 DEF ReqOk
  <1>7. Excuse(x)' /\ FormatKnown(x)'
    BY <1>3 DEF Excuse, FormatKnown
  <1>8. ASSUME NEW n \in 0 .. Len(history), Holds(x) /\ x.pc # "current" => n < Len(history)
        PROVE  ~Steady(x, n)'
    BY <1>1, <1>3, <1>8 DEF Steady, Holds
  <1> QED
    BY <1>6, <1>7, <1>8

LEMMA AlteredGInv ==
    ASSUME GInv, NEW e, Altered(e), UNCHANGED <<gens, slot, holder, req>>
    PROVE  GInv'
  <1>1. World /\ GensOk /\ RequestsOk /\ SlotOk
    BY DEF GInv
  <1>2. World'
    BY <1>1, AlteredWorld
  <1>3. Len(history') = Len(history) + 1 /\ Len(history) \in Nat \ {0}
    BY <1>1, AlteredHistory
  <1>4. Served' = Served /\ Count' = Count /\ Count \in 0 .. Len(history)
    BY <1>1 DEF Served, Count, SlotOk
  <1>5. GensOk'
    <2>1. ASSUME NEW id \in DOMAIN gens, NEW g, g = gens[id] PROVE GenOk(g)'
      <3>1. GenOk(g)
        BY <1>1, <2>1 DEF GensOk
      <3> QED
        BY <1>1, <3>1, AlteredGeneration
    <2> QED
      BY <1>1, <2>1 DEF GensOk
  <1>6. ASSUME NEW r \in Requests PROVE RequestOk(r)'
    <2>1. req[r].gen \in DOMAIN gens /\ RequestOk(r)
      BY <1>1 DEF RequestsOk, RequestOk
    <2>2. ASSUME NEW x, x = req[r], NEW g, g = gens[x.gen], NEW n, n = Count
          PROVE  /\ ReqOk(x, g)' /\ (Steady(x, n)' => Certain(x, g)')
                 /\ FormatKnown(x)' /\ Excuse(x)'
      <3>1. ReqOk(x, g) /\ GenOk(g)
        BY <1>1, <2>1, <2>2 DEF RequestOk, GensOk
      <3>2. Holds(x) /\ x.pc # "current" => n < Len(history)
        BY <1>1, <2>2 DEF SlotOk
      <3> QED
        BY <1>1, <1>4, <2>2, <3>1, <3>2, AlteredRequest
    <2>3. /\ req'[r].gen \in DOMAIN gens'
          /\ \A x \in {req'[r]} : \A g \in {gens'[x.gen]}, n \in {Count'} :
                 /\ ReqOk(x, g)' /\ (Steady(x, n)' => Certain(x, g)')
                 /\ FormatKnown(x)' /\ Excuse(x)'
      BY <1>4, <2>1, <2>2
    <2> QED
      BY <2>3 DEF RequestOk
  <1>7. RequestsOk'
    BY <1>1, <1>6 DEF RequestsOk
  <1>8. SlotOk'
    <2>1. Count < Len(history') /\ Count \in 0 .. Len(history')
      BY <1>3, <1>4
    <2> QED
      BY <1>1, <1>4, <2>1 DEF SlotOk
  <1> QED
    BY <1>2, <1>5, <1>7, <1>8 DEF GInv

LEMMA OthersKeepGInv ==
    ASSUME GInv, WriteBlock \/ Retarget
    PROVE  GInv'
  <1>1. World
    BY DEF GInv
  <1>2. PICK e : Altered(e)
    BY <1>1, WriteAlters, RetargetAlters
  <1>3. UNCHANGED <<gens, slot, holder, req>>
    BY <1>1, WriteAlters, RetargetAlters
  <1> QED
    BY <1>2, <1>3, AlteredGInv

(***************************************************************************)
(* A step of a request changes neither the files nor the history, so what  *)
(* is said of requests and generations means the same after it, and what   *)
(* is left to show is that it holds of the request that took the step.     *)
(***************************************************************************)
LEMMA QuietKeeps ==
    ASSUME Quiet
    PROVE  /\ World => World'
           /\ \A g : GenOk(g) => GenOk(g)'
           /\ \A x, g : ReqOk(x, g) => ReqOk(x, g)'
           /\ \A x, g : Certain(x, g) => Certain(x, g)'
           /\ \A x, n : Steady(x, n)' => Steady(x, n)
           /\ \A x : FormatKnown(x) => FormatKnown(x)'
           /\ \A x : Excuse(x) => Excuse(x)'
           /\ \A g, i : Matches(g, i) => Matches(g, i)'
  <1> USE DEF Quiet
  <1>1. /\ \A k : NoSilent(k)' <=> NoSilent(k)
        /\ \A k : OneSilent(k)' <=> OneSilent(k)
        /\ \A k : NoneRestored(k)' <=> NoneRestored(k)
    BY DEF NoSilent, OneSilent, NoneRestored
  <1>2. \A h, k : Linked(h, k)' <=> Linked(h, k)
    BY <1>1 DEF Linked
  <1>3. World => World'
    BY <1>2 DEF World
  <1>4. \A k, stamp, catalog, known, got :
            SnapAt(k, stamp, catalog, known, got)' <=> SnapAt(k, stamp, catalog, known, got)
    BY <1>1 DEF SnapAt
  <1>5. \A stamp, catalog, known, got, from :
            Snap(stamp, catalog, known, got, from)' <=> Snap(stamp, catalog, known, got, from)
    BY <1>4 DEF Snap
  <1>6. \A from : Excused(from)' <=> Excused(from)
    BY DEF Excused
  <1>7. \A g : GenOk(g) => GenOk(g)'
    BY <1>1, <1>5, <1>6 DEF GenOk
  <1>8. \A x, g, since : Answers(x, g, since)' <=> Answers(x, g, since)
    BY DEF Answers
  <1>9. \A x, g : /\ ClaimSilent(x, g)' <=> ClaimSilent(x, g)
                  /\ ClaimStrict(x, g)' <=> ClaimStrict(x, g)
                  /\ ClaimFst(x, g)' <=> ClaimFst(x, g)
    BY <1>1, <1>8 DEF ClaimSilent, ClaimStrict, ClaimFst
  <1>10. \A x, g : Recent(x, g)' <=> Recent(x, g)
    BY <1>1 DEF Recent
  <1>11. \A x, g : Current_(x, g) => Current_(x, g)'
    BY <1>5 DEF Current_, PathKnown
  <1>12. \A x : Open_(x) => Open_(x)'
    BY <1>1, <1>5 DEF Open_
  <1>13. \A x, g : Run_(x, g) => Run_(x, g)'
    <2>1. \A x, g : /\ OnOwner(x, g)' <=> OnOwner(x, g)
                    /\ PathKnown(x, g)' <=> PathKnown(x, g)
      BY DEF OnOwner, PathKnown
    <2>2. disk' = disk /\ Len(history') = Len(history)
      OBVIOUS
    <2> SUFFICES ASSUME NEW x, NEW g, Run_(x, g) PROVE Run_(x, g)'
      OBVIOUS
    <2>3. x.fd \in Inodes /\ OnOwner(x, g)' /\ PathKnown(x, g)'
      BY <2>1 DEF Run_
    <2>4. g.format = "vcd" => Snap(Stamp(g), g.catalog, TRUE, x.got, x.from)'
      BY <1>5 DEF Run_
    <2>5. /\ g.format = "fst" /\ x.fd = Owner(g) /\ disk'[x.fd].stamp = Stamp(g)
          /\ Len(history') <= x.from + 1 /\ NoSilent(0)'
          => \A block \in DOMAIN x.got : disk'[x.fd][block] = x.got[block]
      BY <1>1, <2>2 DEF Run_
    <2>6. g.strict /\ NoneRestored(x.from)' => Recalls(disk'[Owner(g)], g.prints["full"], x)
      BY <1>1, <2>2 DEF Run_
    <2> QED
      BY <2>3, <2>4, <2>5, <2>6 DEF Run_
  <1>14. \A x, g : Running(x, g) => Running(x, g)'
    BY <1>1, <1>9, <1>10 DEF Running
  <1>15. \A x, g : Done_(x, g) => Done_(x, g)'
    BY <1>9 DEF Done_
  <1>16. \A x, g : ReqOk(x, g) => ReqOk(x, g)'
    BY <1>11, <1>12, <1>13, <1>14, <1>15 DEF ReqOk
  <1>17. \A g, i : Matches(g, i) => Matches(g, i)'
    BY DEF Matches, Region, Stat
  <1>18. \A x, g : Certain(x, g) => Certain(x, g)'
    BY DEF Certain, Matches, Region, Stat
  <1>19. /\ \A x, n : Steady(x, n)' => Steady(x, n)
         /\ \A x : FormatKnown(x) => FormatKnown(x)'
         /\ \A x : Excuse(x) => Excuse(x)'
    BY DEF Steady, FormatKnown, Excuse
  <1> QED
    BY <1>3, <1>7, <1>16, <1>17, <1>18, <1>19

\* Generations differ in what is cached only.
SameSource(g, h) ==
    /\ h.format = g.format /\ h.strict = g.strict /\ h.stat = g.stat
    /\ h.prints = g.prints /\ h.catalog = g.catalog

LEMMA SameSourceKeeps ==
    ASSUME NEW g, NEW h, SameSource(g, h)
    PROVE  /\ \A x : ReqOk(x, g) => ReqOk(x, h)
           /\ \A x : Certain(x, g) => Certain(x, h)
           /\ \A i : Matches(g, i) => Matches(h, i)
  <1> USE DEF SameSource
  <1>1. Stamp(h) = Stamp(g) /\ Owner(h) = Owner(g) /\ Prints_(h) = Prints_(g)
    BY DEF Stamp, Owner, Prints_
  <1>2. \A x, since : Answers(x, h, since) <=> Answers(x, g, since)
    BY DEF Answers
  <1>3. \A x : /\ ClaimSilent(x, h) <=> ClaimSilent(x, g)
               /\ ClaimStrict(x, h) <=> ClaimStrict(x, g)
               /\ ClaimFst(x, h) <=> ClaimFst(x, g)
    BY <1>2 DEF ClaimSilent, ClaimStrict, ClaimFst
  <1>4. \A x : Recent(x, h) <=> Recent(x, g)
    BY <1>1 DEF Recent
  <1>5. \A x : Current_(x, g) => Current_(x, h)
    BY <1>1 DEF Current_, PathKnown, CheckShape
  <1>6. \A x : Run_(x, g) => Run_(x, h)
    BY <1>1 DEF Run_, OnOwner, PathKnown
  <1>7. \A x : Running(x, g) => Running(x, h)
    BY <1>1, <1>3, <1>4 DEF Running, RunShape, RecallsHead
  <1>8. \A x : Done_(x, g) => Done_(x, h)
    BY <1>3 DEF Done_
  <1>9. \A x : ReqOk(x, g) => ReqOk(x, h)
    BY <1>5, <1>6, <1>7, <1>8 DEF ReqOk
  <1>10. \A i : Matches(g, i) => Matches(h, i)
    BY DEF Matches, Stat
  <1>11. \A x : Certain(x, g) => Certain(x, h)
    BY <1>1 DEF Certain, Matches, Stat
  <1> QED
    BY <1>9, <1>10, <1>11

LEMMA RequestStep ==
    ASSUME GInv, Quiet,
           NEW r \in Requests, NEW y \in RequestType, req' = [req EXCEPT ![r] = y],
           gens' \in Seq(GenerationType), Len(gens') >= Len(gens),
           \A id \in DOMAIN gens : \A g \in {gens[id]}, h \in {gens'[id]} : SameSource(g, h),
           \A id \in DOMAIN gens' : \A h \in {gens'[id]} : GenOk(h),
           y.gen \in DOMAIN gens',
           \A h \in {gens'[y.gen]}, n \in {Count'} :
               ReqOk(y, h) /\ (Steady(y, n) => Certain(y, h)),
           FormatKnown(y), Excuse(y),
           Count' = Count \/ \A s \in Requests \ {r} : ~Holds(req[s]),
           SlotOk'
    PROVE  GInv'
  <1>1. World /\ GensOk /\ RequestsOk /\ World'
    BY QuietKeeps DEF GInv
  <1>2. gens \in Seq(GenerationType) /\ Len(gens) \in Nat /\ Len(gens) >= 1
        /\ Len(gens') \in Nat /\ DOMAIN gens \subseteq DOMAIN gens'
    BY <1>1 DEF GensOk
  <1>3. GensOk'
    <2>1. ASSUME NEW id \in DOMAIN gens', NEW h, h = gens'[id] PROVE GenOk(h)'
      <3>1. GenOk(h)
        BY <2>1
      <3> QED
        BY <3>1, QuietKeeps
    <2> QED
      BY <1>2, <2>1 DEF GensOk
  <1>4. req' \in [Requests -> RequestType] /\ req'[r] = y
        /\ \A s \in Requests \ {r} : req'[s] = req[s]
    BY <1>1 DEF RequestsOk
  <1>5. RequestOk(r)'
    <2>1. ASSUME NEW h, h = gens'[y.gen], NEW n, n = Count'
          PROVE  /\ ReqOk(y, h)' /\ (Steady(y, n)' => Certain(y, h)')
                 /\ FormatKnown(y)' /\ Excuse(y)'
      <3>1. ReqOk(y, h) /\ (Steady(y, n) => Certain(y, h))
        BY <2>1
      <3> QED
        BY <3>1, QuietKeeps
    <2> QED
      BY <1>4, <2>1 DEF RequestOk
  <1>6. ASSUME NEW s \in Requests \ {r} PROVE RequestOk(s)'
    <2>1. req[s].gen \in DOMAIN gens /\ RequestOk(s)
      BY <1>1 DEF RequestsOk, RequestOk
    <2>2. ASSUME NEW x, x = req[s], NEW h, h = gens'[x.gen], NEW n, n = Count'
          PROVE  /\ ReqOk(x, h)' /\ (Steady(x, n)' => Certain(x, h)')
                 /\ FormatKnown(x)' /\ Excuse(x)'
      <3>1. PICK g : g = gens[x.gen]
        OBVIOUS
      <3>2. SameSource(g, h)
        BY <2>1, <2>2, <3>1
      <3>3. /\ ReqOk(x, g) /\ FormatKnown(x) /\ Excuse(x)
            /\ \A c \in {Count} : Steady(x, c) => Certain(x, g)
        BY <2>1, <2>2, <3>1 DEF RequestOk
      <3>4. ReqOk(x, h)
        BY <3>2, <3>3, SameSourceKeeps
      <3>5. Steady(x, n) => Certain(x, g)
        <4>1. CASE Count' = Count
          BY <2>2, <3>3, <4>1
        <4>2. CASE ~Holds(x)
          <5>1. \A c : Steady(x, n) => Steady(x, c)
            BY <4>2 DEF Steady, Holds
          <5> QED
            BY <3>3, <5>1
        <4> QED
          BY <2>2, <4>1, <4>2
      <3>6. Steady(x, n) => Certain(x, h)
        BY <3>2, <3>5, SameSourceKeeps
      <3> QED
        BY <3>3, <3>4, <3>6, QuietKeeps
    <2>3. req'[s].gen \in DOMAIN gens'
      BY <1>2, <1>4, <2>1
    <2> QED
      BY <1>4, <2>2, <2>3 DEF RequestOk
  <1>7. RequestsOk'
    BY <1>4, <1>5, <1>6 DEF RequestsOk
  <1> QED
    BY <1>1, <1>3, <1>7 DEF GInv

\* A request and its generation, as the invariant has them.
LEMMA RequestFacts ==
    ASSUME GInv, NEW r \in Requests, NEW x, x = req[r]
    PROVE  /\ World /\ x \in RequestType /\ x.gen \in DOMAIN gens
           /\ Len(history) \in Nat \ {0} /\ Count \in 0 .. Len(history)
           /\ \A g \in {gens[x.gen]} :
                  /\ g = Gen(r) /\ GenOk(g) /\ ReqOk(x, g)
                  /\ \A n \in {Count} : Steady(x, n) => Certain(x, g)
                  /\ Holds(x) /\ x.pc = "current" /\ Count = Len(history) => Matches(g, path)
           /\ FormatKnown(x)
           /\ Holds(x) => holder = r
           /\ Holds(x) /\ x.pc = "current" => x.gen = slot
           /\ Holds(x) /\ x.pc # "current" => Count < Len(history)
  <1>1. World /\ GensOk /\ RequestsOk /\ SlotOk
    BY DEF GInv
  <1>2. /\ x \in RequestType /\ x.gen \in DOMAIN gens /\ RequestOk(r)
    BY <1>1 DEF RequestsOk, RequestOk
  <1>3. /\ Len(history) \in Nat \ {0} /\ Count \in 0 .. Len(history)
        /\ Holds(x) => holder = r
        /\ Holds(x) /\ x.pc = "current" => x.gen = slot
        /\ Holds(x) /\ x.pc # "current" => Count < Len(history)
    BY <1>1, HistoryFacts DEF SlotOk
  <1>4. ASSUME NEW g, g = gens[x.gen]
        PROVE  /\ g = Gen(r) /\ GenOk(g) /\ ReqOk(x, g)
               /\ \A n \in {Count} : Steady(x, n) => Certain(x, g)
               /\ Holds(x) /\ x.pc = "current" /\ Count = Len(history) => Matches(g, path)
               /\ FormatKnown(x)
    <2>1. g = Gen(r)
      BY <1>4 DEF Gen
    <2>2. GenOk(g)
      BY <1>1, <1>2, <1>4 DEF GensOk
    <2>3. ReqOk(x, g) /\ FormatKnown(x) /\ \A n \in {Count} : Steady(x, n) => Certain(x, g)
      BY <1>2, <1>4 DEF RequestOk
    <2>4. Holds(x) /\ x.pc = "current" /\ Count = Len(history) => Matches(g, path)
      BY <1>1, <1>3, <1>4 DEF SlotOk
    <2> QED
      BY <2>1, <2>2, <2>3, <2>4
  <1> QED
    BY <1>1, <1>2, <1>3, <1>4

\* A step that leaves the generation in the slot.
LEMMA KeepSlotStep ==
    ASSUME GInv, Quiet,
           NEW r \in Requests, NEW y \in RequestType, req' = [req EXCEPT ![r] = y],
           slot' = slot, gens' \in Seq(GenerationType), Len(gens') = Len(gens),
           \A id \in DOMAIN gens : \A g \in {gens[id]}, h \in {gens'[id]} :
               SameSource(g, h) /\ GenOk(h),
           y.gen \in DOMAIN gens,
           \A g \in {gens[y.gen]}, n \in {Count} :
               ReqOk(y, g) /\ (Steady(y, n) => Certain(y, g)),
           FormatKnown(y), Excuse(y),
           holder' \in Requests \cup {None}, Holds(y) => holder' = r,
           \A s \in Requests \ {r} : Holds(req[s]) => holder' = s,
           Holds(y) /\ y.pc = "current" => y.gen = slot,
           Holds(y) /\ y.pc # "current" => Count < Len(history)
    PROVE  GInv'
  <1>1. World /\ GensOk /\ RequestsOk /\ SlotOk
    BY DEF GInv
  <1>2. DOMAIN gens' = DOMAIN gens /\ slot \in DOMAIN gens
    BY <1>1 DEF GensOk, SlotOk
  <1>3. \A id \in DOMAIN gens : SameSource(gens[id], gens'[id])
    OBVIOUS
  <1>4. Served' = Served /\ Count' = Count /\ history' = history
    <2>1. Served' = Served
      BY <1>2, <1>3 DEF Served, SameSource
    <2> QED
      BY <2>1 DEF Count, Quiet
  <1>5. SlotOk'
    <2>1. req'[r] = y /\ \A s \in Requests \ {r} : req'[s] = req[s]
      BY <1>1 DEF RequestsOk
    <2>2. \A s \in Requests :
              /\ Holds(req'[s]) => holder' = s
              /\ Holds(req'[s]) /\ req'[s].pc = "current" => req'[s].gen = slot'
              /\ Holds(req'[s]) /\ req'[s].pc # "current" => Count' < Len(history')
      BY <1>1, <1>4, <2>1 DEF SlotOk
    <2>3. ASSUME NEW h, h = gens'[slot], NEW i, i = path, Count' = Len(history')
          PROVE  Matches(h, i)'
      <3>1. PICK g : g = gens[slot]
        OBVIOUS
      <3>2. SameSource(g, h) /\ Matches(g, i)
        BY <1>1, <1>2, <1>4, <2>3, <3>1 DEF SlotOk
      <3> QED
        BY <3>2, SameSourceKeeps, QuietKeeps
    <2>4. ~gens'[slot].strict
      BY <1>1, <1>2, <1>3 DEF SlotOk, SameSource
    <2>5. path' = path
      BY DEF Quiet
    <2> QED
      BY <1>1, <1>2, <1>4, <2>2, <2>3, <2>4, <2>5 DEF SlotOk
  <1>6. /\ \A id \in DOMAIN gens : \A g \in {gens[id]}, h \in {gens'[id]} : SameSource(g, h)
        /\ \A id \in DOMAIN gens' : \A h \in {gens'[id]} : GenOk(h)
        /\ Len(gens') >= Len(gens) /\ y.gen \in DOMAIN gens'
    BY <1>1, <1>2 DEF GensOk
  <1>7. ASSUME NEW h, h = gens'[y.gen], NEW n, n = Count'
        PROVE  ReqOk(y, h) /\ (Steady(y, n) => Certain(y, h))
    <2>1. PICK g : g = gens[y.gen]
      OBVIOUS
    <2>2. SameSource(g, h) /\ ReqOk(y, g) /\ (Steady(y, n) => Certain(y, g))
      BY <1>4, <1>7, <2>1
    <2> QED
      BY <2>2, SameSourceKeeps
  <1> QED
    BY <1>4, <1>5, <1>6, <1>7, RequestStep

\* A step that only moves the request on.
LEMMA AdvanceStep ==
    ASSUME GInv, Quiet,
           NEW r \in Requests, NEW x, x = req[r],
           NEW y \in RequestType, req' = [req EXCEPT ![r] = y],
           UNCHANGED <<gens, slot, holder>>, y.gen = x.gen,
           \A g \in {gens[x.gen]}, n \in {Count} :
               ReqOk(y, g) /\ (Steady(y, n) => Certain(y, g)),
           FormatKnown(y), Excuse(y),
           Holds(y) => Holds(x),
           Holds(y) /\ y.pc = "current" => x.pc = "current",
           Holds(y) /\ y.pc # "current" => Count < Len(history)
    PROVE  GInv'
  <1>1. GensOk /\ SlotOk
    BY DEF GInv
  <1>2. \A id \in DOMAIN gens : \A g \in {gens[id]}, h \in {gens'[id]} :
            SameSource(g, h) /\ GenOk(h)
    BY <1>1 DEF SameSource, GensOk
  <1>3. gens' \in Seq(GenerationType) /\ Len(gens') = Len(gens)
    BY <1>1 DEF GensOk
  <1>4. /\ x.gen \in DOMAIN gens
        /\ Holds(x) => holder = r
        /\ Holds(x) /\ x.pc = "current" => x.gen = slot
    BY RequestFacts
  <1>5. /\ holder' \in Requests \cup {None}
        /\ \A s \in Requests \ {r} : Holds(req[s]) => holder' = s
    BY <1>1 DEF SlotOk
  <1> QED
    BY <1>2, <1>3, <1>4, <1>5, KeepSlotStep

\* What a generation has cached changes.
LEMMA CacheKeeps ==
    ASSUME GInv, NEW i \in DOMAIN gens, NEW m \in Metadata, m.from \in 1 .. Len(history),
           m.state = "failed" => Excused(m.from),
           \A g \in {gens[i]} : m.state = "ready" =>
               g.format = "vcd" /\ Snap(Stamp(g), g.catalog, TRUE, m.got, m.from),
           gens' = [gens EXCEPT ![i].metadata = m]
    PROVE  /\ gens' \in Seq(GenerationType) /\ Len(gens') = Len(gens)
           /\ \A id \in DOMAIN gens : \A g \in {gens[id]}, h \in {gens'[id]} :
                  SameSource(g, h) /\ GenOk(h)
  <1>1. GensOk /\ gens \in Seq(GenerationType)
    BY DEF GInv, GensOk
  <1>2. ASSUME NEW g, g = gens[i], NEW h, h = [g EXCEPT !.metadata = m]
        PROVE  SameSource(g, h) /\ GenOk(h) /\ h \in GenerationType
    <2>1. GenOk(g) /\ g \in GenerationType
      BY <1>1, <1>2 DEF GenOk, GensOk
    <2>2. /\ h \in GenerationType /\ h.metadata = m /\ h.format = g.format
          /\ h.strict = g.strict /\ h.stat = g.stat
          /\ h.prints = g.prints /\ h.catalog = g.catalog
      BY <1>2, <2>1 DEF GenerationType
    <2>3. Stamp(h) = Stamp(g) /\ Owner(h) = Owner(g)
      BY <2>2 DEF Stamp, Owner
    <2>4. m.state = "ready" =>
              h.format = "vcd" /\ Snap(Stamp(h), h.catalog, TRUE, m.got, m.from)
      BY <1>2, <2>2, <2>3
    <2> QED
      BY <2>1, <2>2, <2>3, <2>4 DEF GenOk, SameSource
  <1>3. gens' = [gens EXCEPT ![i] = [gens[i] EXCEPT !.metadata = m]]
    BY <1>1
  <1>4. /\ gens' \in Seq(GenerationType) /\ Len(gens') = Len(gens)
        /\ gens'[i] = [gens[i] EXCEPT !.metadata = m]
        /\ \A id \in DOMAIN gens \ {i} : gens'[id] = gens[id]
    BY <1>1, <1>2, <1>3
  <1> QED
    BY <1>1, <1>2, <1>4 DEF GensOk, SameSource

\* The step of a request fails: it probes the path if it only looked at the
\* slot, and ends otherwise, for a source that was not there or has changed.
LEMMA FailStep ==
    ASSUME GInv, Quiet, NEW r \in Requests, NEW x, x = req[r], Fail(r),
           x.pc = "current" => Count < Len(history),
           x.pc # "current" =>
               (history[x.from].now # None =>
                   \/ x.from < Len(history)
                   \/ x.kind = "library" /\ history[x.from].now.format = "fst"),
           x.pc \in {"probe", "detect", "open", "current", "run"}
    PROVE  GInv'
  <1>1. /\ World /\ x \in RequestType /\ x.gen \in DOMAIN gens
        /\ \A g \in {gens[x.gen]} : GenOk(g) /\ ReqOk(x, g)
    BY RequestFacts
  <1>2. GensOk /\ RequestsOk /\ SlotOk /\ gens \in Seq(GenerationType)
    BY DEF GInv, GensOk
  <1>3. CASE x.pc = "current"
    <2> DEFINE y == [x EXCEPT !.pc = "probe", !.todo = << <<"open">> >>]
    <2>1. req' = [req EXCEPT ![r] = y] /\ UNCHANGED <<gens, slot, holder>>
      BY <1>3 DEF Fail, At
    <2>2. << <<"open">> >> \in Seq(Ops)
      BY OneOp, OpsDiffer DEF Names
    <2>3. /\ y \in RequestType /\ y.pc = "probe" /\ y.todo = << <<"open">> >>
          /\ y.gen = x.gen /\ y.kind = x.kind /\ y.from = x.from /\ y.read = x.read
          /\ y.got = x.got /\ y.fd = x.fd
      BY <1>1, <2>2 DEF RequestType, Pcs
    <2>4. x.kind # "library" /\ x.got = <<>>
      BY <1>1, <1>3 DEF ReqOk, Current_
    <2> HIDE DEF y
    <2>5. \A g \in {gens[x.gen]} : ReqOk(y, g)
      <3>1. x.from \in 1 .. Len(history) /\ x.read \in x.from .. Len(history)
        BY <1>1 DEF ReqOk
      <3> QED
        BY <2>3, <2>4, <3>1 DEF ReqOk
    <2>6. \A g : Certain(y, g)
      BY <2>3 DEF Certain
    <2>7. FormatKnown(y) /\ Excuse(y) /\ Holds(x)
      BY <1>3, <2>3 DEF FormatKnown, Excuse, Holds
    <2> QED
      BY <1>3, <2>1, <2>3, <2>5, <2>6, <2>7, AdvanceStep
  <1>4. CASE x.pc # "current"
    <2> DEFINE y == [x EXCEPT !.pc = "failed", !.todo = <<>>]
    <2>1. /\ req' = [req EXCEPT ![r] = y] /\ gens' = Failed(r) /\ slot' = slot
          /\ holder' = IF holder = r THEN None ELSE holder
      BY <1>4 DEF Fail, At
    <2>2. /\ y \in RequestType /\ y.pc = "failed" /\ y.todo = <<>>
          /\ y.gen = x.gen /\ y.kind = x.kind /\ y.from = x.from /\ y.read = x.read
      <3>1. <<>> \in Seq(Ops)
        OBVIOUS
      <3> QED
        BY <1>1, <3>1 DEF RequestType, Pcs
    <2> HIDE DEF y
    <2>3. \A g \in {gens[x.gen]} : ReqOk(y, g)
      <3>1. x.from \in 1 .. Len(history) /\ x.read \in x.from .. Len(history)
        BY <1>1 DEF ReqOk
      <3> QED
        BY <2>2, <3>1 DEF ReqOk
    <2>4. (\A g : Certain(y, g)) /\ FormatKnown(y) /\ ~Holds(y)
      BY <2>2 DEF Certain, FormatKnown, Holds
    <2>5. Excuse(y)
      BY <1>4, <2>2 DEF Excuse
    <2>6. /\ gens' \in Seq(GenerationType) /\ Len(gens') = Len(gens)
          /\ \A id \in DOMAIN gens : \A g \in {gens[id]}, h \in {gens'[id]} :
                 SameSource(g, h) /\ GenOk(h)
      <3>1. CASE gens' = gens
        BY <1>2, <3>1 DEF SameSource, GensOk
      <3>2. CASE gens' # gens
        <4> DEFINE m == [state |-> "failed", got |-> <<>>, from |-> x.from]
        <4>1. /\ gens' = [gens EXCEPT ![x.gen].metadata = m]
              /\ x.pc = "run" /\ Has(x.todo, <<"store">>)
          BY <2>1, <3>2 DEF Failed, At, Has
        <4>2. x.kind = "metadata" /\ x.from \in 1 .. Len(history)
          BY <1>1, <4>1 DEF ReqOk, Running, RunShape
        <4>3. Excused(x.from)
          BY <1>4, <4>2 DEF Excused
        <4>4. m \in Metadata /\ m.state = "failed" /\ m.from = x.from
          BY <1>1, EmptyIsTyped DEF Metadata, RequestType
        <4> HIDE DEF m
        <4> QED
          BY <1>1, <4>1, <4>2, <4>3, <4>4, CacheKeeps
      <3> QED
        BY <3>1, <3>2
    <2>7. /\ holder' \in Requests \cup {None}
          /\ \A s \in Requests \ {r} : Holds(req[s]) => holder' = s
      BY <1>2, <2>1 DEF SlotOk
    <2> QED
      BY <1>1, <2>1, <2>2, <2>3, <2>4, <2>5, <2>6, <2>7, KeepSlotStep
  <1> QED
    BY <1>3, <1>4

(***************************************************************************)
(* One operation of a program.                                             *)
(***************************************************************************)
LEMMA WhereOp ==
    ASSUME NEW g, NEW x, ReqOk(x, g), x.todo # <<>>
    PROVE  /\ x.todo \in Seq(Ops) /\ Head(x.todo) \in Ops /\ Tail(x.todo) \in Seq(Ops)
           /\ x.pc \in {"current", "probe", "detect", "open", "run"}
           /\ x.pc = "current" => Head(x.todo) \in {<<"admit">>, <<"stat">>} \cup Hashes(Prints_(g))
           /\ x.pc = "probe" => Head(x.todo) = <<"open">> /\ Tail(x.todo) = <<>>
           /\ x.pc \in {"detect", "open"} =>
                  Head(x.todo) \in {<<"create">>, <<"catalog">>, <<"same">>, <<"canonicalize">>}
                                   \cup Loads(PrintSet(x.format, x.kind = "library"))
           /\ x.pc = "run" =>
                  Head(x.todo) \in {<<"admit">>, <<"stat">>, <<"open">>, <<"store">>}
                                   \cup Hashes(Prints_(g)) \cup Reads
  <1>1. x \in RequestType /\ x.todo \in Seq(Ops)
    BY DEF ReqOk, RequestType
  <1>2. Head(x.todo) \in Ops /\ Tail(x.todo) \in Seq(Ops)
    BY <1>1, TailHas
  <1>3. x.pc \in {"current", "probe", "detect", "open", "run"}
    BY <1>1 DEF ReqOk, RequestType, Pcs
  <1>4. x.pc = "current" => Head(x.todo) \in {<<"admit">>, <<"stat">>} \cup Hashes(Prints_(g))
    BY <1>1, TailOnly DEF ReqOk, Current_, CheckShape
  <1>5. x.pc = "probe" => Head(x.todo) = <<"open">> /\ Tail(x.todo) = <<>>
    <2>1. \A u : Head(<<u>>) = u /\ Tail(<<u>>) = <<>>
      OBVIOUS
    <2>2. x.pc = "probe" => x.todo = << <<"open">> >>
      BY DEF ReqOk
    <2> QED
      BY <2>1, <2>2
  <1>6. x.pc \in {"detect", "open"} =>
            Head(x.todo) \in {<<"create">>, <<"catalog">>, <<"same">>, <<"canonicalize">>}
                             \cup Loads(PrintSet(x.format, x.kind = "library"))
    BY <1>1, TailOnly DEF ReqOk, Open_, OpenShape
  <1>7. x.pc = "run" =>
            Head(x.todo) \in {<<"admit">>, <<"stat">>, <<"open">>, <<"store">>}
                             \cup Hashes(Prints_(g)) \cup Reads
    BY <1>1, TailOnly DEF ReqOk, Running, RunShape
  <1> QED
    BY <1>1, <1>2, <1>3, <1>4, <1>5, <1>6, <1>7

\* The request goes on to the rest of its program.
Moved(x, y) ==
    /\ y \in RequestType /\ y.todo = Tail(x.todo)
    /\ y.pc = x.pc /\ y.kind = x.kind /\ y.gen = x.gen /\ y.from = x.from /\ y.format = x.format

LEMMA MoveStep ==
    ASSUME GInv, Quiet, NEW r \in Requests, NEW x, x = req[r], x.todo # <<>>,
           NEW y, Moved(x, y), req' = [req EXCEPT ![r] = y], UNCHANGED <<gens, slot, holder>>,
           \A g \in {gens[x.gen]}, n \in {Count} :
               ReqOk(y, g) /\ (Steady(x, n) => Certain(y, g))
    PROVE  GInv'
  <1>1. /\ x.gen \in DOMAIN gens /\ FormatKnown(x)
        /\ \A g \in {gens[x.gen]} : ReqOk(x, g)
        /\ Holds(x) /\ x.pc # "current" => Count < Len(history)
    BY RequestFacts
  <1>2. x.pc \in {"current", "probe", "detect", "open", "run"}
    BY <1>1, WhereOp
  <1>3. \A n : Steady(y, n) => Steady(x, n)
    BY DEF Steady, Moved
  <1>4. FormatKnown(y) /\ Excuse(y) /\ (Holds(y) <=> Holds(x))
    BY <1>1, <1>2 DEF FormatKnown, Excuse, Holds, Moved
  <1> QED
    BY <1>1, <1>3, <1>4, AdvanceStep DEF Moved

\* Which operation a request is at.
LEMMA OpIs ==
    ASSUME NEW r, NEW x, x = req[r]
    PROVE  /\ \A name \in Names : Op(r) = <<name>> => x.todo # <<>> /\ Head(x.todo) = <<name>>
           /\ \A p : Op(r) = Hash(p) => x.todo # <<>> /\ Head(x.todo) = Hash(p)
           /\ \A p : Op(r) = Load(p) => x.todo # <<>> /\ Head(x.todo) = Load(p)
           /\ \A p : Op(r) = Read(p) => x.todo # <<>> /\ Head(x.todo) = Read(p)
           /\ Op(r) = <<"end">> /\ x.todo \in Seq(Ops) => x.todo = <<>>
  <1>1. \A name \in Names : name # "end"
    BY DEF Names
  <1>2. \A p : <<"end">> # Hash(p) /\ <<"end">> # Load(p) /\ <<"end">> # Read(p)
    BY OpsDiffer
  <1>3. \A name \in Names : <<"end">> # <<name>>
    BY <1>1, OpsDiffer
  <1>4. <<"end">> \notin Ops
    BY <1>2, <1>3 DEF Ops
  <1>5. ASSUME x.todo \in Seq(Ops), x.todo # <<>> PROVE Head(x.todo) # <<"end">>
    BY <1>4, <1>5, TailHas
  <1> QED
    BY <1>2, <1>3, <1>5 DEF Op

\* A step on the generation the slot holds.
LEMMA CurrentStep ==
    ASSUME World, NEW g, GenOk(g), NEW x, ReqOk(x, g), x.pc = "current", x.todo # <<>>,
           NEW y, Moved(x, y), y.got = x.got, y.read = x.read,
           \/ Head(x.todo) = <<"admit">> /\ y.fd = path /\ path \in Inodes
              /\ Stat(g.format, path) = g.stat
           \/ Head(x.todo) # <<"admit">> /\ y.fd = x.fd
              /\ \A p \in Prints_(g) :
                     Head(x.todo) = Hash(p) => Region(x.fd, p) = g.prints[p]
    PROVE  ReqOk(y, g) /\ (Certain(x, g) => Certain(y, g))
  <1> DEFINE u == Head(x.todo)
  <1>1. /\ x \in RequestType /\ x.todo \in Seq(Ops) /\ x.got = <<>> /\ CheckShape(x.todo, g)
        /\ x.from \in 1 .. Len(history) /\ x.read \in x.from .. Len(history)
        /\ x.kind # "library" /\ ~g.strict
    BY DEF ReqOk, Current_, RequestType
  <1>2. /\ \A op : Has(x.todo, op) <=> u = op \/ Has(y.todo, op)
        /\ y.todo \in Seq(Ops)
    BY <1>1, TailHas DEF Moved
  <1>3. CheckShape(y.todo, g) /\ ~Has(y.todo, <<"admit">>)
    BY <1>1, TailOnly, TailOnlyFirst DEF CheckShape, Moved
  <1>4. \A p : <<"admit">> # Hash(p)
    BY OpsDiffer
  <1>5. /\ Owner(g) \in Inodes /\ Stamp(g) \in Values /\ Stamp(g)[1] = Owner(g)
        /\ g.stat = StatOf(g.format, Stamp(g)) /\ g.format \in Formats
    BY OwnerIsFile DEF Checkable
  <1>6. Len(history) \in Nat \ {0}
    BY HistoryFacts
  <1>7. CASE u = <<"admit">>
    <2>1. y.fd = path /\ path \in Inodes /\ Stat(g.format, path) = g.stat
      BY <1>7
    <2>2. disk[path].stamp = Stamp(g) /\ path = Owner(g)
      BY <1>5, <2>1, FileFacts, StatFacts
    <2>3. \A p \in Prints_(g) : Has(y.todo, Hash(p))
      <3>1. \A p \in Prints_(g) : Has(x.todo, Hash(p))
        BY <1>2, <1>7 DEF ReqOk, Current_
      <3> QED
        BY <1>2, <1>4, <1>7, <3>1
    <2>4. g.format = "vcd" =>
              Snap(Stamp(g), g.catalog, ~Has(y.todo, Hash("header")), y.got, y.from)
      <3>1. CASE g.format = "vcd"
        <4>1. Has(y.todo, Hash("header"))
          BY <2>3, <3>1 DEF Prints_, PrintSet, PrintNames
        <4>2. history[Len(history)].now = disk[path] /\ disk[path] # None
          BY <2>1, HistoryFacts
        <4>3. Agrees(disk[path], g.catalog, ~Has(y.todo, Hash("header")), y.got)
          BY <1>1, <4>1, EmptyIsTyped DEF Agrees
        <4>4. SnapAt(Len(history), Stamp(g), g.catalog, ~Has(y.todo, Hash("header")), y.got)
          BY <1>5, <2>2, <4>2, <4>3 DEF SnapAt
        <4>5. y.from \in 1 .. Len(history)
          BY <1>1 DEF Moved
        <4> QED
          BY <1>6, <4>4, <4>5 DEF Snap
      <3> QED
        BY <3>1
    <2>5. PathKnown(y, g)
      BY <2>2 DEF PathKnown
    <2>6. Current_(y, g)
      BY <1>1, <1>3, <2>1, <2>2, <2>4, <2>5 DEF Current_
    <2>7. ReqOk(y, g)
      BY <1>1, <2>6 DEF ReqOk, Moved
    <2>8. Certain(y, g)
      BY <2>1, <2>3 DEF Certain, Moved
    <2> QED
      BY <2>7, <2>8
  <1>8. CASE u # <<"admit">>
    <2>1. y.fd = x.fd
          /\ \A p \in Prints_(g) : u = Hash(p) => Region(x.fd, p) = g.prints[p]
      BY <1>8
    <2>2. ~Has(x.todo, <<"admit">>)
      BY <1>2, <1>3, <1>8
    <2>3. /\ x.fd = Owner(g) /\ PathKnown(x, g)
          /\ g.format = "vcd" =>
                 Snap(Stamp(g), g.catalog, ~Has(x.todo, Hash("header")), x.got, x.from)
      BY <2>2 DEF ReqOk, Current_
    <2>4. g.format = "vcd" =>
              Snap(Stamp(g), g.catalog, ~Has(y.todo, Hash("header")), y.got, y.from)
      <3>1. CASE u # Hash("header")
        <4>1. Has(x.todo, Hash("header")) <=> Has(y.todo, Hash("header"))
          BY <1>2, <3>1
        <4>2. PICK known : known = ~Has(x.todo, Hash("header"))
          OBVIOUS
        <4>3. known = ~Has(y.todo, Hash("header"))
          BY <4>1, <4>2
        <4> QED
          BY <2>3, <4>2, <4>3 DEF Moved
      <3>2. CASE u = Hash("header") /\ g.format = "vcd"
        <4>1. Region(x.fd, "header") = g.prints["header"] /\ g.prints["header"] = HeaderOf(g.catalog)
          BY <2>1, <3>2 DEF Prints_, PrintSet, PrintNames, GenOk
        <4>2. disk[Owner(g)].head = g.catalog
          <5>1. HeaderOf(disk[Owner(g)].head) = HeaderOf(g.catalog)
            BY <1>5, <2>3, <4>1, RegionFacts DEF PrintNames
          <5>2. \A c : HeaderOf(c)["head"] = c
            BY DEF HeaderOf
          <5> QED
            BY <5>1, <5>2
        <4>3. PICK k \in x.from .. Len(history) :
                  SnapAt(k, Stamp(g), g.catalog, ~Has(x.todo, Hash("header")), x.got)
          BY <2>3, <3>2 DEF Snap
        <4>4. \A known : Agrees(disk[Owner(g)], g.catalog, known, y.got)
          BY <1>1, <4>2, EmptyIsTyped DEF Agrees
        <4>5. SnapAt(k, Stamp(g), g.catalog, ~Has(y.todo, Hash("header")), y.got)
          BY <1>5, <4>3, <4>4 DEF SnapAt
        <4> QED
          BY <4>3, <4>5 DEF Snap, Moved
      <3> QED
        BY <3>1, <3>2
    <2>5. PathKnown(y, g)
      BY <2>3 DEF PathKnown, Moved
    <2>6. Current_(y, g)
      BY <1>1, <1>3, <2>1, <2>3, <2>4, <2>5 DEF Current_
    <2>7. ReqOk(y, g)
      BY <1>1, <2>6 DEF ReqOk, Moved
    <2>8. ASSUME Certain(x, g) PROVE Certain(y, g)
      <3>1. path = x.fd /\ Stat(g.format, path) = g.stat
            /\ \A p \in Prints_(g) : Has(x.todo, Hash(p)) \/ Region(path, p) = g.prints[p]
        BY <2>2, <2>8 DEF Certain
      <3>2. \A p \in Prints_(g) : Has(y.todo, Hash(p)) \/ Region(path, p) = g.prints[p]
        BY <1>2, <2>1, <3>1
      <3> QED
        BY <2>1, <3>1, <3>2 DEF Certain, Moved
    <2> QED
      BY <2>7, <2>8
  <1> QED
    BY <1>7, <1>8

\* A step of opening a file.
LEMMA OpenBase ==
    ASSUME NEW g, NEW x, ReqOk(x, g), x.pc \in {"detect", "open"}, x.todo # <<>>,
           NEW y, Moved(x, y), y.got = x.got, y.read = x.read
    PROVE  LET prints == PrintSet(x.format, x.kind = "library") IN
           /\ \A op : Has(x.todo, op) <=> Head(x.todo) = op \/ Has(y.todo, op)
           /\ OpenShape(y.todo, prints) /\ ~Has(y.todo, <<"create">>)
           /\ y.got = <<>> /\ x.got = <<>> /\ x.from \in 1 .. Len(history)
           /\ x \in RequestType /\ x.format \in Formats /\ prints \subseteq PrintNames
           /\ Head(x.todo) # <<"create">> => ~Has(x.todo, <<"create">>)
           /\ Head(x.todo) = Load("header") => ~Has(x.todo, <<"catalog">>)
           /\ Open_(x) /\ (Open_(y) => ReqOk(y, g))
  <1> DEFINE prints == PrintSet(x.format, x.kind = "library")
  <1>1. /\ x \in RequestType /\ x.todo \in Seq(Ops) /\ Open_(x)
        /\ x.from \in 1 .. Len(history) /\ x.read \in x.from .. Len(history)
        /\ x.format \in Formats /\ x.got = <<>> /\ OpenShape(x.todo, prints)
        /\ x.pc = "detect" => x.kind # "library"
    BY DEF ReqOk, Open_, RequestType
  <1>2. \A op : Has(x.todo, op) <=> Head(x.todo) = op \/ Has(y.todo, op)
    BY <1>1, TailHas DEF Moved
  <1>3. OpenShape(y.todo, prints) /\ ~Has(y.todo, <<"create">>)
        /\ (Head(x.todo) = Load("header") => ~Has(x.todo, <<"catalog">>))
    BY <1>1, TailOnly, TailOnlyFirst, TailBefore DEF OpenShape, Moved
  <1>4. prints \subseteq PrintNames
    BY DEF PrintSet, PrintNames
  <1>5. Open_(y) => ReqOk(y, g)
    BY <1>1 DEF ReqOk, Moved
  <1> QED
    BY <1>1, <1>2, <1>3, <1>4, <1>5 DEF Moved

LEMMA OpenCreate ==
    ASSUME World, NEW g, NEW x, ReqOk(x, g), x.pc \in {"detect", "open"}, x.todo # <<>>,
           NEW y, Moved(x, y), y.got = x.got, y.read = x.read,
           Head(x.todo) = <<"create">>, path \in Inodes,
           y.fd = path, y.prints = <<>>, y.stat = Stat(x.format, path), y.catalog = x.catalog
    PROVE  ReqOk(y, g) /\ Certain(y, g)
  <1> DEFINE prints == PrintSet(x.format, x.kind = "library")
             stamp == disk[path].stamp
  <1>1. /\ \A op : Has(x.todo, op) <=> Head(x.todo) = op \/ Has(y.todo, op)
        /\ OpenShape(y.todo, prints) /\ ~Has(y.todo, <<"create">>)
        /\ y.got = <<>> /\ x.from \in 1 .. Len(history) /\ x.format \in Formats
        /\ Open_(x) /\ (Open_(y) => ReqOk(y, g))
    BY OpenBase
  <1>2. /\ stamp \in Values /\ stamp[1] = path /\ stamp[2] < Len(history)
        /\ y.stat = StatOf(y.format, stamp) /\ StampOf(y.format, y.stat) = stamp
    BY <1>1, FileFacts DEF Moved
  <1>3. Has(y.todo, <<"catalog">>) /\ \A p \in prints : Has(y.todo, Load(p))
    <2>1. Has(x.todo, <<"create">>)
      BY <1>1
    <2>2. Has(x.todo, <<"catalog">>) /\ \A p \in prints : Has(x.todo, Load(p))
      BY <1>1, <2>1 DEF Open_
    <2>3. <<"create">> # <<"catalog">> /\ \A p : <<"create">> # Load(p)
      BY OpsDiffer
    <2> QED
      BY <1>1, <2>2, <2>3
  <1>4. Len(history) \in Nat \ {0} /\ history[Len(history)].now = disk[path] /\ disk[path] # None
    BY HistoryFacts
  <1>5. Snap(stamp, y.catalog, ~Has(y.todo, <<"catalog">>), y.got, y.from)
    <2>1. Agrees(disk[path], y.catalog, ~Has(y.todo, <<"catalog">>), y.got)
      BY <1>1, <1>3, EmptyIsTyped DEF Agrees
    <2>2. SnapAt(Len(history), stamp, y.catalog, ~Has(y.todo, <<"catalog">>), y.got)
      BY <1>2, <1>4, <2>1 DEF SnapAt
    <2>3. y.from \in 1 .. Len(history)
      BY <1>1 DEF Moved
    <2> QED
      BY <1>4, <2>2, <2>3 DEF Snap
  <1>6. DOMAIN y.prints = {}
    BY EmptyIsTyped
  <1>7. Open_(y)
    <2> HIDE DEF stamp
    <2>1. y.kind = x.kind /\ y.format = x.format /\ y.pc = x.pc
      BY DEF Moved
    <2>2. y.kind = "library" \/ y.pc = "detect" => y.format = "vcd"
      BY <1>1, <2>1 DEF Open_
    <2> QED
      BY <1>1, <1>2, <1>3, <1>5, <1>6, <2>1, <2>2 DEF Open_
  <1>8. Certain(y, g)
    <2>1. y.pc \in {"detect", "open"} /\ y.format = x.format /\ y.kind = x.kind
      BY DEF Moved
    <2> QED
      BY <1>3, <2>1 DEF Certain
  <1> QED
    BY <1>1, <1>7, <1>8

LEMMA OpenCatalog ==
    ASSUME World, NEW g, NEW x, ReqOk(x, g), x.pc \in {"detect", "open"}, x.todo # <<>>,
           NEW y, Moved(x, y), y.got = x.got, y.read = x.read,
           Head(x.todo) = <<"catalog">>, disk[x.fd].format = x.format,
           y.fd = x.fd, y.prints = x.prints, y.stat = x.stat, y.catalog = disk[x.fd].head
    PROVE  ReqOk(y, g) /\ (Certain(x, g) => Certain(y, g))
  <1> DEFINE prints == PrintSet(x.format, x.kind = "library")
             stamp == StampOf(x.format, x.stat)
  <1>1. /\ \A op : Has(x.todo, op) <=> Head(x.todo) = op \/ Has(y.todo, op)
        /\ OpenShape(y.todo, prints) /\ ~Has(y.todo, <<"create">>)
        /\ y.got = <<>> /\ x.from \in 1 .. Len(history) /\ x.format \in Formats
        /\ Open_(x) /\ (Open_(y) => ReqOk(y, g))
    BY OpenBase
  <1>2. <<"catalog">> # <<"create">> /\ \A p : <<"catalog">> # Load(p)
    BY OpsDiffer
  <1>3. ~Has(x.todo, <<"create">>) /\ Has(x.todo, <<"catalog">>)
    BY <1>1, <1>2
  <1>4. /\ stamp \in Values /\ stamp[2] < Len(history) /\ x.stat = StatOf(x.format, stamp)
        /\ x.fd = stamp[1] /\ (path = x.fd \/ Len(history) > x.from)
        /\ \A p \in prints : p \in DOMAIN x.prints \/ Has(x.todo, Load(p))
        /\ DOMAIN x.prints \subseteq prints
        /\ x.format = "vcd" =>
               Snap(stamp, x.catalog, ~Has(x.todo, <<"catalog">>), x.got, x.from)
        /\ "header" \notin DOMAIN x.prints
        /\ "full" \in DOMAIN x.prints =>
               /\ DOMAIN x.prints["full"] = Blocks
               /\ \A block \in Blocks : x.prints["full"][block][2] < Len(history)
    BY <1>1, <1>3 DEF Open_
  <1>5. x.fd \in Inodes /\ disk[x.fd].head \in Values
    <2>1. x.fd \in Inodes
      BY <1>4 DEF Values
    <2> QED
      BY <2>1, FileFacts DEF Blocks
  <1>6. x.format = "vcd" =>
            Snap(stamp, y.catalog, ~Has(y.todo, <<"catalog">>), y.got, x.from)
    <2>1. CASE x.format = "vcd"
      <3>1. PICK k \in x.from .. Len(history) :
                SnapAt(k, stamp, x.catalog, ~Has(x.todo, <<"catalog">>), x.got)
        BY <1>4, <2>1 DEF Snap
      <3>2. \A known : Agrees(disk[stamp[1]], y.catalog, known, y.got)
        BY <1>1, <1>4, EmptyIsTyped DEF Agrees
      <3>3. SnapAt(k, stamp, y.catalog, ~Has(y.todo, <<"catalog">>), y.got)
        BY <3>1, <3>2 DEF SnapAt
      <3> QED
        BY <3>3 DEF Snap
    <2> QED
      BY <2>1
  <1>7. Open_(y)
    <2>1. y.kind = x.kind /\ y.format = x.format /\ y.pc = x.pc /\ y.from = x.from
      BY DEF Moved
    <2>2. y.kind = "library" \/ y.pc = "detect" => y.format = "vcd"
      BY <1>1, <2>1 DEF Open_
    <2>3. \A p \in prints : p \in DOMAIN y.prints \/ Has(y.todo, Load(p))
      BY <1>1, <1>2, <1>4
    <2> HIDE DEF stamp
    <2>4. stamp = StampOf(y.format, y.stat)
      BY <2>1 DEF stamp
    <2> QED
      BY <1>1, <1>4, <1>5, <1>6, <2>1, <2>2, <2>3, <2>4 DEF Open_
  <1>8. Certain(x, g) => Certain(y, g)
    <2>1. y.pc = x.pc /\ y.format = x.format /\ y.kind = x.kind
      BY DEF Moved
    <2>2. \A p \in prints : Has(x.todo, Load(p)) <=> Has(y.todo, Load(p))
      BY <1>1, <1>2
    <2> QED
      BY <1>3, <2>1, <2>2 DEF Certain
  <1> QED
    BY <1>1, <1>7, <1>8

LEMMA OpenLoad ==
    ASSUME World, NEW g, NEW x, ReqOk(x, g), x.pc \in {"detect", "open"}, x.todo # <<>>,
           NEW y, Moved(x, y), y.got = x.got, y.read = x.read,
           NEW print \in PrintSet(x.format, x.kind = "library"), Head(x.todo) = Load(print),
           y.fd = x.fd, y.stat = x.stat, y.catalog = x.catalog,
           DOMAIN y.prints = DOMAIN x.prints \cup {print},
           \A p \in DOMAIN x.prints \ {print} : y.prints[p] = x.prints[p],
           y.prints[print] = IF print = "header" THEN HeaderOf(x.catalog)
                                                 ELSE Region(x.fd, print)
    PROVE  ReqOk(y, g) /\ (Certain(x, g) => Certain(y, g))
  <1> DEFINE prints == PrintSet(x.format, x.kind = "library")
             stamp == StampOf(x.format, x.stat)
  <1>1. /\ \A op : Has(x.todo, op) <=> Head(x.todo) = op \/ Has(y.todo, op)
        /\ OpenShape(y.todo, prints) /\ ~Has(y.todo, <<"create">>)
        /\ y.got = <<>> /\ x.from \in 1 .. Len(history) /\ x.format \in Formats
        /\ Open_(x) /\ (Open_(y) => ReqOk(y, g))
    BY OpenBase
  <1>2. print = "header" => ~Has(x.todo, <<"catalog">>)
    BY OpenBase
  <1>3. /\ \A name : <<name>> # Load(print)
        /\ \A p \in prints : p # print => Load(p) # Load(print)
    BY OpsDiffer
  <1>4. /\ ~Has(x.todo, <<"create">>)
        /\ Has(x.todo, <<"catalog">>) <=> Has(y.todo, <<"catalog">>)
        /\ \A p \in prints : p # print => (Has(x.todo, Load(p)) <=> Has(y.todo, Load(p)))
    BY <1>1, <1>3
  <1>5. /\ stamp \in Values /\ stamp[2] < Len(history) /\ x.stat = StatOf(x.format, stamp)
        /\ x.fd = stamp[1] /\ (path = x.fd \/ Len(history) > x.from)
        /\ \A p \in prints : p \in DOMAIN x.prints \/ Has(x.todo, Load(p))
        /\ DOMAIN x.prints \subseteq prints
        /\ x.format = "vcd" =>
               Snap(stamp, x.catalog, ~Has(x.todo, <<"catalog">>), x.got, x.from)
        /\ ~Has(x.todo, <<"catalog">>) =>
               /\ x.catalog \in Values /\ disk[x.fd].format = x.format
               /\ x.format = "fst" /\ NoSilent(0) /\ disk[x.fd].stamp = stamp =>
                      disk[x.fd].head = x.catalog
        /\ "header" \in DOMAIN x.prints =>
               ~Has(x.todo, <<"catalog">>) /\ x.prints["header"] = HeaderOf(x.catalog)
        /\ "full" \in DOMAIN x.prints =>
               /\ DOMAIN x.prints["full"] = Blocks
               /\ \A block \in Blocks : x.prints["full"][block][2] < Len(history)
    BY <1>1, <1>4 DEF Open_
  <1>6. x.fd \in Inodes
    BY <1>5 DEF Values
  <1>7. x.format = "vcd" =>
            Snap(stamp, y.catalog, ~Has(y.todo, <<"catalog">>), y.got, x.from)
    <2>1. PICK known : known = ~Has(x.todo, <<"catalog">>)
      OBVIOUS
    <2>2. known = ~Has(y.todo, <<"catalog">>)
      BY <1>4, <2>1
    <2>3. x.format = "vcd" => Snap(stamp, x.catalog, known, x.got, x.from)
      BY <1>5, <2>1
    <2>4. x.format = "vcd" => Snap(stamp, y.catalog, known, y.got, x.from)
      BY <2>3
    <2> QED
      BY <2>2, <2>4
  <1>8. "header" \in DOMAIN y.prints =>
            ~Has(y.todo, <<"catalog">>) /\ y.prints["header"] = HeaderOf(y.catalog)
    BY <1>2, <1>4, <1>5
  <1>9. "full" \in DOMAIN y.prints =>
            /\ DOMAIN y.prints["full"] = Blocks
            /\ \A block \in Blocks : y.prints["full"][block][2] < Len(history)
    <2>1. CASE print = "full"
      <3>1. /\ DOMAIN Region(x.fd, "full") = Blocks
            /\ \A b \in Blocks : Region(x.fd, "full")[b] = disk[x.fd][b]
        BY <1>6, RegionFacts DEF PrintNames
      <3>2. \A b \in Blocks : disk[x.fd][b][2] < Len(history)
        BY <1>6, FileFacts
      <3> QED
        BY <2>1, <3>1, <3>2
    <2>2. CASE print # "full"
      BY <1>5, <2>2
    <2> QED
      BY <2>1, <2>2
  <1>10. Open_(y)
    <2>1. y.kind = x.kind /\ y.format = x.format /\ y.pc = x.pc /\ y.from = x.from
      BY DEF Moved
    <2>2. y.kind = "library" \/ y.pc = "detect" => y.format = "vcd"
      BY <1>1, <2>1 DEF Open_
    <2>3. \A p \in prints : p \in DOMAIN y.prints \/ Has(y.todo, Load(p))
      BY <1>4, <1>5
    <2>4. stamp = StampOf(y.format, y.stat) /\ prints = PrintSet(y.format, y.kind = "library")
          /\ DOMAIN y.prints \subseteq prints
      BY <1>5, <2>1
    <2>5. ~Has(y.todo, <<"catalog">>) =>
               /\ y.catalog \in Values /\ disk[y.fd].format = y.format
               /\ y.format = "fst" /\ NoSilent(0) /\ disk[y.fd].stamp = stamp =>
                      disk[y.fd].head = y.catalog
      BY <1>4, <1>5, <2>1
    <2>6. stamp \in Values /\ stamp[2] < Len(history) /\ y.stat = StatOf(y.format, stamp)
          /\ y.fd = stamp[1] /\ (path = y.fd \/ Len(history) > y.from)
      BY <1>5, <2>1
    <2> HIDE DEF stamp, prints
    <2> QED
      BY <1>1, <1>7, <1>8, <1>9, <2>1, <2>2, <2>3, <2>4, <2>5, <2>6 DEF Open_
  <1>11. ASSUME Certain(x, g) PROVE Certain(y, g)
    <2>1. y.pc = x.pc /\ y.format = x.format /\ y.kind = x.kind
      BY DEF Moved
    <2>2. /\ path = x.fd /\ Stat(x.format, path) = x.stat
          /\ Has(x.todo, <<"catalog">>) \/ x.catalog = disk[path].head
          /\ \A p \in prints : Has(x.todo, Load(p)) \/ Region(path, p) = x.prints[p]
      BY <1>4, <1>11 DEF Certain
    <2>3. ASSUME NEW p \in prints PROVE Has(y.todo, Load(p)) \/ Region(path, p) = y.prints[p]
      <3>1. CASE p # print
        <4>1. p \in DOMAIN x.prints \/ Has(x.todo, Load(p))
          BY <1>5
        <4>2. Has(x.todo, Load(p)) \/ Region(path, p) = x.prints[p]
          BY <2>2
        <4> QED
          BY <1>4, <3>1, <4>1, <4>2
      <3>2. CASE p = print /\ print # "header"
        BY <2>2, <3>2
      <3>3. CASE p = print /\ print = "header"
        <4>1. x.catalog = disk[path].head
          BY <1>2, <2>2, <3>3
        <4>2. Region(path, "header") = HeaderOf(disk[path].head)
          BY <1>6, <2>2, RegionFacts DEF PrintNames
        <4> QED
          BY <3>3, <4>1, <4>2
      <3> QED
        BY <3>1, <3>2, <3>3
    <2> QED
      BY <1>4, <2>1, <2>2, <2>3 DEF Certain
  <1> QED
    BY <1>1, <1>10, <1>11

LEMMA OpenOther ==
    ASSUME World, NEW g, NEW x, ReqOk(x, g), x.pc \in {"detect", "open"}, x.todo # <<>>,
           NEW y, Moved(x, y), y.got = x.got, y.read = x.read,
           Head(x.todo) \in {<<"same">>, <<"canonicalize">>},
           y.fd = x.fd, y.stat = x.stat, y.catalog = x.catalog, y.prints = x.prints
    PROVE  ReqOk(y, g) /\ (Certain(x, g) => Certain(y, g))
  <1> DEFINE prints == PrintSet(x.format, x.kind = "library")
  <1>1. /\ \A op : Has(x.todo, op) <=> Head(x.todo) = op \/ Has(y.todo, op)
        /\ OpenShape(y.todo, prints) /\ ~Has(y.todo, <<"create">>)
        /\ Open_(x) /\ (Open_(y) => ReqOk(y, g))
    BY OpenBase
  <1>2. /\ <<"same">> # <<"create">> /\ <<"same">> # <<"catalog">>
        /\ <<"canonicalize">> # <<"create">> /\ <<"canonicalize">> # <<"catalog">>
        /\ \A p : <<"same">> # Load(p) /\ <<"canonicalize">> # Load(p)
    BY OpsDiffer
  <1>3. /\ Has(x.todo, <<"create">>) <=> Has(y.todo, <<"create">>)
        /\ Has(x.todo, <<"catalog">>) <=> Has(y.todo, <<"catalog">>)
        /\ \A p : Has(x.todo, Load(p)) <=> Has(y.todo, Load(p))
    BY <1>1, <1>2
  <1>4. y.kind = x.kind /\ y.format = x.format /\ y.pc = x.pc /\ y.from = x.from
    BY DEF Moved
  <1>5. x.format = "vcd" /\ ~Has(x.todo, <<"create">>) =>
            Snap(StampOf(y.format, y.stat), y.catalog, ~Has(y.todo, <<"catalog">>), y.got, y.from)
    <2>1. PICK known : known = ~Has(x.todo, <<"catalog">>)
      OBVIOUS
    <2>2. known = ~Has(y.todo, <<"catalog">>)
      BY <1>3, <2>1
    <2>3. x.format = "vcd" /\ ~Has(x.todo, <<"create">>) =>
              Snap(StampOf(y.format, y.stat), y.catalog, known, y.got, y.from)
      BY <1>1, <1>4, <2>1 DEF Open_
    <2> QED
      BY <2>2, <2>3
  <1>6. Open_(y)
    <2>1. prints = PrintSet(y.format, y.kind = "library")
          /\ StampOf(y.format, y.stat) = StampOf(x.format, x.stat)
      BY <1>4
    <2>2. PICK stamp : stamp = StampOf(x.format, x.stat)
      OBVIOUS
    <2> HIDE DEF prints
    <2>3. ~Has(y.todo, <<"create">>) =>
           /\ stamp \in Values /\ stamp[2] < Len(history) /\ y.stat = StatOf(y.format, stamp)
           /\ y.fd = stamp[1] /\ (path = y.fd \/ Len(history) > y.from)
           /\ \A p \in prints : p \in DOMAIN y.prints \/ Has(y.todo, Load(p))
           /\ DOMAIN y.prints \subseteq prints
           /\ ~Has(y.todo, <<"catalog">>) =>
                  /\ y.catalog \in Values /\ disk[y.fd].format = y.format
                  /\ y.format = "fst" /\ NoSilent(0) /\ disk[y.fd].stamp = stamp =>
                         disk[y.fd].head = y.catalog
      BY <1>1, <1>3, <1>4, <2>1, <2>2 DEF Open_, prints
    <2>4. ~Has(x.todo, <<"create">>)
      BY <1>1, <1>3
    <2>5. /\ "header" \in DOMAIN y.prints /\ ~Has(y.todo, <<"create">>) =>
                 /\ ~Has(y.todo, <<"catalog">>)
                 /\ y.prints["header"] = HeaderOf(y.catalog)
          /\ "full" \in DOMAIN y.prints /\ ~Has(y.todo, <<"create">>) =>
                 /\ DOMAIN y.prints["full"] = Blocks
                 /\ \A block \in Blocks : y.prints["full"][block][2] < Len(history)
      BY <1>1, <1>3, <2>4 DEF Open_
    <2>6. y.got = <<>> /\ (y.kind = "library" \/ y.pc = "detect" => y.format = "vcd")
      BY <1>1, <1>4 DEF Open_
    <2> QED
      BY <1>1, <1>4, <1>5, <2>1, <2>2, <2>3, <2>4, <2>5, <2>6 DEF Open_
  <1>7. Certain(x, g) => Certain(y, g)
    BY <1>3, <1>4 DEF Certain
  <1> QED
    BY <1>1, <1>6, <1>7

\* A step of a request that runs.
LEMMA RunBase ==
    ASSUME World, NEW g, GenOk(g), NEW x, ReqOk(x, g), x.pc = "run", x.todo # <<>>,
           NEW y, Moved(x, y)
    PROVE  /\ \A op : Has(x.todo, op) <=> Head(x.todo) = op \/ Has(y.todo, op)
           /\ RunShape(y.todo, y.kind, g) /\ Run_(x, g) /\ Running(x, g)
           /\ x \in RequestType /\ DOMAIN x.got \subseteq Blocks
           /\ x.from \in 1 .. Len(history) /\ x.read \in x.from .. Len(history)
           /\ Head(x.todo) \in Reads => Has(y.todo, <<"admit">>)
           /\ Head(x.todo) = <<"admit">> /\ g.strict => Has(y.todo, Hash("full"))
           /\ Has(y.todo, Hash("header")) /\ g.strict => Has(y.todo, Hash("full"))
           /\ Has(x.todo, <<"open">>) => g.format = "fst"
           /\ Run_(y, g) /\ Running(y, g) /\ y.read \in x.from .. Len(history) => ReqOk(y, g)
           /\ y.fd \in {x.fd, path} /\ Certain(x, g) => Certain(y, g)
  <1>1. /\ x \in RequestType /\ x.todo \in Seq(Ops) /\ Run_(x, g) /\ Running(x, g)
        /\ x.from \in 1 .. Len(history) /\ x.read \in x.from .. Len(history)
        /\ RunShape(x.todo, x.kind, g)
    BY DEF ReqOk, Running, RequestType
  <1>2. \A op : Has(x.todo, op) <=> Head(x.todo) = op \/ Has(y.todo, op)
    BY <1>1, TailHas DEF Moved
  <1>3. DOMAIN x.got \subseteq Blocks
    BY <1>1, RegionDomain DEF RequestType
  <1>4. y.todo = Tail(x.todo) /\ y.kind = x.kind /\ y.pc = "run" /\ y.from = x.from
        /\ y \in RequestType
    BY DEF Moved
  <1>5. /\ Followed(y.todo, Reads, <<"admit">>)
        /\ Head(x.todo) \in Reads => Has(y.todo, <<"admit">>)
    BY <1>1, <1>4, TailFollowed DEF RunShape
  <1>6. ASSUME g.strict
        PROVE  /\ Followed(y.todo, Ends, Hash("full"))
               /\ Head(x.todo) = <<"admit">> => Has(y.todo, Hash("full"))
    <2>1. Followed(x.todo, Ends, Hash("full"))
      BY <1>1, <1>6 DEF RunShape, Ends
    <2> QED
      BY <1>1, <1>4, <2>1, TailFollowed DEF Ends
  <1>7. ASSUME g.strict, Has(y.todo, Hash("header")) PROVE Has(y.todo, Hash("full"))
    BY <1>6, <1>7 DEF Followed, Has, Ends
  <1>8. RunShape(y.todo, y.kind, g)
    <2>1. Only(y.todo, {<<"admit">>, <<"stat">>, <<"open">>, <<"store">>}
                       \cup Hashes(Prints_(g)) \cup Reads)
      BY <1>1, <1>4, TailOnly DEF RunShape
    <2>2. /\ Has(y.todo, <<"open">>) => g.format = "fst"
          /\ Has(y.todo, <<"store">>) => g.format = "vcd" /\ y.kind = "metadata"
      BY <1>1, <1>2, <1>4 DEF RunShape
    <2> QED
      BY <1>5, <1>6, <2>1, <2>2 DEF RunShape, Ends
  <1>9. Has(x.todo, <<"open">>) => g.format = "fst"
    BY <1>1 DEF RunShape
  <1>10. Run_(y, g) /\ Running(y, g) /\ y.read \in x.from .. Len(history) => ReqOk(y, g)
    <2>1. y.kind # "library" => ~g.strict
      BY <1>4 DEF ReqOk
    <2> QED
      BY <1>1, <1>4, <2>1 DEF ReqOk
  <1>11. y.fd \in {x.fd, path} /\ Certain(x, g) => Certain(y, g)
    BY <1>4 DEF Certain
  <1> QED
    BY <1>1, <1>2, <1>3, <1>5, <1>6, <1>7, <1>8, <1>9, <1>10, <1>11

\* What is known of what was read does not depend on the rest of the program.
LEMMA SameRun ==
    ASSUME NEW g, NEW x, NEW y, Run_(x, g),
           y.fd = x.fd, y.from = x.from, y.got = x.got
    PROVE  Run_(y, g)
  <1>1. OnOwner(y, g) /\ PathKnown(y, g)
    BY DEF Run_, OnOwner, PathKnown
  <1>2. \A f, print : Recalls(f, print, y) <=> Recalls(f, print, x)
    BY DEF Recalls
  <1> QED
    BY <1>1, <1>2 DEF Run_

LEMMA SameClaims ==
    ASSUME NEW g, NEW x, NEW y, y.from = x.from, y.got = x.got, y.read = x.read
    PROVE  /\ ClaimSilent(x, g) => ClaimSilent(y, g)
           /\ ClaimStrict(x, g) => ClaimStrict(y, g)
           /\ ClaimFst(x, g) => ClaimFst(y, g)
           /\ Recent(x, g) => Recent(y, g)
  <1>1. \A since : Answers(y, g, since) <=> Answers(x, g, since)
    BY DEF Answers
  <1> QED
    BY <1>1 DEF ClaimSilent, ClaimStrict, ClaimFst, Recent

LEMMA RunCheck ==
    ASSUME World, NEW g, GenOk(g), NEW x, ReqOk(x, g), x.pc = "run", x.todo # <<>>,
           NEW y, Moved(x, y), y.fd = x.fd, y.got = x.got, y.read = x.read,
           Head(x.todo) # <<"admit">>,
           \A p \in Prints_(g) : Head(x.todo) = Hash(p) => Region(x.fd, p) = g.prints[p]
    PROVE  ReqOk(y, g) /\ (Certain(x, g) => Certain(y, g))
  <1> DEFINE u == Head(x.todo)
             i == Owner(g)
  <1>1. /\ \A op : Has(x.todo, op) <=> u = op \/ Has(y.todo, op)
        /\ RunShape(y.todo, y.kind, g) /\ Run_(x, g) /\ Running(x, g)
        /\ DOMAIN x.got \subseteq Blocks
        /\ x.from \in 1 .. Len(history) /\ x.read \in x.from .. Len(history)
        /\ Has(y.todo, Hash("header")) /\ g.strict => Has(y.todo, Hash("full"))
    BY RunBase
  <1>2. y.from = x.from
    BY DEF Moved
  <1>3. Run_(y, g)
    BY <1>1, <1>2, SameRun
  <1>4. Has(x.todo, <<"admit">>) <=> Has(y.todo, <<"admit">>)
    BY <1>1
  <1>5. /\ i \in Inodes
        /\ g.strict => /\ g.format = "vcd" /\ x.fd = i
                       /\ "header" \in Prints_(g) /\ "full" \in Prints_(g)
                       /\ g.prints["header"] = HeaderOf(g.catalog)
                       /\ DOMAIN g.prints["full"] = Blocks
    BY <1>1, OwnerIsFile DEF GenOk, Run_, OnOwner, Prints_, PrintSet, PrintNames
  <1>6. ASSUME g.strict, NoneRestored(x.from)
        PROVE  Has(y.todo, Hash("header")) \/ RecallsHead(disk[i], g)
    <2>1. CASE u # Hash("header")
      BY <1>1, <1>6, <2>1 DEF Running
    <2>2. CASE u = Hash("header")
      <3>1. HeaderOf(disk[i].head) = HeaderOf(g.catalog)
        BY <1>5, <1>6, <2>2, RegionFacts DEF PrintNames
      <3>2. \A c : HeaderOf(c)["head"] = c
        BY DEF HeaderOf
      <3>3. disk[i].head = g.catalog
        BY <3>1, <3>2
      <3> QED
        BY <3>3 DEF RecallsHead
    <2> QED
      BY <2>1, <2>2
  <1>7. /\ ~Has(y.todo, <<"admit">>) /\ g.format = "vcd" => ClaimSilent(y, g)
        /\ ~Has(y.todo, <<"admit">>) /\ g.strict => Recent(y, g)
        /\ ~Has(y.todo, <<"admit">>) /\ g.format = "fst" => ClaimFst(y, g)
    BY <1>1, <1>2, <1>4, SameClaims DEF Running
  <1>8. ASSUME g.strict, ~Has(y.todo, <<"admit">>), ~Has(y.todo, Hash("full"))
        PROVE  ClaimStrict(y, g)
    <2>1. CASE u # Hash("full")
      <3>1. ClaimStrict(x, g)
        BY <1>1, <1>4, <1>8, <2>1 DEF Running
      <3> QED
        BY <1>2, <3>1, SameClaims
    <2>2. CASE u = Hash("full")
      <3> SUFFICES ASSUME NoneRestored(x.from) PROVE Answers(y, g, y.read)
        BY <1>2 DEF ClaimStrict
      <3>1. Region(i, "full") = g.prints["full"]
        BY <1>5, <1>8, <2>2
      <3>2. \A b \in Blocks : disk[i][b] = g.prints["full"][b]
        BY <1>5, <3>1, RegionFacts DEF PrintNames
      <3>3. Recent(x, g)
        BY <1>1, <1>4, <1>8 DEF Running
      <3>4. PICK k \in x.read .. Len(history) :
                /\ history[k].now # None
                /\ \A b \in Blocks : history[k].now[b] = g.prints["full"][b]
        BY <3>2, <3>3 DEF Recent
      <3>5. ~Has(y.todo, Hash("header"))
        BY <1>1, <1>8
      <3>6. RecallsHead(disk[i], g)
        BY <1>6, <1>8, <3>5
      <3>7. g.catalog = disk[i].head
        <4>1. disk[i]["head"] = g.prints["full"]["head"]
          BY <3>2 DEF Blocks
        <4> QED
          BY <3>6, <4>1 DEF RecallsHead
      <3>8. \A b \in DOMAIN x.got : x.got[b] = g.prints["full"][b]
        <4>1. Recalls(disk[i], g.prints["full"], x)
          BY <1>1, <1>8 DEF Run_
        <4> QED
          BY <1>1, <3>2, <4>1 DEF Recalls
      <3>9. history[k].now.head = g.catalog
        <4>1. history[k].now["head"] = g.prints["full"]["head"]
              /\ disk[i]["head"] = g.prints["full"]["head"]
          BY <3>2, <3>4 DEF Blocks
        <4> QED
          BY <3>7, <4>1
      <3>10. Agrees(history[k].now, g.catalog, TRUE, y.got)
        BY <1>1, <3>4, <3>8, <3>9 DEF Agrees
      <3> QED
        BY <3>4, <3>10 DEF Answers
    <2> QED
      BY <2>1, <2>2
  <1>9. Running(y, g)
    BY <1>1, <1>2, <1>6, <1>7, <1>8 DEF Running
  <1>10. y.read \in x.from .. Len(history)
    BY <1>1
  <1> QED
    BY <1>3, <1>9, <1>10, RunBase

\* A path that tells the metadata of the generation leads to its file.
LEMMA PathIsOwner ==
    ASSUME World, NEW g, GenOk(g), path \in Inodes, Stat(g.format, path) = g.stat
    PROVE  /\ path = Owner(g) /\ disk[path].stamp = Stamp(g)
           /\ Len(history) \in Nat \ {0} /\ history[Len(history)].now = disk[path]
           /\ disk[path] # None
  <1>1. /\ Stamp(g) \in Values /\ Stamp(g)[1] = Owner(g) /\ g.format \in Formats
        /\ g.stat = StatOf(g.format, Stamp(g))
    BY OwnerIsFile DEF Checkable
  <1>2. /\ disk[path].stamp \in Values /\ disk[path].stamp[1] = path
        /\ Stat(g.format, path) = StatOf(g.format, disk[path].stamp)
    BY FileFacts
  <1>3. disk[path].stamp = Stamp(g)
    BY <1>1, <1>2, StatFacts
  <1> QED
    BY <1>1, <1>2, <1>3, HistoryFacts

LEMMA RunAdmit ==
    ASSUME World, NEW g, GenOk(g), NEW x, ReqOk(x, g), x.pc = "run", x.todo # <<>>,
           NEW y, Moved(x, y), y.got = x.got, y.read = x.read,
           Head(x.todo) = <<"admit">>, y.fd = path, path \in Inodes,
           Stat(g.format, path) = g.stat
    PROVE  ReqOk(y, g) /\ (Certain(x, g) => Certain(y, g))
  <1> DEFINE n == Len(history)
             f == disk[path]
  <1>1. /\ \A op : Has(x.todo, op) <=> Head(x.todo) = op \/ Has(y.todo, op)
        /\ RunShape(y.todo, y.kind, g) /\ Run_(x, g) /\ Running(x, g)
        /\ DOMAIN x.got \subseteq Blocks
        /\ x.from \in 1 .. n /\ x.read \in x.from .. n
        /\ g.strict => Has(y.todo, Hash("full"))
    BY RunBase
  <1>2. y.from = x.from
    BY DEF Moved
  <1>3. /\ path = Owner(g) /\ f.stamp = Stamp(g) /\ n \in Nat \ {0}
        /\ history[n].now = f /\ f # None
    BY PathIsOwner
  <1>4. Run_(y, g)
    <2>1. OnOwner(y, g) /\ PathKnown(y, g)
      BY <1>3 DEF OnOwner, PathKnown
    <2>2. g.format = "vcd" => Snap(Stamp(g), g.catalog, TRUE, y.got, y.from)
      BY <1>1, <1>2 DEF Run_
    <2>3. ASSUME g.format = "fst", n <= x.from + 1, NoSilent(0)
          PROVE  \A block \in DOMAIN y.got : disk[y.fd][block] = y.got[block]
      <3>1. x.fd = Owner(g)
        BY <1>1, <1>3, <2>3 DEF Run_, OnOwner
      <3> QED
        BY <1>1, <1>3, <2>3, <3>1 DEF Run_
    <2>4. g.strict /\ NoneRestored(y.from) => Recalls(disk[Owner(g)], g.prints["full"], y)
      BY <1>1, <1>2 DEF Run_, Recalls
    <2> QED
      BY <1>2, <2>1, <2>2, <2>3, <2>4 DEF Run_
  <1>5. ASSUME NEW since \in {x.from, x.read}, Agrees(f, g.catalog, TRUE, y.got)
        PROVE  Answers(y, g, since)
    <2>1. n \in since .. n
      BY <1>1, <1>3
    <2>2. history[n].now # None /\ Agrees(history[n].now, g.catalog, TRUE, y.got)
      BY <1>3, <1>5
    <2> QED
      BY <2>1, <2>2 DEF Answers
  <1>6. ASSUME g.format = "vcd" PROVE ClaimSilent(y, g)
    <2>1. PICK k \in x.from .. n : SnapAt(k, Stamp(g), g.catalog, TRUE, x.got)
      BY <1>1, <1>6 DEF Run_, Snap
    <2> DEFINE h == history[k].now
    <2>2. /\ h # None /\ h.stamp = Stamp(g) /\ Stamp(g)[1] = path
          /\ OneSilent(k) => Agrees(h, g.catalog, TRUE, x.got) \/ Agrees(f, g.catalog, TRUE, x.got)
      BY <1>3, <2>1 DEF SnapAt, Owner
    <2>3. k \in DOMAIN history /\ Linked(h, k)
      BY <1>1, <2>1, <2>2, HistoryFacts DEF World
    <2>4. ASSUME NoSilent(x.from) PROVE Answers(y, g, x.read)
      <3>1. NoSilent(k) /\ OneSilent(k)
        BY <1>1, <2>1, <2>4 DEF NoSilent, OneSilent
      <3>2. SameBlocks(f, h)
        BY <1>3, <2>2, <2>3, <3>1 DEF Linked
      <3>3. f.head = h.head
        <4>1. f["head"] = h["head"]
          BY <3>2 DEF SameBlocks, Blocks
        <4> QED
          BY <4>1
      <3>4. Agrees(f, g.catalog, TRUE, y.got)
        BY <1>1, <2>2, <3>1, <3>2, <3>3 DEF SameBlocks, Agrees
      <3> QED
        BY <1>5, <3>4
    <2>5. ASSUME OneSilent(x.from) PROVE Answers(y, g, x.from)
      <3>1. OneSilent(k)
        BY <1>1, <2>1, <2>5 DEF OneSilent
      <3>2. CASE Agrees(f, g.catalog, TRUE, x.got)
        BY <1>5, <3>2
      <3>3. CASE Agrees(h, g.catalog, TRUE, x.got)
        BY <2>1, <2>2, <3>3 DEF Answers
      <3> QED
        BY <2>2, <3>1, <3>2, <3>3
    <2> QED
      BY <1>2, <2>4, <2>5 DEF ClaimSilent
  <1>7. Recent(y, g)
    BY <1>1, <1>3 DEF Recent
  <1>8. ASSUME g.format = "fst" PROVE ClaimFst(y, g)
    <2> SUFFICES ASSUME n <= x.from + 1, NoSilent(0) PROVE Answers(y, g, y.read)
      BY <1>2 DEF ClaimFst
    <2>1. f.head = g.catalog
      BY <1>3, <1>8 DEF GenOk
    <2>2. \A block \in DOMAIN y.got : f[block] = y.got[block]
      BY <1>2, <1>3, <1>4, <1>8 DEF Run_
    <2>3. Agrees(f, g.catalog, TRUE, y.got)
      BY <2>1, <2>2 DEF Agrees
    <2> QED
      BY <1>5, <2>3
  <1>9. Running(y, g)
    <2>1. <<"admit">> # Hash("header")
      BY OpsDiffer
    <2>2. g.strict /\ NoneRestored(y.from) =>
              Has(y.todo, Hash("header")) \/ RecallsHead(disk[Owner(g)], g)
      BY <1>1, <1>2, <2>1 DEF Running
    <2> QED
      BY <1>1, <1>6, <1>7, <1>8, <2>2 DEF Running
  <1>10. y.read \in x.from .. n /\ (Certain(x, g) => Certain(y, g))
    BY <1>1, RunBase
  <1> QED
    BY <1>4, <1>9, <1>10, RunBase

LEMMA RunRead ==
    ASSUME World, NEW g, GenOk(g), NEW x, ReqOk(x, g), x.pc = "run", x.todo # <<>>,
           NEW block \in {"a", "b", "tail"}, Head(x.todo) = Read(block),
           NEW y, Moved(x, y), y.fd = x.fd, y.read = Len(history),
           DOMAIN y.got = DOMAIN x.got \cup {block}, y.got[block] = disk[x.fd][block],
           \A b \in DOMAIN x.got \ {block} : y.got[b] = x.got[b]
    PROVE  ReqOk(y, g) /\ (Certain(x, g) => Certain(y, g))
  <1> DEFINE n == Len(history)
             f == disk[x.fd]
  <1>1. /\ \A op : Has(x.todo, op) <=> Head(x.todo) = op \/ Has(y.todo, op)
        /\ RunShape(y.todo, y.kind, g) /\ Run_(x, g) /\ Running(x, g)
        /\ DOMAIN x.got \subseteq Blocks
        /\ x.from \in 1 .. n /\ x.read \in x.from .. n
        /\ Head(x.todo) \in Reads => Has(y.todo, <<"admit">>)
    BY RunBase
  <1>2. y.from = x.from /\ Has(y.todo, <<"admit">>) /\ n \in Nat
    BY <1>1, HistoryFacts DEF Moved, Reads
  <1>3. Run_(y, g)
    <2>1. x.fd \in Inodes /\ OnOwner(y, g) /\ PathKnown(y, g)
          /\ (g.format = "vcd" => x.fd = Owner(g))
      BY <1>1, <1>2 DEF Run_, OnOwner, PathKnown
    <2>2. ASSUME g.format = "vcd" PROVE Snap(Stamp(g), g.catalog, TRUE, y.got, y.from)
      <3>1. PICK k \in x.from .. n : SnapAt(k, Stamp(g), g.catalog, TRUE, x.got)
        BY <1>1, <2>2 DEF Run_, Snap
      <3> DEFINE h == history[k].now
      <3>2. /\ h # None /\ h.stamp = Stamp(g) /\ Stamp(g)[1] = x.fd
            /\ OneSilent(k) /\ f.stamp = Stamp(g) =>
                   Agrees(h, g.catalog, TRUE, x.got) \/ Agrees(f, g.catalog, TRUE, x.got)
        BY <2>1, <2>2, <3>1 DEF SnapAt, Owner
      <3>3. k \in DOMAIN history /\ Linked(h, k)
        BY <1>1, <3>1, <3>2, HistoryFacts DEF World
      <3>4. ASSUME OneSilent(k), f.stamp = Stamp(g)
            PROVE  Agrees(h, g.catalog, TRUE, y.got) \/ Agrees(f, g.catalog, TRUE, y.got)
        <4>1. CASE Agrees(f, g.catalog, TRUE, x.got)
          BY <4>1 DEF Agrees
        <4>2. CASE Agrees(h, g.catalog, TRUE, x.got) /\ h[block] = f[block]
          BY <4>2 DEF Agrees
        <4>3. CASE Agrees(h, g.catalog, TRUE, x.got) /\ h[block] # f[block]
          <5>1. OneBlockApart(f, h)
            BY <3>2, <3>3, <3>4 DEF Linked
          <5>2. \A b \in Blocks \ {block} : f[b] = h[b]
            BY <4>3, <5>1 DEF OneBlockApart, Blocks
          <5>3. f["head"] = h["head"]
            BY <5>2 DEF Blocks
          <5>4. f.head = g.catalog
            BY <4>3, <5>3 DEF Agrees
          <5>5. \A b \in DOMAIN y.got : f[b] = y.got[b]
            BY <1>1, <4>3, <5>2 DEF Agrees
          <5> QED
            BY <5>4, <5>5 DEF Agrees
        <4> QED
          BY <3>2, <3>4, <4>1, <4>2, <4>3
      <3>5. SnapAt(k, Stamp(g), g.catalog, TRUE, y.got)
        BY <3>2, <3>4 DEF SnapAt
      <3> QED
        BY <1>2, <3>1, <3>5 DEF Snap
    <2>3. /\ g.format = "fst" /\ y.fd = Owner(g) /\ disk[y.fd].stamp = Stamp(g)
             /\ n <= y.from + 1 /\ NoSilent(0)
          => \A b \in DOMAIN y.got : disk[y.fd][b] = y.got[b]
      BY <1>1, <1>2 DEF Run_
    <2>4. ASSUME g.strict, NoneRestored(x.from)
          PROVE  Recalls(disk[Owner(g)], g.prints["full"], y)
      <3>1. Recalls(disk[Owner(g)], g.prints["full"], x) /\ x.fd = Owner(g)
        BY <1>1, <2>1, <2>4, OwnerIsFile DEF Run_, Checkable
      <3> QED
        BY <3>1 DEF Recalls
    <2> QED
      BY <1>2, <2>1, <2>2, <2>3, <2>4 DEF Run_
  <1>4. Running(y, g)
    <2>1. Read(block) # Hash("header")
      BY OpsDiffer
    <2>2. g.strict /\ NoneRestored(y.from) =>
              Has(y.todo, Hash("header")) \/ RecallsHead(disk[Owner(g)], g)
      BY <1>1, <1>2, <2>1 DEF Running
    <2> QED
      BY <1>1, <1>2, <2>2 DEF Running
  <1>5. y.read \in x.from .. n /\ (Certain(x, g) => Certain(y, g))
    BY <1>1, <1>2, RunBase
  <1> QED
    BY <1>3, <1>4, <1>5, RunBase

\* FstReader opens the path once more.
LEMMA RunOpen ==
    ASSUME World, NEW g, GenOk(g), NEW x, ReqOk(x, g), x.pc = "run", x.todo # <<>>,
           NEW y, Moved(x, y), y.got = x.got, y.read = x.read,
           Head(x.todo) = <<"open">>, y.fd = path, path \in Inodes
    PROVE  ReqOk(y, g) /\ (Certain(x, g) => Certain(y, g))
  <1> DEFINE n == Len(history)
  <1>1. /\ \A op : Has(x.todo, op) <=> Head(x.todo) = op \/ Has(y.todo, op)
        /\ RunShape(y.todo, y.kind, g) /\ Run_(x, g) /\ Running(x, g)
        /\ x.from \in 1 .. n /\ x.read \in x.from .. n
        /\ Has(x.todo, <<"open">>) => g.format = "fst"
    BY RunBase
  <1>2. y.from = x.from /\ g.format = "fst" /\ ~g.strict
    BY <1>1 DEF Moved, GenOk
  <1>3. Run_(y, g)
    <2>1. PathKnown(x, g) /\ OnOwner(x, g)
      BY <1>1 DEF Run_
    <2>2. OnOwner(y, g) /\ PathKnown(y, g)
      BY <1>2, <2>1 DEF OnOwner, PathKnown
    <2>3. ASSUME y.fd = Owner(g), disk[y.fd].stamp = Stamp(g), n <= x.from + 1, NoSilent(0)
          PROVE  \A block \in DOMAIN y.got : disk[y.fd][block] = y.got[block]
      <3>1. x.fd = Owner(g)
        BY <1>1, <2>1, <2>3, HistoryFacts DEF OnOwner
      <3> QED
        BY <1>1, <1>2, <2>3, <3>1 DEF Run_
    <2> QED
      BY <1>2, <2>2, <2>3 DEF Run_
  <1>4. Running(y, g)
    <2>1. <<"open">> # <<"admit">>
      BY OpsDiffer
    <2>2. Has(x.todo, <<"admit">>) <=> Has(y.todo, <<"admit">>)
      BY <1>1, <2>1
    <2>3. ~Has(y.todo, <<"admit">>) => ClaimFst(y, g)
      BY <1>1, <1>2, <2>2, SameClaims DEF Running
    <2> QED
      BY <1>1, <1>2, <2>3 DEF Running
  <1>5. y.read \in x.from .. n /\ (Certain(x, g) => Certain(y, g))
    BY <1>1, RunBase
  <1> QED
    BY <1>3, <1>4, <1>5, RunBase

(***************************************************************************)
(* The actions.                                                            *)
(***************************************************************************)
\* What a step leaves in the request besides its program.
Carries(y, c) ==
    /\ y.fd = c.fd /\ y.got = c.got /\ y.read = c.read
    /\ y.stat = c.stat /\ y.prints = c.prints /\ y.catalog = c.catalog

LEMMA AdvanceMoves ==
    ASSUME GInv, Quiet, NEW r \in Requests, NEW x, x = req[r], x.todo # <<>>,
           NEW c \in RequestType, Advance(r, c),
           c.todo = x.todo, c.pc = x.pc, c.kind = x.kind, c.gen = x.gen, c.from = x.from,
           c.format = x.format,
           \A y : Moved(x, y) /\ Carries(y, c) =>
               \A g \in {gens[x.gen]}, n \in {Count} :
                   ReqOk(y, g) /\ (Steady(x, n) => Certain(y, g))
    PROVE  GInv'
  <1> DEFINE y == [c EXCEPT !.todo = Tail(@)]
  <1>1. c.todo \in Seq(Ops) /\ Tail(c.todo) \in Seq(Ops)
    BY DEF RequestType
  <1>2. Moved(x, y) /\ Carries(y, c)
    BY <1>1 DEF Moved, Carries, RequestType
  <1>3. req' = [req EXCEPT ![r] = y] /\ UNCHANGED <<gens, slot, holder>>
    BY DEF Advance
  <1> HIDE DEF y
  <1> QED
    BY <1>2, <1>3, MoveStep

\* Nothing that a request compares differs while nothing has changed.
LEMMA SteadyFacts ==
    ASSUME GInv, NEW r \in Requests, NEW x, x = req[r], x.todo # <<>>,
           x.pc \in {"current", "run"},
           x.pc = "current" => Count = Len(history),
           x.pc = "run" => x.from = Len(history)
    PROVE  \A g \in {gens[x.gen]} :
               Matches(g, path) /\ (Head(x.todo) # <<"admit">> => path = x.fd)
  <1>1. TAKE g \in {gens[x.gen]}
  <1>2. /\ ReqOk(x, g) /\ \A n \in {Count} : Steady(x, n) => Certain(x, g)
        /\ Holds(x) /\ x.pc = "current" /\ Count = Len(history) => Matches(g, path)
    BY RequestFacts
  <1>3. Certain(x, g)
    BY <1>2 DEF Steady
  <1>4. CASE x.pc = "run"
    BY <1>3, <1>4 DEF Certain
  <1>5. CASE x.pc = "current"
    <2>1. Matches(g, path)
      BY <1>2, <1>5 DEF Holds
    <2>2. x.todo \in Seq(Ops) /\ OnlyFirst(x.todo, <<"admit">>)
      BY <1>2, <1>5 DEF ReqOk, RequestType, Current_, CheckShape
    <2>3. Head(x.todo) # <<"admit">> => ~Has(x.todo, <<"admit">>)
      BY <2>2, TailHas, TailOnlyFirst
    <2> QED
      BY <1>3, <1>5, <2>1, <2>3 DEF Certain
  <1> QED
    BY <1>4, <1>5

LEMMA CheckFails ==
    ASSUME GInv, Quiet, NEW r \in Requests, NEW x, x = req[r], x.todo # <<>>,
           x.pc \in {"current", "run"}, Fail(r),
           \A g \in {gens[x.gen]} :
               ~Matches(g, path) \/ (Head(x.todo) # <<"admit">> /\ path # x.fd)
    PROVE  GInv'
  <1>1. /\ Count \in 0 .. Len(history) /\ Len(history) \in Nat
        /\ \A g \in {gens[x.gen]} : ReqOk(x, g)
    BY RequestFacts
  <1>2. x.from \in 1 .. Len(history)
    BY <1>1 DEF ReqOk
  <1>3. ~(x.pc = "current" /\ Count = Len(history)) /\ ~(x.pc = "run" /\ x.from = Len(history))
    BY SteadyFacts
  <1> QED
    BY <1>1, <1>2, <1>3, FailStep

LEMMA OpenPathStep ==
    ASSUME GInv, NEW r \in Requests, OpenPath(r)
    PROVE  GInv'
  <1>1. PICK x : x = req[r]
    OBVIOUS
  <1>2. PICK g : g = gens[x.gen]
    OBVIOUS
  <1>3. /\ World /\ x \in RequestType /\ GenOk(g) /\ ReqOk(x, g) /\ Quiet
        /\ \A n \in {Count} : Steady(x, n) => Certain(x, g)
    BY <1>1, <1>2, RequestFacts DEF OpenPath
  <1>4. x.todo # <<>> /\ Head(x.todo) = <<"open">>
    BY <1>1, OpIs DEF OpenPath, Names
  <1>5. x.pc \in {"probe", "run"} /\ (x.pc = "probe" => Tail(x.todo) = <<>>)
    <2>1. <<"open">> \notin {<<"admit">>, <<"stat">>, <<"create">>, <<"catalog">>,
                            <<"same">>, <<"canonicalize">>}
      BY OpsDiffer
    <2>2. \A P : <<"open">> \notin Hashes(P) /\ <<"open">> \notin Loads(P)
      BY OpsDiffer DEF Hashes, Loads
    <2>3. x.pc \notin {"current", "detect", "open"}
      BY <1>3, <1>4, <2>1, <2>2, WhereOp
    <2> QED
      BY <1>3, <1>4, <2>3, WhereOp
  <1>6. x.from \in 1 .. Len(history) /\ x.read \in x.from .. Len(history)
    BY <1>3 DEF ReqOk
  <1>7. CASE path = None \/ (x.pc = "run" /\ disk[path].format # "fst")
    <2>1. Fail(r)
      BY <1>1, <1>7 DEF OpenPath, At
    <2>2. ASSUME history[x.from].now # None, x.from = Len(history) PROVE FALSE
      <3>1. path # None
        BY <1>3, <2>2, HistoryFacts
      <3>2. Steady(x, Count)
        BY <2>2 DEF Steady
      <3>3. x.pc = "run" /\ Matches(g, path)
        BY <1>3, <1>5, <1>7, <3>1, <3>2 DEF Certain
      <3>4. disk[path].format = g.format
        BY <1>3, <3>3, PathIsOwner DEF Matches, GenOk
      <3>5. g.format = "fst"
        <4>1. Has(x.todo, <<"open">>)
          BY <1>3, <1>4, TailHas DEF RequestType
        <4> QED
          BY <1>3, <3>3, <4>1 DEF ReqOk, Running, RunShape
      <3> QED
        BY <1>7, <3>1, <3>4, <3>5
    <2>3. history[x.from].now # None => x.from < Len(history)
      BY <1>3, <1>6, <2>2, HistoryFacts
    <2> QED
      BY <1>1, <1>3, <1>5, <2>1, <2>3, FailStep
  <1>8. CASE ~(path = None \/ (x.pc = "run" /\ disk[path].format # "fst"))
    <2> DEFINE c == [x EXCEPT !.fd = path]
    <2>1. Advance(r, c)
      BY <1>1, <1>8 DEF OpenPath, At
    <2>2. path \in Inodes
      BY <1>3, <1>8, HistoryFacts
    <2>3. c \in RequestType /\ c.todo = x.todo /\ c.pc = x.pc /\ c.kind = x.kind
          /\ c.gen = x.gen /\ c.from = x.from /\ c.format = x.format
          /\ c.fd = path /\ c.got = x.got /\ c.read = x.read
      BY <1>3, <2>2 DEF RequestType
    <2> HIDE DEF c
    <2>4. ASSUME NEW y, Moved(x, y), Carries(y, c), NEW n \in {Count}
          PROVE  ReqOk(y, g) /\ (Steady(x, n) => Certain(y, g))
      <3>1. y.fd = path /\ y.got = x.got /\ y.read = x.read
        BY <2>3, <2>4 DEF Carries
      <3>2. CASE x.pc = "run"
        BY <1>3, <1>4, <2>2, <2>4, <3>1, <3>2, RunOpen
      <3>3. CASE x.pc = "probe"
        <4>1. y.pc = "probe" /\ y.todo = <<>> /\ y.kind = x.kind /\ y.from = x.from
              /\ y \in RequestType
          BY <1>5, <2>4, <3>3 DEF Moved
        <4>2. x.kind # "library" /\ x.got = <<>>
          BY <1>3, <3>3 DEF ReqOk
        <4>3. ReqOk(y, g)
          BY <1>6, <2>2, <3>1, <4>1, <4>2 DEF ReqOk
        <4>4. Certain(y, g)
          BY <3>1, <4>1 DEF Certain
        <4> QED
          BY <4>3, <4>4
      <3> QED
        BY <1>5, <3>2, <3>3
    <2> QED
      BY <1>1, <1>2, <1>3, <1>4, <2>1, <2>3, <2>4, AdvanceMoves
  <1> QED
    BY <1>7, <1>8

\* Where a request validates.
LEMMA WhereChecked ==
    ASSUME NEW g, NEW x, ReqOk(x, g), x.todo # <<>>,
           \/ Head(x.todo) \in {<<"admit">>, <<"stat">>}
           \/ \E p : Head(x.todo) = Hash(p)
    PROVE  /\ x.pc \in {"current", "run"}
           /\ \A p : Head(x.todo) = Hash(p) => p \in Prints_(g)
  <1> DEFINE u == Head(x.todo)
  <1>1. /\ \A q \in {"open", "create", "catalog", "same", "canonicalize"} : u # <<q>>
        /\ \A q : u # Load(q)
    BY OpsDiffer
  <1>2. u # <<"open">> /\ \A P : u \notin Loads(P)
    BY <1>1 DEF Loads
  <1>3. x.pc \notin {"probe", "detect", "open"}
    BY <1>1, <1>2, WhereOp
  <1>4. x.pc \in {"current", "run"}
    BY <1>3, WhereOp
  <1>5. ASSUME NEW p, u = Hash(p) PROVE p \in Prints_(g)
    <2>1. /\ \A q \in {"admit", "stat", "open", "store"} : u # <<q>>
          /\ \A q : u # Read(q)
      BY <1>5, OpsDiffer
    <2>2. u \in {<<"admit">>, <<"stat">>, <<"open">>, <<"store">>} \cup Hashes(Prints_(g)) \cup Reads
      BY <1>4, WhereOp
    <2>3. u \in Hashes(Prints_(g))
      BY <2>1, <2>2 DEF Reads
    <2> QED
      BY <1>5, <2>3, OpsDiffer DEF Hashes
  <1> QED
    BY <1>4, <1>5

LEMMA AdmitStep ==
    ASSUME GInv, NEW r \in Requests, Admit(r)
    PROVE  GInv'
  <1>1. PICK x : x = req[r]
    OBVIOUS
  <1>2. PICK g : g = gens[x.gen]
    OBVIOUS
  <1>3. /\ World /\ x \in RequestType /\ GenOk(g) /\ ReqOk(x, g) /\ Quiet /\ g = Gen(r)
        /\ \A n \in {Count} : Steady(x, n) => Certain(x, g)
    BY <1>1, <1>2, RequestFacts DEF Admit
  <1>4. x.todo # <<>> /\ Head(x.todo) = <<"admit">>
    BY <1>1, OpIs DEF Admit, Names
  <1>5. x.pc \in {"current", "run"}
    BY <1>3, <1>4, WhereChecked
  <1>6. CASE ~(path # None /\ Stat(g.format, path) = g.stat)
    <2>1. Fail(r) /\ ~Matches(g, path)
      BY <1>3, <1>6, HistoryFacts DEF Admit, Matches
    <2> QED
      BY <1>1, <1>2, <1>3, <1>4, <1>5, <2>1, CheckFails
  <1>7. CASE path # None /\ Stat(g.format, path) = g.stat
    <2> DEFINE c == [x EXCEPT !.fd = path]
    <2>1. Advance(r, c) /\ path \in Inodes
      BY <1>1, <1>3, <1>7, HistoryFacts DEF Admit
    <2>2. c \in RequestType /\ c.todo = x.todo /\ c.pc = x.pc /\ c.kind = x.kind
          /\ c.gen = x.gen /\ c.from = x.from /\ c.format = x.format
          /\ c.fd = path /\ c.got = x.got /\ c.read = x.read
      BY <1>3, <2>1 DEF RequestType
    <2> HIDE DEF c
    <2>3. ASSUME NEW y, Moved(x, y), Carries(y, c), NEW n \in {Count}
          PROVE  ReqOk(y, g) /\ (Steady(x, n) => Certain(y, g))
      <3>1. y.fd = path /\ y.got = x.got /\ y.read = x.read
        BY <2>2, <2>3 DEF Carries
      <3>2. CASE x.pc = "run"
        BY <1>3, <1>4, <1>7, <2>1, <2>3, <3>1, <3>2, RunAdmit
      <3>3. CASE x.pc = "current"
        BY <1>3, <1>4, <1>7, <2>1, <2>3, <3>1, <3>3, CurrentStep
      <3> QED
        BY <1>5, <3>2, <3>3
    <2> QED
      BY <1>1, <1>2, <1>3, <1>4, <2>1, <2>2, <2>3, AdvanceMoves
  <1> QED
    BY <1>6, <1>7

\* A comparison that holds.
LEMMA CheckSucceeds ==
    ASSUME GInv, Quiet, NEW r \in Requests, NEW x, x = req[r], x.todo # <<>>,
           x.pc \in {"current", "run"}, Head(x.todo) # <<"admit">>, Advance(r, x),
           \A g \in {gens[x.gen]} : \A p \in Prints_(g) :
               Head(x.todo) = Hash(p) => Region(x.fd, p) = g.prints[p]
    PROVE  GInv'
  <1>1. PICK g : g = gens[x.gen]
    OBVIOUS
  <1>2. /\ World /\ x \in RequestType /\ GenOk(g) /\ ReqOk(x, g)
        /\ \A n \in {Count} : Steady(x, n) => Certain(x, g)
    BY <1>1, RequestFacts
  <1>3. ASSUME NEW y, Moved(x, y), Carries(y, x), NEW n \in {Count}
        PROVE  ReqOk(y, g) /\ (Steady(x, n) => Certain(y, g))
    <2>1. y.fd = x.fd /\ y.got = x.got /\ y.read = x.read
      BY <1>3 DEF Carries
    <2>2. CASE x.pc = "run"
      BY <1>1, <1>2, <1>3, <2>1, <2>2, RunCheck
    <2>3. CASE x.pc = "current"
      BY <1>1, <1>2, <1>3, <2>1, <2>3, CurrentStep
    <2> QED
      BY <2>2, <2>3
  <1> QED
    BY <1>1, <1>2, <1>3, AdvanceMoves

LEMMA CheckStatStep ==
    ASSUME GInv, NEW r \in Requests, CheckStat(r)
    PROVE  GInv'
  <1>1. PICK x : x = req[r]
    OBVIOUS
  <1>2. PICK g : g = gens[x.gen]
    OBVIOUS
  <1>3. ReqOk(x, g) /\ Quiet /\ g = Gen(r)
    BY <1>1, <1>2, RequestFacts DEF CheckStat
  <1>4. x.todo # <<>> /\ Head(x.todo) = <<"stat">>
    BY <1>1, OpIs DEF CheckStat, Names
  <1>5. x.pc \in {"current", "run"} /\ Head(x.todo) # <<"admit">>
        /\ \A p : Head(x.todo) # Hash(p)
    BY <1>3, <1>4, WhereChecked, OpsDiffer
  <1>6. CASE Stat(g.format, x.fd) = g.stat
    BY <1>1, <1>3, <1>4, <1>5, <1>6, CheckSucceeds DEF CheckStat
  <1>7. CASE Stat(g.format, x.fd) # g.stat
    <2>1. Fail(r) /\ (path = x.fd => ~Matches(g, path))
      BY <1>1, <1>3, <1>7 DEF CheckStat, Matches
    <2> QED
      BY <1>1, <1>2, <1>3, <1>4, <1>5, <2>1, CheckFails
  <1> QED
    BY <1>6, <1>7

LEMMA CheckPrintStep ==
    ASSUME GInv, NEW r \in Requests, CheckPrint(r)
    PROVE  GInv'
  <1>1. PICK x : x = req[r]
    OBVIOUS
  <1>2. PICK g : g = gens[x.gen]
    OBVIOUS
  <1>3. ReqOk(x, g) /\ Quiet /\ g = Gen(r)
    BY <1>1, <1>2, RequestFacts DEF CheckPrint
  <1>4. PICK print \in {"header", "samples", "full"} :
            /\ Op(r) = Hash(print)
            /\ IF Region(req[r].fd, print) = Gen(r).prints[print]
               THEN Advance(r, req[r]) ELSE Fail(r)
    BY DEF CheckPrint
  <1>5. x.todo # <<>> /\ Head(x.todo) = Hash(print)
    BY <1>1, <1>4, OpIs
  <1>6. x.pc \in {"current", "run"} /\ Head(x.todo) # <<"admit">> /\ print \in Prints_(g)
        /\ \A p : Head(x.todo) = Hash(p) => p = print
    BY <1>3, <1>5, WhereChecked, OpsDiffer
  <1>7. CASE Region(x.fd, print) = g.prints[print]
    <2>1. Advance(r, x)
      BY <1>1, <1>3, <1>4, <1>7
    <2> QED
      BY <1>1, <1>2, <1>3, <1>5, <1>6, <1>7, <2>1, CheckSucceeds
  <1>8. CASE Region(x.fd, print) # g.prints[print]
    <2>1. Fail(r)
      BY <1>1, <1>3, <1>4, <1>8
    <2>2. path = x.fd => ~Matches(g, path)
      BY <1>6, <1>8 DEF Matches, Prints_
    <2> QED
      BY <1>1, <1>2, <1>3, <1>5, <1>6, <2>1, <2>2, CheckFails
  <1> QED
    BY <1>7, <1>8

\* Blocks read so far, with one more.
LEMMA OneMoreBlock ==
    ASSUME NEW got \in Regions, NEW b \in Blocks, NEW v \in Values, NEW new,
           new = [k \in DOMAIN got \cup {b} |-> IF k = b THEN v ELSE got[k]]
    PROVE  /\ new \in Regions /\ DOMAIN new = DOMAIN got \cup {b} /\ new[b] = v
           /\ \A k \in DOMAIN got \ {b} : new[k] = got[k]
  <1>1. PICK B \in SUBSET Blocks : got \in [B -> Values]
    BY DEF Regions
  <1>2. new \in [B \cup {b} -> Values] /\ B \cup {b} \in SUBSET Blocks
    BY <1>1
  <1>3. new \in Regions
    BY <1>2 DEF Regions
  <1> QED
    BY <1>1, <1>3

LEMMA ReadBodyStep ==
    ASSUME GInv, NEW r \in Requests, ReadBody(r)
    PROVE  GInv'
  <1>1. PICK x : x = req[r]
    OBVIOUS
  <1>2. PICK g : g = gens[x.gen]
    OBVIOUS
  <1>3. /\ World /\ x \in RequestType /\ GenOk(g) /\ ReqOk(x, g) /\ Quiet
        /\ \A n \in {Count} : Steady(x, n) => Certain(x, g)
        /\ Len(history) \in Nat
    BY <1>1, <1>2, RequestFacts DEF ReadBody
  <1>4. PICK block \in Blocks :
            /\ Op(r) = Read(block)
            /\ Advance(r, [req[r] EXCEPT
                   !.got = [k \in DOMAIN @ \cup {block} |->
                                IF k = block THEN disk[req[r].fd][block] ELSE @[k]],
                   !.read = Len(history)])
    BY DEF ReadBody
  <1>5. x.todo # <<>> /\ Head(x.todo) = Read(block)
    BY <1>1, <1>4, OpIs
  <1>6. x.pc = "run" /\ block \in {"a", "b", "tail"}
    <2>1. /\ \A q : Read(block) # <<q>> /\ Read(block) # Hash(q) /\ Read(block) # Load(q)
          /\ \A q : Read(block) = Read(q) => block = q
      BY OpsDiffer
    <2>2. x.pc = "run"
      BY <1>3, <1>5, <2>1, WhereOp DEF Hashes, Loads
    <2>3. Read(block) \in Reads
      BY <1>3, <1>5, <2>1, <2>2, WhereOp DEF Hashes
    <2> QED
      BY <2>1, <2>2, <2>3 DEF Reads
  <1>7. x.fd \in Inodes
    BY <1>3, <1>6 DEF ReqOk, Run_
  <1>8. disk[x.fd][block] \in Values /\ x.got \in Regions
    BY <1>3, <1>7, FileFacts DEF RequestType
  <1>9. PICK new : new = [k \in DOMAIN x.got \cup {block} |->
                              IF k = block THEN disk[x.fd][block] ELSE x.got[k]]
    OBVIOUS
  <1>10. /\ new \in Regions /\ DOMAIN new = DOMAIN x.got \cup {block}
         /\ new[block] = disk[x.fd][block]
         /\ \A k \in DOMAIN x.got \ {block} : new[k] = x.got[k]
    BY <1>8, <1>9, OneMoreBlock
  <1> DEFINE c == [x EXCEPT !.got = new, !.read = Len(history)]
  <1>11. Advance(r, c)
    BY <1>1, <1>4, <1>9
  <1>12. c \in RequestType /\ c.todo = x.todo /\ c.pc = x.pc /\ c.kind = x.kind
         /\ c.gen = x.gen /\ c.from = x.from /\ c.format = x.format
         /\ c.fd = x.fd /\ c.got = new /\ c.read = Len(history)
    BY <1>3, <1>10 DEF RequestType
  <1> HIDE DEF c
  <1>13. ASSUME NEW y, Moved(x, y), Carries(y, c), NEW n \in {Count}
         PROVE  ReqOk(y, g) /\ (Steady(x, n) => Certain(y, g))
    <2>1. y.fd = x.fd /\ y.got = new /\ y.read = Len(history)
      BY <1>12, <1>13 DEF Carries
    <2> QED
      BY <1>3, <1>5, <1>6, <1>10, <1>13, <2>1, RunRead
  <1> QED
    BY <1>1, <1>2, <1>3, <1>5, <1>11, <1>12, <1>13, AdvanceMoves

\* Where a request builds an identity.
LEMMA WhereOpened ==
    ASSUME NEW g, NEW x, ReqOk(x, g), x.todo # <<>>,
           \/ Head(x.todo) \in {<<"create">>, <<"catalog">>, <<"same">>, <<"canonicalize">>}
           \/ \E p : Head(x.todo) = Load(p)
    PROVE  /\ x.pc \in {"detect", "open"}
           /\ \A p : Head(x.todo) = Load(p) => p \in PrintSet(x.format, x.kind = "library")
  <1> DEFINE u == Head(x.todo)
             prints == PrintSet(x.format, x.kind = "library")
  <1>1. /\ \A q \in {"open", "admit", "stat", "store"} : u # <<q>>
        /\ \A q : u # Hash(q) /\ u # Read(q)
    BY OpsDiffer
  <1>2. u # <<"open">> /\ u \notin Reads /\ \A P : u \notin Hashes(P)
    BY <1>1 DEF Hashes, Reads
  <1>3. x.pc \in {"detect", "open"}
    BY <1>1, <1>2, WhereOp
  <1>4. ASSUME NEW p, u = Load(p) PROVE p \in prints
    <2>1. \A q \in {"create", "catalog", "same", "canonicalize"} : u # <<q>>
      BY <1>4, OpsDiffer
    <2>2. u \in {<<"create">>, <<"catalog">>, <<"same">>, <<"canonicalize">>} \cup Loads(prints)
      BY <1>3, WhereOp
    <2>3. u \in Loads(prints)
      BY <2>1, <2>2
    <2> QED
      BY <1>4, <2>3, OpsDiffer DEF Loads
  <1> QED
    BY <1>3, <1>4

\* A request that has created its identity.
LEMMA OpenSteady ==
    ASSUME GInv, NEW r \in Requests, NEW x, x = req[r], x.pc \in {"detect", "open"},
           x.todo # <<>>, Head(x.todo) # <<"create">>
    PROVE  /\ ~Has(x.todo, <<"create">>) /\ x.fd \in Inodes
           /\ x.from = Len(history) => path = x.fd /\ Stat(x.format, path) = x.stat
  <1>1. PICK g : g = gens[x.gen]
    OBVIOUS
  <1>2. ReqOk(x, g) /\ \A n \in {Count} : Steady(x, n) => Certain(x, g)
    BY <1>1, RequestFacts
  <1>3. Open_(x) /\ x.todo \in Seq(Ops)
    BY <1>2 DEF ReqOk, RequestType
  <1>4. ~Has(x.todo, <<"create">>)
    <2>1. OnlyFirst(x.todo, <<"create">>)
      BY <1>3 DEF Open_, OpenShape
    <2> QED
      BY <1>3, <2>1, TailHas, TailOnlyFirst
  <1>5. x.fd \in Inodes
    BY <1>3, <1>4 DEF Open_, Values
  <1>6. ASSUME x.from = Len(history) PROVE path = x.fd /\ Stat(x.format, path) = x.stat
    BY <1>2, <1>4, <1>6 DEF Steady, Certain
  <1> QED
    BY <1>4, <1>5, <1>6

LEMMA OpenFails ==
    ASSUME GInv, Quiet, NEW r \in Requests, NEW x, x = req[r], x.pc \in {"detect", "open"},
           Fail(r),
           x.from = Len(history) =>
               path = None \/ (x.kind = "library" /\ path \in Inodes /\ disk[path].format = "fst")
    PROVE  GInv'
  <1>1. World /\ \A g \in {gens[x.gen]} : ReqOk(x, g)
    BY RequestFacts
  <1>2. x.from \in 1 .. Len(history)
    BY <1>1 DEF ReqOk
  <1>3. history[x.from].now # None =>
            \/ x.from < Len(history)
            \/ x.kind = "library" /\ history[x.from].now.format = "fst"
    BY <1>1, <1>2, HistoryFacts
  <1> QED
    BY <1>3, FailStep

LEMMA CreateStep ==
    ASSUME GInv, NEW r \in Requests, Create(r)
    PROVE  GInv'
  <1>1. PICK x : x = req[r]
    OBVIOUS
  <1>2. PICK g : g = gens[x.gen]
    OBVIOUS
  <1>3. World /\ x \in RequestType /\ ReqOk(x, g) /\ Quiet
    BY <1>1, <1>2, RequestFacts DEF Create
  <1>4. x.todo # <<>> /\ Head(x.todo) = <<"create">>
    BY <1>1, OpIs DEF Create, Names
  <1>5. x.pc \in {"detect", "open"}
    BY <1>3, <1>4, WhereOpened
  <1>6. CASE path = None
    <2>1. Fail(r)
      BY <1>6 DEF Create
    <2> QED
      BY <1>1, <1>3, <1>5, <1>6, <2>1, OpenFails
  <1>7. CASE path # None
    <2> DEFINE c == [x EXCEPT !.fd = path, !.prints = <<>>, !.stat = Stat(x.format, path)]
    <2>1. Advance(r, c) /\ path \in Inodes
      BY <1>1, <1>3, <1>7, HistoryFacts DEF Create
    <2>2. Stat(x.format, path) \in Stats
      BY <1>3, <2>1, FileFacts DEF RequestType
    <2>3. c \in RequestType /\ c.todo = x.todo /\ c.pc = x.pc /\ c.kind = x.kind
          /\ c.gen = x.gen /\ c.from = x.from /\ c.format = x.format
          /\ c.fd = path /\ c.got = x.got /\ c.read = x.read
          /\ c.prints = <<>> /\ c.stat = Stat(x.format, path) /\ c.catalog = x.catalog
      BY <1>3, <2>1, <2>2, EmptyIsTyped DEF RequestType
    <2> HIDE DEF c
    <2>4. ASSUME NEW y, Moved(x, y), Carries(y, c), NEW n \in {Count}
          PROVE  ReqOk(y, g) /\ (Steady(x, n) => Certain(y, g))
      <3>1. y.fd = path /\ y.got = x.got /\ y.read = x.read
            /\ y.prints = <<>> /\ y.stat = Stat(x.format, path) /\ y.catalog = x.catalog
        BY <2>3, <2>4 DEF Carries
      <3> QED
        BY <1>3, <1>4, <1>5, <2>1, <2>4, <3>1, OpenCreate
    <2> QED
      BY <1>1, <1>2, <1>3, <1>4, <2>1, <2>3, <2>4, AdvanceMoves
  <1> QED
    BY <1>6, <1>7

LEMMA ReadCatalogStep ==
    ASSUME GInv, NEW r \in Requests, ReadCatalog(r)
    PROVE  GInv'
  <1>1. PICK x : x = req[r]
    OBVIOUS
  <1>2. PICK g : g = gens[x.gen]
    OBVIOUS
  <1>3. /\ World /\ x \in RequestType /\ ReqOk(x, g) /\ Quiet /\ FormatKnown(x)
        /\ \A n \in {Count} : Steady(x, n) => Certain(x, g)
    BY <1>1, <1>2, RequestFacts DEF ReadCatalog
  <1>4. x.todo # <<>> /\ Head(x.todo) = <<"catalog">> /\ Head(x.todo) # <<"create">>
    BY <1>1, OpIs, OpsDiffer DEF ReadCatalog, Names
  <1>5. x.pc \in {"detect", "open"}
    BY <1>3, <1>4, WhereOpened
  <1>6. x.fd \in Inodes /\ (x.from = Len(history) => path = x.fd)
    BY <1>1, <1>4, <1>5, OpenSteady
  <1>7. CASE disk[x.fd].format # x.format
    <2>1. Fail(r)
      BY <1>1, <1>7 DEF ReadCatalog
    <2>2. ASSUME x.from = Len(history)
          PROVE  x.kind = "library" /\ path \in Inodes /\ disk[path].format = "fst"
      <3>1. x.kind = "library"
        BY <1>3, <1>5, <1>6, <1>7, <2>2 DEF FormatKnown
      <3>2. x.format = "vcd"
        BY <1>3, <1>5, <3>1 DEF ReqOk, Open_
      <3> QED
        BY <1>3, <1>6, <1>7, <2>2, <3>1, <3>2, FileFacts DEF Formats
    <2> QED
      BY <1>1, <1>3, <1>5, <2>1, <2>2, OpenFails
  <1>8. CASE disk[x.fd].format = x.format
    <2> DEFINE c == [x EXCEPT !.catalog = disk[x.fd].head]
    <2>1. Advance(r, c)
      BY <1>1, <1>8 DEF ReadCatalog
    <2>2. disk[x.fd].head \in Values
      <3>1. disk[x.fd] \in Files
        BY <1>3, <1>6, FileFacts
      <3> QED
        BY <3>1 DEF Files
    <2>3. c \in RequestType /\ c.todo = x.todo /\ c.pc = x.pc /\ c.kind = x.kind
          /\ c.gen = x.gen /\ c.from = x.from /\ c.format = x.format
          /\ c.fd = x.fd /\ c.got = x.got /\ c.read = x.read
          /\ c.prints = x.prints /\ c.stat = x.stat /\ c.catalog = disk[x.fd].head
      BY <1>3, <2>2 DEF RequestType
    <2> HIDE DEF c
    <2>4. ASSUME NEW y, Moved(x, y), Carries(y, c), NEW n \in {Count}
          PROVE  ReqOk(y, g) /\ (Steady(x, n) => Certain(y, g))
      <3>1. y.fd = x.fd /\ y.got = x.got /\ y.read = x.read
            /\ y.prints = x.prints /\ y.stat = x.stat /\ y.catalog = disk[x.fd].head
        BY <2>3, <2>4 DEF Carries
      <3> QED
        BY <1>3, <1>4, <1>5, <1>8, <2>4, <3>1, OpenCatalog
    <2> QED
      BY <1>1, <1>2, <1>3, <1>4, <2>1, <2>3, <2>4, AdvanceMoves
  <1> QED
    BY <1>7, <1>8

\* Fingerprints kept so far, with one more.
WithPrint(prints, p, catalog, region) ==
    [k \in DOMAIN prints \cup {p} |->
        IF k # p THEN prints[k]
        ELSE IF p = "header" THEN [block \in {"head"} |-> catalog] ELSE region]

LEMMA OneMorePrint ==
    ASSUME NEW prints \in PrintMaps, NEW p \in PrintNames, NEW region \in Regions,
           NEW catalog, NEW new, p = "header" => catalog \in Values,
           new = WithPrint(prints, p, catalog, region)
    PROVE  /\ new \in PrintMaps /\ DOMAIN new = DOMAIN prints \cup {p}
           /\ new[p] = IF p = "header" THEN HeaderOf(catalog) ELSE region
           /\ \A k \in DOMAIN prints \ {p} : new[k] = prints[k]
  <1>1. PICK P \in SUBSET PrintNames : prints \in [P -> Regions]
    BY DEF PrintMaps
  <1>2. p = "header" => HeaderOf(catalog) \in [{"head"} -> Values]
    BY DEF HeaderOf
  <1>3. {"head"} \in SUBSET Blocks
    BY DEF Blocks
  <1>4. p = "header" => HeaderOf(catalog) \in Regions
    BY <1>2, <1>3 DEF Regions
  <1>5. /\ DOMAIN new = DOMAIN prints \cup {p}
        /\ new[p] = IF p = "header" THEN HeaderOf(catalog) ELSE region
        /\ \A k \in DOMAIN prints \ {p} : new[k] = prints[k]
        /\ new = [k \in DOMAIN new |-> new[k]]
    BY DEF HeaderOf, WithPrint
  <1>6. new[p] \in Regions
    BY <1>4, <1>5
  <1>7. \A k \in P \cup {p} : new[k] \in Regions
    BY <1>1, <1>5, <1>6
  <1>8. new \in [P \cup {p} -> Regions] /\ P \cup {p} \in SUBSET PrintNames
    BY <1>1, <1>5, <1>7
  <1>9. new \in PrintMaps
    BY <1>8 DEF PrintMaps
  <1> QED
    BY <1>5, <1>9

LEMMA LoadPrintStep ==
    ASSUME GInv, NEW r \in Requests, LoadPrint(r)
    PROVE  GInv'
  <1>1. PICK x : x = req[r]
    OBVIOUS
  <1>2. PICK g : g = gens[x.gen]
    OBVIOUS
  <1>3. /\ World /\ x \in RequestType /\ ReqOk(x, g) /\ Quiet
        /\ \A n \in {Count} : Steady(x, n) => Certain(x, g)
    BY <1>1, <1>2, RequestFacts DEF LoadPrint
  <1>4. PICK print \in {"header", "samples", "full"} :
            /\ Op(r) = Load(print)
            /\ Advance(r, [req[r] EXCEPT
                   !.prints = [k \in DOMAIN @ \cup {print} |->
                       IF k # print THEN @[k]
                       ELSE IF print = "header" THEN [block \in {"head"} |-> req[r].catalog]
                       ELSE Region(req[r].fd, print)]])
    BY DEF LoadPrint
  <1>5. x.todo # <<>> /\ Head(x.todo) = Load(print) /\ Head(x.todo) # <<"create">>
    BY <1>1, <1>4, OpIs, OpsDiffer
  <1>6. x.pc \in {"detect", "open"} /\ print \in PrintSet(x.format, x.kind = "library")
    BY <1>3, <1>5, WhereOpened
  <1>7. x.fd \in Inodes /\ ~Has(x.todo, <<"create">>)
    BY <1>1, <1>5, <1>6, OpenSteady
  <1>8. ASSUME print = "header" PROVE x.catalog \in Values
    <2>1. Open_(x) /\ x.todo \in Seq(Ops)
      BY <1>3, <1>6 DEF ReqOk, RequestType
    <2>2. Before(x.todo, <<"catalog">>, Load("header"))
      BY <2>1 DEF Open_, OpenShape
    <2>3. ~Has(x.todo, <<"catalog">>)
      BY <1>5, <1>8, <2>1, <2>2, TailBefore
    <2> QED
      BY <1>7, <2>1, <2>3 DEF Open_
  <1>9. Region(x.fd, print) \in Regions /\ x.prints \in PrintMaps
    BY <1>3, <1>7, RegionFacts DEF PrintNames, RequestType
  <1>10. PICK new : new = WithPrint(x.prints, print, x.catalog, Region(x.fd, print))
    OBVIOUS
  <1>11. /\ new \in PrintMaps /\ DOMAIN new = DOMAIN x.prints \cup {print}
         /\ new[print] = IF print = "header" THEN HeaderOf(x.catalog) ELSE Region(x.fd, print)
         /\ \A k \in DOMAIN x.prints \ {print} : new[k] = x.prints[k]
    <2>1. PICK p \in PrintNames : p = print
      BY DEF PrintNames
    <2>2. PICK catalog, region, prints :
              catalog = x.catalog /\ region = Region(x.fd, print) /\ prints = x.prints
      OBVIOUS
    <2>3. /\ p = "header" => catalog \in Values
          /\ region \in Regions /\ prints \in PrintMaps
          /\ new = WithPrint(prints, p, catalog, region)
      BY <1>8, <1>9, <1>10, <2>1, <2>2
    <2>4. /\ new \in PrintMaps /\ DOMAIN new = DOMAIN prints \cup {p}
          /\ new[p] = IF p = "header" THEN HeaderOf(catalog) ELSE region
          /\ \A k \in DOMAIN prints \ {p} : new[k] = prints[k]
      BY <2>3, OneMorePrint
    <2> QED
      BY <2>1, <2>2, <2>4
  <1> DEFINE c == [x EXCEPT !.prints = new]
  <1>12. Advance(r, c)
    BY <1>1, <1>4, <1>10 DEF WithPrint
  <1>13. c \in RequestType /\ c.todo = x.todo /\ c.pc = x.pc /\ c.kind = x.kind
         /\ c.gen = x.gen /\ c.from = x.from /\ c.format = x.format
         /\ c.fd = x.fd /\ c.got = x.got /\ c.read = x.read
         /\ c.prints = new /\ c.stat = x.stat /\ c.catalog = x.catalog
    BY <1>3, <1>11 DEF RequestType
  <1> HIDE DEF c
  <1>14. ASSUME NEW y, Moved(x, y), Carries(y, c), NEW n \in {Count}
         PROVE  ReqOk(y, g) /\ (Steady(x, n) => Certain(y, g))
    <2>1. y.fd = x.fd /\ y.got = x.got /\ y.read = x.read
          /\ y.prints = new /\ y.stat = x.stat /\ y.catalog = x.catalog
      BY <1>13, <1>14 DEF Carries
    <2> QED
      BY <1>3, <1>5, <1>6, <1>11, <1>14, <2>1, OpenLoad
  <1> QED
    BY <1>1, <1>2, <1>3, <1>5, <1>12, <1>13, <1>14, AdvanceMoves

\* The last looks at the metadata and the path.
LEMMA OpenLooks ==
    ASSUME GInv, Quiet, NEW r \in Requests, NEW x, x = req[r], x.todo # <<>>,
           Head(x.todo) \in {<<"same">>, <<"canonicalize">>},
           \/ Advance(r, x)
           \/ Fail(r) /\ (path = None \/ Stat(x.format, x.fd) # x.stat)
    PROVE  GInv'
  <1>1. PICK g : g = gens[x.gen]
    OBVIOUS
  <1>2. /\ World /\ x \in RequestType /\ ReqOk(x, g)
        /\ \A n \in {Count} : Steady(x, n) => Certain(x, g)
    BY <1>1, RequestFacts
  <1>3. x.pc \in {"detect", "open"}
    BY <1>2, WhereOpened
  <1>4. Head(x.todo) # <<"create">>
    BY OpsDiffer
  <1>5. CASE Fail(r) /\ (path = None \/ Stat(x.format, x.fd) # x.stat)
    BY <1>3, <1>4, <1>5, OpenSteady, OpenFails
  <1>6. CASE Advance(r, x)
    <2>1. ASSUME NEW y, Moved(x, y), Carries(y, x), NEW n \in {Count}
          PROVE  ReqOk(y, g) /\ (Steady(x, n) => Certain(y, g))
      BY <1>2, <1>3, <2>1, OpenOther DEF Carries
    <2> QED
      BY <1>1, <1>2, <1>6, <2>1, AdvanceMoves
  <1> QED
    BY <1>5, <1>6

LEMMA SameStatStep ==
    ASSUME GInv, NEW r \in Requests, SameStat(r)
    PROVE  GInv'
  <1>1. PICK x : x = req[r]
    OBVIOUS
  <1>2. x.todo # <<>> /\ Head(x.todo) = <<"same">>
    BY <1>1, OpIs DEF SameStat, Names
  <1>3. Quiet /\ (Advance(r, x) \/ (Fail(r) /\ Stat(x.format, x.fd) # x.stat))
    BY <1>1 DEF SameStat
  <1> QED
    BY <1>1, <1>2, <1>3, OpenLooks

LEMMA CanonicalizeStep ==
    ASSUME GInv, NEW r \in Requests, Canonicalize(r)
    PROVE  GInv'
  <1>1. PICK x : x = req[r]
    OBVIOUS
  <1>2. x.todo # <<>> /\ Head(x.todo) = <<"canonicalize">>
    BY <1>1, OpIs DEF Canonicalize, Names
  <1>3. Quiet /\ (Advance(r, x) \/ (Fail(r) /\ path = None))
    BY <1>1 DEF Canonicalize
  <1> QED
    BY <1>1, <1>2, <1>3, OpenLooks

\* A request about to build an identity.
LEMMA OpenStarts ==
    ASSUME NEW g, NEW y \in RequestType, y.pc \in {"detect", "open"}, y.got = <<>>,
           NEW strict \in BOOLEAN, strict = (y.kind = "library"),
           y.todo = Opening(y.format, strict), strict => y.format = "vcd",
           y.pc = "detect" => y.format = "vcd" /\ ~strict,
           y.from \in 1 .. Len(history), y.read \in y.from .. Len(history)
    PROVE  ReqOk(y, g) /\ Certain(y, g)
  <1> DEFINE prints == PrintSet(y.format, y.kind = "library")
  <1>1. prints = PrintSet(y.format, strict)
    OBVIOUS
  <1>2. /\ OpenShape(y.todo, prints) /\ Has(y.todo, <<"create">>)
        /\ Has(y.todo, <<"catalog">>) /\ \A p \in prints : Has(y.todo, Load(p))
    BY <1>1, OpenProgram DEF RequestType
  <1>3. y.kind = "library" \/ y.pc = "detect" => y.format = "vcd"
    OBVIOUS
  <1>4. Open_(y)
    BY <1>2, <1>3 DEF Open_
  <1>5. ReqOk(y, g)
    BY <1>4 DEF ReqOk
  <1>6. Certain(y, g)
    BY <1>2 DEF Certain
  <1> QED
    BY <1>5, <1>6

LEMMA DetectStep ==
    ASSUME GInv, NEW r \in Requests, Detect(r)
    PROVE  GInv'
  <1>1. PICK x : x = req[r]
    OBVIOUS
  <1>2. PICK g : g = gens[x.gen]
    OBVIOUS
  <1>3. /\ World /\ x \in RequestType /\ ReqOk(x, g) /\ Quiet /\ x.pc = "probe"
        /\ \A n \in {Count} : Steady(x, n) => Certain(x, g)
        /\ Holds(x) /\ x.pc # "current" => Count < Len(history)
    BY <1>1, <1>2, RequestFacts DEF Detect, At
  <1>4. x.todo = <<>>
    BY <1>1, <1>3, OpIs DEF Detect, RequestType
  <1>5. x.fd \in Inodes /\ x.got = <<>> /\ x.kind # "library"
        /\ x.from \in 1 .. Len(history) /\ x.read \in x.from .. Len(history)
    <2>1. <<>> # << <<"open">> >>
      OBVIOUS
    <2> QED
      BY <1>3, <1>4, <2>1 DEF ReqOk
  <1>6. PICK format \in Formats : format = disk[x.fd].format
    BY <1>3, <1>5, FileFacts
  <1>7. PICK strict \in BOOLEAN : strict = FALSE
    OBVIOUS
  <1>8. PICK todo \in Seq(Ops) : todo = Opening(format, strict)
    BY <1>7, OpenProgram
  <1> DEFINE y == [x EXCEPT !.format = format, !.todo = todo,
                            !.pc = IF format = "vcd" THEN "detect" ELSE "open"]
  <1>9. req' = [req EXCEPT ![r] = y] /\ UNCHANGED <<gens, slot, holder>>
    BY <1>1, <1>6, <1>7, <1>8 DEF Detect, Opening
  <1>10. /\ y \in RequestType /\ y.format = format /\ y.todo = todo /\ y.gen = x.gen
         /\ y.pc = IF format = "vcd" THEN "detect" ELSE "open"
         /\ y.kind = x.kind /\ y.from = x.from /\ y.read = x.read /\ y.got = x.got
    BY <1>3 DEF RequestType, Pcs
  <1> HIDE DEF y
  <1>11. ReqOk(y, g) /\ Certain(y, g)
    BY <1>5, <1>7, <1>8, <1>10, OpenStarts
  <1>12. FormatKnown(y)
    <2>1. ASSUME x.from = Len(history) PROVE path \in Inodes /\ disk[path].format = format
      BY <1>3, <1>4, <1>5, <1>6, <2>1 DEF Steady, Certain
    <2> QED
      BY <1>10, <2>1 DEF FormatKnown
  <1>13. Excuse(y) /\ Holds(x)
    BY <1>3, <1>10 DEF Excuse, Holds
  <1> QED
    BY <1>1, <1>2, <1>3, <1>9, <1>10, <1>11, <1>12, <1>13, AdvanceStep

LEMMA DetectedStep ==
    ASSUME GInv, NEW r \in Requests, Detected(r)
    PROVE  GInv'
  <1>1. PICK x : x = req[r]
    OBVIOUS
  <1>2. PICK g : g = gens[x.gen]
    OBVIOUS
  <1>3. /\ World /\ x \in RequestType /\ ReqOk(x, g) /\ Quiet /\ x.pc = "detect"
        /\ FormatKnown(x) /\ (Holds(x) /\ x.pc # "current" => Count < Len(history))
    BY <1>1, <1>2, RequestFacts DEF Detected, At
  <1>4. x.got = <<>> /\ x.kind # "library" /\ x.format = "vcd"
        /\ x.from \in 1 .. Len(history) /\ x.read \in x.from .. Len(history)
    BY <1>3 DEF ReqOk, Open_
  <1>5. PICK strict \in BOOLEAN : strict = FALSE
    OBVIOUS
  <1>6. PICK todo \in Seq(Ops) : todo = Opening(x.format, strict)
    BY <1>4, <1>5, OpenProgram DEF Formats
  <1> DEFINE y == [x EXCEPT !.pc = "open", !.todo = todo]
  <1>7. req' = [req EXCEPT ![r] = y] /\ UNCHANGED <<gens, slot, holder>>
    BY <1>1, <1>4, <1>5, <1>6 DEF Detected, Opening
  <1>8. /\ y \in RequestType /\ y.format = x.format /\ y.todo = todo /\ y.gen = x.gen
        /\ y.pc = "open"
        /\ y.kind = x.kind /\ y.from = x.from /\ y.read = x.read /\ y.got = x.got
    BY <1>3 DEF RequestType, Pcs
  <1> HIDE DEF y
  <1>9. ReqOk(y, g) /\ Certain(y, g)
    BY <1>4, <1>5, <1>6, <1>8, OpenStarts
  <1>10. FormatKnown(y) /\ Excuse(y) /\ Holds(x)
    BY <1>3, <1>8 DEF FormatKnown, Excuse, Holds
  <1> QED
    BY <1>1, <1>2, <1>3, <1>7, <1>8, <1>9, <1>10, AdvanceStep

LEMMA StartStep ==
    ASSUME GInv, NEW r \in Requests, Start(r)
    PROVE  GInv'
  <1>1. PICK x : x = req[r]
    OBVIOUS
  <1>2. PICK g : g = gens[slot]
    OBVIOUS
  <1>3. /\ World /\ GensOk /\ RequestsOk /\ SlotOk /\ Quiet /\ UNCHANGED <<gens, slot>>
        /\ x.pc = "idle" /\ Len(history) \in Nat \ {0}
    BY <1>1, HistoryFacts DEF GInv, Start, At
  <1>4. PICK kind \in Kinds : kind = scenario.asks[r]
    BY <1>3, GenerationsAssumption DEF World, Start
  <1>5. /\ slot \in DOMAIN gens /\ slot \in Nat /\ ~g.strict /\ GenOk(g)
        /\ \A id \in DOMAIN gens : \A h, k \in {gens[id]} : SameSource(h, k) /\ GenOk(h)
        /\ gens \in Seq(GenerationType)
    BY <1>2, <1>3 DEF GensOk, SlotOk, SameSource
  <1> DEFINE started == [Idle EXCEPT !.kind = kind, !.gen = slot,
                             !.asked = Len(history), !.from = Len(history),
                             !.read = Len(history)]
  <1>6. /\ started \in RequestType /\ started.kind = kind /\ started.gen = slot
        /\ started.from = Len(history) /\ started.read = Len(history)
        /\ started.got = <<>> /\ started.format = "vcd"
    <2>1. <<>> \in Seq(Ops) /\ <<>> \in Stats
      BY DEF Stats
    <2> QED
      BY <1>3, <1>5, <2>1, EmptyIsTyped DEF Idle, RequestType, Pcs, Formats
  <1>7. CASE kind = "library"
    <2>1. PICK strict \in BOOLEAN : strict = TRUE
      OBVIOUS
    <2>2. PICK todo \in Seq(Ops) : todo = Opening("vcd", strict)
      BY <2>1, OpenProgram DEF Formats
    <2> DEFINE y == [started EXCEPT !.pc = "open", !.todo = todo]
    <2>3. req' = [req EXCEPT ![r] = y] /\ UNCHANGED holder
      BY <1>4, <1>7, <2>1, <2>2 DEF Start, Opening
    <2>4. /\ y \in RequestType /\ y.pc = "open" /\ y.todo = todo /\ y.kind = "library"
          /\ y.gen = slot /\ y.from = Len(history) /\ y.read = Len(history)
          /\ y.got = <<>> /\ y.format = "vcd"
      BY <1>6, <1>7, <2>2 DEF RequestType, Pcs
    <2> HIDE DEF y, started
    <2>5. ReqOk(y, g) /\ Certain(y, g)
      <3>1. y.from \in 1 .. Len(history) /\ y.read \in y.from .. Len(history)
        BY <1>3, <2>4
      <3> QED
        BY <2>1, <2>2, <2>4, <3>1, OpenStarts
    <2>6. FormatKnown(y) /\ Excuse(y) /\ ~Holds(y)
      BY <2>4 DEF FormatKnown, Excuse, Holds
    <2>7. /\ holder' \in Requests \cup {None}
          /\ \A s \in Requests \ {r} : Holds(req[s]) => holder' = s
      BY <1>3, <2>3 DEF SlotOk
    <2> QED
      BY <1>2, <1>3, <1>5, <2>3, <2>4, <2>5, <2>6, <2>7, KeepSlotStep
  <1>8. CASE kind # "library"
    <2>1. PICK todo : todo = ValidatePath(g)
      OBVIOUS
    <2>2. /\ todo \in Seq(Ops) /\ CheckShape(todo, g) /\ Has(todo, <<"admit">>)
          /\ \A p \in Prints_(g) : Has(todo, Hash(p))
      BY <1>5, <2>1, OwnerIsFile, ValidateHas
    <2> DEFINE y == [started EXCEPT !.pc = "current", !.todo = todo]
    <2>3. req' = [req EXCEPT ![r] = y] /\ holder = None /\ holder' = r
      BY <1>2, <1>4, <1>8, <2>1 DEF Start
    <2>4. /\ y \in RequestType /\ y.pc = "current" /\ y.todo = todo /\ y.kind # "library"
          /\ y.gen = slot /\ y.from = Len(history) /\ y.read = Len(history)
          /\ y.got = <<>>
      BY <1>6, <1>8, <2>2 DEF RequestType, Pcs
    <2> HIDE DEF y, started
    <2>5. ReqOk(y, g)
      <3>1. y.from \in 1 .. Len(history) /\ y.read \in y.from .. Len(history)
        BY <1>3, <2>4
      <3>2. Current_(y, g)
        BY <2>2, <2>4 DEF Current_
      <3> QED
        BY <1>5, <2>4, <3>1, <3>2 DEF ReqOk
    <2>6. Certain(y, g)
      BY <2>2, <2>4 DEF Certain
    <2>7. FormatKnown(y) /\ Excuse(y)
      BY <2>4 DEF FormatKnown, Excuse
    <2>8. \A s \in Requests \ {r} : ~Holds(req[s])
      BY <1>3, <2>3, GenerationsAssumption DEF SlotOk
    <2> QED
      BY <1>2, <1>3, <1>5, <2>3, <2>4, <2>5, <2>6, <2>7, <2>8, KeepSlotStep
  <1> QED
    BY <1>7, <1>8

LEMMA CurrentDone ==
    ASSUME GInv, NEW r \in Requests, Current(r)
    PROVE  GInv'
  <1>1. PICK x : x = req[r]
    OBVIOUS
  <1>2. PICK g : g = gens[x.gen]
    OBVIOUS
  <1>3. /\ World /\ x \in RequestType /\ GenOk(g) /\ ReqOk(x, g) /\ Quiet /\ x.pc = "current"
        /\ \A n \in {Count} : Steady(x, n) => Certain(x, g)
        /\ x.gen \in DOMAIN gens /\ holder = r
    BY <1>1, <1>2, RequestFacts DEF Current, At, Holds
  <1>4. x.todo = <<>>
    BY <1>1, <1>3, OpIs DEF Current, RequestType
  <1>5. /\ x.got = <<>> /\ Current_(x, g) /\ ~g.strict /\ x.kind # "library"
        /\ x.from \in 1 .. Len(history) /\ x.read \in x.from .. Len(history)
        /\ \A op : ~Has(x.todo, op)
    BY <1>3, <1>4 DEF ReqOk, Current_, Has
  <1> DEFINE y == [x EXCEPT !.pc = "ready"]
  <1>6. req' = [req EXCEPT ![r] = y] /\ UNCHANGED <<gens, slot>> /\ holder' = None
    BY <1>1, <1>3 DEF Current, RequestsOk
  <1>7. /\ y \in RequestType /\ y.pc = "ready" /\ y.todo = <<>> /\ y.gen = x.gen
        /\ y.kind = x.kind /\ y.from = x.from /\ y.read = x.read /\ y.got = <<>> /\ y.fd = x.fd
    BY <1>3, <1>4, <1>5 DEF RequestType, Pcs
  <1> HIDE DEF y
  <1>8. Run_(y, g)
    <2>1. x.fd = Owner(g) /\ PathKnown(x, g) /\ Owner(g) \in Inodes
      BY <1>3, <1>5, OwnerIsFile DEF Current_
    <2>2. OnOwner(y, g) /\ PathKnown(y, g)
      BY <1>7, <2>1 DEF OnOwner, PathKnown
    <2>3. ASSUME g.format = "vcd" PROVE Snap(Stamp(g), g.catalog, TRUE, y.got, y.from)
      <3>1. PICK known : known = ~Has(x.todo, Hash("header"))
        OBVIOUS
      <3>2. Snap(Stamp(g), g.catalog, known, x.got, x.from)
        BY <1>5, <2>3, <3>1 DEF Current_
      <3>3. known = TRUE
        BY <1>5, <3>1
      <3> QED
        BY <1>5, <1>7, <3>2, <3>3
    <2>4. DOMAIN y.got = {}
      BY <1>7, EmptyIsTyped
    <2> QED
      BY <1>5, <1>7, <2>1, <2>2, <2>3, <2>4 DEF Run_
  <1>9. ReqOk(y, g)
    BY <1>5, <1>7, <1>8 DEF ReqOk
  <1>10. ASSUME NEW n \in {Count}, Steady(y, n) PROVE Certain(y, g)
    <2>1. Certain(x, g)
      BY <1>3, <1>7, <1>10 DEF Steady
    <2>2. path = x.fd /\ Stat(g.format, path) = g.stat
          /\ \A p \in Prints_(g) : Region(path, p) = g.prints[p]
      BY <1>3, <1>5, <2>1 DEF Certain
    <2>3. x.fd \in Inodes
      BY <1>7, <1>8 DEF Run_
    <2>4. Matches(g, path)
      BY <2>2, <2>3 DEF Matches, Prints_
    <2> QED
      BY <1>7, <2>2, <2>4 DEF Certain
  <1>11. FormatKnown(y) /\ Excuse(y) /\ ~Holds(y)
    BY <1>7 DEF FormatKnown, Excuse, Holds
  <1>12. \A s \in Requests \ {r} : ~Holds(req[s])
    BY <1>3 DEF GInv, SlotOk
  <1>13. /\ gens' \in Seq(GenerationType) /\ Len(gens') = Len(gens)
         /\ \A id \in DOMAIN gens : \A h \in {gens[id]}, k \in {gens'[id]} :
                SameSource(h, k) /\ GenOk(k)
    BY <1>6 DEF GInv, GensOk, SameSource
  <1> QED
    BY <1>2, <1>3, <1>6, <1>7, <1>9, <1>10, <1>11, <1>12, <1>13, KeepSlotStep

LEMMA PublishStep ==
    ASSUME GInv, NEW r \in Requests, Publish(r)
    PROVE  GInv'
  <1>1. PICK x : x = req[r]
    OBVIOUS
  <1>2. PICK g : g = gens[x.gen]
    OBVIOUS
  <1>3. /\ World /\ x \in RequestType /\ GenOk(g) /\ ReqOk(x, g) /\ Quiet /\ x.pc = "run"
    BY <1>1, <1>2, RequestFacts DEF Publish, At
  <1>4. x.todo = <<>>
    BY <1>1, <1>3, OpIs DEF Publish, RequestType
  <1>5. /\ Running(x, g) /\ (x.kind # "library" => ~g.strict)
        /\ x.from \in 1 .. Len(history) /\ x.read \in x.from .. Len(history)
        /\ \A op : ~Has(x.todo, op)
    BY <1>3, <1>4 DEF ReqOk, Has
  <1> DEFINE y == [x EXCEPT !.pc = "done"]
  <1>6. req' = [req EXCEPT ![r] = y] /\ UNCHANGED <<gens, slot, holder>>
    BY <1>1 DEF Publish
  <1>7. /\ y \in RequestType /\ y.pc = "done" /\ y.todo = <<>> /\ y.gen = x.gen
        /\ y.kind = x.kind /\ y.from = x.from /\ y.read = x.read /\ y.got = x.got
    BY <1>3, <1>4 DEF RequestType, Pcs
  <1> HIDE DEF y
  <1>8. Done_(y, g)
    <2>1. Done_(x, g)
      BY <1>5 DEF Running, Done_
    <2> QED
      BY <1>7, <2>1, SameClaims DEF Done_
  <1>9. ReqOk(y, g)
    BY <1>5, <1>7, <1>8 DEF ReqOk
  <1>10. Certain(y, g) /\ FormatKnown(y) /\ Excuse(y) /\ ~Holds(y)
    BY <1>7 DEF Certain, FormatKnown, Excuse, Holds
  <1> QED
    BY <1>1, <1>2, <1>3, <1>6, <1>7, <1>9, <1>10, AdvanceStep

\* A step of a request that does not hold the mutex, and what it caches.
LEMMA CacheStep ==
    ASSUME GInv, Quiet, NEW r \in Requests, NEW x, x = req[r], ~Holds(x),
           NEW y \in RequestType, req' = [req EXCEPT ![r] = y], UNCHANGED <<slot, holder>>,
           y.gen = x.gen, ~Holds(y), NEW m \in Metadata, m.from \in 1 .. Len(history),
           m.state = "failed" => Excused(m.from),
           \A g \in {gens[x.gen]} : m.state = "ready" =>
               g.format = "vcd" /\ Snap(Stamp(g), g.catalog, TRUE, m.got, m.from),
           gens' = [gens EXCEPT ![x.gen].metadata = m],
           \A g \in {gens[x.gen]}, n \in {Count} :
               ReqOk(y, g) /\ (Steady(y, n) => Certain(y, g)),
           y.pc = "run"
    PROVE  GInv'
  <1>1. x.gen \in DOMAIN gens
    BY RequestFacts
  <1>2. /\ gens' \in Seq(GenerationType) /\ Len(gens') = Len(gens)
        /\ \A id \in DOMAIN gens : \A g \in {gens[id]}, h \in {gens'[id]} :
               SameSource(g, h) /\ GenOk(h)
    BY <1>1, CacheKeeps
  <1>3. FormatKnown(y) /\ Excuse(y)
    BY DEF FormatKnown, Excuse
  <1>4. /\ holder' \in Requests \cup {None}
        /\ \A s \in Requests \ {r} : Holds(req[s]) => holder' = s
    BY DEF GInv, SlotOk
  <1> QED
    BY <1>1, <1>2, <1>3, <1>4, KeepSlotStep

LEMMA StoreMetadataStep ==
    ASSUME GInv, NEW r \in Requests, StoreMetadata(r)
    PROVE  GInv'
  <1>1. PICK x : x = req[r]
    OBVIOUS
  <1>2. PICK g : g = gens[x.gen]
    OBVIOUS
  <1>3. /\ World /\ x \in RequestType /\ GenOk(g) /\ ReqOk(x, g) /\ Quiet
        /\ \A n \in {Count} : Steady(x, n) => Certain(x, g)
    BY <1>1, <1>2, RequestFacts DEF StoreMetadata
  <1>4. x.todo # <<>> /\ Head(x.todo) = <<"store">>
    BY <1>1, OpIs DEF StoreMetadata, Names
  <1>5. /\ \A q \in {"open", "admit", "stat", "create", "catalog", "same", "canonicalize"} :
               Head(x.todo) # <<q>>
        /\ \A q : Head(x.todo) # Hash(q) /\ Head(x.todo) # Load(q)
    BY <1>4, OpsDiffer
  <1>6. x.pc = "run"
    <2>1. \A P : Head(x.todo) \notin Hashes(P) /\ Head(x.todo) \notin Loads(P)
      BY <1>5 DEF Hashes, Loads
    <2> QED
      BY <1>3, <1>4, <1>5, <2>1, WhereOp
  <1>7. /\ Run_(x, g) /\ x.from \in 1 .. Len(history) /\ g.format = "vcd"
    <2>1. Has(x.todo, <<"store">>)
      BY <1>3, <1>4, TailHas DEF RequestType
    <2> QED
      BY <1>3, <1>6, <2>1 DEF ReqOk, Running, RunShape
  <1> DEFINE m == [state |-> "ready", got |-> x.got, from |-> x.from]
             y == [x EXCEPT !.todo = Tail(@)]
  <1>8. /\ req' = [req EXCEPT ![r] = y] /\ UNCHANGED <<slot, holder>>
        /\ gens' = [gens EXCEPT ![x.gen].metadata = m]
    BY <1>1 DEF StoreMetadata
  <1>9. m \in Metadata /\ m.state = "ready" /\ m.got = x.got /\ m.from = x.from
    BY <1>3 DEF RequestType, Metadata
  <1>10. Moved(x, y) /\ y.fd = x.fd /\ y.got = x.got /\ y.read = x.read
    <2>1. Tail(x.todo) \in Seq(Ops)
      BY <1>3, <1>4, WhereOp
    <2> QED
      BY <1>3, <2>1 DEF RequestType, Moved
  <1> HIDE DEF m, y
  <1>11. ReqOk(y, g) /\ (Certain(x, g) => Certain(y, g))
    BY <1>3, <1>4, <1>5, <1>6, <1>10, RunCheck
  <1>12. y \in RequestType /\ y.pc = "run" /\ y.gen = x.gen /\ y.from = x.from
    BY <1>6, <1>10 DEF Moved
  <1>13. ~Holds(x) /\ ~Holds(y) /\ \A n : Steady(y, n) => Steady(x, n)
    BY <1>6, <1>12 DEF Holds, Steady
  <1>14. Snap(Stamp(g), g.catalog, TRUE, m.got, m.from)
    BY <1>7, <1>9 DEF Run_
  <1> QED
    BY <1>1, <1>2, <1>3, <1>7, <1>8, <1>9, <1>11, <1>12, <1>13, <1>14, CacheStep

\* A request starts on its generation, with nothing read or with a cached scan.
LEMMA RunStarts ==
    ASSUME World, NEW g, GenOk(g), NEW x, ReqOk(x, g), x.pc = "ready",
           NEW y \in RequestType, y.pc = "run", y.todo = Program(y.kind, g), y.kind = x.kind,
           y.fd = x.fd, y.read = x.read, y.from \in 1 .. x.from,
           \/ y.from = x.from /\ y.got = x.got
           \/ /\ g.format = "vcd" /\ ~g.strict
              /\ Snap(Stamp(g), g.catalog, TRUE, y.got, y.from)
    PROVE  ReqOk(y, g) /\ (Certain(x, g) => Certain(y, g))
  <1>1. /\ Run_(x, g) /\ (x.kind # "library" => ~g.strict)
        /\ x.from \in 1 .. Len(history) /\ x.read \in x.from .. Len(history)
        /\ Len(history) \in Nat
    BY HistoryFacts DEF ReqOk
  <1>2. Checkable(g) /\ Owner(g) \in Inodes
    BY OwnerIsFile
  <1>3. /\ RunShape(y.todo, y.kind, g) /\ Has(y.todo, <<"admit">>)
        /\ g.strict => Has(y.todo, Hash("header"))
    BY <1>2, ProgramShape DEF RequestType
  <1>4. Running(y, g)
    BY <1>3 DEF Running
  <1>5. Run_(y, g)
    <2>1. CASE y.from = x.from /\ y.got = x.got
      BY <1>1, <2>1, SameRun
    <2>2. CASE /\ g.format = "vcd" /\ ~g.strict
               /\ Snap(Stamp(g), g.catalog, TRUE, y.got, y.from)
      <3>1. x.fd = Owner(g) /\ PathKnown(x, g)
        BY <1>1, <2>2 DEF Run_, OnOwner
      <3>2. OnOwner(y, g) /\ PathKnown(y, g)
        BY <1>1, <3>1 DEF OnOwner, PathKnown
      <3> QED
        BY <1>2, <2>2, <3>1, <3>2 DEF Run_
    <2> QED
      BY <2>1, <2>2
  <1>6. y.from \in 1 .. Len(history) /\ y.read \in y.from .. Len(history)
    BY <1>1
  <1>7. ReqOk(y, g)
    BY <1>1, <1>4, <1>5, <1>6 DEF ReqOk
  <1>8. Certain(x, g) => Certain(y, g)
    BY DEF Certain
  <1> QED
    BY <1>7, <1>8

LEMMA RunStep ==
    ASSUME GInv, NEW r \in Requests, Run(r)
    PROVE  GInv'
  <1>1. PICK x : x = req[r]
    OBVIOUS
  <1>2. PICK g : g = gens[x.gen]
    OBVIOUS
  <1>3. /\ World /\ x \in RequestType /\ GenOk(g) /\ ReqOk(x, g) /\ Quiet /\ x.pc = "ready"
        /\ \A n \in {Count} : Steady(x, n) => Certain(x, g)
        /\ g = Gen(r) /\ UNCHANGED <<slot, holder>> /\ Len(history) \in Nat \ {0}
    BY <1>1, <1>2, RequestFacts DEF Run, At
  <1>4. /\ x.got = <<>> /\ x.todo = <<>> /\ (x.kind # "library" => ~g.strict)
        /\ x.from \in 1 .. Len(history) /\ x.read \in x.from .. Len(history) /\ ~Holds(x)
    BY <1>3 DEF ReqOk, Holds
  <1>5. PICK cached \in Metadata : cached = g.metadata
    BY <1>3 DEF GenOk, GenerationType
  <1>6. cached.from \in 1 .. Len(history)
    BY <1>3, <1>5 DEF GenOk
  <1>7. PICK todo \in Seq(Ops) : todo = Program(x.kind, g)
    BY <1>3, OwnerIsFile, ProgramShape DEF RequestType
  <1> DEFINE needsScan == x.kind = "metadata" /\ g.format = "vcd"
  <1>8. CASE /\ ~needsScan \/ cached.state = "none"
             /\ req' = [req EXCEPT ![r].pc = "run", ![r].todo = todo]
             /\ gens' = IF needsScan
                        THEN [gens EXCEPT ![x.gen].metadata.state = "building"]
                        ELSE gens
    <2> DEFINE y == [x EXCEPT !.pc = "run", !.todo = todo]
    <2>1. req' = [req EXCEPT ![r] = y]
      BY <1>1, <1>8
    <2>2. /\ y \in RequestType /\ y.pc = "run" /\ y.todo = Program(y.kind, g) /\ y.gen = x.gen
          /\ y.kind = x.kind /\ y.from = x.from /\ y.read = x.read
          /\ y.got = x.got /\ y.fd = x.fd
      BY <1>3, <1>7 DEF RequestType, Pcs
    <2> HIDE DEF y
    <2>3. ReqOk(y, g) /\ (Certain(x, g) => Certain(y, g))
      <3>1. y.from \in 1 .. x.from
        BY <1>4, <2>2
      <3> QED
        BY <1>3, <2>2, <3>1, RunStarts
    <2>4. /\ FormatKnown(y) /\ Excuse(y) /\ ~Holds(y)
          /\ \A n : Steady(y, n) => Steady(x, n)
      BY <2>2 DEF FormatKnown, Excuse, Holds, Steady
    <2>5. CASE needsScan
      <3> DEFINE m == [cached EXCEPT !.state = "building"]
      <3>1. m \in Metadata /\ m.state = "building" /\ m.from = cached.from
        BY <1>5 DEF Metadata
      <3>2. gens' = [gens EXCEPT ![x.gen].metadata = m]
        BY <1>2, <1>5, <1>8, <2>5
      <3> HIDE DEF m
      <3> QED
        BY <1>1, <1>2, <1>3, <1>4, <1>6, <2>1, <2>2, <2>3, <2>4, <3>1, <3>2, CacheStep
    <2>6. CASE ~needsScan
      <3>1. gens' = gens
        BY <1>8, <2>6
      <3> QED
        BY <1>1, <1>2, <1>3, <2>1, <2>2, <2>3, <2>4, <3>1, AdvanceStep
    <2> QED
      BY <2>5, <2>6
  <1> DEFINE since == IF cached.from < x.from THEN cached.from ELSE x.from
  <1>9. CASE /\ needsScan /\ cached.state \in {"ready", "failed"}
             /\ req' = [req EXCEPT ![r].from = since, ![r].got = cached.got,
                    ![r].pc = IF cached.state = "ready" THEN "run" ELSE "failed",
                    ![r].todo = IF cached.state = "ready" THEN todo ELSE <<>>]
             /\ UNCHANGED gens
    <2>1. since \in 1 .. x.from /\ since <= cached.from /\ (since = cached.from \/ since = x.from)
      BY <1>4, <1>6
    <2> DEFINE y == [x EXCEPT !.from = since, !.got = cached.got,
                    !.pc = IF cached.state = "ready" THEN "run" ELSE "failed",
                    !.todo = IF cached.state = "ready" THEN todo ELSE <<>>]
    <2>2. req' = [req EXCEPT ![r] = y]
      BY <1>1, <1>9
    <2>3. /\ y \in RequestType /\ y.gen = x.gen /\ y.kind = x.kind /\ y.read = x.read
          /\ y.fd = x.fd /\ y.from = since /\ y.got = cached.got
          /\ y.pc = IF cached.state = "ready" THEN "run" ELSE "failed"
          /\ y.todo = IF cached.state = "ready" THEN todo ELSE <<>>
      <3>1. <<>> \in Seq(Ops) /\ cached.got \in Regions /\ since \in Nat
        BY <1>5, <2>1 DEF Metadata
      <3> HIDE DEF since
      <3> QED
        BY <1>3, <3>1 DEF RequestType, Pcs
    <2> HIDE DEF y, since
    <2>4. FormatKnown(y) /\ ~Holds(y)
      BY <2>3 DEF FormatKnown, Holds
    <2>7. UNCHANGED <<gens, slot, holder>>
      BY <1>3, <1>9
    <2>5. CASE cached.state = "ready"
      <3>1. Snap(Stamp(g), g.catalog, TRUE, cached.got, cached.from)
        BY <1>3, <1>5, <2>5 DEF GenOk
      <3>2. Snap(Stamp(g), g.catalog, TRUE, y.got, y.from)
        <4>1. cached.from .. Len(history) \subseteq since .. Len(history)
          BY <1>6, <2>1
        <4> QED
          BY <2>3, <3>1, <4>1 DEF Snap
      <3>3. g.format = "vcd" /\ ~g.strict
        BY <1>4, <1>9
      <3>4. ReqOk(y, g) /\ (Certain(x, g) => Certain(y, g))
        BY <1>3, <1>7, <2>1, <2>3, <2>5, <3>2, <3>3, RunStarts
      <3>5. ASSUME NEW n, Steady(y, n) PROVE Steady(x, n)
        <4>1. y.pc = "run" /\ y.from = since
          BY <2>3, <2>5
        <4>2. since = Len(history)
          BY <3>5, <4>1 DEF Steady
        <4>3. x.from = Len(history)
          BY <1>4, <2>1, <4>2
        <4> QED
          BY <4>3 DEF Steady
      <3>6. Excuse(y)
        BY <2>3, <2>5 DEF Excuse
      <3> QED
        BY <1>1, <1>2, <1>3, <2>2, <2>3, <2>4, <2>5, <2>7, <3>4, <3>5, <3>6, AdvanceStep
    <2>6. CASE cached.state = "failed"
      <3>1. ReqOk(y, g)
        <4>1. y.from \in 1 .. Len(history) /\ y.read \in y.from .. Len(history)
          BY <1>4, <2>1, <2>3
        <4> QED
          BY <2>3, <2>6, <4>1 DEF ReqOk
      <3>2. Certain(y, g)
        BY <2>3, <2>6 DEF Certain
      <3>3. Excuse(y)
        <4>1. Excused(cached.from)
          BY <1>3, <1>5, <2>6 DEF GenOk
        <4>2. history[since].now # None => since < Len(history)
          BY <1>3, <1>4, <1>6, <2>1, <4>1 DEF Excused
        <4> QED
          BY <2>3, <4>2 DEF Excuse
      <3> QED
        BY <1>1, <1>2, <1>3, <2>2, <2>3, <2>4, <2>7, <3>1, <3>2, <3>3, AdvanceStep
    <2> QED
      BY <1>9, <2>5, <2>6
  <1> QED
    BY <1>1, <1>3, <1>5, <1>7, <1>8, <1>9 DEF Run

\* The generation a request has built, and the request on it.
LEMMA BuiltOk ==
    ASSUME World, NEW g, NEW x, ReqOk(x, g), x.pc = "open", x.todo = <<>>,
           NEW h, h = Generation(x.format, x.kind = "library", x.stat, x.prints, x.catalog),
           NEW y \in RequestType, y.pc = "ready", y.todo = <<>>, y.kind = x.kind,
           y.from = x.from, y.read = x.read, y.got = x.got, y.fd = x.fd
    PROVE  /\ h \in GenerationType /\ GenOk(h) /\ (h.strict <=> x.kind = "library")
           /\ ReqOk(y, h)
           /\ Certain(x, g) => Matches(h, path) /\ Certain(y, h)
  <1>1. PICK strict \in BOOLEAN : strict = (x.kind = "library")
    OBVIOUS
  <1>2. PICK stamp : stamp = StampOf(x.format, x.stat)
    OBVIOUS
  <1>3. PICK prints : prints = PrintSet(x.format, strict)
    OBVIOUS
  <1>4. /\ x \in RequestType /\ Open_(x) /\ \A op : ~Has(x.todo, op)
        /\ x.from \in 1 .. Len(history) /\ x.read \in x.from .. Len(history)
        /\ Len(history) \in Nat
    BY HistoryFacts DEF ReqOk, Has
  <1>5. /\ stamp \in Values /\ stamp[2] < Len(history) /\ x.stat = StatOf(x.format, stamp)
        /\ x.fd = stamp[1] /\ (path = x.fd \/ Len(history) > x.from)
        /\ (\A p \in prints : p \in DOMAIN x.prints) /\ DOMAIN x.prints \subseteq prints
        /\ x.catalog \in Values /\ disk[x.fd].format = x.format
        /\ x.format = "fst" /\ NoSilent(0) /\ disk[x.fd].stamp = stamp =>
               disk[x.fd].head = x.catalog
        /\ "header" \in DOMAIN x.prints => x.prints["header"] = HeaderOf(x.catalog)
        /\ "full" \in DOMAIN x.prints =>
               /\ DOMAIN x.prints["full"] = Blocks
               /\ \A block \in Blocks : x.prints["full"][block][2] < Len(history)
        /\ strict => x.format = "vcd"
        /\ x.got = <<>>
    <2>1. prints = PrintSet(x.format, x.kind = "library")
      BY <1>1, <1>3
    <2> QED
      BY <1>1, <1>2, <1>4, <2>1 DEF Open_
  <1>6. x.format \in Formats /\ x.prints \in PrintMaps /\ DOMAIN x.prints = prints
        /\ stamp[1] \in Inodes
    BY <1>4, <1>5 DEF RequestType, Values
  <1>7. h = Generation(x.format, strict, StatOf(x.format, stamp), x.prints, x.catalog)
    BY <1>1, <1>5
  <1>8. /\ x.format = "vcd" => x.prints["header"] = HeaderOf(x.catalog)
        /\ strict => /\ DOMAIN x.prints["full"] = Blocks
                     /\ \A block \in Blocks : x.prints["full"][block][2] < Len(history)
    <2>1. /\ x.format = "vcd" => "header" \in prints
          /\ strict => "full" \in prints
      BY <1>3, <1>5 DEF PrintSet, PrintNames
    <2> QED
      BY <1>5, <1>6, <2>1
  <1>9. GenOk(h) /\ h \in GenerationType /\ Stamp(h) = stamp
    BY <1>3, <1>5, <1>6, <1>7, <1>8, NewGenerationOk
  <1>10. /\ h.format = x.format /\ h.strict = strict /\ h.stat = x.stat
         /\ h.prints = x.prints /\ h.catalog = x.catalog
    BY <1>5, <1>7 DEF Generation
  <1>11. Owner(h) = x.fd
    BY <1>5, <1>9 DEF Owner
  <1>12. Run_(y, h)
    <2>1. OnOwner(y, h) /\ PathKnown(y, h)
      BY <1>5, <1>11 DEF OnOwner, PathKnown
    <2>2. ASSUME h.format = "vcd" PROVE Snap(Stamp(h), h.catalog, TRUE, y.got, y.from)
      <3>1. PICK known : known = ~Has(x.todo, <<"catalog">>)
        OBVIOUS
      <3>2. Snap(stamp, x.catalog, known, x.got, x.from)
        BY <1>2, <1>4, <1>10, <2>2, <3>1 DEF Open_
      <3>3. known = TRUE
        BY <1>4, <3>1
      <3> QED
        BY <1>9, <1>10, <3>2, <3>3
    <2>3. DOMAIN y.got = {}
      BY <1>5, EmptyIsTyped
    <2>4. Recalls(disk[Owner(h)], h.prints["full"], y)
      BY <2>3 DEF Recalls
    <2> QED
      BY <1>5, <1>6, <2>1, <2>2, <2>3, <2>4 DEF Run_
  <1>13. ReqOk(y, h)
    <2>1. y.kind # "library" => ~h.strict
      BY <1>1, <1>10
    <2> QED
      BY <1>4, <1>5, <1>12, <2>1 DEF ReqOk
  <1>14. ASSUME Certain(x, g) PROVE Matches(h, path) /\ Certain(y, h)
    <2>1. /\ path = x.fd /\ Stat(x.format, path) = x.stat
          /\ \A p \in PrintSet(x.format, x.kind = "library") : Region(path, p) = x.prints[p]
      BY <1>4, <1>14 DEF Certain
    <2>2. Matches(h, path)
      BY <1>1, <1>5, <1>6, <1>10, <2>1 DEF Matches
    <2> QED
      BY <2>1, <2>2 DEF Certain
  <1> QED
    BY <1>1, <1>9, <1>10, <1>13, <1>14

LEMMA OpenedStep ==
    ASSUME GInv, NEW r \in Requests, Opened(r)
    PROVE  GInv'
  <1>1. PICK x : x = req[r]
    OBVIOUS
  <1>2. PICK g : g = gens[x.gen]
    OBVIOUS
  <1>3. /\ World /\ x \in RequestType /\ ReqOk(x, g) /\ Quiet /\ x.pc = "open"
        /\ \A n \in {Count} : Steady(x, n) => Certain(x, g)
        /\ Holds(x) => holder = r /\ Count < Len(history)
        /\ Count \in 0 .. Len(history) /\ Len(history) \in Nat
    BY <1>1, <1>2, RequestFacts DEF Opened, At
  <1>4. /\ GensOk /\ SlotOk /\ gens \in Seq(GenerationType) /\ x.todo = <<>>
    BY <1>1, <1>3, OpIs DEF GInv, GensOk, Opened, RequestType
  <1>5. PICK id \in Nat : id = Len(gens) + 1
    BY <1>4
  <1>6. PICK h : h = Generation(x.format, x.kind = "library", x.stat, x.prints, x.catalog)
    OBVIOUS
  <1> DEFINE y == [x EXCEPT !.gen = id, !.pc = "ready"]
  <1>7. /\ gens' = Append(gens, h) /\ slot' = IF x.kind = "library" THEN slot ELSE id
        /\ req' = [req EXCEPT ![r] = y] /\ holder' = IF holder = r THEN None ELSE holder
    BY <1>1, <1>5, <1>6 DEF Opened
  <1>8. /\ y \in RequestType /\ y.pc = "ready" /\ y.todo = <<>> /\ y.kind = x.kind
        /\ y.from = x.from /\ y.read = x.read /\ y.got = x.got /\ y.fd = x.fd /\ y.gen = id
    BY <1>3, <1>4, <1>5 DEF RequestType, Pcs
  <1> HIDE DEF y
  <1>9. /\ h \in GenerationType /\ GenOk(h) /\ (h.strict <=> x.kind = "library")
        /\ ReqOk(y, h)
        /\ Certain(x, g) => Matches(h, path) /\ Certain(y, h)
    BY <1>3, <1>4, <1>6, <1>8, BuiltOk
  <1>10. /\ gens' \in Seq(GenerationType) /\ Len(gens') = Len(gens) + 1
         /\ DOMAIN gens' = DOMAIN gens \cup {id} /\ id \notin DOMAIN gens
         /\ gens'[id] = h /\ \A k \in DOMAIN gens : gens'[k] = gens[k]
    BY <1>4, <1>5, <1>7, <1>9
  <1>11. /\ \A k \in DOMAIN gens : \A u \in {gens[k]}, v \in {gens'[k]} : SameSource(u, v)
         /\ \A k \in DOMAIN gens' : \A v \in {gens'[k]} : GenOk(v)
    BY <1>4, <1>9, <1>10 DEF GensOk, SameSource
  <1>12. ASSUME NEW n, Steady(y, n) PROVE Certain(y, h)
    <2>1. x.from = Len(history)
      BY <1>8, <1>12 DEF Steady
    <2> QED
      BY <1>3, <1>9, <2>1 DEF Steady
  <1>13. FormatKnown(y) /\ Excuse(y) /\ ~Holds(y)
    BY <1>8 DEF FormatKnown, Excuse, Holds
  <1>14. /\ Served' = IF x.kind = "library" THEN Served ELSE Served \cup {id}
         /\ Served \subseteq DOMAIN gens
    BY <1>9, <1>10 DEF Served
  <1>15. /\ x.kind = "library" => Count' = Count
         /\ x.kind # "library" => Count' = Count + 1
    <2>1. IsFiniteSet(Served) /\ id \notin Served
      <3>1. Served \subseteq 1 .. Len(gens) /\ IsFiniteSet(1 .. Len(gens))
        BY <1>4, <1>14, FS_Interval
      <3> QED
        BY <1>10, <1>14, <3>1, FS_Subset
    <2> QED
      BY <1>14, <2>1, FS_AddElement DEF Count
  <1>16. \A s \in Requests \ {r} : Holds(req[s]) => holder = s /\ holder' = s
    BY <1>4, <1>7 DEF SlotOk
  <1>17. Holds(x) <=> x.kind # "library"
    BY <1>3 DEF Holds
  <1>18. req'[r] = y /\ \A s \in Requests \ {r} : req'[s] = req[s]
    BY <1>7 DEF GInv, RequestsOk
  <1>19. SlotOk'
    <2>1. history' = history /\ path' = path
      BY <1>3 DEF Quiet
    <2>2. CASE x.kind = "library"
      <3>1. /\ Count' = Count /\ slot' = slot /\ slot \in DOMAIN gens
            /\ gens'[slot] = gens[slot]
        BY <1>4, <1>7, <1>10, <1>15, <2>2 DEF SlotOk
      <3>2. \A s \in Requests :
                /\ Holds(req'[s]) => holder' = s
                /\ Holds(req'[s]) /\ req'[s].pc = "current" => req'[s].gen = slot'
                /\ Holds(req'[s]) /\ req'[s].pc # "current" => Count' < Len(history')
        BY <1>4, <1>13, <1>16, <1>18, <2>1, <3>1 DEF SlotOk
      <3>3. ASSUME NEW u, u = gens[slot], NEW i, i = path, Count' = Len(history')
            PROVE  Matches(u, i)'
        <4>1. Matches(u, i)
          BY <1>4, <2>1, <3>1, <3>3 DEF SlotOk
        <4> QED
          BY <1>3, <4>1, QuietKeeps
      <3>4. holder' \in Requests \cup {None} /\ ~gens[slot].strict
        BY <1>4, <1>7 DEF SlotOk
      <3> QED
        BY <1>3, <1>10, <2>1, <3>1, <3>2, <3>3, <3>4 DEF SlotOk
    <2>3. CASE x.kind # "library"
      <3>1. /\ Count' = Count + 1 /\ slot' = id /\ holder = r /\ Count < Len(history)
        BY <1>3, <1>7, <1>15, <1>17, <2>3
      <3>2. \A s \in Requests : ~Holds(req'[s])
        BY <1>13, <1>16, <1>18, <3>1
      <3>3. ASSUME NEW i, i = path, Count' = Len(history') PROVE Matches(h, i)'
        <4>1. Steady(x, Count)
          BY <1>3, <2>1, <2>3, <3>1, <3>3 DEF Steady
        <4>2. Matches(h, i)
          BY <1>3, <1>9, <3>3, <4>1
        <4> QED
          BY <1>3, <4>2, QuietKeeps
      <3>4. holder' \in Requests \cup {None} /\ ~h.strict /\ Count' \in 0 .. Len(history')
        BY <1>3, <1>7, <1>9, <2>1, <2>3, <3>1
      <3> QED
        BY <1>10, <2>1, <3>1, <3>2, <3>3, <3>4 DEF SlotOk
    <2> QED
      BY <2>2, <2>3
  <1>20. Count' = Count \/ \A s \in Requests \ {r} : ~Holds(req[s])
    BY <1>3, <1>15, <1>16, <1>17
  <1>21. /\ Len(gens') >= Len(gens) /\ y.gen \in DOMAIN gens'
         /\ \A k \in {gens'[y.gen]}, n \in {Count'} :
                ReqOk(y, k) /\ (Steady(y, n) => Certain(y, k))
    BY <1>4, <1>8, <1>9, <1>10, <1>12
  <1> QED
    BY <1>3, <1>7, <1>8, <1>10, <1>11, <1>13, <1>19, <1>20, <1>21, RequestStep

(***************************************************************************)
(* The invariant.                                                          *)
(***************************************************************************)
LEMMA StutterGInv ==
    ASSUME GInv, UNCHANGED vars
    PROVE  GInv'
  <1>1. Quiet /\ Served' = Served /\ Count' = Count
    BY DEF vars, Quiet, Served, Count
  <1>2. World'
    BY <1>1, QuietKeeps DEF GInv
  <1>3. UNCHANGED <<history, path, gens, slot, holder, req>>
    BY DEF vars
  <1>4. GensOk'
    <2>1. ASSUME NEW id \in DOMAIN gens, NEW g, g = gens[id] PROVE GenOk(g)'
      <3>1. GenOk(g)
        BY <2>1 DEF GInv, GensOk
      <3> QED
        BY <1>1, <3>1, QuietKeeps
    <2> QED
      BY <1>3, <2>1 DEF GInv, GensOk
  <1>5. RequestsOk'
    <2>1. ASSUME NEW r \in Requests PROVE RequestOk(r)'
      <3>1. RequestOk(r)
        BY DEF GInv, RequestsOk
      <3>2. ASSUME NEW x, x = req[r], NEW g, g = gens[x.gen], NEW n, n = Count
            PROVE  /\ ReqOk(x, g)' /\ (Steady(x, n)' => Certain(x, g)')
                   /\ FormatKnown(x)' /\ Excuse(x)'
        <4>1. ReqOk(x, g) /\ (Steady(x, n) => Certain(x, g)) /\ FormatKnown(x) /\ Excuse(x)
          BY <3>1, <3>2 DEF RequestOk
        <4> QED
          BY <1>1, <4>1, QuietKeeps
      <3> QED
        BY <1>1, <1>3, <3>1, <3>2 DEF RequestOk
    <2> QED
      BY <1>3, <2>1 DEF GInv, RequestsOk
  <1>6. SlotOk'
    <2>1. ASSUME NEW g, g = gens[slot], NEW i, i = path, Count = Len(history)
          PROVE  Matches(g, i)'
      <3>1. Matches(g, i)
        BY <2>1 DEF GInv, SlotOk
      <3> QED
        BY <1>1, <3>1, QuietKeeps
    <2> QED
      BY <1>1, <1>3, <2>1 DEF GInv, SlotOk
  <1> QED
    BY <1>2, <1>4, <1>5, <1>6 DEF GInv

LEMMA NextGInv ==
    ASSUME GInv, [Next]_vars
    PROVE  GInv'
  <1>1. CASE WriteBlock \/ Retarget
    BY <1>1, OthersKeepGInv
  <1>2. ASSUME NEW r \in Requests,
               \/ Start(r) \/ OpenPath(r) \/ CheckStat(r) \/ CheckPrint(r)
               \/ ReadBody(r) \/ Create(r) \/ Admit(r) \/ ReadCatalog(r) \/ LoadPrint(r)
               \/ SameStat(r) \/ Canonicalize(r) \/ Detect(r) \/ Detected(r)
               \/ Opened(r) \/ Current(r) \/ Run(r) \/ StoreMetadata(r) \/ Publish(r)
        PROVE  GInv'
    <2>1. CASE Start(r)
      BY <2>1, StartStep
    <2>2. CASE OpenPath(r)
      BY <2>2, OpenPathStep
    <2>3. CASE CheckStat(r)
      BY <2>3, CheckStatStep
    <2>4. CASE CheckPrint(r)
      BY <2>4, CheckPrintStep
    <2>5. CASE ReadBody(r)
      BY <2>5, ReadBodyStep
    <2>6. CASE Create(r)
      BY <2>6, CreateStep
    <2>7. CASE Admit(r)
      BY <2>7, AdmitStep
    <2>8. CASE ReadCatalog(r)
      BY <2>8, ReadCatalogStep
    <2>9. CASE LoadPrint(r)
      BY <2>9, LoadPrintStep
    <2>10. CASE SameStat(r)
      BY <2>10, SameStatStep
    <2>11. CASE Canonicalize(r)
      BY <2>11, CanonicalizeStep
    <2>12. CASE Detect(r)
      BY <2>12, DetectStep
    <2>13. CASE Detected(r)
      BY <2>13, DetectedStep
    <2>14. CASE Opened(r)
      BY <2>14, OpenedStep
    <2>15. CASE Current(r)
      BY <2>15, CurrentDone
    <2>16. CASE Run(r)
      BY <2>16, RunStep
    <2>17. CASE StoreMetadata(r)
      BY <2>17, StoreMetadataStep
    <2>18. CASE Publish(r)
      BY <2>18, PublishStep
    <2> QED
      BY <1>2, <2>1, <2>2, <2>3, <2>4, <2>5, <2>6, <2>7, <2>8, <2>9, <2>10, <2>11,
         <2>12, <2>13, <2>14, <2>15, <2>16, <2>17, <2>18
  <1>3. CASE UNCHANGED vars
    BY <1>3, StutterGInv
  <1> QED
    BY <1>1, <1>2, <1>3 DEF Next

LEMMA Invariance == Spec => []GInv
  <1>1. Init => GInv
    BY InitGInv
  <1>2. GInv /\ [Next]_vars => GInv'
    BY NextGInv
  <1> QED
    BY <1>1, <1>2, PTL DEF Spec

(***************************************************************************)
(* The theorems.                                                           *)
(***************************************************************************)
\* However many requests find the slot stale together, the server opens no
\* more generations than the source has changed.
THEOREM OneOpeningPerChange == Spec => []OneGenerationPerChange
  <1>1. GInv => OneGenerationPerChange
    <2>1. ASSUME GInv PROVE Count \in 0 .. Len(history) /\ Len(history) \in Nat
      BY <2>1, HistoryFacts DEF GInv, SlotOk
    <2> QED
      BY <2>1 DEF OneGenerationPerChange, Count, Served
  <1> QED
    BY <1>1, Invariance, PTL

\* A request whose source did not change, and was there, does not fail for it:
\* every comparison and every open of it finds what its generation was built on.
THEOREM SourceFailuresAreReal == Spec => []FailureIsReal
  <1>1. ASSUME GInv, NEW r \in Requests, NEW x, x = req[r] PROVE Excuse(x)
    BY <1>1 DEF GInv, RequestsOk, RequestOk
  <1>2. GInv => FailureIsReal
    BY <1>1 DEF FailureIsReal, Excuse, At
  <1> QED
    BY <1>2, Invariance, PTL

\* An answer is of the content the invariant claims.
LEMMA AnswersAreContent ==
    ASSUME NEW r, NEW x, x = req[r], NEW g, g = Gen(r), NEW since, Answers(x, g, since)
    PROVE  OneContent(r, since)
  <1>1. PICK k \in since .. Len(history) :
            history[k].now # None /\ Agrees(history[k].now, g.catalog, TRUE, x.got)
    BY DEF Answers
  <1>2. IsOf(r, history[k].now)
    BY <1>1 DEF IsOf, Agrees
  <1> QED
    BY <1>2 DEF OneContent

\* What the number of silent writes says of them.
LEMMA SilentCount ==
    ASSUME NEW r, req[r].from \in 1 .. Len(history), Len(history) \in Nat
    PROVE  /\ SilentWrites(r) = 0 => NoSilent(req[r].from)
           /\ SilentWrites(r) <= 1 => OneSilent(req[r].from)
  <1> DEFINE from == req[r].from
             S == {k \in Since(r) \ {from} : history[k].silent}
  <1>1. Since(r) \ {from} = from + 1 .. Len(history)
    BY DEF Since
  <1>2. IsFiniteSet(S)
    <2>1. \A k \in from + 1 .. Len(history) : k \in 1 .. Len(history)
      OBVIOUS
    <2>2. S \subseteq 1 .. Len(history)
      BY <1>1, <2>1
    <2>3. 1 \in Int /\ Len(history) \in Int
      OBVIOUS
    <2>4. IsFiniteSet(1 .. Len(history))
      BY <2>3, FS_Interval
    <2> QED
      BY <2>2, <2>4, FS_Subset
  <1>3. Cardinality(S) \in Nat /\ SilentWrites(r) = Cardinality(S)
    BY <1>2, FS_CardinalityType DEF SilentWrites
  <1>4. ASSUME Cardinality(S) = 0 PROVE S = {}
    BY <1>2, <1>4, FS_EmptySet
  <1>5. ASSUME Cardinality(S) <= 1, NEW m \in S, NEW n \in S PROVE m = n
    <2>1. Cardinality(S) = 1
      BY <1>3, <1>4, <1>5
    <2>2. PICK k : S = {k}
      BY <1>2, <2>1, FS_Singleton
    <2> QED
      BY <2>2, <1>5
  <1>6. \A k \in from + 1 .. Len(history) : history[k].silent => k \in S
    BY <1>1
  <1> HIDE DEF S
  <1>7. SilentWrites(r) = 0 => NoSilent(from)
    BY <1>3, <1>4, <1>6 DEF NoSilent
  <1>8. SilentWrites(r) <= 1 => OneSilent(from)
    BY <1>3, <1>5, <1>6 DEF OneSilent
  <1> QED
    BY <1>7, <1>8

\* An answer combines the catalog and the rows of one content that the path led
\* to while the request ran, as far as the identity of the source can tell.
THEOREM AnswersAreOfOneContent == Spec => []AnswerIsOneContent
  <1>1. ASSUME GInv, NEW r \in Requests, At(r, "done"), Tolerated(r)
        PROVE  OneContent(r, IF SilentWrites(r) = 0 THEN req[r].read ELSE req[r].from)
    <2>1. PICK x : x = req[r]
      OBVIOUS
    <2>2. PICK g : g = gens[x.gen]
      OBVIOUS
    <2>3. /\ GenOk(g) /\ ReqOk(x, g) /\ g = Gen(r) /\ Len(history) \in Nat \ {0} /\ World
      BY <1>1, <2>1, <2>2, RequestFacts
    <2>4. /\ Done_(x, g) /\ x.from \in 1 .. Len(history) /\ x.read \in x.from .. Len(history)
          /\ g.format \in {"vcd", "fst"}
      BY <1>1, <2>1, <2>3, OwnerIsFile DEF ReqOk, At, Checkable, Formats
    <2>5. /\ SilentWrites(r) = 0 => NoSilent(x.from)
          /\ SilentWrites(r) <= 1 => OneSilent(x.from)
      BY <2>1, <2>3, <2>4, SilentCount
    <2>6. ASSUME Answers(x, g, x.read) PROVE Answers(x, g, x.from)
      <3>1. x.read .. Len(history) \subseteq x.from .. Len(history)
        BY <2>3, <2>4
      <3> QED
        BY <2>6, <3>1 DEF Answers
    <2>7. \/ Answers(x, g, x.read)
          \/ SilentWrites(r) # 0 /\ Answers(x, g, x.from)
      <3>1. CASE g.format = "vcd" /\ SilentWrites(r) <= 1
        BY <2>4, <2>5, <3>1 DEF Done_, ClaimSilent
      <3>2. CASE /\ g.format = "vcd" /\ g.strict
                 /\ \A k \in Since(r) \ {req[r].from} : ~history[k].restored
        <4>1. NoneRestored(x.from)
          BY <2>1, <2>4, <3>2 DEF Since, NoneRestored
        <4> QED
          BY <2>4, <3>2, <4>1 DEF Done_, ClaimStrict
      <3>3. CASE /\ g.format = "fst" /\ Len(history) <= x.from + 1
                 /\ \A k \in DOMAIN history : ~history[k].silent
        <4>1. NoSilent(0)
          BY <2>3, <3>3, HistoryFacts DEF NoSilent
        <4> QED
          BY <2>4, <3>3, <4>1 DEF Done_, ClaimFst
      <3> QED
        BY <1>1, <2>1, <2>3, <2>4, <3>1, <3>2, <3>3 DEF Tolerated
    <2> QED
      BY <2>1, <2>3, <2>6, <2>7, AnswersAreContent
  <1>2. GInv => AnswerIsOneContent
    BY <1>1 DEF AnswerIsOneContent
  <1> QED
    BY <1>2, Invariance, PTL

================================================================================
