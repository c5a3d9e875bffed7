------------------------------ MODULE Generations ------------------------------
(***************************************************************************)
(* Source identity and generations: the slot of the server that holds the  *)
(* current opened waveform (service.rs, GenerationSlot), the identity by   *)
(* which an opened file is recognised (opened/identity.rs for VCD,         *)
(* opened/fst.rs for FST), and requests that read the file while other     *)
(* programs write it in place, retarget the configured path or remove it.  *)
(*                                                                         *)
(* A file is a format, a stamp (length and modification time) and four     *)
(* blocks: "tail" stands for what the bounded samples cover, "a" and "b"   *)
(* for the body and "head" for the VCD header or FST hierarchy (from which *)
(* the catalog is built) they do not.  A request runs a program of steps,  *)
(* each one system call on one file handle; one fingerprint function is    *)
(* one step.                                                               *)
(***************************************************************************)
EXTENDS Integers, Sequences, FiniteSets

CONSTANTS
    Inodes,      \* files the configured path may lead to
    Requests,    \* requests, each served once
    Scenarios,   \* bounds: what the requests ask, how often other programs
                 \* change the source, whether the requests overlap
    None

Kinds == {"extract", "list", "metadata", "library"}

\* The content of a file: a block or a stamp names the file it belongs to and
\* the change that wrote it.
Values == Inodes \X Nat
Files == [format : {"vcd", "fst"}, stamp : Values,
          head : Values, a : Values, b : Values, tail : Values]

ASSUME GenerationsAssumption ==
    /\ Inodes # {} /\ None \notin Inodes \cup Requests \cup Files
    /\ Scenarios \subseteq [asks : [Requests -> Kinds \cup {None}],
                            writes : Nat, overlap : BOOLEAN]

VARIABLES
    scenario, \* which of the scenarios this behaviour is bounded by
    path,     \* the file the configured path leads to, or None
    disk,     \* the content of every file
    history,  \* what the path led to, after each change since the start
    gens,     \* every generation opened so far; its index is its GenerationId
    slot,     \* the generation the slot holds
    holder,   \* the request that holds the slot's mutex, or None
    req       \* per request, its program counter and what it has read

vars == <<scenario, path, disk, history, gens, slot, holder, req>>

Blocks == {"head", "a", "b", "tail"}

--------------------------------------------------------------------------------
(***************************************************************************)
(* Identity.                                                               *)
(***************************************************************************)

\* The blocks a fingerprint covers.
Covers(print) == CASE print = "header"  -> {"head"}
                   [] print = "samples" -> {"tail"}
                   [] print = "full"    -> Blocks

\* The fingerprints kept for a generation, in the order they are computed.
Prints(format, strict) ==
    CASE format = "fst" -> <<"samples">>
      [] strict         -> <<"header", "samples", "full">>
      [] OTHER          -> <<"header", "samples">>

Region(i, print) == [block \in Covers(print) |-> disk[i][block]]

\* What metadata tells: only a VCD generation looks at device and inode.
Stat(format, i) == IF format = "vcd" THEN <<i, disk[i].stamp>>
                                     ELSE <<disk[i].stamp>>

Hash(print) == <<"hash", print>>
Load(print) == <<"load", print>>
Read(block) == <<"read", block>>
Each(Op(_), names) == [n \in DOMAIN names |-> Op(names[n])]

\* validate_open_file on the handle the request already holds.
ValidateHandle(g) ==
    << <<"stat">> >> \o Each(Hash, Prints(g.format, g.strict)) \o << <<"stat">> >>

\* validate_source: open the configured path and compare the file with the
\* generation.  FST compares the metadata taken before the samples only.
ValidateVcd(g) == << <<"admit">> >> \o Each(Hash, Prints("vcd", g.strict)) \o << <<"stat">> >>
ValidateFst == << <<"admit">> >> \o Each(Hash, Prints("fst", FALSE))
ValidatePath(g) == IF g.format = "vcd" THEN ValidateVcd(g) ELSE ValidateFst

\* VCD opens a generation between two looks at the metadata and resolves the
\* path once more, FST samples the file and then reads its hierarchy.
OpenVcd(strict) ==
    << <<"create">>, <<"catalog">> >> \o Each(Load, Prints("vcd", strict))
        \o << <<"same">>, <<"canonicalize">> >>
OpenFst == << <<"create">> >> \o Each(Load, Prints("fst", FALSE)) \o << <<"catalog">> >>

Body == Each(Read, <<"a", "b", "tail">>)

\* validate_complete: the handle that was read, and the path.  A bug: only the
\* handle.
CompleteHandleOnly(g) == ValidateHandle(g)
Complete(g) == ValidateHandle(g) \o ValidateVcd(g)

\* The VCD reader keeps the handle it admitted, the FST reader opens the path
\* once more after it was validated.
ScanVcd(g) == ValidateVcd(g) \o Body \o Complete(g)
ScanFst == ValidateFst \o << <<"open">> >> \o Body \o ValidateFst

--------------------------------------------------------------------------------
(***************************************************************************)
(* State.                                                                  *)
(***************************************************************************)

NewFile(i, format) ==
    [format |-> format, stamp |-> <<i, 0>>,
     head |-> <<i, 0>>, a |-> <<i, 0>>, b |-> <<i, 0>>, tail |-> <<i, 0>>]

NoMetadata == [state |-> "none", got |-> <<>>, from |-> 1]

Generation(format, strict, stat, prints, catalog) ==
    [format |-> format, strict |-> strict, stat |-> stat, prints |-> prints,
     catalog |-> catalog, metadata |-> NoMetadata]

Idle == [pc |-> "idle", kind |-> "list", todo |-> <<>>, fd |-> None,
         gen |-> 1, asked |-> 1, from |-> 1, read |-> 1, format |-> "vcd", stat |-> <<>>,
         prints |-> <<>>, catalog |-> None, got |-> <<>>]

Init ==
    /\ scenario \in Scenarios
    /\ path = CHOOSE i \in Inodes : TRUE
    /\ \E formats \in [Inodes -> {"vcd", "fst"}] :
           disk = [i \in Inodes |-> NewFile(i, formats[i])]
    /\ history = << [now |-> disk[path], silent |-> FALSE, restored |-> FALSE] >>
    /\ gens = LET format == disk[path].format
                  prints == Prints(format, FALSE)
              IN  << Generation(format, FALSE, Stat(format, path),
                         [p \in {prints[n] : n \in DOMAIN prints} |-> Region(path, p)],
                         disk[path].head) >>
    /\ slot = 1
    /\ holder = None
    /\ req = [r \in Requests |-> Idle]

--------------------------------------------------------------------------------
(***************************************************************************)
(* Other programs.                                                         *)
(***************************************************************************)

Changed(newPath, newDisk, silent, restored) ==
    /\ Len(history) <= scenario.writes
    /\ path' = newPath
    /\ disk' = newDisk
    /\ history' = Append(history,
           [now |-> IF newPath = None THEN None ELSE newDisk[newPath],
            silent |-> silent, restored |-> restored])
    /\ UNCHANGED <<scenario, gens, slot, holder, req>>

Written(i, block, value, stamp) ==
    [disk EXCEPT ![i] = [@ EXCEPT ![block] = value, !.stamp = stamp]]

\* Write one block in place.  A silent write leaves length and modification time
\* as they were, and may put back the first value.
WriteBlock ==
    \E i \in Inodes, block \in Blocks, silent \in BOOLEAN :
    \E n \in {0, Len(history)} :
        /\ disk[i][block] # <<i, n>> /\ (n = 0 => silent)
        /\ LET stamp == IF silent THEN disk[i].stamp ELSE <<i, Len(history)>>
           IN  Changed(path, Written(i, block, <<i, n>>, stamp), silent, n = 0)

Retarget == \E i \in (Inodes \cup {None}) \ {path} : Changed(i, disk, FALSE, FALSE)

--------------------------------------------------------------------------------
(***************************************************************************)
(* Requests.                                                               *)
(***************************************************************************)

Gen(r) == gens[req[r].gen]
Op(r) == IF req[r].todo = <<>> THEN <<"end">> ELSE Head(req[r].todo)
At(r, pc) == req[r].pc = pc
Quiet == UNCHANGED <<scenario, path, disk, history>>

\* List validates the path in visit_signal_names and once more.  Metadata scans a
\* VCD body unless its generation has it cached, and answers from the FST header.
List(g) == ValidatePath(g) \o ValidatePath(g)
MetadataVcd(g) ==
    IF g.metadata.state = "ready" THEN ValidateVcd(g)
    ELSE ScanVcd(g) \o << <<"store">> >> \o ValidateVcd(g)
MetadataFst == ValidateFst \o ValidateFst \o ValidateFst

Program(kind, g) ==
    CASE kind = "list"     -> List(g)
      [] kind = "metadata" -> IF g.format = "vcd" THEN MetadataVcd(g) ELSE MetadataFst
      [] OTHER             -> IF g.format = "vcd" THEN ScanVcd(g) ELSE ScanFst

\* A bug: the slot is looked at without its mutex.
StartUnlocked(r) ==
    /\ At(r, "idle") /\ scenario.asks[r] # None
    /\ scenario.overlap \/ \A other \in Requests : req[other].pc \in {"idle", "done", "failed"}
    /\ LET kind == scenario.asks[r]
           started == [Idle EXCEPT !.kind = kind, !.gen = slot,
                          !.asked = Len(history), !.from = Len(history),
                          !.read = Len(history)]
       IN  \/ /\ kind = "library"
              /\ req' = [req EXCEPT ![r] = [started EXCEPT
                     !.pc = "open", !.todo = OpenVcd(TRUE)]]
              /\ UNCHANGED holder
           \/ /\ kind # "library"
              /\ holder' = r
              /\ req' = [req EXCEPT ![r] = [started EXCEPT
                     !.pc = "current", !.todo = ValidatePath(gens[slot])]]
    /\ UNCHANGED <<gens, slot>> /\ Quiet

\* A request takes the slot's mutex and looks at the generation there; a library
\* caller opens a strict VCD generation of its own.
Start(r) ==
    /\ At(r, "idle") /\ scenario.asks[r] # None
    /\ scenario.overlap \/ \A other \in Requests : req[other].pc \in {"idle", "done", "failed"}
    /\ LET kind == scenario.asks[r]
           started == [Idle EXCEPT !.kind = kind, !.gen = slot,
                          !.asked = Len(history), !.from = Len(history),
                          !.read = Len(history)]
       IN  \/ /\ kind = "library"
              /\ req' = [req EXCEPT ![r] = [started EXCEPT
                     !.pc = "open", !.todo = OpenVcd(TRUE)]]
              /\ UNCHANGED holder
           \/ /\ kind # "library" /\ holder = None
              /\ holder' = r
              /\ req' = [req EXCEPT ![r] = [started EXCEPT
                     !.pc = "current", !.todo = ValidatePath(gens[slot])]]
    /\ UNCHANGED <<gens, slot>> /\ Quiet

\* One step of the program succeeds, leaving the request changed as given.
Advance(r, changed) ==
    /\ req' = [req EXCEPT ![r] = [changed EXCEPT !.todo = Tail(@)]]
    /\ UNCHANGED <<gens, slot, holder>>

\* A metadata scan that fails is cached in its generation.
Failed(r) ==
    LET building == At(r, "run") /\ \E n \in DOMAIN req[r].todo :
                        req[r].todo[n] = <<"store">>
    IN  IF building
        THEN [gens EXCEPT ![req[r].gen].metadata =
                 [state |-> "failed", got |-> <<>>, from |-> req[r].from]]
        ELSE gens

\* A bug: a stale generation is reported instead of replaced.
FailStale(r) ==
    /\ req' = [req EXCEPT ![r].pc = "failed", ![r].todo = <<>>]
    /\ gens' = Failed(r)
    /\ holder' = IF holder = r THEN None ELSE holder
    /\ UNCHANGED slot

\* A step fails.  A stale slot is opened again by detection; any other failure
\* ends the request, and the slot keeps the generation it had.
Fail(r) ==
    IF At(r, "current")
    THEN /\ req' = [req EXCEPT ![r].pc = "probe", ![r].todo = << <<"open">> >>]
         /\ UNCHANGED <<gens, slot, holder>>
    ELSE /\ req' = [req EXCEPT ![r].pc = "failed", ![r].todo = <<>>]
         /\ gens' = Failed(r)
         /\ holder' = IF holder = r THEN None ELSE holder
         /\ UNCHANGED slot

\* File::open: detection looks at any file, FstReader::open at an FST file only.
OpenPath(r) ==
    /\ Op(r) = <<"open">>
    /\ IF path = None \/ (At(r, "run") /\ disk[path].format # "fst")
       THEN Fail(r) ELSE Advance(r, [req[r] EXCEPT !.fd = path])
    /\ Quiet

\* Opening the path and comparing the metadata at once, as nothing of the file
\* is read in between.
Admit(r) ==
    /\ Op(r) = <<"admit">>
    /\ IF path # None /\ Stat(Gen(r).format, path) = Gen(r).stat
       THEN Advance(r, [req[r] EXCEPT !.fd = path]) ELSE Fail(r)
    /\ Quiet

\* matches_metadata and the fingerprint comparisons.
CheckStat(r) ==
    /\ Op(r) = <<"stat">>
    /\ IF Stat(Gen(r).format, req[r].fd) = Gen(r).stat
       THEN Advance(r, req[r]) ELSE Fail(r)
    /\ Quiet

CheckPrint(r) ==
    \E print \in {"header", "samples", "full"} :
    /\ Op(r) = Hash(print)
    /\ IF Region(req[r].fd, print) = Gen(r).prints[print]
       THEN Advance(r, req[r]) ELSE Fail(r)
    /\ Quiet

ReadBody(r) ==
    \E block \in Blocks :
    /\ Op(r) = Read(block)
    /\ Advance(r, [req[r] EXCEPT
           !.got = [k \in DOMAIN @ \cup {block} |->
                        IF k = block THEN disk[req[r].fd][block] ELSE @[k]],
           !.read = Len(history)])
    /\ Quiet

\* The steps that build an identity.  A file of the other format has no header
\* or hierarchy to read.
Create(r) ==
    /\ Op(r) = <<"create">>
    /\ IF path = None
       THEN Fail(r)
       ELSE Advance(r, [req[r] EXCEPT !.fd = path, !.prints = <<>>,
                                      !.stat = Stat(req[r].format, path)])
    /\ Quiet

ReadCatalog(r) ==
    /\ Op(r) = <<"catalog">>
    /\ IF disk[req[r].fd].format = req[r].format
       THEN Advance(r, [req[r] EXCEPT !.catalog = disk[req[r].fd].head])
       ELSE Fail(r)
    /\ Quiet

LoadPrint(r) ==
    \E print \in {"header", "samples", "full"} :
    /\ Op(r) = Load(print)
    /\ Advance(r, [req[r] EXCEPT
           !.prints = [k \in DOMAIN @ \cup {print} |->
               IF k # print THEN @[k]
               ELSE IF print = "header" THEN [block \in {"head"} |-> req[r].catalog]
               ELSE Region(req[r].fd, print)]])
    /\ Quiet

SameStat(r) ==
    /\ Op(r) = <<"same">>
    /\ IF Stat(req[r].format, req[r].fd) = req[r].stat
       THEN Advance(r, req[r]) ELSE Fail(r)
    /\ Quiet

Canonicalize(r) ==
    /\ Op(r) = <<"canonicalize">>
    /\ IF path = None THEN Fail(r) ELSE Advance(r, req[r])
    /\ Quiet

\* detect_waveform_format looks at the file the path leads to now.  An FST file
\* is opened next; anything else must first open as VCD, for nothing.
Detect(r) ==
    /\ At(r, "probe") /\ Op(r) = <<"end">>
    /\ LET format == disk[req[r].fd].format
       IN  req' = [req EXCEPT ![r].format = format,
                      ![r].pc = IF format = "vcd" THEN "detect" ELSE "open",
                      ![r].todo = IF format = "vcd" THEN OpenVcd(FALSE) ELSE OpenFst]
    /\ UNCHANGED <<gens, slot, holder>> /\ Quiet

Detected(r) ==
    /\ At(r, "detect") /\ Op(r) = <<"end">>
    /\ req' = [req EXCEPT ![r].pc = "open", ![r].todo = OpenVcd(FALSE)]
    /\ UNCHANGED <<gens, slot, holder>> /\ Quiet

\* A complete generation gets a fresh identifier; the server puts it in the slot.
Opened(r) ==
    /\ At(r, "open") /\ Op(r) = <<"end">>
    /\ LET strict == req[r].kind = "library"
           id == Len(gens) + 1
       IN  /\ gens' = Append(gens, Generation(req[r].format, strict, req[r].stat,
                                       req[r].prints, req[r].catalog))
           /\ slot' = IF strict THEN slot ELSE id
           /\ req' = [req EXCEPT ![r].gen = id, ![r].pc = "ready"]
    /\ holder' = IF holder = r THEN None ELSE holder
    /\ Quiet

Current(r) ==
    /\ At(r, "current") /\ Op(r) = <<"end">>
    /\ holder' = None
    /\ req' = [req EXCEPT ![r].pc = "ready"]
    /\ UNCHANGED <<gens, slot>> /\ Quiet

\* The request starts on its generation.  A metadata request waits for the scan
\* another one runs, and takes a cached outcome with the time it stands for.
Run(r) ==
    /\ At(r, "ready")
    /\ LET cached == Gen(r).metadata
           program == Program(req[r].kind, Gen(r))
           needsScan == req[r].kind = "metadata" /\ Gen(r).format = "vcd"
           since == IF cached.from < req[r].from THEN cached.from ELSE req[r].from
       IN  \/ /\ ~needsScan \/ cached.state = "none"
              /\ req' = [req EXCEPT ![r].pc = "run", ![r].todo = program]
              /\ gens' = IF needsScan
                         THEN [gens EXCEPT ![req[r].gen].metadata.state = "building"]
                         ELSE gens
           \/ /\ needsScan /\ cached.state \in {"ready", "failed"}
              /\ req' = [req EXCEPT ![r].from = since, ![r].got = cached.got,
                     ![r].pc = IF cached.state = "ready" THEN "run" ELSE "failed",
                     ![r].todo = IF cached.state = "ready" THEN program ELSE <<>>]
              /\ UNCHANGED gens
    /\ UNCHANGED <<slot, holder>> /\ Quiet

StoreMetadata(r) ==
    /\ Op(r) = <<"store">>
    /\ gens' = [gens EXCEPT ![req[r].gen].metadata =
                   [state |-> "ready", got |-> req[r].got, from |-> req[r].from]]
    /\ req' = [req EXCEPT ![r].todo = Tail(@)]
    /\ UNCHANGED <<slot, holder>> /\ Quiet

Publish(r) ==
    /\ At(r, "run") /\ Op(r) = <<"end">>
    /\ req' = [req EXCEPT ![r].pc = "done"]
    /\ UNCHANGED <<gens, slot, holder>> /\ Quiet

Next ==
    \/ WriteBlock
    \/ Retarget
    \/ \E r \in Requests :
        \/ Start(r) \/ OpenPath(r) \/ CheckStat(r) \/ CheckPrint(r)
        \/ ReadBody(r) \/ Create(r) \/ Admit(r) \/ ReadCatalog(r) \/ LoadPrint(r)
        \/ SameStat(r) \/ Canonicalize(r) \/ Detect(r) \/ Detected(r)
        \/ Opened(r) \/ Current(r) \/ Run(r) \/ StoreMetadata(r) \/ Publish(r)

Spec == Init /\ [][Next]_vars

--------------------------------------------------------------------------------
(***************************************************************************)
(* Properties.                                                             *)
(***************************************************************************)

\* The catalog and the blocks of an answer are those of one content.
IsOf(r, content) ==
    /\ content # None
    /\ Gen(r).catalog = content.head
    /\ \A block \in DOMAIN req[r].got : req[r].got[block] = content[block]

\* What happened to the files and the path since a request, or the scan whose
\* cached outcome it took, began.
Since(r) == req[r].from .. Len(history)
SilentWrites(r) ==
    Cardinality({k \in Since(r) \ {req[r].from} : history[k].silent})

OneContent(r, since) ==
    \E k \in since .. Len(history) : IsOf(r, history[k].now)

\* How much other programs may do while a request runs before its answer can
\* mix contents.  VCD: anything but a second write that keeps length and
\* modification time; with a full fingerprint any number of them, if none puts
\* an earlier value back.  FST: one change, as the path may lead elsewhere just
\* while FstReader opens it.
Tolerated(r) ==
    IF Gen(r).format = "vcd"
    THEN \/ SilentWrites(r) <= 1
         \/ Gen(r).strict /\ \A k \in Since(r) \ {req[r].from} : ~history[k].restored
    ELSE /\ Len(history) <= req[r].from + 1
         /\ \A k \in DOMAIN history : ~history[k].silent

\* A successful answer combines catalog and rows of one content that the
\* configured path led to at some instant of the request, and without a silent
\* write even after the last row was read, however the file is rewritten,
\* replaced, retargeted or removed and put back meanwhile.
AnswerIsOneContent ==
    \A r \in Requests :
        At(r, "done") /\ Tolerated(r) =>
            OneContent(r, IF SilentWrites(r) = 0 THEN req[r].read ELSE req[r].from)

\* A request fails for its source only if the path or a file was changed after
\* it, or the scan whose failure was cached for it, began, or the path led to
\* nothing: a generation that went stale earlier is replaced, not reported.
FailureIsReal ==
    \A r \in Requests :
        (At(r, "failed") /\ history[req[r].from].now # None)
            => \/ req[r].from < Len(history)
               \/ req[r].kind = "library" /\ history[req[r].from].now.format = "fst"

\* docs/design/unix-json-protocol-v1.md calls a stale or unavailable source
\* retryable: a request made again while nothing changes does not fail for it.
StaleIsRetryable ==
    \A r \in Requests :
        (At(r, "failed") /\ req[r].asked = Len(history)
         /\ req[r].kind # "library") => path = None

\* The server opens at most one generation per change of the source, however
\* many requests find the old one stale together.
OneGenerationPerChange ==
    Cardinality({id \in DOMAIN gens : ~gens[id].strict}) <= Len(history)

================================================================================
