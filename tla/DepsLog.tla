------------------------------ MODULE DepsLog ------------------------------
(***************************************************************************)
(* .ninja_deps: a header in two writes, then records in several writes     *)
(* each.  A path record gives its path the next id; a deps record names    *)
(* its output and its inputs by id.  A write that fails or a process that  *)
(* dies can leave a torn record behind; Load cuts the file there.          *)
(***************************************************************************)
EXTENDS Integers, Sequences, Functions

CONSTANT Paths

VARIABLES depsFile,     \* on disk: header, whole records, a torn one behind them
          nodes,        \* DepsLog.nodes: the path of each id, counted from 1
          deps          \* DepsLog.deps, by id

depsVars == <<depsFile, nodes, deps>>

NoFile == [header |-> "absent", recs |-> <<>>, torn |-> FALSE]
NoDeps == [mtime |-> -1, ids |-> <<>>]

IdRecord(p, id) == [path |-> p, id |-> id]
DepsRecord(out, mtime, ids) == [out |-> out, mtime |-> mtime, ids |-> ids]
isDeps(r) == "out" \in DOMAIN r

\* Node.ID(): 0 for a node without one.
IdOf(p, ns) == IF \E i \in DOMAIN ns: ns[i] = p
               THEN CHOOSE i \in DOMAIN ns: ns[i] = p ELSE 0

\* UpdateDeps: the slice of deps grows to the id.
UpdateDeps(ds, id, d) ==
    [i \in 1..(IF id > Len(ds) THEN id ELSE Len(ds)) |->
        CASE i = id -> d
          [] i # id /\ i <= Len(ds) -> ds[i]
          [] OTHER -> NoDeps]

\* One round of Load's loop.  An id that is not known yet ends the loop over the
\* ids, which leaves it and those behind it nil nodes (0); a path record out of
\* order, or for a path that has an id, ends the loop but is counted as read.
LoadRecord(log, r) ==
    IF log.bad THEN log
    ELSE IF isDeps(r)
    THEN [log EXCEPT !.read = @ + 1, !.deps = UpdateDeps(@, r.out,
            [mtime |-> r.mtime,
             ids |-> [k \in DOMAIN r.ids |->
                        IF \A j \in 1..k: r.ids[j] <= Len(log.nodes)
                        THEN r.ids[k] ELSE 0]])]
    ELSE IF r.id # Len(log.nodes) + 1 \/ IdOf(r.path, log.nodes) # 0
    THEN [log EXCEPT !.read = @ + 1, !.bad = TRUE]
    ELSE [log EXCEPT !.read = @ + 1, !.nodes = Append(@, r.path)]

EmptyLog == [nodes |-> <<>>, deps |-> <<>>, read |-> 0, bad |-> FALSE]

LoadDeps(recs) ==
    LET log[k \in 0..Len(recs)] == IF k = 0 THEN EmptyLog
                                   ELSE LoadRecord(log[k - 1], recs[k])
    IN  log[Len(recs)]

\* What the file says, path by path.
GetDeps(log, p) ==
    LET id == IdOf(p, log.nodes)
        d == IF id = 0 \/ id > Len(log.deps) THEN NoDeps ELSE log.deps[id]
    IN  [mtime |-> d.mtime,
         paths |-> [k \in DOMAIN d.ids |-> IF d.ids[k] = 0 THEN "nil"
                                           ELSE log.nodes[d.ids[k]]]]

DepsInit == depsFile = NoFile /\ nodes = <<>> /\ deps = <<>>

\* A file whose header is not whole, an empty one included, is an error.
DepsUnreadable == depsFile.header \in {"empty", "signature"}

\* Load of a readable file, or of none: end of file counts as a failed read,
\* so the file is always truncated behind the last record it read and Load
\* returns before it would decide on recompaction.
OpenDeps ==
    LET log == LoadDeps(depsFile.recs)
    IN  /\ nodes' = log.nodes
        /\ deps' = log.deps
        /\ depsFile' = [depsFile EXCEPT !.torn = FALSE,
                                        !.recs = SubSeq(@, 1, log.read)]

\* RecordDeps gives a path that has no id the next one; new are the paths it
\* gave one so far.
RecordId(new, p) == IF IdOf(p, nodes \o new) = 0 THEN Append(new, p) ELSE new

\* The paths RecordDeps gives an id to, in order.  A path in the list twice gets
\* its id the first time.
NewPaths(out, ins) ==
    LET all == <<out>> \o ins
        new[k \in 0..Len(all)] == IF k = 0 THEN <<>> ELSE RecordId(new[k - 1], all[k])
    IN  new[Len(all)]

\* Mutants: the deps record is written with the ids from before the call, or
\* before the path records.
RecordDepsOldIds(out, mtime, ins) ==
    LET fresh == NewPaths(out, ins)
    IN  [k \in DOMAIN fresh |-> IdRecord(fresh[k], Len(nodes) + k)]
        \o <<DepsRecord(IdOf(out, nodes \o fresh), mtime,
                        [k \in DOMAIN ins |-> IdOf(ins[k], nodes)])>>
RecordDepsFirst(out, mtime, ins) ==
    LET fresh == NewPaths(out, ins)
        all == nodes \o fresh
    IN  <<DepsRecord(IdOf(out, all), mtime, [k \in DOMAIN ins |-> IdOf(ins[k], all)])>>
        \o [k \in DOMAIN fresh |-> IdRecord(fresh[k], Len(nodes) + k)]

\* RecordDeps: the records it writes, none if nothing is new.
RecordDeps(out, mtime, ins) ==
    LET fresh == NewPaths(out, ins)
        all == nodes \o fresh
        ids == [k \in DOMAIN ins |-> IdOf(ins[k], all)]
        old == GetDeps([nodes |-> nodes, deps |-> deps], out)
    IN  IF fresh = <<>> /\ old = [mtime |-> mtime, paths |-> ins] THEN <<>>
        ELSE [k \in DOMAIN fresh |-> IdRecord(fresh[k], Len(nodes) + k)]
             \o <<DepsRecord(IdOf(out, all), mtime, ids)>>

\* The next write of the log: a piece of the header, or a whole record, which
\* then also changes the log in memory.
WriteDeps(r) ==
    CASE depsFile.header = "absent" ->
           /\ depsFile' = [depsFile EXCEPT !.header = "empty"]
           /\ UNCHANGED <<nodes, deps>>
      [] depsFile.header = "empty" ->
           /\ depsFile' = [depsFile EXCEPT !.header = "signature"]
           /\ UNCHANGED <<nodes, deps>>
      [] depsFile.header = "signature" ->
           /\ depsFile' = [depsFile EXCEPT !.header = "complete"]
           /\ UNCHANGED <<nodes, deps>>
      [] OTHER ->
           /\ depsFile' = [depsFile EXCEPT !.recs = Append(@, r)]
           /\ IF isDeps(r)
              THEN /\ deps' = UpdateDeps(deps, r.out, [mtime |-> r.mtime,
                                                       ids |-> r.ids])
                   /\ UNCHANGED nodes
              ELSE nodes' = Append(nodes, r.path) /\ UNCHANGED deps

DepsRecordNext == depsFile.header = "complete"

\* The process ends inside a record.
TearDeps ==
    /\ DepsRecordNext
    /\ depsFile' = [depsFile EXCEPT !.torn = TRUE]
=============================================================================
