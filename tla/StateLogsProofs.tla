-------------------------- MODULE StateLogsProofs --------------------------
(***************************************************************************)
(* What the two logs keep across crashes, for any outputs, paths and       *)
(* bounds.  The inductive invariant says of the deps log that its records  *)
(* load as they were written, that a running process has in memory what it *)
(* would load, and that the records still to be written continue the file; *)
(* of the build log that every line carries what was recorded, and that a  *)
(* running process is ahead of its file by at most the line it writes.     *)
(***************************************************************************)
EXTENDS StateLogs, Recursion, FiniteSetTheorems, TLAPS

Entries == [hash : Hashes \union {"none", "empty", "wrong"}, mtime : Nat]
Tables == [Outputs -> Entries]
Lines == [fields : Nat \ {0}, out : Outputs \union {"none"}, entry : Entries]

IdRecords == [path : Paths, id : Nat]
DepsRecords == [out : Nat, mtime : Int, ids : Seq(Nat)]
Records == IdRecords \union DepsRecords
Values == [mtime : Int, paths : Seq(Paths)]
Requests == [out : Outputs \intersect Paths, value : Values]

\* A log as Load leaves it when nothing is wrong with the file: no path has
\* two ids, and deps name ids that have a path.
GoodLog(log) ==
    /\ log.nodes \in Seq(Paths) /\ IsInjective(log.nodes)
    /\ log.deps \in Seq([mtime : Int, ids : Seq(1..Len(log.nodes))])
    /\ Len(log.deps) <= Len(log.nodes)
    /\ log.bad = FALSE

DepsFiles == [header : {"absent", "empty", "signature", "complete"},
              recs : Seq(Records), torn : BOOLEAN]

\* The deps file holds what a good log was written from.
DepsFileInv ==
    /\ depsFile \in DepsFiles
    /\ depsFile.header # "complete" => depsFile.recs = <<>>
    /\ LET log == LoadDeps(depsFile.recs)
       IN  /\ GoodLog(log)
           /\ log.read = Len(depsFile.recs)
           /\ \A id \in 1..Len(log.nodes): \E j \in DOMAIN depsFile.recs:
                 ~isDeps(depsFile.recs[j]) /\ depsFile.recs[j].id = id
           /\ proc = "up" => nodes = log.nodes /\ deps = log.deps
    /\ IdsAreKnown
    /\ stored = StoredIn(depsFile)

\* The writes rs of a RecordDeps called with req: ids for the new paths, in
\* order behind the ids ns there are, then the deps by these ids.
Planned(rs, ns, req) ==
    LET m == Len(rs) - 1
        all == ns \o [k \in 1..m |-> rs[k].path]
        last == rs[m + 1]
    IN  /\ \A k \in 1..m: rs[k] \in IdRecords /\ rs[k].id = Len(ns) + k
        /\ IsInjective(all)
        /\ last \in DepsRecords /\ req \in Requests
        /\ last.out \in DOMAIN all /\ all[last.out] = req.out
        /\ last.mtime = req.value.mtime
        /\ DOMAIN last.ids = DOMAIN req.value.paths
        /\ \A k \in DOMAIN last.ids: /\ last.ids[k] \in DOMAIN all
                                     /\ all[last.ids[k]] = req.value.paths[k]

LineFirst == pending # <<>> /\ IsLine(Head(pending))

\* What FinishCommand has still to write: a line of the build log, then the
\* records of the deps log.
PendingInv ==
    /\ request = NoRequest \/ request \in Requests
    /\ pending = <<>> => request = NoRequest
    /\ pending # <<>> => proc = "up"
    /\ LineFirst => Head(pending) \in [line : Outputs]
    /\ LET rs == IF LineFirst THEN Tail(pending) ELSE pending
       IN  rs # <<>> => rs \in Seq(Records) /\ Planned(rs, nodes, request)

LogFiles == [header : {"absent", "empty", "torn", "open", "complete", "old"},
             lines : Seq(Lines), open : BOOLEAN]

\* A line or an entry that looks like a record is in R.
GoodLines(lines, R) ==
    \A k \in DOMAIN lines : lines[k].entry.hash \in Hashes =>
        [out |-> lines[k].out, entry |-> lines[k].entry] \in R
GoodTable(es, R) ==
    \A o \in Outputs : es[o].hash \in Hashes => [out |-> o, entry |-> es[o]] \in R

\* Every line and every entry that looks like a record was recorded.
BuildLogInv ==
    /\ logFile \in LogFiles
    /\ entries \in Tables
    /\ logFile.open => logFile.lines # <<>>
    /\ GoodLines(logFile.lines, recorded)
    /\ GoodTable(entries, recorded)

\* Until a write of the build log is cut short, a process that has opened the
\* log is ahead of the file by the line it writes.
UntornInv ==
    tears = 0 =>
        /\ ~logFile.open /\ logFile.header \notin {"torn", "open"}
        /\ (proc = "deps" \/ (proc = "up" /\ ~LineFirst)) =>
              entries = LoadEntries(logFile.lines)
        /\ LineFirst => LET o == Head(pending).line
                        IN  entries = [LoadEntries(logFile.lines)
                                       EXCEPT ![o] = entries[o]]

LogsInv ==
    /\ DepsFileInv
    /\ PendingInv
    /\ BuildLogInv
    /\ UntornInv
    /\ tears \in Nat

----------------------------------------------------------------------------
\* What Load works on.
DepsVals == [mtime : Int, ids : Seq(Nat)]
Logs == [nodes : Seq(Paths), deps : Seq(DepsVals), read : Nat, bad : BOOLEAN]
LoadSteps(recs) == [k \in 1..Len(recs) |-> [log \in Logs |-> LoadRecord(log, recs[k])]]

\* The kinds of writes are told apart by their fields.
LEMMA KindFacts ==
  /\ \A r \in IdRecords : ~isDeps(r) /\ ~IsLine(r)
  /\ \A r \in DepsRecords : isDeps(r) /\ ~IsLine(r)
  /\ \A o : IsLine([line |-> o])
  /\ \A r \in Requests : r # NoRequest
<1>1. \A r \in IdRecords : DOMAIN r = {"path", "id"}
  BY Zenon DEF IdRecords
<1>2. \A r \in DepsRecords : DOMAIN r = {"out", "mtime", "ids"}
  BY Zenon DEF DepsRecords
<1>3. \A r \in Requests : DOMAIN r = {"out", "value"}
  BY Zenon DEF Requests
<1>4. DOMAIN NoRequest = {"out"}
  BY Zenon DEF NoRequest
<1>5. \A o : DOMAIN [line |-> o] = {"line"}
  OBVIOUS
<1>6. \A r \in Requests : r # NoRequest
  BY <1>3, <1>4
<1> QED BY <1>1, <1>2, <1>5, <1>6, Zenon DEF isDeps, IsLine

\* UpdateDeps returns a slice that has the id.
LEMMA UpdateShape ==
  ASSUME NEW ds, Len(ds) \in Nat, DOMAIN ds = 1..Len(ds), NEW id \in Nat, NEW d,
         NEW u, u = UpdateDeps(ds, id, d)
  PROVE  /\ DOMAIN u = 1..(IF id > Len(ds) THEN id ELSE Len(ds))
         /\ id # 0 => u[id] = d
         /\ \A i \in DOMAIN ds : i # id => u[i] = ds[i]
         /\ \A i \in DOMAIN u : i # id /\ i > Len(ds) => u[i] = NoDeps
BY DEF UpdateDeps

\* What UpdateDeps puts in is deps or NoDeps.
LEMMA UpdateType ==
  ASSUME NEW V, NoDeps \in V, NEW ds \in Seq(V), NEW id \in Nat, NEW d \in V,
         NEW u, u = UpdateDeps(ds, id, d)
  PROVE  /\ u \in Seq(V)
         /\ Len(u) = IF id > Len(ds) THEN id ELSE Len(ds)
<1> DEFINE n == IF id > Len(ds) THEN id ELSE Len(ds)
<1>1. n \in Nat /\ Len(ds) \in Nat /\ DOMAIN ds = 1..Len(ds)
  OBVIOUS
<1>2. u \in [1..n -> V]
  BY <1>1 DEF UpdateDeps
<1> HIDE DEF n
<1>3. u \in Seq(V) /\ Len(u) = n
  BY <1>1, <1>2
<1> QED BY <1>3, Zenon DEF n

\* The fields that a round of Load's loop changes keep their types.
LEMMA ExceptTypes ==
  ASSUME NEW log \in Logs, NEW n \in Nat, NEW ns \in Seq(Paths), NEW ds \in Seq(DepsVals)
  PROVE  /\ [log EXCEPT !.read = n, !.bad = TRUE] \in Logs
         /\ [log EXCEPT !.read = n, !.nodes = ns] \in Logs
         /\ [log EXCEPT !.read = n, !.deps = ds] \in Logs
<1>1. /\ DOMAIN log = {"nodes", "deps", "read", "bad"}
      /\ log.nodes \in Seq(Paths) /\ log.deps \in Seq(DepsVals)
      /\ log.read \in Nat /\ log.bad \in BOOLEAN
  BY Zenon DEF Logs
<1> QED BY <1>1, Zenon DEF Logs

\* A round of Load's loop is one of a log into a log.
LEMMA LoadRecordType ==
  ASSUME NEW log \in Logs, NEW r \in Records
  PROVE  LoadRecord(log, r) \in Logs
<1>1. CASE log.bad
  BY <1>1, Zenon DEF LoadRecord
<1>2. CASE ~log.bad /\ r \in DepsRecords
  <2> DEFINE ids == [k \in DOMAIN r.ids |->
                       IF \A j \in 1..k: r.ids[j] <= Len(log.nodes)
                       THEN r.ids[k] ELSE 0]
             d == [mtime |-> r.mtime, ids |-> ids]
  <2>1. ids \in Seq(Nat)
    <3>1. r.ids \in Seq(Nat)
      BY <1>2, Zenon DEF DepsRecords
    <3> DEFINE known(k) == \A j \in 1..k: r.ids[j] <= Len(log.nodes)
    <3>2. ids = [k \in DOMAIN r.ids |-> IF known(k) THEN r.ids[k] ELSE 0]
      BY Zenon
    <3> HIDE DEF known, ids
    <3> QED BY <3>1, <3>2
  <2>2. d \in DepsVals /\ log.deps \in Seq(DepsVals) /\ r.out \in Nat
    BY <1>2, <2>1, Zenon DEF DepsVals, DepsRecords, Logs
  <2>3. NoDeps \in DepsVals
    BY DEF NoDeps, DepsVals
  <2>4. isDeps(r)
    BY <1>2, KindFacts, Zenon
  <2> HIDE DEF d
  <2>5. UpdateDeps(log.deps, r.out, d) \in Seq(DepsVals)
    BY <2>2, <2>3, UpdateType, Zenon
  <2>6. LoadRecord(log, r) = [log EXCEPT !.read = log.read + 1,
                                        !.deps = UpdateDeps(log.deps, r.out, d)]
    BY <1>2, <2>4, Zenon DEF LoadRecord, d
  <2>7. log.read + 1 \in Nat /\ log.nodes \in Seq(Paths)
    BY DEF Logs
  <2>8. \A u \in Seq(DepsVals) : [log EXCEPT !.read = log.read + 1, !.deps = u] \in Logs
    BY <2>7, ExceptTypes, Zenon
  <2> QED BY <2>5, <2>6, <2>8, Zenon
<1>3. CASE ~log.bad /\ r \in IdRecords
  <2>1. ~isDeps(r) /\ r.path \in Paths
    BY <1>3, KindFacts, Zenon DEF IdRecords
  <2>2. log.nodes \in Seq(Paths) /\ log.deps \in Seq(DepsVals) /\ log.read \in Nat
    BY Zenon DEF Logs
  <2>3. Append(log.nodes, r.path) \in Seq(Paths)
    BY <2>1, <2>2
  <2>4. log.read + 1 \in Nat
    BY <2>2
  <2>5. \/ LoadRecord(log, r) = [log EXCEPT !.read = log.read + 1, !.bad = TRUE]
        \/ LoadRecord(log, r) = [log EXCEPT !.read = log.read + 1,
                                            !.nodes = Append(log.nodes, r.path)]
    BY <1>3, <2>1, Zenon DEF LoadRecord
  <2> QED BY <2>2, <2>3, <2>4, <2>5, ExceptTypes
<1> QED BY <1>1, <1>2, <1>3, Zenon DEF Records, Logs

\* Load's loop over the deps log, as a function of the number of rounds.
LEMMA LoadDepsLoop ==
  ASSUME NEW recs \in Seq(Records)
  PROVE  \E f : /\ Follows(f, Len(recs), Logs, EmptyLog, LoadSteps(recs))
                /\ LoadDeps(recs) = f[Len(recs)]
<1> DEFINE N == Len(recs)
           Loop(h) == h = [k \in 0..N |-> IF k = 0 THEN EmptyLog
                                          ELSE LoadRecord(h[k - 1], recs[k])]
           log == CHOOSE h : Loop(h)
<1>1. N \in Nat /\ \A k \in 1..N : recs[k] \in Records
  OBVIOUS
<1>2. EmptyLog \in Logs
  BY DEF EmptyLog, Logs
<1>3. LoadSteps(recs) \in [1..N -> [Logs -> Logs]]
  BY <1>1, LoadRecordType, Zenon DEF LoadSteps
<1> HIDE DEF N
<1>4. PICK f : Follows(f, N, Logs, EmptyLog, LoadSteps(recs))
  BY <1>1, <1>2, <1>3, RecursionExists, Zenon
<1>5. /\ f \in [0..N -> Logs] /\ f[0] = EmptyLog
      /\ \A k \in 1..N : f[k] = LoadSteps(recs)[k][f[k - 1]]
  BY <1>4, Zenon DEF Follows
<1>6. ASSUME NEW k \in 1..N
      PROVE  f[k] = LoadRecord(f[k - 1], recs[k])
  <2>1. f[k - 1] \in Logs
    BY <1>1, <1>5
  <2> QED BY <1>5, <2>1, Zenon DEF LoadSteps, N
<1>7. Loop(f)
  <2>1. \A k \in 0..N : f[k] = IF k = 0 THEN EmptyLog
                               ELSE LoadRecord(f[k - 1], recs[k])
    <3>1. \A k \in 0..N : k = 0 \/ k \in 1..N
      BY <1>1
    <3> QED BY <1>5, <1>6, <3>1, Zenon
  <2> QED BY <1>5, <2>1, Zenon
<1>8. Loop(log)
  BY <1>7, Zenon
<1>9. LoadDeps(recs) = log[N]
  BY Zenon DEF LoadDeps, N
<1> HIDE DEF log
<1>10. /\ log[0] = EmptyLog
       /\ \A k \in 1..N : log[k] = LoadRecord(log[k - 1], recs[k])
  <2>1. \A k \in 0..N : log[k] = IF k = 0 THEN EmptyLog
                                 ELSE LoadRecord(log[k - 1], recs[k])
    BY <1>8, Zenon
  <2>2. 0 \in 0..N /\ \A k \in 1..N : k \in 0..N /\ k # 0
    BY <1>1
  <2> QED BY <2>1, <2>2, Zenon
<1> HIDE DEF Loop
<1>11. N \in {n \in Nat : n <= N => log[n] = f[n]}
  <2> DEFINE S == {n \in Nat : n <= N => log[n] = f[n]}
  <2>1. 0 \in S
    BY <1>5, <1>10, Zenon
  <2>2. ASSUME NEW n \in Nat, n \in S
        PROVE  n + 1 \in S
    <3>1. n + 1 <= N => n + 1 \in 1..N /\ (n + 1) - 1 = n /\ log[n] = f[n]
      BY <1>1, <2>2
    <3>2. n + 1 <= N => log[n + 1] = f[n + 1]
      BY <1>6, <1>10, <3>1, Zenon
    <3> QED BY <3>2
  <2> HIDE DEF S
  <2>3. Nat \subseteq S
    BY <2>1, <2>2, SetInduction, Zenon
  <2> QED BY <1>1, <2>3, Zenon DEF S
<1>12. LoadDeps(recs) = f[N]
  BY <1>1, <1>9, <1>11
<1> QED BY <1>4, <1>12, Zenon DEF N

\* Load goes record by record: one more record is one more round.
LEMMA LoadDepsFacts ==
  ASSUME NEW recs \in Seq(Records)
  PROVE  /\ LoadDeps(recs) \in Logs
         /\ recs = <<>> => LoadDeps(recs) = EmptyLog
         /\ \A r \in Records :
               LoadDeps(Append(recs, r)) = LoadRecord(LoadDeps(recs), r)
<1>1. PICK f : /\ Follows(f, Len(recs), Logs, EmptyLog, LoadSteps(recs))
               /\ LoadDeps(recs) = f[Len(recs)]
  BY LoadDepsLoop, Zenon
<1>2. LoadDeps(recs) \in Logs /\ (recs = <<>> => LoadDeps(recs) = EmptyLog)
  BY <1>1 DEF Follows
<1>3. ASSUME NEW r \in Records
      PROVE  LoadDeps(Append(recs, r)) = LoadRecord(LoadDeps(recs), r)
  <2> DEFINE more == Append(recs, r)
             N == Len(recs)
  <2>1. /\ more \in Seq(Records) /\ Len(more) = N + 1 /\ N \in Nat
        /\ more[N + 1] = r /\ \A k \in 1..N : more[k] = recs[k]
    OBVIOUS
  <2> HIDE DEF more
  <2>2. PICK g : /\ Follows(g, Len(more), Logs, EmptyLog, LoadSteps(more))
                 /\ LoadDeps(more) = g[Len(more)]
    BY <2>1, LoadDepsLoop, Zenon
  <2>3. \A k \in 1..N : LoadSteps(recs)[k] = LoadSteps(more)[k]
    BY <2>1 DEF LoadSteps
  <2> HIDE DEF N
  <2>4. \A k \in 0..N : f[k] = g[k]
    <3>1. Follows(f, N, Logs, EmptyLog, LoadSteps(recs))
      BY <1>1, Zenon DEF N
    <3>2. Follows(g, N + 1, Logs, EmptyLog, LoadSteps(more)) /\ N + 1 \in Nat /\ N <= N + 1
      BY <2>1, <2>2
    <3> DEFINE D == LoadSteps(recs)
               E == LoadSteps(more)
               M == N + 1
    <3> HIDE DEF D, E, M
    <3>3. /\ N \in Nat /\ M \in Nat /\ N <= M /\ \A k \in 1..N : D[k] = E[k]
          /\ Follows(f, N, Logs, EmptyLog, D) /\ Follows(g, M, Logs, EmptyLog, E)
      BY <2>1, <2>3, <3>1, <3>2, Zenon DEF D, E, M
    <3> QED BY <3>3, FollowsUnique
  <2>5. g[N + 1] = LoadSteps(more)[N + 1][g[N]] /\ f[N] \in Logs
    <3>1. N + 1 \in 1..(N + 1) /\ (N + 1) - 1 = N /\ N \in 0..N
      BY <2>1
    <3>2. f[N] \in Logs
      BY <1>1, <3>1, Zenon DEF Follows, N
    <3> QED BY <2>1, <2>2, <3>1, <3>2, Zenon DEF Follows
  <2>6. f[N] = g[N]
    BY <2>1, <2>4
  <2>7. LoadSteps(more)[N + 1][g[N]] = LoadRecord(g[N], r)
    BY <2>1, <2>5, <2>6 DEF LoadSteps
  <2>8. LoadDeps(more) = LoadRecord(f[N], r)
    BY <2>1, <2>2, <2>5, <2>6, <2>7, Zenon
  <2> QED BY <1>1, <2>8, Zenon DEF more, N
<1> QED BY <1>2, <1>3, Zenon

\* The rounds of Load over the build log.
LineSteps(lines) == [k \in 1..Len(lines) |-> [es \in Tables |-> LoadLine(es, lines[k])]]

\* A round of Load's loop is one of a table into a table.
LEMMA LoadLineType ==
  ASSUME NEW es \in Tables, NEW l \in Lines
  PROVE  LoadLine(es, l) \in Tables
BY Zenon DEF LoadLine, Tables, Lines

\* Load's loop over the build log, as a function of the number of rounds.
LEMMA LoadEntriesLoop ==
  ASSUME NEW lines \in Seq(Lines)
  PROVE  \E f : /\ Follows(f, Len(lines), Tables, NoEntries, LineSteps(lines))
                /\ LoadEntries(lines) = f[Len(lines)]
<1> DEFINE N == Len(lines)
           Loop(h) == h = [k \in 0..N |-> IF k = 0 THEN NoEntries
                                          ELSE LoadLine(h[k - 1], lines[k])]
           es == CHOOSE h : Loop(h)
<1>1. N \in Nat /\ \A k \in 1..N : lines[k] \in Lines
  OBVIOUS
<1>2. NoEntries \in Tables
  BY Zenon DEF NoEntries, Tables, NoEntry, Entries
<1>3. LineSteps(lines) \in [1..N -> [Tables -> Tables]]
  BY <1>1, LoadLineType, Zenon DEF LineSteps
<1> HIDE DEF N
<1>4. PICK f : Follows(f, N, Tables, NoEntries, LineSteps(lines))
  BY <1>1, <1>2, <1>3, RecursionExists, Zenon
<1>5. /\ f \in [0..N -> Tables] /\ f[0] = NoEntries
      /\ \A k \in 1..N : f[k] = LineSteps(lines)[k][f[k - 1]]
  BY <1>4, Zenon DEF Follows
<1>6. ASSUME NEW k \in 1..N
      PROVE  f[k] = LoadLine(f[k - 1], lines[k])
  <2>1. f[k - 1] \in Tables
    BY <1>1, <1>5
  <2> QED BY <1>5, <2>1, Zenon DEF LineSteps, N
<1>7. Loop(f)
  <2>1. \A k \in 0..N : f[k] = IF k = 0 THEN NoEntries
                               ELSE LoadLine(f[k - 1], lines[k])
    <3>1. \A k \in 0..N : k = 0 \/ k \in 1..N
      BY <1>1
    <3> QED BY <1>5, <1>6, <3>1, Zenon
  <2> QED BY <1>5, <2>1, Zenon
<1>8. Loop(es)
  BY <1>7, Zenon
<1>9. LoadEntries(lines) = es[N]
  BY Zenon DEF LoadEntries, N
<1> HIDE DEF es
<1>10. /\ es[0] = NoEntries
       /\ \A k \in 1..N : es[k] = LoadLine(es[k - 1], lines[k])
  <2>1. \A k \in 0..N : es[k] = IF k = 0 THEN NoEntries
                                 ELSE LoadLine(es[k - 1], lines[k])
    BY <1>8, Zenon
  <2>2. 0 \in 0..N /\ \A k \in 1..N : k \in 0..N /\ k # 0
    BY <1>1
  <2> QED BY <2>1, <2>2, Zenon
<1> HIDE DEF Loop
<1>11. N \in {n \in Nat : n <= N => es[n] = f[n]}
  <2> DEFINE S == {n \in Nat : n <= N => es[n] = f[n]}
  <2>1. 0 \in S
    BY <1>5, <1>10, Zenon
  <2>2. ASSUME NEW n \in Nat, n \in S
        PROVE  n + 1 \in S
    <3>1. n + 1 <= N => n + 1 \in 1..N /\ (n + 1) - 1 = n /\ es[n] = f[n]
      BY <1>1, <2>2
    <3>2. n + 1 <= N => es[n + 1] = f[n + 1]
      BY <1>6, <1>10, <3>1, Zenon
    <3> QED BY <3>2
  <2> HIDE DEF S
  <2>3. Nat \subseteq S
    BY <2>1, <2>2, SetInduction, Zenon
  <2> QED BY <1>1, <2>3, Zenon DEF S
<1>12. LoadEntries(lines) = f[N]
  BY <1>1, <1>9, <1>11
<1> QED BY <1>4, <1>12, Zenon DEF N

\* Load goes line by line: one more line is one more round.
LEMMA LoadEntriesFacts ==
  ASSUME NEW lines \in Seq(Lines)
  PROVE  /\ LoadEntries(lines) \in Tables
         /\ lines = <<>> => LoadEntries(lines) = NoEntries
         /\ \A l \in Lines :
               LoadEntries(Append(lines, l)) = LoadLine(LoadEntries(lines), l)
<1>1. PICK f : /\ Follows(f, Len(lines), Tables, NoEntries, LineSteps(lines))
               /\ LoadEntries(lines) = f[Len(lines)]
  BY LoadEntriesLoop, Zenon
<1>2. LoadEntries(lines) \in Tables /\ (lines = <<>> => LoadEntries(lines) = NoEntries)
  BY <1>1 DEF Follows
<1>3. ASSUME NEW l \in Lines
      PROVE  LoadEntries(Append(lines, l)) = LoadLine(LoadEntries(lines), l)
  <2> DEFINE more == Append(lines, l)
             N == Len(lines)
  <2>1. /\ more \in Seq(Lines) /\ Len(more) = N + 1 /\ N \in Nat
        /\ more[N + 1] = l /\ \A k \in 1..N : more[k] = lines[k]
    OBVIOUS
  <2> HIDE DEF more
  <2>2. PICK g : /\ Follows(g, Len(more), Tables, NoEntries, LineSteps(more))
                 /\ LoadEntries(more) = g[Len(more)]
    BY <2>1, LoadEntriesLoop, Zenon
  <2>3. \A k \in 1..N : LineSteps(lines)[k] = LineSteps(more)[k]
    BY <2>1 DEF LineSteps
  <2> HIDE DEF N
  <2>4. \A k \in 0..N : f[k] = g[k]
    <3>1. Follows(f, N, Tables, NoEntries, LineSteps(lines))
      BY <1>1, Zenon DEF N
    <3>2. Follows(g, N + 1, Tables, NoEntries, LineSteps(more)) /\ N + 1 \in Nat /\ N <= N + 1
      BY <2>1, <2>2
    <3> DEFINE D == LineSteps(lines)
               E == LineSteps(more)
               M == N + 1
    <3> HIDE DEF D, E, M
    <3>3. /\ N \in Nat /\ M \in Nat /\ N <= M /\ \A k \in 1..N : D[k] = E[k]
          /\ Follows(f, N, Tables, NoEntries, D) /\ Follows(g, M, Tables, NoEntries, E)
      BY <2>1, <2>3, <3>1, <3>2, Zenon DEF D, E, M
    <3> QED BY <3>3, FollowsUnique
  <2>5. g[N + 1] = LineSteps(more)[N + 1][g[N]] /\ f[N] \in Tables
    <3>1. N + 1 \in 1..(N + 1) /\ (N + 1) - 1 = N /\ N \in 0..N
      BY <2>1
    <3>2. f[N] \in Tables
      BY <1>1, <3>1, Zenon DEF Follows, N
    <3> QED BY <2>1, <2>2, <3>1, <3>2, Zenon DEF Follows
  <2>6. f[N] = g[N]
    BY <2>1, <2>4
  <2>7. LineSteps(more)[N + 1][g[N]] = LoadLine(g[N], l)
    BY <2>1, <2>5, <2>6 DEF LineSteps
  <2>8. LoadEntries(more) = LoadLine(f[N], l)
    BY <2>1, <2>2, <2>5, <2>6, <2>7, Zenon
  <2> QED BY <1>1, <2>8, Zenon DEF more, N
<1> QED BY <1>2, <1>3, Zenon

\* The rounds of Load over the build log, unfolded.
LEMMA LoadRounds ==
  ASSUME NEW lines \in Seq(Lines)
  PROVE  \E f : /\ f \in [0..Len(lines) -> Tables] /\ f[0] = NoEntries
                /\ \A k \in 1..Len(lines) : f[k] = LoadLine(f[k - 1], lines[k])
                /\ LoadEntries(lines) = f[Len(lines)]
<1>1. PICK f : /\ Follows(f, Len(lines), Tables, NoEntries, LineSteps(lines))
               /\ LoadEntries(lines) = f[Len(lines)]
  BY LoadEntriesLoop, Zenon
<1>2. /\ f \in [0..Len(lines) -> Tables] /\ f[0] = NoEntries
      /\ \A k \in 1..Len(lines) : f[k] = LineSteps(lines)[k][f[k - 1]]
  BY <1>1, Zenon DEF Follows
<1>3. ASSUME NEW k \in 1..Len(lines)
      PROVE  f[k] = LoadLine(f[k - 1], lines[k])
  <2>1. k - 1 \in 0..Len(lines)
    OBVIOUS
  <2>2. f[k - 1] \in Tables
    BY <1>2, <2>1, Zenon
  <2> QED BY <1>2, <2>2, Zenon DEF LineSteps
<1> QED BY <1>1, <1>2, <1>3, Zenon

\* An entry that Load returns is the entry of a line of its output.
LEMMA LoadedFromLine ==
  ASSUME NEW lines \in Seq(Lines), NEW o \in Outputs
  PROVE  LET e == LoadEntries(lines)[o]
         IN  e = NoEntry \/ \E k \in DOMAIN lines : lines[k].out = o /\ lines[k].entry = e
<1>1. PICK f : /\ f \in [0..Len(lines) -> Tables] /\ f[0] = NoEntries
               /\ \A k \in 1..Len(lines) : f[k] = LoadLine(f[k - 1], lines[k])
               /\ LoadEntries(lines) = f[Len(lines)]
  BY LoadRounds, Zenon
<1> DEFINE N == Len(lines)
           Found(n) == \/ f[n][o] = NoEntry
                       \/ \E k \in 1..N : lines[k].out = o /\ lines[k].entry = f[n][o]
           S == {n \in Nat : n <= N => Found(n)}
<1>2. N \in Nat /\ DOMAIN lines = 1..N
  OBVIOUS
<1>3. 0 \in S
  BY <1>1, Zenon DEF NoEntries
<1>4. ASSUME NEW n \in Nat, n \in S
      PROVE  n + 1 \in S
  <2> SUFFICES ASSUME n + 1 <= N PROVE Found(n + 1)
    OBVIOUS
  <2>1. n + 1 \in 1..N /\ (n + 1) - 1 = n /\ n \in 0..N /\ n <= N
    BY <1>2
  <2>2. Found(n) /\ f[n] \in Tables /\ f[n + 1] = LoadLine(f[n], lines[n + 1])
    BY <1>1, <1>4, <2>1, Zenon
  <2>3. \/ f[n + 1][o] = f[n][o]
        \/ f[n + 1][o] = lines[n + 1].entry /\ lines[n + 1].out = o
    BY <2>2, Zenon DEF LoadLine, Tables
  <2> QED BY <2>1, <2>2, <2>3, Zenon
<1>5. Nat \subseteq S
  <2> HIDE DEF S
  <2> QED BY <1>3, <1>4, SetInduction, Zenon
<1>6. Found(N)
  BY <1>2, <1>5
<1> QED BY <1>1, <1>2, <1>6, Zenon

\* The lines of a fresh file: what is in them, and that Load returns the entries
\* the file was written from.
LEMMA FileOfFacts ==
  ASSUME NEW es \in Tables
  PROVE  /\ FileOf(es).lines \in Seq(Lines)
         /\ FileOf(es).header = "complete" /\ FileOf(es).open = FALSE
         /\ \A k \in DOMAIN FileOf(es).lines :
               LET l == FileOf(es).lines[k]
               IN  l.out \in Outputs /\ l.entry = es[l.out]
         /\ LoadEntries(FileOf(es).lines) = es
<1> DEFINE T == {o \in Outputs : es[o] # NoEntry}
           outs == Listing(T)
           N == Cardinality(T)
           lines == [k \in DOMAIN outs |-> Line(outs[k], es[outs[k]])]
<1>1. IsFiniteSet(T)
  BY FS_Subset, LogsAssumption, Zenon
<1>2. N \in Nat /\ ExistsBijection(1..N, T)
  BY <1>1, FS_CardinalityType, Zenon
<1>3. \E s \in [1..N -> T] : Range(s) = T
  <2>1. PICK s : s \in Bijection(1..N, T)
    BY <1>2, Zenon DEF ExistsBijection
  <2>2. s \in [1..N -> T] /\ \A o \in T : \E k \in 1..N : s[k] = o
    BY <2>1, Zenon DEF Bijection, Surjection
  <2>3. Range(s) = T
    BY <2>2, Zenon DEF Range
  <2> QED BY <2>2, <2>3, Zenon
<1>4. outs \in [1..N -> T] /\ Range(outs) = T
  BY <1>3, Zenon DEF Listing
<1>5. FileOf(es) = [header |-> "complete", open |-> FALSE, lines |-> lines]
  BY Zenon DEF FileOf
<1> HIDE DEF outs, N
<1>6. /\ lines \in [1..N -> Lines] /\ T \subseteq Outputs
      /\ \A k \in 1..N : lines[k] = Line(outs[k], es[outs[k]]) /\ outs[k] \in Outputs
  BY <1>4 DEF Line, Lines, Tables
<1>7. lines \in Seq(Lines) /\ Len(lines) = N
  <2> HIDE DEF lines
  <2> QED BY <1>2, <1>6
<1> HIDE DEF lines
<1>8. PICK f : /\ f \in [0..Len(lines) -> Tables] /\ f[0] = NoEntries
               /\ \A k \in 1..Len(lines) : f[k] = LoadLine(f[k - 1], lines[k])
               /\ LoadEntries(lines) = f[Len(lines)]
  BY <1>7, LoadRounds, Zenon
<1>9. ASSUME NEW o \in Outputs
      PROVE  f[N][o] = es[o]
  <2> DEFINE Seen(n) == IF \E k \in 1..n : outs[k] = o THEN es[o] ELSE NoEntry
             S == {n \in Nat : n <= N => f[n][o] = Seen(n)}
  <2>1. 0 \in S
    BY <1>8 DEF NoEntries
  <2>2. ASSUME NEW n \in Nat, n \in S
        PROVE  n + 1 \in S
    <3> SUFFICES ASSUME n + 1 <= N PROVE f[n + 1][o] = Seen(n + 1)
      OBVIOUS
    <3>1. n + 1 \in 1..N /\ (n + 1) - 1 = n /\ n \in 0..N /\ n <= N
      BY <1>2
    <3>2. f[n][o] = Seen(n) /\ f[n] \in Tables /\ f[n + 1] = LoadLine(f[n], lines[n + 1])
      BY <1>7, <1>8, <2>2, <3>1, Zenon
    <3>3. f[n + 1][o] = IF outs[n + 1] = o THEN es[o] ELSE f[n][o]
      BY <1>6, <3>1, <3>2 DEF LoadLine, Tables, Line
    <3>4. \A k : k \in 1..(n + 1) <=> k \in 1..n \/ k = n + 1
      OBVIOUS
    <3>5. Seen(n + 1) = IF outs[n + 1] = o THEN es[o] ELSE Seen(n)
      BY <3>4, Zenon
    <3> QED BY <3>2, <3>3, <3>5, Zenon
  <2>3. Nat \subseteq S
    <3> HIDE DEF S
    <3> QED BY <2>1, <2>2, SetInduction, Zenon
  <2>4. f[N][o] = Seen(N)
    BY <1>2, <2>3
  <2>5. (\E k \in 1..N : outs[k] = o) <=> o \in T
    BY <1>4, Zenon DEF Range
  <2> QED BY <2>4, <2>5, Zenon
<1>10. f[N] = es
  <2>1. f[N] \in Tables
    BY <1>2, <1>7, <1>8
  <2> QED BY <1>9, <2>1 DEF Tables
<1>11. \A k \in DOMAIN lines : lines[k].out \in Outputs /\ lines[k].entry = es[lines[k].out]
  BY <1>6 DEF Line
<1> QED BY <1>5, <1>7, <1>8, <1>10, <1>11

----------------------------------------------------------------------------
\* Appending: what the sequence then holds, and that it holds nothing twice
\* when the element is new.
LEMMA AppendFacts ==
  ASSUME NEW V, NEW s \in Seq(V), NEW e \in V
  PROVE  /\ Append(s, e) \in Seq(V) /\ Len(Append(s, e)) = Len(s) + 1
         /\ Range(Append(s, e)) = Range(s) \union {e}
         /\ \A i \in DOMAIN s : i \in DOMAIN Append(s, e) /\ Append(s, e)[i] = s[i]
         /\ IsInjective(s) /\ e \notin Range(s) => IsInjective(Append(s, e))
<1>1. /\ Append(s, e) \in Seq(V) /\ Len(Append(s, e)) = Len(s) + 1
      /\ DOMAIN s = 1..Len(s) /\ Len(s) \in Nat
      /\ DOMAIN Append(s, e) = 1..(Len(s) + 1)
      /\ \A i \in 1..Len(s) : Append(s, e)[i] = s[i]
      /\ Append(s, e)[Len(s) + 1] = e
  OBVIOUS
<1>2. Range(Append(s, e)) = Range(s) \union {e}
  BY <1>1 DEF Range
<1>3. IsInjective(s) /\ e \notin Range(s) => IsInjective(Append(s, e))
  BY <1>1 DEF Range, IsInjective
<1>4. \A i \in DOMAIN s : i \in DOMAIN Append(s, e) /\ Append(s, e)[i] = s[i]
  BY <1>1
<1> QED BY <1>1, <1>2, <1>3, <1>4, Zenon

\* A sequence over a set is one over a larger set.
LEMMA SeqSubset ==
  ASSUME NEW A, NEW B, A \subseteq B, NEW s \in Seq(A)
  PROVE  s \in Seq(B)
OBVIOUS

\* A sequence is one over any set that has all its elements.
LEMMA SeqInto ==
  ASSUME NEW A, NEW B, NEW s \in Seq(A), \A k \in DOMAIN s : s[k] \in B
  PROVE  s \in Seq(B)
<1>1. DOMAIN s = 1..Len(s) /\ Len(s) \in Nat /\ s \in [1..Len(s) -> A]
  OBVIOUS
<1>2. s \in [1..Len(s) -> B]
  BY <1>1, Zenon
<1> QED BY <1>1, <1>2

\* Two sequences of the same elements are the same.
LEMMA SameSeq ==
  ASSUME NEW V, NEW s \in Seq(V), NEW t \in Seq(V), Len(s) = Len(t),
         \A i \in 1..Len(s) : s[i] = t[i]
  PROVE  s = t
OBVIOUS

\* Moving the first element of t to the end of s leaves their concatenation.
LEMMA ConcatHead ==
  ASSUME NEW V, NEW s \in Seq(V), NEW t \in Seq(V), t # <<>>
  PROVE  Append(s, Head(t)) \o Tail(t) = s \o t
OBVIOUS

\* A function on 1..n is a sequence of length n.
LEMMA FunctionSeq ==
  ASSUME NEW V, NEW n \in Nat, NEW f \in [1..n -> V]
  PROVE  f \in Seq(V) /\ Len(f) = n
OBVIOUS

\* The id of a path is where it is, and 0 when it is nowhere.
LEMMA IdOfFacts ==
  ASSUME NEW ns \in Seq(Paths), NEW p
  PROVE  /\ IdOf(p, ns) = 0 <=> p \notin Range(ns)
         /\ p \in Range(ns) => IdOf(p, ns) \in DOMAIN ns /\ ns[IdOf(p, ns)] = p
         /\ \A i \in DOMAIN ns : IsInjective(ns) /\ ns[i] = p => IdOf(p, ns) = i
<1>1. p \in Range(ns) <=> \E i \in DOMAIN ns : ns[i] = p
  BY Zenon DEF Range
<1>2. CASE p \notin Range(ns)
  BY <1>1, <1>2, Zenon DEF IdOf
<1>3. CASE p \in Range(ns)
  <2>1. IdOf(p, ns) \in DOMAIN ns /\ ns[IdOf(p, ns)] = p
    BY <1>1, <1>3, Zenon DEF IdOf
  <2>2. 0 \notin DOMAIN ns
    OBVIOUS
  <2> QED BY <1>3, <2>1, <2>2, Zenon DEF IsInjective
<1> QED BY <1>2, <1>3, Zenon

\* A path gets an id when it has none, and only then.
LEMMA RecordIdFacts ==
  ASSUME nodes \in Seq(Paths), NEW s \in Seq(Paths), NEW p \in Paths
  PROVE  /\ RecordId(s, p) \in Seq(Paths)
         /\ Range(nodes \o RecordId(s, p)) = Range(nodes \o s) \union {p}
         /\ IsInjective(nodes \o s) => IsInjective(nodes \o RecordId(s, p))
<1> DEFINE c == nodes \o s
<1>1. c \in Seq(Paths) /\ Append(s, p) \in Seq(Paths)
  OBVIOUS
<1>2. nodes \o Append(s, p) = Append(c, p)
  OBVIOUS
<1> HIDE DEF c
<1>3. CASE p \in Range(c)
  <2>1. RecordId(s, p) = s
    BY <1>1, <1>3, IdOfFacts, Zenon DEF RecordId, c
  <2> QED BY <1>3, <2>1, Zenon DEF c
<1>4. CASE p \notin Range(c)
  <2>1. RecordId(s, p) = Append(s, p)
    BY <1>1, <1>4, IdOfFacts, Zenon DEF RecordId, c
  <2>2. Range(Append(c, p)) = Range(c) \union {p} /\ (IsInjective(c) => IsInjective(Append(c, p)))
    BY <1>1, <1>4, AppendFacts
  <2> QED BY <1>1, <1>2, <2>1, <2>2, Zenon DEF c
<1> QED BY <1>3, <1>4, Zenon

\* RecordDeps gives an id to every path that has none, and to no path twice.
LEMMA NewPathsFacts ==
  ASSUME nodes \in Seq(Paths), IsInjective(nodes),
         NEW out \in Paths, NEW ins \in Seq(Paths)
  PROVE  LET all == nodes \o NewPaths(out, ins)
         IN  /\ NewPaths(out, ins) \in Seq(Paths)
             /\ IsInjective(all)
             /\ out \in Range(all) /\ \A k \in DOMAIN ins : ins[k] \in Range(all)
<1> DEFINE args == <<out>> \o ins
           N == Len(args)
           Loop(h) == h = [k \in 0..N |-> IF k = 0 THEN <<>> ELSE RecordId(h[k - 1], args[k])]
           new == CHOOSE h : Loop(h)
           D == [k \in 1..N |-> [s \in Seq(Paths) |-> RecordId(s, args[k])]]
<1>1. /\ args \in Seq(Paths) /\ N \in Nat /\ 1 \in 1..N /\ args[1] = out
      /\ \A k \in 1..N : args[k] \in Paths
      /\ \A k \in DOMAIN ins : k + 1 \in 1..N /\ args[k + 1] = ins[k]
  OBVIOUS
<1>2. NewPaths(out, ins) = new[N]
  BY Zenon DEF NewPaths
<1> HIDE DEF args, N
<1>3. D \in [1..N -> [Seq(Paths) -> Seq(Paths)]]
  BY <1>1, RecordIdFacts, Zenon
<1>4. <<>> \in Seq(Paths)
  OBVIOUS
<1>5. PICK f : Follows(f, N, Seq(Paths), <<>>, D)
  <2> HIDE DEF D
  <2> QED BY <1>1, <1>3, <1>4, RecursionExists, Zenon
<1>6. /\ f \in [0..N -> Seq(Paths)] /\ f[0] = <<>>
      /\ \A k \in 1..N : f[k] = D[k][f[k - 1]]
  <2> HIDE DEF D
  <2> QED BY <1>5, Zenon DEF Follows
<1>7. ASSUME NEW k \in 1..N
      PROVE  f[k] = RecordId(f[k - 1], args[k])
  <2>1. f[k - 1] \in Seq(Paths)
    BY <1>1, <1>6
  <2> QED BY <1>6, <2>1, Zenon
<1> HIDE DEF D
<1>8. Loop(f)
  <2>1. \A k \in 0..N : f[k] = IF k = 0 THEN <<>> ELSE RecordId(f[k - 1], args[k])
    <3>1. \A k \in 0..N : k = 0 \/ k \in 1..N
      BY <1>1
    <3> QED BY <1>6, <1>7, <3>1, Zenon
  <2> QED BY <1>6, <2>1, Zenon
<1>9. Loop(new)
  BY <1>8, Zenon
<1> HIDE DEF new
<1>10. /\ new[0] = <<>>
       /\ \A k \in 1..N : new[k] = RecordId(new[k - 1], args[k])
  <2>1. \A k \in 0..N : new[k] = IF k = 0 THEN <<>> ELSE RecordId(new[k - 1], args[k])
    BY <1>9, Zenon
  <2>2. 0 \in 0..N /\ \A k \in 1..N : k \in 0..N /\ k # 0
    BY <1>1
  <2> QED BY <2>1, <2>2, Zenon
<1> HIDE DEF Loop
<1> DEFINE Good(s, n) == /\ s \in Seq(Paths) /\ IsInjective(nodes \o s)
                         /\ \A k \in 1..n : args[k] \in Range(nodes \o s)
           S == {n \in Nat : n <= N => Good(new[n], n)}
<1>11. 0 \in S
  <2>1. nodes \o <<>> = nodes
    OBVIOUS
  <2>2. Good(<<>>, 0)
    BY <1>4, <2>1
  <2>3. Good(new[0], 0)
    BY <1>10, <2>2, Zenon
  <2> QED BY <2>3, Zenon
<1>12. ASSUME NEW n \in Nat, n \in S
       PROVE  n + 1 \in S
  <2> SUFFICES ASSUME n + 1 <= N PROVE Good(new[n + 1], n + 1)
    OBVIOUS
  <2>1. n + 1 \in 1..N /\ (n + 1) - 1 = n /\ n <= N
    BY <1>1
  <2>2. Good(new[n], n)
    BY <1>12, <2>1, Zenon
  <2>3. new[n + 1] = RecordId(new[n], args[n + 1]) /\ args[n + 1] \in Paths
    BY <1>1, <1>10, <2>1, Zenon
  <2>4. /\ new[n + 1] \in Seq(Paths) /\ IsInjective(nodes \o new[n + 1])
        /\ Range(nodes \o new[n + 1]) = Range(nodes \o new[n]) \union {args[n + 1]}
    BY <2>2, <2>3, RecordIdFacts, Zenon
  <2>5. \A k \in 1..(n + 1) : k \in 1..n \/ k = n + 1
    OBVIOUS
  <2>6. \A k \in 1..n : args[k] \in Range(nodes \o new[n])
    BY <2>2, Zenon
  <2>7. \A k \in 1..(n + 1) : args[k] \in Range(nodes \o new[n + 1])
    <3> SUFFICES ASSUME NEW k \in 1..(n + 1)
                 PROVE  args[k] \in Range(nodes \o new[n]) \union {args[n + 1]}
      BY <2>4, Zenon
    <3> QED BY <2>5, <2>6, Zenon
  <2> QED BY <2>4, <2>7, Zenon
<1>13. Nat \subseteq S
  <2> HIDE DEF S
  <2> QED BY <1>11, <1>12, SetInduction, Zenon
<1>14. Good(new[N], N)
  BY <1>1, <1>13
<1> QED BY <1>1, <1>2, <1>14, Zenon

----------------------------------------------------------------------------
\* The deps a log has for a path, by id.
DepsOf(log, p) ==
    LET id == IdOf(p, log.nodes)
    IN  IF id = 0 \/ id > Len(log.deps) THEN NoDeps ELSE log.deps[id]

\* GetDeps names the inputs of these deps by their paths.
LEMMA GetDepsIs ==
  ASSUME NEW log, NEW p, NEW d, d = DepsOf(log, p),
         \A k \in DOMAIN d.ids : d.ids[k] # 0
  PROVE  GetDeps(log, p) = [mtime |-> d.mtime,
                            paths |-> [k \in DOMAIN d.ids |-> log.nodes[d.ids[k]]]]
<1>1. GetDeps(log, p) = [mtime |-> d.mtime,
                         paths |-> [k \in DOMAIN d.ids |->
                                      IF d.ids[k] = 0 THEN "nil" ELSE log.nodes[d.ids[k]]]]
  BY Zenon DEF GetDeps, DepsOf
<1>2. [k \in DOMAIN d.ids |-> IF d.ids[k] = 0 THEN "nil" ELSE log.nodes[d.ids[k]]]
        = [k \in DOMAIN d.ids |-> log.nodes[d.ids[k]]]
  OBVIOUS
<1> QED BY <1>1, <1>2, Zenon

\* A good log's deps name ids it has.
LEMMA GoodDeps ==
  ASSUME NEW log, GoodLog(log), NEW p
  PROVE  /\ DepsOf(log, p) \in [mtime : Int, ids : Seq(1..Len(log.nodes))]
         /\ \A k \in DOMAIN DepsOf(log, p).ids : DepsOf(log, p).ids[k] # 0
<1> DEFINE V == [mtime : Int, ids : Seq(1..Len(log.nodes))]
           id == IdOf(p, log.nodes)
<1>1. NoDeps \in V
  BY DEF NoDeps
<1>2. log.deps \in Seq(V) /\ log.nodes \in Seq(Paths)
  BY Zenon DEF GoodLog
<1>3. id = 0 \/ id \in 1..Len(log.nodes)
  BY <1>2, IdOfFacts
<1>4. DepsOf(log, p) \in V
  <2>1. CASE id = 0 \/ id > Len(log.deps)
    BY <1>1, <2>1, Zenon DEF DepsOf
  <2>2. CASE ~(id = 0 \/ id > Len(log.deps))
    <3>1. DepsOf(log, p) = log.deps[id]
      BY <2>2, Zenon DEF DepsOf
    <3> HIDE DEF V, id
    <3>2. id \in 1..Len(log.deps)
      BY <1>2, <1>3, <2>2
    <3> QED BY <1>2, <3>1, <3>2
  <2> QED BY <2>1, <2>2, Zenon
<1>5. \A d \in V : \A k \in DOMAIN d.ids : d.ids[k] # 0
  BY <1>2
<1> QED BY <1>4, <1>5, Zenon

\* A path record that is next in order loads: the deps of no path change.
LEMMA LoadIdRecord ==
  ASSUME NEW log \in Logs, GoodLog(log), NEW r \in IdRecords,
         r.id = Len(log.nodes) + 1, r.path \notin Range(log.nodes)
  PROVE  LET new == LoadRecord(log, r)
         IN  /\ new.nodes = Append(log.nodes, r.path) /\ new.deps = log.deps
             /\ new.read = log.read + 1 /\ GoodLog(new)
             /\ \A p \in Paths : GetDeps(new, p) = GetDeps(log, p)
<1> DEFINE new == LoadRecord(log, r)
<1>1. /\ log.nodes \in Seq(Paths) /\ IsInjective(log.nodes) /\ log.bad = FALSE
      /\ Len(log.deps) <= Len(log.nodes) /\ Len(log.deps) \in Nat
      /\ log.deps \in Seq([mtime : Int, ids : Seq(1..Len(log.nodes))])
      /\ DOMAIN log = {"nodes", "deps", "read", "bad"}
      /\ r.path \in Paths /\ ~isDeps(r)
  BY KindFacts DEF GoodLog, Logs, IdRecords
<1>2. IdOf(r.path, log.nodes) = 0
  BY <1>1, IdOfFacts, Zenon
<1>3. new = [log EXCEPT !.read = log.read + 1, !.nodes = Append(log.nodes, r.path)]
  BY <1>1, <1>2, Zenon DEF LoadRecord
<1>4. /\ new.nodes = Append(log.nodes, r.path) /\ new.deps = log.deps
      /\ new.read = log.read + 1 /\ new.bad = FALSE
  BY <1>1, <1>3, Zenon
<1> HIDE DEF new
<1>5. /\ new.nodes \in Seq(Paths) /\ Len(new.nodes) = Len(log.nodes) + 1
      /\ Range(new.nodes) = Range(log.nodes) \union {r.path}
      /\ \A i \in DOMAIN log.nodes : i \in DOMAIN new.nodes /\ new.nodes[i] = log.nodes[i]
      /\ IsInjective(new.nodes)
  BY <1>1, <1>4, AppendFacts
<1>6. GoodLog(new)
  <2>1. Seq(1..Len(log.nodes)) \subseteq Seq(1..Len(new.nodes))
    BY <1>1, <1>5
  <2>2. new.deps \in Seq([mtime : Int, ids : Seq(1..Len(new.nodes))])
    <3> DEFINE A == [mtime : Int, ids : Seq(1..Len(log.nodes))]
               B == [mtime : Int, ids : Seq(1..Len(new.nodes))]
    <3>1. A \subseteq B
      BY <2>1, Zenon
    <3>2. log.deps \in Seq(A)
      BY <1>1, Zenon
    <3> HIDE DEF A, B
    <3>3. log.deps \in Seq(B)
      BY <3>1, <3>2, SeqSubset, Zenon
    <3> QED BY <1>4, <3>3, Zenon DEF B
  <2>3. Len(new.deps) <= Len(new.nodes)
    BY <1>1, <1>4, <1>5
  <2> QED BY <1>4, <1>5, <2>2, <2>3, Zenon DEF GoodLog
<1>7. ASSUME NEW p \in Paths
      PROVE  GetDeps(new, p) = GetDeps(log, p)
  <2> DEFINE d == DepsOf(log, p)
  <2>1. DepsOf(new, p) = d
    <3>1. CASE p \in Range(log.nodes)
      <4>1. IdOf(p, log.nodes) \in DOMAIN log.nodes /\ log.nodes[IdOf(p, log.nodes)] = p
        BY <1>1, <3>1, IdOfFacts, Zenon
      <4>2. IdOf(p, new.nodes) = IdOf(p, log.nodes)
        BY <1>5, <4>1, IdOfFacts, Zenon
      <4> QED BY <1>4, <4>2, Zenon DEF DepsOf
    <3>2. CASE p \notin Range(log.nodes) /\ p # r.path
      <4>1. IdOf(p, log.nodes) = 0 /\ IdOf(p, new.nodes) = 0
        BY <1>1, <1>5, <3>2, IdOfFacts, Zenon
      <4> QED BY <4>1, Zenon DEF DepsOf
    <3>3. CASE p = r.path
      <4>1. Len(log.nodes) + 1 \in DOMAIN new.nodes /\ new.nodes[Len(log.nodes) + 1] = p
        BY <1>1, <1>4, <3>3
      <4>2. IdOf(p, new.nodes) = Len(log.nodes) + 1
        BY <1>5, <4>1, IdOfFacts, Zenon
      <4>3. Len(log.nodes) + 1 > Len(log.deps)
        BY <1>1
      <4> QED BY <1>2, <1>4, <3>3, <4>2, <4>3, Zenon DEF DepsOf
    <3> QED BY <3>1, <3>2, <3>3, Zenon
  <2>2. d.ids \in Seq(1..Len(log.nodes)) /\ \A k \in DOMAIN d.ids : d.ids[k] # 0
    BY GoodDeps, Zenon
  <2> HIDE DEF d
  <2>3. \A k \in DOMAIN d.ids : new.nodes[d.ids[k]] = log.nodes[d.ids[k]]
    BY <1>1, <1>5, <2>2
  <2>4. GetDeps(new, p) = [mtime |-> d.mtime,
                           paths |-> [k \in DOMAIN d.ids |-> new.nodes[d.ids[k]]]]
    BY <2>1, <2>2, GetDepsIs, Zenon
  <2>5. GetDeps(log, p) = [mtime |-> d.mtime,
                           paths |-> [k \in DOMAIN d.ids |-> log.nodes[d.ids[k]]]]
    BY <2>2, GetDepsIs, Zenon DEF d
  <2> QED BY <2>3, <2>4, <2>5, Zenon
<1> QED BY <1>4, <1>6, <1>7, Zenon DEF new

\* A deps record whose ids are known loads: the deps of its output become what
\* it says, and no other path's change.
LEMMA LoadDepsRecord ==
  ASSUME NEW log \in Logs, GoodLog(log), NEW r \in DepsRecords,
         r.out \in DOMAIN log.nodes, \A k \in DOMAIN r.ids : r.ids[k] \in DOMAIN log.nodes
  PROVE  LET new == LoadRecord(log, r)
         IN  /\ new.nodes = log.nodes
             /\ new.deps = UpdateDeps(log.deps, r.out, [mtime |-> r.mtime, ids |-> r.ids])
             /\ new.read = log.read + 1 /\ GoodLog(new)
             /\ GetDeps(new, log.nodes[r.out])
                  = [mtime |-> r.mtime,
                     paths |-> [k \in DOMAIN r.ids |-> log.nodes[r.ids[k]]]]
             /\ \A p \in Paths : p # log.nodes[r.out] => GetDeps(new, p) = GetDeps(log, p)
<1> DEFINE new == LoadRecord(log, r)
           d == [mtime |-> r.mtime, ids |-> r.ids]
           u == UpdateDeps(log.deps, r.out, d)
           V == [mtime : Int, ids : Seq(1..Len(log.nodes))]
<1>1. /\ log.nodes \in Seq(Paths) /\ IsInjective(log.nodes) /\ log.bad = FALSE
      /\ Len(log.deps) <= Len(log.nodes) /\ Len(log.deps) \in Nat
      /\ log.deps \in Seq(V) /\ DOMAIN log.nodes = 1..Len(log.nodes)
      /\ Len(log.nodes) \in Nat
      /\ DOMAIN log = {"nodes", "deps", "read", "bad"}
  BY DEF GoodLog, Logs
<1>2. /\ r.out \in Nat /\ r.out # 0 /\ r.mtime \in Int /\ r.ids \in Seq(Nat) /\ isDeps(r)
  BY <1>1, KindFacts DEF DepsRecords
<1>3. [k \in DOMAIN r.ids |-> IF \A j \in 1..k: r.ids[j] <= Len(log.nodes)
                              THEN r.ids[k] ELSE 0] = r.ids
  <2>1. \A k \in DOMAIN r.ids : \A j \in 1..k : r.ids[j] <= Len(log.nodes)
    BY <1>1, <1>2
  <2>2. r.ids = [k \in DOMAIN r.ids |-> r.ids[k]]
    BY <1>2
  <2> QED BY <2>1, <2>2, Zenon
<1>4. new = [log EXCEPT !.read = log.read + 1, !.deps = u]
  BY <1>1, <1>2, <1>3, Zenon DEF LoadRecord
<1> HIDE DEF u
<1>5. /\ new.nodes = log.nodes /\ new.deps = u /\ new.read = log.read + 1 /\ new.bad = FALSE
  BY <1>1, <1>4, Zenon
<1> HIDE DEF new
<1>6. r.ids \in Seq(1..Len(log.nodes))
  BY <1>1, <1>2, SeqInto, Zenon
<1>7. d \in V /\ NoDeps \in V /\ d.ids = r.ids /\ d.mtime = r.mtime
  <2>1. -1 \in Int /\ <<>> \in Seq(1..Len(log.nodes))
    OBVIOUS
  <2> QED BY <1>2, <1>6, <2>1, Zenon DEF NoDeps
<1> HIDE DEF V, d
<1>8. /\ u \in Seq(V) /\ Len(u) = IF r.out > Len(log.deps) THEN r.out ELSE Len(log.deps)
      /\ u[r.out] = d
      /\ \A i \in DOMAIN log.deps : i # r.out => u[i] = log.deps[i]
      /\ \A i \in DOMAIN u : i # r.out /\ i > Len(log.deps) => u[i] = NoDeps
  <2>1. log.deps \in Seq(V)
    BY <1>1, Zenon
  <2>2. Len(log.deps) \in Nat /\ DOMAIN log.deps = 1..Len(log.deps)
    BY <2>1
  <2>3. u = UpdateDeps(log.deps, r.out, d)
    BY Zenon DEF u
  <2>4. u \in Seq(V)
    BY <1>2, <1>7, <2>1, <2>3, UpdateType, Zenon
  <2>5. /\ DOMAIN u = 1..(IF r.out > Len(log.deps) THEN r.out ELSE Len(log.deps))
        /\ r.out # 0 => u[r.out] = d
        /\ \A i \in DOMAIN log.deps : i # r.out => u[i] = log.deps[i]
        /\ \A i \in DOMAIN u : i # r.out /\ i > Len(log.deps) => u[i] = NoDeps
    BY <1>2, <2>2, <2>3, UpdateShape
  <2> QED BY <1>2, <2>2, <2>4, <2>5
<1>9. GoodLog(new)
  <2>1. Len(u) <= Len(log.nodes)
    BY <1>1, <1>2, <1>8
  <2> QED BY <1>1, <1>5, <1>8, <2>1, Zenon DEF GoodLog, V
<1>10. GetDeps(new, log.nodes[r.out])
         = [mtime |-> r.mtime, paths |-> [k \in DOMAIN r.ids |-> log.nodes[r.ids[k]]]]
  <2>1. IdOf(log.nodes[r.out], new.nodes) = r.out
    BY <1>1, <1>5, IdOfFacts, Zenon
  <2>2. ~(r.out = 0 \/ r.out > Len(u))
    BY <1>1, <1>2, <1>8
  <2>3. DepsOf(new, log.nodes[r.out]) = d
    BY <1>5, <1>8, <2>1, <2>2, Zenon DEF DepsOf
  <2>4. \A k \in DOMAIN d.ids : d.ids[k] # 0
    BY <1>1, <1>7
  <2> QED BY <1>5, <1>7, <2>3, <2>4, GetDepsIs
<1>11. ASSUME NEW p \in Paths, p # log.nodes[r.out]
       PROVE  GetDeps(new, p) = GetDeps(log, p)
  <2> DEFINE id == IdOf(p, log.nodes)
             c == DepsOf(log, p)
  <2>1. id = 0 \/ (id \in 1..Len(log.nodes) /\ id # r.out)
    BY <1>1, <1>11, IdOfFacts, Zenon
  <2>2. DepsOf(new, p) = c
    <3>1. CASE id = 0
      BY <1>5, <3>1, Zenon DEF DepsOf
    <3>2. CASE id # 0 /\ id <= Len(log.deps)
      <4>1. id \in DOMAIN log.deps /\ ~(id > Len(u)) /\ ~(id > Len(log.deps))
        BY <1>1, <1>2, <1>8, <2>1, <3>2
      <4> QED BY <1>5, <1>8, <2>1, <3>2, <4>1, Zenon DEF DepsOf
    <3>3. CASE id # 0 /\ id > Len(log.deps)
      <4>1. id > Len(u) \/ id \in DOMAIN u
        BY <1>1, <1>2, <1>8, <2>1, <3>3
      <4> QED BY <1>5, <1>8, <2>1, <3>3, <4>1, Zenon DEF DepsOf
    <3>4. id = 0 \/ id <= Len(log.deps) \/ id > Len(log.deps)
      BY <1>1, <2>1
    <3> QED BY <3>1, <3>2, <3>3, <3>4, Zenon
  <2>3. \A k \in DOMAIN c.ids : c.ids[k] # 0
    BY GoodDeps, Zenon
  <2> HIDE DEF c
  <2>4. GetDeps(new, p) = [mtime |-> c.mtime,
                           paths |-> [k \in DOMAIN c.ids |-> log.nodes[c.ids[k]]]]
    BY <1>5, <2>2, <2>3, GetDepsIs, Zenon
  <2>5. GetDeps(log, p) = [mtime |-> c.mtime,
                           paths |-> [k \in DOMAIN c.ids |-> log.nodes[c.ids[k]]]]
    BY <2>3, GetDepsIs, Zenon DEF c
  <2> QED BY <2>4, <2>5, Zenon
<1> QED BY <1>5, <1>9, <1>10, <1>11, Zenon DEF new, u, d

----------------------------------------------------------------------------
\* While RecordDeps has path records to write, the next one continues the ids
\* and leaves the rest of the plan as it was.
LEMMA PlannedPath ==
  ASSUME NEW ns \in Seq(Paths), NEW rs \in Seq(Records), NEW req,
         Len(rs) > 1, Planned(rs, ns, req)
  PROVE  /\ rs[1] \in IdRecords /\ rs[1].id = Len(ns) + 1 /\ rs[1].path \notin Range(ns)
         /\ Tail(rs) \in Seq(Records) /\ Tail(rs) # <<>>
         /\ Planned(Tail(rs), Append(ns, rs[1].path), req)
<1> DEFINE m == Len(rs) - 1
           paths == [k \in 1..m |-> rs[k].path]
           all == ns \o paths
           last == rs[m + 1]
           rest == Tail(rs)
           more == Append(ns, rs[1].path)
           paths2 == [k \in 1..(m - 1) |-> rest[k].path]
<1>1. /\ \A k \in 1..m : rs[k] \in IdRecords /\ rs[k].id = Len(ns) + k
      /\ IsInjective(all)
  BY Zenon DEF Planned
<1>2. /\ last \in DepsRecords /\ req \in Requests
      /\ last.out \in DOMAIN all /\ all[last.out] = req.out
      /\ last.mtime = req.value.mtime
      /\ DOMAIN last.ids = DOMAIN req.value.paths
      /\ \A k \in DOMAIN last.ids : /\ last.ids[k] \in DOMAIN all
                                    /\ all[last.ids[k]] = req.value.paths[k]
  BY Zenon DEF Planned
<1>3. /\ m \in Nat /\ m >= 1 /\ Len(rs) = m + 1 /\ Len(ns) \in Nat
      /\ rest \in Seq(Records) /\ Len(rest) = m /\ rest # <<>>
      /\ \A k \in 1..m : rest[k] = rs[k + 1]
  <2>1. Len(rs) \in Nat /\ rs # <<>> /\ Len(ns) \in Nat
    OBVIOUS
  <2>2. /\ rest \in Seq(Records) /\ Len(rest) = Len(rs) - 1
        /\ \A k \in 1..(Len(rs) - 1) : rest[k] = rs[k + 1]
    BY <2>1
  <2> HIDE DEF rest
  <2>3. m \in Nat /\ m >= 1 /\ Len(rs) = m + 1
    BY <2>1
  <2>4. rest # <<>>
    BY <2>2, <2>3
  <2> QED BY <2>1, <2>2, <2>3, <2>4, Zenon
<1> HIDE DEF rest, m
<1>4. rs[1] \in IdRecords /\ rs[1].id = Len(ns) + 1 /\ rs[1].path \in Paths
  BY <1>1, <1>3 DEF IdRecords
<1>5. paths \in Seq(Paths) /\ Len(paths) = m /\ \A k \in 1..m : paths[k] = rs[k].path
  <2>1. paths \in [1..m -> Paths]
    BY <1>1, Zenon DEF IdRecords
  <2> QED BY <1>3, <2>1
<1>6. paths2 \in Seq(Paths) /\ Len(paths2) = m - 1
      /\ \A k \in 1..(m - 1) : paths2[k] = rs[k + 1].path
  <2>1. \A k \in 1..(m - 1) : k \in 1..m /\ k + 1 \in 1..m
    BY <1>3
  <2>2. paths2 \in [1..(m - 1) -> Paths] /\ \A k \in 1..(m - 1) : paths2[k] = rs[k + 1].path
    BY <1>1, <1>3, <2>1, Zenon DEF IdRecords
  <2> HIDE DEF paths2
  <2> QED BY <1>3, <2>2
<1> HIDE DEF paths, paths2
<1>7. more \in Seq(Paths) /\ Len(more) = Len(ns) + 1
  BY <1>4
<1>8. more \o paths2 = all
  <2>1. paths # <<>> /\ Head(paths) = rs[1].path /\ Tail(paths) \in Seq(Paths)
        /\ Len(Tail(paths)) = m - 1
        /\ \A k \in 1..(m - 1) : Tail(paths)[k] = paths[k + 1]
    BY <1>3, <1>5
  <2>2. \A k \in 1..(m - 1) : Tail(paths)[k] = paths2[k]
    <3>1. \A k \in 1..(m - 1) : k + 1 \in 1..m
      BY <1>3
    <3> QED BY <1>5, <1>6, <2>1, <3>1, Zenon
  <2>3. Tail(paths) = paths2
    BY <1>6, <2>1, <2>2, SameSeq, Zenon
  <2> QED BY <1>5, <2>1, <2>3, ConcatHead, Zenon
<1>9. rs[1].path \notin Range(ns)
  <2>1. Len(ns) + 1 \in DOMAIN all /\ all[Len(ns) + 1] = rs[1].path
    BY <1>3, <1>5
  <2>2. \A i \in DOMAIN ns : i \in DOMAIN all /\ all[i] = ns[i] /\ i # Len(ns) + 1
    BY <1>3, <1>5
  <2> QED BY <1>1, <2>1, <2>2, Zenon DEF Range, IsInjective
<1>10. Planned(rest, more, req)
  <2>1. Len(rest) - 1 = m - 1 /\ rest[(m - 1) + 1] = last
    BY <1>3
  <2>2. \A k \in 1..(m - 1) : rest[k] \in IdRecords /\ rest[k].id = Len(more) + k
    <3>1. \A k \in 1..(m - 1) : k \in 1..m /\ k + 1 \in 1..m
                                /\ Len(ns) + (k + 1) = (Len(ns) + 1) + k
      BY <1>3
    <3> QED BY <1>1, <1>3, <1>7, <3>1
  <2> HIDE DEF all, more, last
  <2> QED BY <1>1, <1>2, <1>8, <2>1, <2>2, Zenon DEF Planned, paths2
<1> QED BY <1>3, <1>4, <1>9, <1>10, Zenon DEF rest

\* The last record of RecordDeps carries the inputs of the call.
LEMMA PlannedDeps ==
  ASSUME NEW ns \in Seq(Paths), NEW rs \in Seq(Records), NEW req,
         Len(rs) = 1, Planned(rs, ns, req), NEW last, last = rs[1]
  PROVE  /\ last \in DepsRecords /\ req \in Requests
         /\ last.out \in DOMAIN ns
         /\ \A k \in DOMAIN last.ids : last.ids[k] \in DOMAIN ns
         /\ [mtime |-> last.mtime,
             paths |-> [k \in DOMAIN last.ids |-> ns[last.ids[k]]]] = req.value
<1> DEFINE all == ns \o [k \in 1..(Len(rs) - 1) |-> rs[k].path]
<1>1. all = ns
  <2>1. [k \in 1..(Len(rs) - 1) |-> rs[k].path] = <<>>
    OBVIOUS
  <2>2. ns \o <<>> = ns
    OBVIOUS
  <2> QED BY <2>1, <2>2, Zenon
<1>2. rs[(Len(rs) - 1) + 1] = last
  OBVIOUS
<1> HIDE DEF all
<1>3. /\ last \in DepsRecords /\ req \in Requests
      /\ last.out \in DOMAIN ns /\ ns[last.out] = req.out
      /\ last.mtime = req.value.mtime
      /\ DOMAIN last.ids = DOMAIN req.value.paths
      /\ \A k \in DOMAIN last.ids : /\ last.ids[k] \in DOMAIN ns
                                    /\ ns[last.ids[k]] = req.value.paths[k]
  BY <1>1, <1>2, Zenon DEF Planned, all
<1>4. req.value \in Values
  BY <1>3, Zenon DEF Requests
<1>5. [k \in DOMAIN last.ids |-> ns[last.ids[k]]] = req.value.paths
  BY <1>3, <1>4 DEF Values
<1>6. [mtime |-> last.mtime, paths |-> [k \in DOMAIN last.ids |-> ns[last.ids[k]]]] = req.value
  BY <1>3, <1>4, <1>5, Zenon DEF Values
<1> QED BY <1>3, <1>6, Zenon

\* A path record has its path and its id.
LEMMA IdRecordFacts ==
  ASSUME NEW p \in Paths, NEW n \in Nat
  PROVE  IdRecord(p, n) \in IdRecords /\ IdRecord(p, n).path = p /\ IdRecord(p, n).id = n
BY Zenon DEF IdRecord, IdRecords

\* The writes that RecordDeps plans are such a plan.
LEMMA RecordDepsPlanned ==
  ASSUME nodes \in Seq(Paths), IsInjective(nodes),
         NEW out \in Outputs \intersect Paths, NEW mtime \in Int, NEW ins \in Seq(Paths),
         NEW rs, rs = RecordDeps(out, mtime, ins), rs # <<>>,
         NEW req, req = [out |-> out, value |-> [mtime |-> mtime, paths |-> ins]]
  PROVE  rs \in Seq(Records) /\ Planned(rs, nodes, req)
<1> DEFINE fresh == NewPaths(out, ins)
           m == Len(fresh)
           all == nodes \o fresh
           ids == [k \in DOMAIN ins |-> IdOf(ins[k], all)]
           last == DepsRecord(IdOf(out, all), mtime, ids)
           first == [k \in DOMAIN fresh |-> IdRecord(fresh[k], Len(nodes) + k)]
<1>1. /\ fresh \in Seq(Paths) /\ IsInjective(all)
      /\ out \in Range(all) /\ \A k \in DOMAIN ins : ins[k] \in Range(all)
  BY NewPathsFacts, Zenon
<1>2. rs = first \o <<last>>
  BY Zenon DEF RecordDeps
<1> HIDE DEF fresh
<1>3. m \in Nat /\ DOMAIN fresh = 1..m /\ all \in Seq(Paths) /\ Len(nodes) \in Nat
  BY <1>1
<1>4. /\ IdOf(out, all) \in DOMAIN all /\ all[IdOf(out, all)] = out
      /\ \A k \in DOMAIN ins : /\ IdOf(ins[k], all) \in DOMAIN all
                               /\ all[IdOf(ins[k], all)] = ins[k]
  BY <1>1, <1>3, IdOfFacts, Zenon
<1> HIDE DEF all
<1>5. DOMAIN all \subseteq Nat
  BY <1>3
<1>6. ids \in Seq(Nat) /\ DOMAIN ids = DOMAIN ins
  <2>1. \A k \in DOMAIN ins : IdOf(ins[k], all) \in Nat
    BY <1>4, <1>5, Zenon
  <2>2. ids \in [1..Len(ins) -> Nat] /\ Len(ins) \in Nat
    BY <2>1
  <2> HIDE DEF ids
  <2> QED BY <2>2
<1>7. last \in DepsRecords /\ last.out = IdOf(out, all) /\ last.mtime = mtime /\ last.ids = ids
  <2> HIDE DEF ids
  <2> QED BY <1>4, <1>5, <1>6, Zenon DEF DepsRecord, DepsRecords
<1>8. /\ first \in [1..m -> IdRecords]
      /\ \A k \in 1..m : first[k].path = fresh[k] /\ first[k].id = Len(nodes) + k
  <2> HIDE DEF m
  <2>1. \A k \in 1..m : fresh[k] \in Paths /\ Len(nodes) + k \in Nat
    BY <1>1, <1>3
  <2>2. \A k \in 1..m : first[k] = IdRecord(fresh[k], Len(nodes) + k)
    BY <1>3, Zenon
  <2>3. first = [k \in 1..m |-> first[k]]
    BY <1>3, Zenon
  <2> HIDE DEF first
  <2>4. ASSUME NEW k \in 1..m
        PROVE  first[k] \in IdRecords /\ first[k].path = fresh[k] /\ first[k].id = Len(nodes) + k
    <3> DEFINE n == Len(nodes) + k
    <3>1. fresh[k] \in Paths /\ n \in Nat /\ first[k] = IdRecord(fresh[k], n)
      BY <2>1, <2>2, Zenon
    <3> HIDE DEF n
    <3>2. first[k] \in IdRecords /\ first[k].path = fresh[k] /\ first[k].id = n
      BY <3>1, IdRecordFacts
    <3> QED BY <3>2, Zenon DEF n
  <2> QED BY <2>3, <2>4, Zenon
<1> HIDE DEF m, last, first
<1>9. first \in Seq(IdRecords) /\ Len(first) = m
  BY <1>3, <1>8, FunctionSeq, Zenon
<1>10. first \in Seq(Records) /\ <<last>> \in Seq(Records)
  <2>1. IdRecords \subseteq Records /\ last \in Records
    BY <1>7, Zenon DEF Records
  <2> QED BY <1>9, <2>1, SeqSubset
<1>11. /\ rs \in Seq(Records) /\ Len(rs) = m + 1 /\ rs[m + 1] = last
       /\ \A k \in 1..m : rs[k] = first[k]
  <2>1. /\ rs \in Seq(Records) /\ Len(rs) = Len(first) + 1
        /\ rs[Len(first) + 1] = last /\ \A k \in 1..Len(first) : rs[k] = first[k]
    BY <1>2, <1>10
  <2> QED BY <1>9, <2>1, Zenon
<1>12. nodes \o [k \in 1..m |-> rs[k].path] = all
  <2>1. \A k \in 1..m : rs[k].path = fresh[k]
    BY <1>8, <1>11, Zenon
  <2>2. [k \in 1..m |-> rs[k].path] = fresh
    BY <1>1, <1>3, <2>1
  <2> QED BY <2>2, Zenon DEF all
<1>13. req \in Requests /\ req.out = out /\ req.value.mtime = mtime /\ req.value.paths = ins
  <2>1. [mtime |-> mtime, paths |-> ins] \in Values
    BY Zenon DEF Values
  <2> QED BY <2>1, Zenon DEF Requests
<1>14. Len(rs) - 1 = m
  BY <1>3, <1>11
<1>15. \A k \in 1..m : rs[k] \in IdRecords /\ rs[k].id = Len(nodes) + k
  BY <1>8, <1>11, Zenon
<1>16. \A k \in DOMAIN ids : ids[k] \in DOMAIN all /\ all[ids[k]] = ins[k]
  BY <1>4, Zenon
<1> HIDE DEF ids
<1>17. /\ last.out \in DOMAIN all /\ all[last.out] = req.out
       /\ last.mtime = req.value.mtime
       /\ DOMAIN last.ids = DOMAIN req.value.paths
       /\ \A k \in DOMAIN last.ids : /\ last.ids[k] \in DOMAIN all
                                     /\ all[last.ids[k]] = req.value.paths[k]
  BY <1>4, <1>6, <1>7, <1>13, <1>16, Zenon
<1>18. Planned(rs, nodes, req)
  <2> DEFINE n == Len(rs) - 1
             A == nodes \o [k \in 1..n |-> rs[k].path]
             L == rs[n + 1]
  <2>1. n = m /\ A = all /\ L = last
    BY <1>11, <1>12, <1>14, Zenon
  <2> HIDE DEF n, A, L
  <2>2. /\ \A k \in 1..n : rs[k] \in IdRecords /\ rs[k].id = Len(nodes) + k
        /\ IsInjective(A)
        /\ L \in DepsRecords /\ req \in Requests
        /\ L.out \in DOMAIN A /\ A[L.out] = req.out
        /\ L.mtime = req.value.mtime
        /\ DOMAIN L.ids = DOMAIN req.value.paths
        /\ \A k \in DOMAIN L.ids : /\ L.ids[k] \in DOMAIN A
                                   /\ A[L.ids[k]] = req.value.paths[k]
    BY <1>1, <1>7, <1>13, <1>15, <1>17, <2>1, Zenon
  <2> QED BY <2>2, Zenon DEF Planned, n, A, L
<1> QED BY <1>11, <1>18, Zenon

----------------------------------------------------------------------------
\* What the invariant says of the deps file, piece by piece.
LEMMA DepsFileFacts ==
  ASSUME DepsFileInv
  PROVE  LET recs == depsFile.recs
             log == LoadDeps(recs)
         IN  /\ depsFile \in DepsFiles /\ recs \in Seq(Records)
             /\ log \in Logs /\ GoodLog(log) /\ log.read = Len(recs)
             /\ \A id \in 1..Len(log.nodes) : \E j \in DOMAIN recs :
                   ~isDeps(recs[j]) /\ recs[j].id = id
             /\ proc = "up" => nodes = log.nodes /\ deps = log.deps
<1>1. depsFile.recs \in Seq(Records)
  BY Zenon DEF DepsFileInv, DepsFiles
<1>2. LoadDeps(depsFile.recs) \in Logs
  BY <1>1, LoadDepsFacts, Zenon
<1> QED BY <1>1, <1>2, Zenon DEF DepsFileInv

\* The fields that a write of the deps file changes.
LEMMA DepsFileExcept ==
  ASSUME NEW f \in DepsFiles, NEW rs \in Seq(Records)
  PROVE  /\ [f EXCEPT !.recs = rs] \in DepsFiles
         /\ [f EXCEPT !.recs = rs].recs = rs
         /\ [f EXCEPT !.recs = rs].header = f.header
<1>1. /\ DOMAIN f = {"header", "recs", "torn"} /\ f.torn \in BOOLEAN
      /\ f.header \in {"absent", "empty", "signature", "complete"}
  BY Zenon DEF DepsFiles
<1> QED BY <1>1, Zenon DEF DepsFiles

\* IdsAreKnown as a predicate of the records.
Known(recs) ==
    \A k \in DOMAIN recs : isDeps(recs[k]) =>
        \A id \in {recs[k].out} \union Range(recs[k].ids) :
            \E j \in 1..(k - 1) : ~isDeps(recs[j]) /\ recs[j].id = id

\* The invariant IdsAreKnown, said of the records of a file.
LEMMA KnownFacts ==
  /\ IdsAreKnown <=> Known(depsFile.recs)
  /\ IdsAreKnown' <=> Known(depsFile'.recs)
BY Zenon DEF IdsAreKnown, Known

\* The invariant does not depend on the header and the torn record; a process
\* that has the log open must have in memory what is in the file.
LEMMA KeepDepsFile ==
  ASSUME DepsFileInv, depsFile' \in DepsFiles, depsFile'.recs = depsFile.recs,
         depsFile'.header # "complete" => depsFile.recs = <<>>,
         stored' = stored \/ stored' = StoredIn(depsFile'),
         proc' = "up" => /\ nodes' = LoadDeps(depsFile.recs).nodes
                         /\ deps' = LoadDeps(depsFile.recs).deps
  PROVE  DepsFileInv' /\ stored' = stored
<1> DEFINE T == [o \in Outputs \intersect Paths |-> GetDeps(LoadDeps(depsFile.recs), o)]
<1>1. StoredIn(depsFile') = T /\ StoredIn(depsFile)' = T /\ StoredIn(depsFile) = T
  BY Zenon DEF StoredIn
<1> HIDE DEF T
<1>2. stored' = stored /\ stored' = StoredIn(depsFile)'
  <2>1. stored = T
    BY <1>1, Zenon DEF DepsFileInv
  <2> QED BY <1>1, <2>1, Zenon
<1>3. IdsAreKnown'
  BY KnownFacts, Zenon DEF DepsFileInv
<1> QED BY <1>2, <1>3, Zenon DEF DepsFileInv

\* A path record that continues the ids keeps it, and what is stored.
LEMMA AppendPath ==
  ASSUME DepsFileInv, proc = "up", NEW r \in IdRecords,
         r.id = Len(nodes) + 1, r.path \notin Range(nodes),
         depsFile' \in DepsFiles, depsFile'.header = "complete",
         depsFile'.recs = Append(depsFile.recs, r),
         stored' = StoredIn(depsFile'),
         nodes' = Append(nodes, r.path), deps' = deps
  PROVE  DepsFileInv' /\ stored' = stored
<1> DEFINE recs == depsFile.recs
           log == LoadDeps(recs)
           more == Append(recs, r)
           new == LoadDeps(more)
<1>1. /\ depsFile \in DepsFiles /\ recs \in Seq(Records)
      /\ log \in Logs /\ GoodLog(log) /\ log.read = Len(recs)
      /\ \A id \in 1..Len(log.nodes) : \E j \in DOMAIN recs :
            ~isDeps(recs[j]) /\ recs[j].id = id
      /\ nodes = log.nodes /\ deps = log.deps
  BY DepsFileFacts, Zenon
<1>2. r \in Records /\ ~isDeps(r)
  BY KindFacts, Zenon DEF Records
<1>3. depsFile'.recs = more
  OBVIOUS
<1>4. new = LoadRecord(log, r)
  BY <1>1, <1>2, LoadDepsFacts, Zenon
<1>5. /\ Len(recs) \in Nat /\ DOMAIN recs = 1..Len(recs)
      /\ Len(more) = Len(recs) + 1 /\ DOMAIN more = 1..(Len(recs) + 1)
      /\ more[Len(recs) + 1] = r /\ \A j \in DOMAIN recs : j \in DOMAIN more /\ more[j] = recs[j]
  BY <1>1, <1>2
<1> HIDE DEF recs, log, more, new
<1>6. /\ new.nodes = Append(log.nodes, r.path) /\ new.deps = log.deps
      /\ new.read = log.read + 1 /\ GoodLog(new)
      /\ \A p \in Paths : GetDeps(new, p) = GetDeps(log, p)
  BY <1>1, <1>4, LoadIdRecord, Zenon
<1>7. Len(new.nodes) = Len(log.nodes) + 1 /\ Len(log.nodes) \in Nat
  <2>1. log.nodes \in Seq(Paths) /\ r.path \in Paths
    BY <1>1, Zenon DEF GoodLog, IdRecords
  <2> QED BY <1>6, <2>1
<1>8. ASSUME NEW id \in 1..Len(new.nodes)
      PROVE  \E j \in DOMAIN more : ~isDeps(more[j]) /\ more[j].id = id
  <2>1. CASE id \in 1..Len(log.nodes)
    BY <1>1, <1>5, <2>1, Zenon
  <2>2. CASE id = Len(log.nodes) + 1
    <3>1. Len(recs) + 1 \in DOMAIN more
      BY <1>5
    <3> QED BY <1>1, <1>2, <1>5, <2>2, <3>1, Zenon
  <2> QED BY <1>7, <2>1, <2>2
<1>9. IdsAreKnown'
  <2>1. \A k \in 1..Len(recs) : isDeps(recs[k]) =>
          \A id \in {recs[k].out} \union Range(recs[k].ids) :
             \E j \in 1..(k - 1) : ~isDeps(recs[j]) /\ recs[j].id = id
    BY <1>5, KnownFacts DEF DepsFileInv, Known, recs
  <2>2. ASSUME NEW k \in 1..(Len(recs) + 1), isDeps(more[k]),
               NEW id \in {more[k].out} \union Range(more[k].ids)
        PROVE  \E j \in 1..(k - 1) : ~isDeps(more[j]) /\ more[j].id = id
    <3>1. k \in 1..Len(recs) /\ more[k] = recs[k]
      BY <1>2, <1>5, <2>2
    <3>2. \A j \in 1..(k - 1) : more[j] = recs[j]
      BY <1>5, <3>1
    <3>3. \E j \in 1..(k - 1) : ~isDeps(recs[j]) /\ recs[j].id = id
      BY <2>1, <2>2, <3>1, Zenon
    <3> QED BY <3>2, <3>3, Zenon
  <2>3. \A k \in DOMAIN more : isDeps(more[k]) =>
          \A id \in {more[k].out} \union Range(more[k].ids) :
             \E j \in 1..(k - 1) : ~isDeps(more[j]) /\ more[j].id = id
    BY <1>5, <2>2, Zenon
  <2> QED BY <1>3, <2>3, KnownFacts DEF Known
<1>10. stored' = stored /\ stored' = StoredIn(depsFile)'
  <2>1. stored = [o \in Outputs \intersect Paths |-> GetDeps(log, o)]
    BY Zenon DEF DepsFileInv, StoredIn, log, recs
  <2>2. stored' = [o \in Outputs \intersect Paths |-> GetDeps(new, o)]
    <3>1. StoredIn(depsFile') = [o \in Outputs \intersect Paths |-> GetDeps(LoadDeps(more), o)]
      BY <1>3, Zenon DEF StoredIn
    <3> QED BY <3>1, Zenon DEF new
  <2>3. stored' = StoredIn(depsFile)'
    BY Zenon DEF StoredIn
  <2> QED BY <1>6, <2>1, <2>2, <2>3, Zenon
<1>11. new.read = Len(more)
  BY <1>1, <1>5, <1>6, Zenon
<1>12. nodes' = new.nodes /\ deps' = new.deps
  BY <1>1, <1>6, Zenon
<1> QED BY <1>3, <1>6, <1>8, <1>9, <1>10, <1>11, <1>12, Zenon DEF DepsFileInv, new

\* A deps record by known ids keeps it, and stores its value for its output.
LEMMA AppendDeps ==
  ASSUME DepsFileInv, proc = "up", NEW r \in DepsRecords,
         r.out \in DOMAIN nodes, \A k \in DOMAIN r.ids : r.ids[k] \in DOMAIN nodes,
         nodes[r.out] \in Outputs \intersect Paths,
         depsFile' \in DepsFiles, depsFile'.header = "complete",
         depsFile'.recs = Append(depsFile.recs, r),
         stored' = StoredIn(depsFile'),
         nodes' = nodes,
         deps' = UpdateDeps(deps, r.out, [mtime |-> r.mtime, ids |-> r.ids])
  PROVE  /\ DepsFileInv'
         /\ stored' = [stored EXCEPT ![nodes[r.out]] =
              [mtime |-> r.mtime, paths |-> [k \in DOMAIN r.ids |-> nodes[r.ids[k]]]]]
<1> DEFINE recs == depsFile.recs
           log == LoadDeps(recs)
           more == Append(recs, r)
           new == LoadDeps(more)
           value == [mtime |-> r.mtime, paths |-> [k \in DOMAIN r.ids |-> nodes[r.ids[k]]]]
<1>1. /\ depsFile \in DepsFiles /\ recs \in Seq(Records)
      /\ log \in Logs /\ GoodLog(log) /\ log.read = Len(recs)
      /\ \A id \in 1..Len(log.nodes) : \E j \in DOMAIN recs :
            ~isDeps(recs[j]) /\ recs[j].id = id
      /\ nodes = log.nodes /\ deps = log.deps
  BY DepsFileFacts, Zenon
<1>2. r \in Records /\ isDeps(r)
  BY KindFacts, Zenon DEF Records
<1>3. depsFile'.recs = more
  OBVIOUS
<1>4. new = LoadRecord(log, r)
  BY <1>1, <1>2, LoadDepsFacts, Zenon
<1>5. /\ Len(recs) \in Nat /\ DOMAIN recs = 1..Len(recs)
      /\ Len(more) = Len(recs) + 1 /\ DOMAIN more = 1..(Len(recs) + 1)
      /\ more[Len(recs) + 1] = r /\ \A j \in DOMAIN recs : j \in DOMAIN more /\ more[j] = recs[j]
  BY <1>1, <1>2
<1> HIDE DEF recs, log, more, new
<1>6. /\ new.nodes = log.nodes
      /\ new.deps = UpdateDeps(log.deps, r.out, [mtime |-> r.mtime, ids |-> r.ids])
      /\ new.read = log.read + 1 /\ GoodLog(new)
      /\ GetDeps(new, log.nodes[r.out])
           = [mtime |-> r.mtime, paths |-> [k \in DOMAIN r.ids |-> log.nodes[r.ids[k]]]]
      /\ \A p \in Paths : p # log.nodes[r.out] => GetDeps(new, p) = GetDeps(log, p)
  <2>1. r.out \in DOMAIN log.nodes /\ \A k \in DOMAIN r.ids : r.ids[k] \in DOMAIN log.nodes
    BY <1>1, Zenon
  <2> QED BY <1>1, <1>4, <2>1, LoadDepsRecord, Zenon
<1>7. DOMAIN nodes = 1..Len(log.nodes)
  BY <1>1 DEF GoodLog
<1>8. \A id \in 1..Len(new.nodes) : \E j \in DOMAIN more : ~isDeps(more[j]) /\ more[j].id = id
  BY <1>1, <1>5, <1>6, Zenon
<1>9. IdsAreKnown'
  <2>1. \A k \in 1..Len(recs) : isDeps(recs[k]) =>
          \A id \in {recs[k].out} \union Range(recs[k].ids) :
             \E j \in 1..(k - 1) : ~isDeps(recs[j]) /\ recs[j].id = id
    BY <1>5, KnownFacts DEF DepsFileInv, Known, recs
  <2>2. ASSUME NEW k \in 1..(Len(recs) + 1), isDeps(more[k]),
               NEW id \in {more[k].out} \union Range(more[k].ids)
        PROVE  \E j \in 1..(k - 1) : ~isDeps(more[j]) /\ more[j].id = id
    <3>1. CASE k \in 1..Len(recs)
      <4>1. more[k] = recs[k] /\ \A j \in 1..(k - 1) : more[j] = recs[j]
        BY <1>5, <3>1
      <4>2. \E j \in 1..(k - 1) : ~isDeps(recs[j]) /\ recs[j].id = id
        BY <2>1, <2>2, <3>1, <4>1, Zenon
      <4> QED BY <4>1, <4>2, Zenon
    <3>2. CASE k = Len(recs) + 1
      <4>1. id \in DOMAIN nodes
        BY <1>5, <2>2, <3>2, Zenon DEF Range
      <4>2. PICK j \in DOMAIN recs : ~isDeps(recs[j]) /\ recs[j].id = id
        BY <1>1, <1>7, <4>1, Zenon
      <4>3. j \in 1..(k - 1) /\ more[j] = recs[j]
        BY <1>5, <3>2
      <4> QED BY <4>2, <4>3, Zenon
    <3> QED BY <1>5, <3>1, <3>2
  <2>3. \A k \in DOMAIN more : isDeps(more[k]) =>
          \A id \in {more[k].out} \union Range(more[k].ids) :
             \E j \in 1..(k - 1) : ~isDeps(more[j]) /\ more[j].id = id
    BY <1>5, <2>2, Zenon
  <2> QED BY <1>3, <2>3, KnownFacts DEF Known
<1>10. stored' = [stored EXCEPT ![nodes[r.out]] = value] /\ stored' = StoredIn(depsFile)'
  <2> DEFINE O == Outputs \intersect Paths
  <2>1. stored = [o \in O |-> GetDeps(log, o)]
    BY Zenon DEF DepsFileInv, StoredIn, log, recs
  <2>2. stored' = [o \in O |-> GetDeps(new, o)]
    <3>1. StoredIn(depsFile') = [o \in O |-> GetDeps(LoadDeps(more), o)]
      BY <1>3, Zenon DEF StoredIn
    <3> QED BY <3>1, Zenon DEF new
  <2>3. stored' = StoredIn(depsFile)'
    BY Zenon DEF StoredIn
  <2>4. nodes[r.out] \in O /\ O \subseteq Paths
    OBVIOUS
  <2>5. GetDeps(new, nodes[r.out]) = value
    BY <1>1, <1>6, Zenon
  <2>6. \A o \in O : o # nodes[r.out] => GetDeps(new, o) = GetDeps(log, o)
    BY <1>1, <1>6, Zenon
  <2> HIDE DEF value, O
  <2> QED BY <2>1, <2>2, <2>3, <2>4, <2>5, <2>6, Zenon
<1>11. new.read = Len(more)
  BY <1>1, <1>5, <1>6, Zenon
<1>12. nodes' = new.nodes /\ deps' = new.deps
  BY <1>1, <1>6, Zenon
<1> HIDE DEF value
<1>13. DepsFileInv'
  BY <1>3, <1>6, <1>8, <1>9, <1>10, <1>11, <1>12, Zenon DEF DepsFileInv, new
<1> QED BY <1>10, <1>13, Zenon DEF value

----------------------------------------------------------------------------
\* What there is to write: a line and then a plan, or a plan.
LEMMA PendingFacts ==
  ASSUME PendingInv, pending # <<>>
  PROVE  /\ proc = "up"
         /\ \/ /\ IsLine(Head(pending)) /\ Head(pending) \in [line : Outputs]
               /\ Tail(pending) # <<>> => /\ Tail(pending) \in Seq(Records)
                                          /\ Planned(Tail(pending), nodes, request)
            \/ /\ ~IsLine(Head(pending)) /\ pending \in Seq(Records)
               /\ Planned(pending, nodes, request)
BY Zenon DEF PendingInv, LineFirst

\* The same after a step.
LEMMA PendingNext ==
  ASSUME request' = NoRequest \/ request' \in Requests,
         pending' = <<>> => request' = NoRequest,
         pending' # <<>> =>
           /\ proc' = "up"
           /\ \/ /\ IsLine(Head(pending')) /\ Head(pending') \in [line : Outputs]
                 /\ Tail(pending') # <<>> => /\ Tail(pending') \in Seq(Records)
                                             /\ Planned(Tail(pending'), nodes', request')
              \/ /\ ~IsLine(Head(pending')) /\ pending' \in Seq(Records)
                 /\ Planned(pending', nodes', request')
  PROVE  PendingInv'
<1>1. CASE pending' = <<>>
  BY <1>1, Zenon DEF PendingInv, LineFirst
<1>2. CASE pending' # <<>> /\ IsLine(Head(pending'))
  BY <1>2, Zenon DEF PendingInv, LineFirst
<1>3. CASE pending' # <<>> /\ ~IsLine(Head(pending'))
  BY <1>3, Zenon DEF PendingInv, LineFirst
<1> QED BY <1>1, <1>2, <1>3, Zenon

\* A record is not a line.
LEMMA RecordsFirst ==
  ASSUME NEW rs \in Seq(Records), rs # <<>>
  PROVE  ~IsLine(Head(rs)) /\ Head(rs) = rs[1] /\ Len(rs) \in Nat /\ Len(rs) > 0
<1>1. Head(rs) = rs[1] /\ Head(rs) \in Records /\ Len(rs) \in Nat /\ Len(rs) > 0
  OBVIOUS
<1> QED BY <1>1, KindFacts, Zenon DEF Records

\* Where a step leaves the deps log and its promise.
StoreStep == [Store!Request \/ Store!Commit \/ Store!Return]_<<stored, request>>
DepsSide == DepsFileInv' /\ PendingInv' /\ StoreStep

\* A step that ends a call, or finds none, without a new record.
LEMMA ReturnStep ==
  ASSUME stored' = stored, request' = NoRequest
  PROVE  StoreStep
BY Zenon DEF StoreStep, Store!Return

\* A step with nothing to write, before or after it, that leaves the records.
LEMMA QuietStep ==
  ASSUME LogsInv, pending' = <<>>, request' = NoRequest,
         depsFile' = depsFile, stored' = stored,
         proc' = "up" => proc = "up" /\ UNCHANGED <<nodes, deps>>
  PROVE  DepsSide
<1>1. DepsFileInv' /\ stored' = stored
  <2>1. DepsFileInv /\ depsFile' \in DepsFiles /\ depsFile'.recs = depsFile.recs
        /\ (depsFile'.header # "complete" => depsFile.recs = <<>>)
    BY Zenon DEF LogsInv, DepsFileInv
  <2>2. proc' = "up" => /\ nodes' = LoadDeps(depsFile.recs).nodes
                        /\ deps' = LoadDeps(depsFile.recs).deps
    BY <2>1, DepsFileFacts, Zenon
  <2> QED BY <2>1, <2>2, KeepDepsFile, Zenon
<1>2. PendingInv'
  BY PendingNext, Zenon
<1> QED BY <1>1, <1>2, ReturnStep, Zenon DEF DepsSide

\* Without a process that has the logs open there is nothing to write.
LEMMA NotUp ==
  ASSUME LogsInv, proc # "up"
  PROVE  pending = <<>> /\ request = NoRequest
BY Zenon DEF LogsInv, PendingInv

\* Opening and replacing the build log do not touch the deps log.
LEMMA StartDepsSide ==
  ASSUME LogsInv, OpenBuildLog \/ Recompact \/ Rename \/ ExitUnreadable \/ ToolRestat
  PROVE  DepsSide
<1>1. proc # "up" /\ proc' # "up"
  <2>1. CASE OpenBuildLog
    BY <2>1, Zenon DEF OpenBuildLog
  <2>2. CASE Recompact
    BY <2>2, Zenon DEF Recompact
  <2>3. CASE Rename
    BY <2>3, Zenon DEF Rename
  <2>4. CASE ExitUnreadable
    BY <2>4, Zenon DEF ExitUnreadable
  <2>5. CASE ToolRestat
    BY <2>5, Zenon DEF ToolRestat
  <2> QED BY <2>1, <2>2, <2>3, <2>4, <2>5, Zenon
<1>2. UNCHANGED <<depsVars, stored, pending, request>>
  BY Zenon DEF OpenBuildLog, Recompact, Rename, ExitUnreadable, ToolRestat
<1>3. pending' = <<>> /\ request' = NoRequest
  BY <1>1, <1>2, NotUp, Zenon
<1> QED BY <1>1, <1>2, <1>3, QuietStep, Zenon DEF depsVars

\* Load cuts the file behind the last record it read, and it read them all.
LEMMA OpenDepsSide ==
  ASSUME LogsInv, OpenDepsLog
  PROVE  DepsSide
<1> DEFINE recs == depsFile.recs
           log == LoadDeps(recs)
<1>1. DepsFileInv /\ depsFile \in DepsFiles /\ recs \in Seq(Records) /\ log.read = Len(recs)
  BY DepsFileFacts, Zenon DEF LogsInv
<1>2. /\ nodes' = log.nodes /\ deps' = log.deps /\ stored' = StoredIn(depsFile')
      /\ depsFile' = [depsFile EXCEPT !.torn = FALSE, !.recs = SubSeq(recs, 1, log.read)]
      /\ pending' = pending /\ request' = request /\ proc # "up"
  BY Zenon DEF OpenDepsLog, OpenDeps
<1>3. SubSeq(recs, 1, log.read) = recs
  <2>1. SubSeq(recs, 1, Len(recs)) = recs
    BY <1>1
  <2> QED BY <1>1, <2>1, Zenon
<1>4. depsFile' \in DepsFiles /\ depsFile'.recs = recs /\ depsFile'.header = depsFile.header
  <2> HIDE DEF recs, log
  <2>1. /\ DOMAIN depsFile = {"header", "recs", "torn"}
        /\ depsFile.header \in {"absent", "empty", "signature", "complete"}
    BY <1>1, Zenon DEF DepsFiles
  <2>2. depsFile' = [depsFile EXCEPT !.torn = FALSE, !.recs = recs]
    BY <1>2, <1>3, Zenon
  <2> QED BY <1>1, <2>1, <2>2, Zenon DEF DepsFiles
<1>5. depsFile.header # "complete" => recs = <<>>
  BY <1>1, Zenon DEF DepsFileInv
<1>6. DepsFileInv' /\ stored' = stored
  BY <1>1, <1>2, <1>4, <1>5, KeepDepsFile, Zenon
<1>7. pending' = <<>> /\ request' = NoRequest
  BY <1>2, NotUp, Zenon
<1>8. PendingInv'
  BY <1>7, PendingNext, Zenon
<1> QED BY <1>6, <1>7, <1>8, ReturnStep, Zenon DEF DepsSide

\* A process that ends takes its unwritten records with it; at most it leaves a
\* torn one.
LEMMA EndDepsSide ==
  ASSUME LogsInv, Exit \/ Crash
  PROVE  DepsSide
<1>1. /\ pending' = <<>> /\ request' = NoRequest /\ proc' = "down"
      /\ stored' = stored \/ stored' = StoredIn(depsFile')
      /\ depsFile' = depsFile \/ (depsFile.header = "complete"
                                  /\ depsFile' = [depsFile EXCEPT !.torn = TRUE])
  BY Zenon DEF Exit, Crash, ProcessEnds, TearDeps, DepsRecordNext
<1>2. DepsFileInv /\ depsFile \in DepsFiles
      /\ (depsFile.header # "complete" => depsFile.recs = <<>>)
  BY Zenon DEF LogsInv, DepsFileInv
<1>3. depsFile' \in DepsFiles /\ depsFile'.recs = depsFile.recs /\ depsFile'.header = depsFile.header
  <2>1. CASE depsFile' = depsFile
    BY <1>2, <2>1, Zenon
  <2>2. CASE depsFile' = [depsFile EXCEPT !.torn = TRUE]
    <3>1. /\ DOMAIN depsFile = {"header", "recs", "torn"} /\ depsFile.recs \in Seq(Records)
          /\ depsFile.header \in {"absent", "empty", "signature", "complete"}
      BY <1>2, Zenon DEF DepsFiles
    <3> QED BY <2>2, <3>1, Zenon DEF DepsFiles
  <2> QED BY <1>1, <2>1, <2>2, Zenon
<1>4. DepsFileInv' /\ stored' = stored
  BY <1>1, <1>2, <1>3, KeepDepsFile, Zenon
<1>5. PendingInv'
  BY <1>1, PendingNext, Zenon
<1> QED BY <1>1, <1>4, <1>5, ReturnStep, Zenon DEF DepsSide

\* The deps file and the log in memory are left alone.
LEMMA SameDepsFile ==
  ASSUME LogsInv, UNCHANGED depsVars, proc = "up", proc' = "up",
         stored' = stored \/ stored' = StoredIn(depsFile')
  PROVE  DepsFileInv' /\ stored' = stored
<1>1. DepsFileInv /\ depsFile' \in DepsFiles /\ depsFile'.recs = depsFile.recs
      /\ (depsFile'.header # "complete" => depsFile.recs = <<>>)
  BY Zenon DEF LogsInv, DepsFileInv, depsVars
<1>2. nodes' = LoadDeps(depsFile.recs).nodes /\ deps' = LoadDeps(depsFile.recs).deps
  BY <1>1, DepsFileFacts, Zenon DEF depsVars
<1> QED BY <1>1, <1>2, KeepDepsFile, Zenon

\* The first of several writes and the others.
LEMMA ConsFacts ==
  ASSUME NEW V, NEW w \in V, NEW s \in Seq(V), NEW t, t = <<w>> \o s
  PROVE  t # <<>> /\ Head(t) = w /\ Tail(t) = s
OBVIOUS

\* FinishCommand plans a line and, for an edge with deps, the records that store
\* them.
LEMMA FinishDepsSide ==
  ASSUME LogsInv, NEW out \in Outputs, FinishCommand(out)
  PROVE  DepsSide /\ pending' # <<>> /\ Head(pending') = [line |-> out]
<1>1. PICK mtime \in Times, ins \in DepLists :
        IF out \in Paths
        THEN /\ pending' = <<[line |-> out]>> \o RecordDeps(out, mtime, ins)
             /\ request' = [out |-> out, value |-> [mtime |-> mtime, paths |-> ins]]
        ELSE pending' = <<[line |-> out]>> /\ request' = request
  BY Zenon DEF FinishCommand
<1>2. UNCHANGED <<depsVars, stored, proc>> /\ proc = "up" /\ pending = <<>>
  BY Zenon DEF FinishCommand
<1>3. request = NoRequest
  BY <1>2, Zenon DEF LogsInv, PendingInv
<1>4. DepsFileInv'
  BY <1>2, SameDepsFile, Zenon
<1> DEFINE w == [line |-> out]
           rs == RecordDeps(out, mtime, ins)
<1>5. w \in [line : Outputs] /\ IsLine(w)
  BY KindFacts, Zenon
<1>6. CASE out \notin Paths
  <2>1. pending' # <<>> /\ Head(pending') = w /\ Tail(pending') = <<>>
    <3>1. pending' = <<w>>
      BY <1>1, <1>6, Zenon
    <3> HIDE DEF w
    <3>2. <<w>> # <<>> /\ Head(<<w>>) = w /\ Tail(<<w>>) = <<>>
      OBVIOUS
    <3> QED BY <3>1, <3>2, Zenon
  <2>2. PendingInv'
    BY <1>1, <1>2, <1>3, <1>5, <1>6, <2>1, PendingNext, Zenon
  <2> QED BY <1>1, <1>2, <1>3, <1>4, <1>6, <2>1, <2>2, ReturnStep, Zenon DEF DepsSide
<1>7. CASE out \in Paths
  <2>1. mtime \in Int /\ ins \in Seq(Paths)
    BY LogsAssumption
  <2>2. nodes \in Seq(Paths) /\ IsInjective(nodes)
    BY <1>2, DepsFileFacts, Zenon DEF LogsInv, GoodLog
  <2> DEFINE req == [out |-> out, value |-> [mtime |-> mtime, paths |-> ins]]
  <2>3. rs # <<>> => rs \in Seq(Records) /\ Planned(rs, nodes, req)
    <3>1. req = [out |-> out, value |-> [mtime |-> mtime, paths |-> ins]] /\ rs = RecordDeps(out, mtime, ins)
      OBVIOUS
    <3> HIDE DEF req, rs
    <3> QED BY <1>7, <2>1, <2>2, <3>1, RecordDepsPlanned, Zenon
  <2>4. req \in Requests
    <3>1. [mtime |-> mtime, paths |-> ins] \in Values
      BY <2>1, Zenon DEF Values
    <3> QED BY <1>7, <3>1, Zenon DEF Requests
  <2>5. pending' # <<>> /\ Head(pending') = w /\ Tail(pending') = rs
    <3> DEFINE V == {w} \union Records
    <3>1. rs \in Seq(Records)
      <4> HIDE DEF rs
      <4>1. <<>> \in Seq(Records)
        OBVIOUS
      <4> QED BY <2>3, <4>1, Zenon
    <3>2. Records \subseteq V /\ w \in V /\ pending' = <<w>> \o rs
      BY <1>1, <1>7, Zenon
    <3> HIDE DEF V, w, rs
    <3>3. rs \in Seq(V)
      BY <3>1, <3>2, SeqSubset, Zenon
    <3> QED BY <3>2, <3>3, ConsFacts, Zenon
  <2>6. request' = req /\ nodes' = nodes /\ proc' = "up"
    BY <1>1, <1>2, <1>7, Zenon DEF depsVars
  <2> HIDE DEF w, rs, req
  <2>7. PendingInv'
    BY <1>5, <2>3, <2>4, <2>5, <2>6, PendingNext, Zenon
  <2>8. req # NoRequest
    BY <2>4, KindFacts, Zenon
  <2>9. StoreStep
    BY <1>2, <1>3, <2>6, <2>8, Zenon DEF StoreStep, Store!Request
  <2> QED BY <1>4, <2>5, <2>7, <2>9, Zenon DEF DepsSide, w
<1> QED BY <1>6, <1>7, Zenon

\* Writing a line of the build log ends the call when no record follows.
LEMMA WriteLineSide ==
  ASSUME LogsInv, Write, IsLine(Head(pending))
  PROVE  DepsSide
<1> DEFINE rest == Tail(pending)
<1>1. /\ proc = "up" /\ proc' = proc /\ pending # <<>> /\ UNCHANGED depsVars
      /\ stored' = StoredIn(depsFile')
      /\ pending' = rest \/ pending' = pending
      /\ request' = IF pending' = <<>> THEN NoRequest ELSE request
  BY Zenon DEF Write
<1>2. DepsFileInv' /\ stored' = stored
  BY <1>1, SameDepsFile, Zenon
<1>3. /\ PendingInv /\ (request = NoRequest \/ request \in Requests)
  BY Zenon DEF LogsInv, PendingInv
<1>4. /\ Head(pending) \in [line : Outputs]
      /\ rest # <<>> => rest \in Seq(Records) /\ Planned(rest, nodes, request)
  BY <1>1, <1>3, PendingFacts, Zenon
<1>5. rest # <<>> => ~IsLine(Head(rest))
  BY <1>4, RecordsFirst, Zenon
<1>6. nodes' = nodes
  BY <1>1, Zenon DEF depsVars
<1> HIDE DEF rest
<1>7. PendingInv'
  <2>1. CASE pending' = <<>>
    BY <1>1, <2>1, PendingNext, Zenon
  <2>2. CASE pending' # <<>> /\ pending' = rest
    BY <1>1, <1>3, <1>4, <1>5, <1>6, <2>2, PendingNext, Zenon
  <2>3. CASE pending' # <<>> /\ pending' = pending
    BY <1>1, <1>3, <1>4, <1>6, <2>3, PendingNext, Zenon DEF rest
  <2> QED BY <1>1, <2>1, <2>2, <2>3, Zenon
<1>8. StoreStep
  <2>1. CASE request' = NoRequest
    BY <1>2, <2>1, ReturnStep, Zenon
  <2>2. CASE request' = request
    BY <1>2, <2>2, Zenon DEF StoreStep
  <2> QED BY <1>1, <2>1, <2>2, Zenon
<1> QED BY <1>2, <1>7, <1>8, Zenon DEF DepsSide

\* Writing the deps log: a piece of its header, a path record, or the deps record
\* that ends the call and stores its value.
LEMMA WriteRecordSide ==
  ASSUME LogsInv, Write, ~IsLine(Head(pending))
  PROVE  DepsSide
<1> DEFINE r == Head(pending)
<1>1. /\ proc = "up" /\ proc' = proc /\ pending # <<>> /\ WriteDeps(r)
      /\ stored' = StoredIn(depsFile')
      /\ pending' = IF DepsRecordNext THEN Tail(pending) ELSE pending
      /\ request' = IF pending' = <<>> THEN NoRequest ELSE request
  BY Zenon DEF Write
<1>2. PendingInv /\ DepsFileInv
  BY Zenon DEF LogsInv
<1>3. pending \in Seq(Records) /\ Planned(pending, nodes, request)
  BY <1>1, <1>2, PendingFacts, Zenon
<1>4. request = NoRequest \/ request \in Requests
  BY <1>2, Zenon DEF PendingInv
<1>5. /\ depsFile \in DepsFiles /\ depsFile.recs \in Seq(Records)
      /\ nodes = LoadDeps(depsFile.recs).nodes /\ deps = LoadDeps(depsFile.recs).deps
      /\ nodes \in Seq(Paths)
  BY <1>1, <1>2, DepsFileFacts, Zenon DEF GoodLog
<1>6. r = pending[1] /\ Len(pending) \in Nat /\ Len(pending) > 0
  BY <1>1, <1>3, RecordsFirst, Zenon
<1> HIDE DEF r
<1>7. CASE depsFile.header # "complete"
  <2>1. pending' = pending /\ request' = request
    BY <1>1, <1>7, Zenon DEF DepsRecordNext
  <2>2. nodes' = nodes /\ deps' = deps
        /\ \E h \in {"empty", "signature", "complete"} : depsFile' = [depsFile EXCEPT !.header = h]
    <3>1. depsFile.header \in {"absent", "empty", "signature", "complete"}
      BY <1>5, Zenon DEF DepsFiles
    <3> QED BY <1>1, <1>7, <3>1, Zenon DEF WriteDeps
  <2>3. depsFile' \in DepsFiles /\ depsFile'.recs = depsFile.recs
    <3>1. DOMAIN depsFile = {"header", "recs", "torn"} /\ depsFile.torn \in BOOLEAN
      BY <1>5, Zenon DEF DepsFiles
    <3> QED BY <1>5, <2>2, <3>1, Zenon DEF DepsFiles
  <2>4. depsFile.recs = <<>>
    BY <1>2, <1>7, Zenon DEF DepsFileInv
  <2>5. DepsFileInv' /\ stored' = stored
    BY <1>1, <1>2, <1>5, <2>2, <2>3, <2>4, KeepDepsFile, Zenon
  <2>6. PendingInv'
    BY <1>1, <1>3, <1>4, <2>1, <2>2, PendingNext, Zenon
  <2>7. StoreStep
    BY <2>1, <2>5, Zenon DEF StoreStep
  <2> QED BY <2>5, <2>6, <2>7, Zenon DEF DepsSide
<1>8. CASE depsFile.header = "complete"
  <2>1. pending' = Tail(pending)
    BY <1>1, <1>8, Zenon DEF DepsRecordNext
  <2>2. /\ depsFile' = [depsFile EXCEPT !.recs = Append(depsFile.recs, r)]
        /\ IF isDeps(r)
           THEN /\ deps' = UpdateDeps(deps, r.out, [mtime |-> r.mtime, ids |-> r.ids])
                /\ nodes' = nodes
           ELSE nodes' = Append(nodes, r.path) /\ deps' = deps
    BY <1>1, <1>8, Zenon DEF WriteDeps
  <2>3. r \in Records
    BY <1>3, <1>6
  <2>4. /\ depsFile' \in DepsFiles /\ depsFile'.header = "complete"
        /\ depsFile'.recs = Append(depsFile.recs, r)
    <3>1. Append(depsFile.recs, r) \in Seq(Records)
      BY <1>5, <2>3
    <3> QED BY <1>5, <1>8, <2>2, <3>1, DepsFileExcept, Zenon
  <2>5. CASE Len(pending) > 1
    <3>1. /\ r \in IdRecords /\ r.id = Len(nodes) + 1 /\ r.path \notin Range(nodes)
          /\ pending' \in Seq(Records) /\ pending' # <<>>
          /\ Planned(pending', Append(nodes, r.path), request)
      BY <1>3, <1>5, <1>6, <2>1, <2>5, PlannedPath, Zenon
    <3>2. nodes' = Append(nodes, r.path) /\ deps' = deps
      BY <2>2, <3>1, KindFacts, Zenon
    <3>3. DepsFileInv' /\ stored' = stored
      BY <1>1, <1>2, <2>4, <3>1, <3>2, AppendPath, Zenon
    <3>4. request' = request /\ ~IsLine(Head(pending'))
      BY <1>1, <3>1, RecordsFirst, Zenon
    <3>5. PendingInv'
      BY <1>1, <1>4, <3>1, <3>2, <3>4, PendingNext, Zenon
    <3>6. StoreStep
      BY <3>3, <3>4, Zenon DEF StoreStep
    <3> QED BY <3>3, <3>5, <3>6, Zenon DEF DepsSide
  <2>6. CASE Len(pending) = 1
    <3>1. /\ r \in DepsRecords /\ request \in Requests
          /\ r.out \in DOMAIN nodes /\ nodes[r.out] = request.out
          /\ \A k \in DOMAIN r.ids : r.ids[k] \in DOMAIN nodes
          /\ [mtime |-> r.mtime, paths |-> [k \in DOMAIN r.ids |-> nodes[r.ids[k]]]]
               = request.value
      <4>1. nodes \in Seq(Paths) /\ r = pending[1] /\ Len(pending) = 1
        BY <1>5, <1>6, <2>6, Zenon
      <4>2. r \in DepsRecords /\ request \in Requests
        BY <1>3, <4>1, PlannedDeps, Zenon
      <4>4. r.out \in DOMAIN nodes
        BY <1>3, <4>1, PlannedDeps, Zenon
      <4>6. request.out = nodes[r.out]
        <5> DEFINE A == nodes \o [k \in 1..(Len(pending) - 1) |-> pending[k].path]
                   L == pending[(Len(pending) - 1) + 1]
        <5>1. A[L.out] = request.out
          BY <1>3, Zenon DEF Planned
        <5>2. L = r
          BY <4>1
        <5>3. [k \in 1..(Len(pending) - 1) |-> pending[k].path] = <<>>
          BY <4>1
        <5>4. nodes \o <<>> = nodes
          BY <4>1
        <5>5. A = nodes
          BY <5>3, <5>4, Zenon
        <5> HIDE DEF A, L
        <5> QED BY <5>1, <5>2, <5>5, Zenon
      <4>5. \A k \in DOMAIN r.ids : r.ids[k] \in DOMAIN nodes
        BY <1>3, <4>1, PlannedDeps, Zenon
      <4>3. [mtime |-> r.mtime, paths |-> [k \in DOMAIN r.ids |-> nodes[r.ids[k]]]]
              = request.value
        BY <1>3, <4>1, PlannedDeps
      <4> QED BY <4>2, <4>3, <4>4, <4>5, <4>6, Zenon
    <3>2. /\ nodes' = nodes
          /\ deps' = UpdateDeps(deps, r.out, [mtime |-> r.mtime, ids |-> r.ids])
      BY <2>2, <3>1, KindFacts, Zenon
    <3>3. request.out \in Outputs \intersect Paths
      BY <3>1, Zenon DEF Requests
    <3>4. DepsFileInv' /\ stored' = [stored EXCEPT ![request.out] = request.value]
      <4>1. nodes[r.out] \in Outputs \intersect Paths
        BY <3>1, <3>3, Zenon
      <4>2. /\ DepsFileInv'
            /\ stored' = [stored EXCEPT ![nodes[r.out]] =
                 [mtime |-> r.mtime, paths |-> [k \in DOMAIN r.ids |-> nodes[r.ids[k]]]]]
        BY <1>1, <1>2, <2>4, <3>1, <3>2, <4>1, AppendDeps, Zenon
      <4> QED BY <3>1, <4>2, Zenon
    <3>5. pending' = <<>> /\ request' = NoRequest
      BY <1>1, <1>3, <2>1, <2>6
    <3>6. PendingInv'
      BY <3>5, PendingNext, Zenon
    <3>7. request # NoRequest
      BY <3>1, KindFacts, Zenon
    <3>8. StoreStep
      BY <3>4, <3>5, <3>7, Zenon DEF StoreStep, Store!Commit
    <3> QED BY <3>4, <3>6, <3>8, Zenon DEF DepsSide
  <2> QED BY <1>6, <2>5, <2>6
<1> QED BY <1>7, <1>8, Zenon

\* Every step keeps the deps log's invariant and is a step of DepsStore.
LEMMA NextDepsSide ==
  ASSUME LogsInv, [Next]_vars
  PROVE  DepsSide
<1>1. CASE UNCHANGED vars
  <2>1. /\ UNCHANGED depsVars /\ stored' = stored /\ proc' = proc
        /\ pending' = pending /\ request' = request
    BY <1>1, Zenon DEF vars
  <2>2. DepsFileInv'
    BY <2>1 DEF LogsInv, DepsFileInv, IdsAreKnown, StoredIn, depsVars
  <2>3. PendingInv'
    BY <2>1, Zenon DEF LogsInv, PendingInv, LineFirst, depsVars
  <2> QED BY <2>1, <2>2, <2>3, Zenon DEF DepsSide, StoreStep
<1>2. CASE \E out \in Outputs : FinishCommand(out)
  BY <1>2, FinishDepsSide, Zenon
<1>3. CASE Write
  BY <1>3, WriteLineSide, WriteRecordSide, Zenon
<1> QED BY <1>1, <1>2, <1>3, StartDepsSide, OpenDepsSide, EndDepsSide, Zenon DEF Next

----------------------------------------------------------------------------
\* The hashes of no command are not among those of commands.
LEMMA HashFacts ==
  /\ "none" \notin Hashes /\ "empty" \notin Hashes /\ "wrong" \notin Hashes
  /\ NoEntry \in Entries /\ NoEntry.hash \notin Hashes
<1>1. "none" \notin Hashes /\ "empty" \notin Hashes /\ "wrong" \notin Hashes
  BY LogsAssumption, Zenon
<1> QED BY <1>1, Zenon DEF NoEntry, Entries

\* Without lines there is nothing recorded in them.
LEMMA NoLogFacts ==
  ASSUME NEW R
  PROVE  /\ NoLog \in LogFiles /\ NoLog.lines = <<>> /\ NoLog.open = FALSE
         /\ NoLog.header = "absent"
         /\ NoEntries \in Tables /\ LoadEntries(<<>>) = NoEntries
         /\ GoodLines(<<>>, R) /\ GoodTable(NoEntries, R)
<1>1. NoLog \in LogFiles /\ NoLog.lines = <<>> /\ NoLog.open = FALSE /\ NoLog.header = "absent"
  BY DEF NoLog, LogFiles
<1>2. NoEntries \in Tables
  BY HashFacts, Zenon DEF NoEntries, Tables
<1>3. <<>> \in Seq(Lines)
  OBVIOUS
<1>4. LoadEntries(<<>>) = NoEntries
  BY <1>3, LoadEntriesFacts, Zenon
<1>5. GoodLines(<<>>, R)
  BY DEF GoodLines
<1>6. GoodTable(NoEntries, R)
  BY HashFacts, Zenon DEF GoodTable, NoEntries
<1> QED BY <1>1, <1>2, <1>4, <1>5, <1>6, Zenon

\* What is loaded from good lines is good.
LEMMA LoadGood ==
  ASSUME NEW lines \in Seq(Lines), NEW R, GoodLines(lines, R)
  PROVE  LoadEntries(lines) \in Tables /\ GoodTable(LoadEntries(lines), R)
<1>1. LoadEntries(lines) \in Tables
  BY LoadEntriesFacts, Zenon
<1>2. ASSUME NEW o \in Outputs, LoadEntries(lines)[o].hash \in Hashes
      PROVE  [out |-> o, entry |-> LoadEntries(lines)[o]] \in R
  <2> DEFINE e == LoadEntries(lines)[o]
  <2>1. e # NoEntry
    BY <1>2, HashFacts, Zenon
  <2>2. PICK k \in DOMAIN lines : lines[k].out = o /\ lines[k].entry = e
    BY <2>1, LoadedFromLine, Zenon
  <2> HIDE DEF e
  <2>3. e.hash \in Hashes
    BY <1>2, Zenon DEF e
  <2>4. [out |-> lines[k].out, entry |-> lines[k].entry] \in R
    BY <2>2, <2>3, Zenon DEF GoodLines
  <2>5. [out |-> o, entry |-> e] \in R
    BY <2>2, <2>4, Zenon
  <2> QED BY <2>5, Zenon DEF e
<1> QED BY <1>1, <1>2, Zenon DEF GoodTable

\* A file written from a good table is good.
LEMMA FileOfGood ==
  ASSUME NEW es \in Tables, NEW R, GoodTable(es, R)
  PROVE  FileOf(es) \in LogFiles /\ GoodLines(FileOf(es).lines, R)
<1>1. FileOf(es) \in LogFiles
  <2>1. DOMAIN FileOf(es) = {"header", "open", "lines"}
    BY Zenon DEF FileOf
  <2>2. FileOf(es) = [header |-> FileOf(es).header, open |-> FileOf(es).open,
                      lines |-> FileOf(es).lines]
    BY Zenon DEF FileOf
  <2> QED BY <2>2, FileOfFacts, Zenon DEF LogFiles
<1>2. ASSUME NEW k \in DOMAIN FileOf(es).lines, FileOf(es).lines[k].entry.hash \in Hashes
      PROVE  [out |-> FileOf(es).lines[k].out, entry |-> FileOf(es).lines[k].entry] \in R
  <2> DEFINE l == FileOf(es).lines[k]
  <2>1. l.out \in Outputs /\ l.entry = es[l.out] /\ l.entry.hash \in Hashes
    BY <1>2, FileOfFacts, Zenon
  <2> HIDE DEF l
  <2>2. [out |-> l.out, entry |-> l.entry] \in R
    BY <2>1, Zenon DEF GoodTable
  <2> QED BY <2>2, Zenon DEF l
<1> QED BY <1>1, <1>2, Zenon DEF GoodLines

\* Where the elements of a sequence are after one is appended.
LEMMA AppendShape ==
  ASSUME NEW V, NEW s \in Seq(V), NEW e \in V
  PROVE  /\ Append(s, e) \in Seq(V) /\ Append(s, e) # <<>>
         /\ DOMAIN Append(s, e) = 1..(Len(s) + 1) /\ Append(s, e)[Len(s) + 1] = e
         /\ \A k \in 1..Len(s) : Append(s, e)[k] = s[k]
OBVIOUS

\* What a line of a record is.
LEMMA LineFacts ==
  ASSUME NEW o \in Outputs, NEW e \in Entries
  PROVE  Line(o, e) \in Lines /\ Line(o, e).out = o /\ Line(o, e).entry = e /\ Line(o, e).fields = 5
BY DEF Line, Lines

\* A line of another number of fields records nothing.
LEMMA OtherFacts ==
  ASSUME NEW n \in Nat \ {0}
  PROVE  Other(n) \in Lines /\ Other(n).entry.hash \notin Hashes
BY HashFacts, Zenon DEF Other, Lines

\* A line cut short is a line, and it is the line of its record or records
\* nothing.
LEMMA CutFacts ==
  ASSUME NEW o \in Outputs, NEW e \in Entries, NEW how \in Cuts
  PROVE  LET l == Cut(o, e, how)
         IN  /\ l \in Lines
             /\ l.entry.hash \in Hashes => l.out = o /\ l.entry = e
<1>1. CASE how = "digits" \/ how = "tabs"
  <2>1. Cut(o, e, how) = Other(1) \/ Cut(o, e, how) = Other(3)
    BY <1>1, Zenon DEF Cut
  <2>2. 1 \in Nat \ {0} /\ 3 \in Nat \ {0}
    OBVIOUS
  <2> QED BY <2>1, <2>2, OtherFacts, Zenon
<1>2. CASE how = "no newline"
  <2>1. Cut(o, e, how) = Line(o, e)
    BY <1>2, Zenon DEF Cut
  <2> QED BY <2>1, LineFacts
<1>3. CASE how = "no hash" \/ how = "part hash"
  <2>1. PICK h \in {"empty", "wrong"} : Cut(o, e, how) = Line(o, [e EXCEPT !.hash = h])
    BY <1>3, Zenon DEF Cut
  <2> DEFINE f == [e EXCEPT !.hash = h]
  <2>2. f \in Entries /\ f.hash = h
    BY Zenon DEF Entries
  <2> HIDE DEF f
  <2>3. f.hash \notin Hashes
    BY <2>2, HashFacts, Zenon
  <2>4. Cut(o, e, how) = Line(o, f)
    BY <2>1, Zenon DEF f
  <2> QED BY <2>2, <2>3, <2>4, LineFacts
<1> QED BY <1>1, <1>2, <1>3, Zenon DEF Cuts

\* The fields that a write of the build log changes.
LEMMA WithLines ==
  ASSUME NEW f \in LogFiles, NEW ls \in Seq(Lines)
  PROVE  /\ [f EXCEPT !.lines = ls] \in LogFiles
         /\ [f EXCEPT !.lines = ls].lines = ls
         /\ [f EXCEPT !.lines = ls].header = f.header
         /\ [f EXCEPT !.lines = ls].open = f.open
<1>1. /\ DOMAIN f = {"header", "lines", "open"} /\ f.open \in BOOLEAN
      /\ f.header \in {"absent", "empty", "torn", "open", "complete", "old"}
  BY Zenon DEF LogFiles
<1> QED BY <1>1, Zenon DEF LogFiles

\* The same when the last line becomes open or closed.
LEMMA WithOpen ==
  ASSUME NEW f \in LogFiles, NEW b \in BOOLEAN
  PROVE  /\ [f EXCEPT !.open = b] \in LogFiles
         /\ [f EXCEPT !.open = b].lines = f.lines
         /\ [f EXCEPT !.open = b].header = f.header
         /\ [f EXCEPT !.open = b].open = b
<1>1. /\ DOMAIN f = {"header", "lines", "open"} /\ f.lines \in Seq(Lines)
      /\ f.header \in {"absent", "empty", "torn", "open", "complete", "old"}
  BY Zenon DEF LogFiles
<1> QED BY <1>1, Zenon DEF LogFiles

\* The same for the header.
LEMMA WithHeader ==
  ASSUME NEW f \in LogFiles, NEW h \in {"absent", "empty", "torn", "open", "complete", "old"}
  PROVE  /\ [f EXCEPT !.header = h] \in LogFiles
         /\ [f EXCEPT !.header = h].lines = f.lines
         /\ [f EXCEPT !.header = h].open = f.open
         /\ [f EXCEPT !.header = h].header = h
<1>1. DOMAIN f = {"header", "lines", "open"} /\ f.open \in BOOLEAN /\ f.lines \in Seq(Lines)
  BY Zenon DEF LogFiles
<1> QED BY <1>1, Zenon DEF LogFiles

\* Appending a line to the file: to a closed last line it adds one more; an open
\* last line becomes the new one or one that records nothing.
LEMMA AppendLineFacts ==
  ASSUME NEW f \in LogFiles, f.open => f.lines # <<>>, NEW l \in Lines,
         NEW R, GoodLines(f.lines, R),
         l.entry.hash \in Hashes => [out |-> l.out, entry |-> l.entry] \in R
  PROVE  LET g == AppendLine(f, l)
         IN  /\ g \in LogFiles /\ g.header = f.header /\ g.open = FALSE /\ g.lines # <<>>
             /\ ~f.open => g.lines = Append(f.lines, l)
             /\ GoodLines(g.lines, R)
<1> DEFINE g == AppendLine(f, l)
           n == Len(f.lines)
<1>1. f.lines \in Seq(Lines) /\ f.open \in BOOLEAN /\ n \in Nat /\ DOMAIN f.lines = 1..n
  BY DEF LogFiles
<1>2. CASE ~f.open
  <2> DEFINE ls == Append(f.lines, l)
  <2>1. /\ ls \in Seq(Lines) /\ ls # <<>> /\ DOMAIN ls = 1..(n + 1) /\ ls[n + 1] = l
        /\ \A k \in 1..n : ls[k] = f.lines[k]
    BY <1>1, AppendShape
  <2>2. g = [f EXCEPT !.lines = ls]
    BY <1>2, Zenon DEF AppendLine
  <2> HIDE DEF ls, g
  <2>3. g \in LogFiles /\ g.lines = ls /\ g.header = f.header /\ g.open = FALSE
    <3>1. f.open = FALSE
      BY <1>1, <1>2, Zenon
    <3>2. /\ [f EXCEPT !.lines = ls] \in LogFiles /\ [f EXCEPT !.lines = ls].lines = ls
          /\ [f EXCEPT !.lines = ls].header = f.header
          /\ [f EXCEPT !.lines = ls].open = f.open
      BY <2>1, WithLines, Zenon
    <3> QED BY <2>2, <3>1, <3>2, Zenon
  <2>4. GoodLines(ls, R)
    <3>1. \A k \in 1..(n + 1) : k \in 1..n \/ k = n + 1
      BY <1>1
    <3> QED BY <1>1, <2>1, <3>1, Zenon DEF GoodLines
  <2> QED BY <2>1, <2>3, <2>4, Zenon DEF g, ls
<1>3. CASE f.open
  <2> DEFINE rest == f.lines[n].fields
             x == IF rest = 1 THEN l ELSE Other(rest + l.fields - 1)
             ls == [f.lines EXCEPT ![n] = x]
  <2>1. n \in 1..n /\ f.lines[n] \in Lines /\ n > 0
    BY <1>1, <1>3
  <2>2. x \in Lines /\ (x.entry.hash \in Hashes => x = l)
    <3>1. rest \in Nat \ {0} /\ l.fields \in Nat \ {0}
      BY <2>1, Zenon DEF Lines
    <3>2. rest + l.fields - 1 \in Nat \ {0}
      <4>1. \A a, b \in Nat \ {0} : a + b - 1 \in Nat \ {0}
        OBVIOUS
      <4> HIDE DEF rest
      <4> QED BY <3>1, <4>1, Zenon
    <3> QED BY <3>2, OtherFacts, Zenon
  <2>3. g = [f EXCEPT !.open = FALSE, !.lines[n] = x]
    BY <1>3, Zenon DEF AppendLine
  <2> HIDE DEF x
  <2>4. ls \in Seq(Lines) /\ DOMAIN ls = 1..n /\ ls[n] = x /\ \A k \in 1..n : k # n => ls[k] = f.lines[k]
    BY <1>1, <2>1, <2>2
  <2>5. ls # <<>>
    BY <2>1, <2>4
  <2>6. g = [f EXCEPT !.open = FALSE, !.lines = ls]
    BY <2>3, Zenon
  <2> HIDE DEF ls, g
  <2>7. g \in LogFiles /\ g.lines = ls /\ g.header = f.header /\ g.open = FALSE
    <3>1. DOMAIN f = {"header", "lines", "open"}
          /\ f.header \in {"absent", "empty", "torn", "open", "complete", "old"}
      BY Zenon DEF LogFiles
    <3> QED BY <2>4, <2>6, <3>1, Zenon DEF LogFiles
  <2>8. GoodLines(ls, R)
    BY <1>1, <2>2, <2>4, Zenon DEF GoodLines
  <2> QED BY <1>3, <2>5, <2>7, <2>8, Zenon DEF g
<1> QED BY <1>1, <1>2, <1>3, Zenon

\* What was recorded stays recorded.
LEMMA MoreRecorded ==
  ASSUME NEW R, NEW S, R \subseteq S
  PROVE  /\ \A ls : GoodLines(ls, R) => GoodLines(ls, S)
         /\ \A es : GoodTable(es, R) => GoodTable(es, S)
BY Zenon DEF GoodLines, GoodTable

LogSide == BuildLogInv' /\ UntornInv'

\* A step that leaves the build log, and nothing of a line to write behind.
LEMMA SameLogSide ==
  ASSUME LogsInv, UNCHANGED <<logFile, recorded, tears>>,
         entries' = entries \/ (entries' = NoEntries /\ proc' = "down"), ~LineFirst',
         proc' \in {"deps", "up"} => /\ entries' = entries
                                     /\ proc \in {"deps", "up"} /\ ~LineFirst
  PROVE  LogSide
<1>1. BuildLogInv /\ UntornInv
  BY Zenon DEF LogsInv
<1>2. entries' \in Tables /\ GoodTable(entries', recorded)
  BY <1>1, NoLogFacts, Zenon DEF BuildLogInv
<1>3. BuildLogInv'
  BY <1>1, <1>2, Zenon DEF BuildLogInv
<1>4. UntornInv'
  BY <1>1, Zenon DEF UntornInv
<1> QED BY <1>3, <1>4, Zenon DEF LogSide

\* Opening the build log, recompacting it and restatting it.
LEMMA StartLogSide ==
  ASSUME LogsInv, OpenBuildLog \/ Recompact \/ Rename \/ ToolRestat
  PROVE  LogSide
<1>1. /\ logFile \in LogFiles /\ entries \in Tables /\ logFile.lines \in Seq(Lines)
      /\ logFile.open => logFile.lines # <<>>
      /\ GoodLines(logFile.lines, recorded) /\ GoodTable(entries, recorded)
      /\ UntornInv
  BY Zenon DEF LogsInv, BuildLogInv, LogFiles
<1>2. ~LineFirst'
  <2>1. proc # "up" /\ pending' = pending
    BY Zenon DEF OpenBuildLog, Recompact, Rename, ToolRestat
  <2>2. pending' = <<>>
    BY <2>1, NotUp, Zenon
  <2> QED BY <2>2, Zenon DEF LineFirst
<1>3. CASE OpenBuildLog
  <2>1. tears' = tears /\ recorded' = recorded
    BY <1>3, Zenon DEF OpenBuildLog, bounds
  <2>2. CASE logFile.header = "old"
    <3>1. logFile' = NoLog /\ entries' = NoEntries
      BY <1>3, <2>2, Zenon DEF OpenBuildLog, OpenLog
    <3>2. BuildLogInv'
      BY <2>1, <3>1, NoLogFacts, Zenon DEF BuildLogInv
    <3>3. UntornInv'
      BY <1>2, <3>1, NoLogFacts, Zenon DEF UntornInv
    <3> QED BY <3>2, <3>3, Zenon DEF LogSide
  <2>3. CASE logFile.header # "old"
    <3>1. logFile' = logFile /\ entries' = LoadEntries(logFile.lines)
      BY <1>3, <2>3, Zenon DEF OpenBuildLog, OpenLog
    <3>2. BuildLogInv'
      BY <1>1, <2>1, <3>1, LoadGood, Zenon DEF BuildLogInv
    <3>3. UntornInv'
      BY <1>1, <1>2, <2>1, <3>1, Zenon DEF UntornInv
    <3> QED BY <3>2, <3>3, Zenon DEF LogSide
  <2> QED BY <2>2, <2>3, Zenon
<1>4. CASE Recompact
  <2>1. /\ logFile' = NoLog /\ entries' = Recompacted(entries, dead) /\ recorded' = recorded
        /\ proc' = "rename"
    BY <1>4, Zenon DEF Recompact
  <2>2. entries' \in Tables /\ GoodTable(entries', recorded)
    BY <1>1, <2>1, HashFacts, Zenon DEF Recompacted, Tables, GoodTable
  <2>3. BuildLogInv'
    BY <2>1, <2>2, NoLogFacts, Zenon DEF BuildLogInv
  <2>4. UntornInv'
    BY <1>2, <2>1, NoLogFacts, Zenon DEF UntornInv
  <2> QED BY <2>3, <2>4, Zenon DEF LogSide
<1>5. CASE Rename
  <2>1. logFile' = FileOf(entries) /\ entries' = entries /\ recorded' = recorded
    BY <1>5, Zenon DEF Rename
  <2>2. /\ logFile' \in LogFiles /\ GoodLines(logFile'.lines, recorded)
        /\ logFile'.header = "complete" /\ logFile'.open = FALSE
        /\ LoadEntries(logFile'.lines) = entries
    BY <1>1, <2>1, FileOfFacts, FileOfGood, Zenon
  <2>3. BuildLogInv'
    BY <1>1, <2>1, <2>2, Zenon DEF BuildLogInv
  <2>4. UntornInv'
    BY <1>2, <2>1, <2>2, Zenon DEF UntornInv
  <2> QED BY <2>3, <2>4, Zenon DEF LogSide
<1>6. CASE ToolRestat
  <2>1. logFile' = NoLog /\ proc' \in {"down", "rename restat"}
    BY <1>6, Zenon DEF ToolRestat
  <2>2. UntornInv'
    BY <1>2, <2>1, NoLogFacts, Zenon DEF UntornInv
  <2>3. entries' \in Tables /\ GoodTable(entries', recorded')
    <3>1. CASE logFile.header = "old"
      BY <1>1, <1>6, <3>1, Zenon DEF ToolRestat
    <3>2. CASE logFile.header # "old"
      <4>1. PICK outs \in {{}} \union {{o}: o \in Outputs}, mtime \in [Outputs -> Times \union {0}] :
               entries' = Restatted(LoadEntries(logFile.lines), outs, mtime)
        BY <1>6, <3>2, Zenon DEF ToolRestat
      <4>2. recorded' = recorded \union {[out |-> o, entry |-> entries'[o]] : o \in Outputs}
        BY <1>6, <3>2, Zenon DEF ToolRestat
      <4>3. LoadEntries(logFile.lines) \in Tables
        BY <1>1, LoadGood, Zenon
      <4>4. entries' \in Tables
        <5> DEFINE es == LoadEntries(logFile.lines)
        <5> HIDE DEF es
        <5>1. ASSUME NEW o \in Outputs
              PROVE  [es[o] EXCEPT !.mtime = mtime[o]] \in Entries /\ es[o] \in Entries
          <6>1. mtime[o] \in Nat
            <7>1. mtime[o] \in Times \union {0}
              BY <4>1, Zenon
            <7>2. Times \subseteq Nat
              BY LogsAssumption, Zenon
            <7>3. 0 \in Nat
              OBVIOUS
            <7> QED BY <7>1, <7>2, <7>3, Zenon
          <6>2. es[o] \in Entries
            BY <4>3, Zenon DEF es, Tables
          <6> QED BY <6>1, <6>2, Zenon DEF Entries
        <5> QED BY <4>1, <5>1, Zenon DEF Restatted, Tables, es
      <4> QED BY <4>2, <4>4, Zenon DEF GoodTable
    <3> QED BY <3>1, <3>2, Zenon
  <2>4. BuildLogInv'
    BY <2>1, <2>3, NoLogFacts, Zenon DEF BuildLogInv
  <2> QED BY <2>2, <2>4, Zenon DEF LogSide
<1> QED BY <1>3, <1>4, <1>5, <1>6, Zenon

\* FinishCommand puts the entry in memory first: until the line is written it
\* is all that memory has and the file has not.
LEMMA FinishLogSide ==
  ASSUME LogsInv, NEW out \in Outputs, FinishCommand(out)
  PROVE  LogSide
<1>1. /\ logFile \in LogFiles /\ entries \in Tables
      /\ logFile.open => logFile.lines # <<>>
      /\ GoodLines(logFile.lines, recorded) /\ GoodTable(entries, recorded)
      /\ UntornInv
  BY Zenon DEF LogsInv, BuildLogInv
<1>2. PICK hash \in Hashes, mtime \in Times :
        /\ entries' = [entries EXCEPT ![out] = [hash |-> hash, mtime |-> mtime]]
        /\ recorded' = recorded
             \union {[out |-> out, entry |-> [hash |-> hash, mtime |-> mtime]]}
  BY Zenon DEF FinishCommand
<1>3. logFile' = logFile /\ tears' = tears /\ proc = "up" /\ proc' = proc /\ pending = <<>>
  BY Zenon DEF FinishCommand
<1> DEFINE e == [hash |-> hash, mtime |-> mtime]
<1>4. e \in Entries
  <2>1. mtime \in Nat
    BY LogsAssumption, Zenon
  <2> QED BY <2>1, Zenon DEF Entries
<1>5. entries' = [entries EXCEPT ![out] = e] /\ recorded' = recorded \union {[out |-> out, entry |-> e]}
  BY <1>2, Zenon
<1> HIDE DEF e
<1>6. entries' \in Tables
  BY <1>1, <1>4, <1>5, Zenon DEF Tables
<1>7. GoodLines(logFile.lines, recorded')
  BY <1>1, <1>5, MoreRecorded, Zenon
<1>8. GoodTable(entries', recorded')
  BY <1>1, <1>5, Zenon DEF GoodTable, Tables
<1>9. BuildLogInv'
  BY <1>1, <1>3, <1>6, <1>7, <1>8, Zenon DEF BuildLogInv
<1>10. pending' # <<>> /\ Head(pending') = [line |-> out]
  BY FinishDepsSide, Zenon
<1>11. LineFirst' /\ Head(pending').line = out
  <2>1. IsLine(Head(pending'))
    BY <1>10, KindFacts, Zenon
  <2>2. [line |-> out].line = out
    OBVIOUS
  <2> QED BY <1>10, <2>1, <2>2, Zenon DEF LineFirst
<1>12. UntornInv'
  <2>1. ~LineFirst
    BY <1>3, Zenon DEF LineFirst
  <2>2. tears = 0 => entries = LoadEntries(logFile.lines)
    BY <1>1, <1>3, <2>1, Zenon DEF UntornInv
  <2>3. entries' = [entries EXCEPT ![out] = entries'[out]]
    BY <1>1, <1>5, Zenon DEF Tables
  <2> QED BY <1>1, <1>3, <1>11, <2>2, <2>3, Zenon DEF UntornInv
<1> QED BY <1>9, <1>12, Zenon DEF LogSide

\* Writing the build log: its header, or the line that memory was ahead by.
LEMMA WriteLineLogSide ==
  ASSUME LogsInv, Write, IsLine(Head(pending))
  PROVE  LogSide
<1>1. /\ logFile \in LogFiles /\ entries \in Tables
      /\ logFile.open => logFile.lines # <<>>
      /\ GoodLines(logFile.lines, recorded) /\ GoodTable(entries, recorded)
      /\ UntornInv /\ PendingInv
  BY Zenon DEF LogsInv, BuildLogInv
<1> DEFINE out == Head(pending).line
<1>2. /\ proc = "up" /\ proc' = proc /\ pending # <<>> /\ LineFirst
      /\ entries' = entries /\ recorded' = recorded /\ tears' = tears
      /\ WriteLine(out, entries[out])
      /\ pending' = IF LineNext THEN Tail(pending) ELSE pending
  BY Zenon DEF Write, LineFirst, bounds
<1>3. /\ out \in Outputs
      /\ Tail(pending) # <<>> => Tail(pending) \in Seq(Records)
  BY <1>1, <1>2, PendingFacts, Zenon
<1>4. LineNext => ~LineFirst'
  BY <1>2, <1>3, RecordsFirst, Zenon DEF LineFirst
<1>5. pending' = pending => Head(pending').line = out
  OBVIOUS
<1>6. entries[out] \in Entries
        /\ (entries[out].hash \in Hashes => [out |-> out, entry |-> entries[out]] \in recorded)
  BY <1>1, <1>3, Zenon DEF Tables, GoodTable
<1>7. tears = 0 => /\ ~logFile.open /\ logFile.header \notin {"torn", "open"}
                   /\ entries = [LoadEntries(logFile.lines) EXCEPT ![out] = entries[out]]
  BY <1>1, <1>2, Zenon DEF UntornInv
<1> HIDE DEF out
<1>8. CASE logFile.header \in {"absent", "empty", "open"}
  <2>1. PICK h \in {"empty", "complete", "torn"} : logFile' = [logFile EXCEPT !.header = h]
    BY <1>2, <1>8, Zenon DEF WriteLine
  <2>2. /\ logFile' \in LogFiles /\ logFile'.lines = logFile.lines
        /\ logFile'.open = logFile.open /\ logFile'.header = h
    <3>1. h \in {"absent", "empty", "torn", "open", "complete", "old"}
      OBVIOUS
    <3>2. /\ [logFile EXCEPT !.header = h] \in LogFiles
          /\ [logFile EXCEPT !.header = h].lines = logFile.lines
          /\ [logFile EXCEPT !.header = h].open = logFile.open
          /\ [logFile EXCEPT !.header = h].header = h
      BY <1>1, <3>1, WithHeader, Zenon
    <3> QED BY <2>1, <3>2, Zenon
  <2>3. BuildLogInv'
    BY <1>1, <1>2, <2>2, Zenon DEF BuildLogInv
  <2>4. UntornInv'
    <3>1. CASE tears = 0
      <4>1. pending' = pending /\ LineFirst'
        BY <1>2, <1>7, <1>8, <3>1, Zenon DEF LineNext, LineFirst
      <4>2. ~logFile'.open /\ logFile'.header \notin {"torn", "open"}
        <5>1. logFile.header # "open"
          BY <1>7, <3>1, Zenon
        <5>2. PICK g \in {"empty", "complete"} : logFile' = [logFile EXCEPT !.header = g]
          BY <1>2, <1>8, <5>1, Zenon DEF WriteLine
        <5>3. g \in {"absent", "empty", "torn", "open", "complete", "old"}
          OBVIOUS
        <5>4. logFile'.header = g
          BY <1>1, <5>2, <5>3, WithHeader, Zenon
        <5> QED BY <1>7, <2>2, <3>1, <5>4
      <4> QED BY <1>2, <1>5, <1>7, <2>2, <3>1, <4>1, <4>2, Zenon DEF UntornInv
    <3>2. CASE tears # 0
      BY <1>2, <3>2, Zenon DEF UntornInv
    <3> QED BY <3>1, <3>2, Zenon
  <2> QED BY <2>3, <2>4, Zenon DEF LogSide
<1>9. CASE logFile.header \notin {"absent", "empty", "open"}
  <2> DEFINE l == Line(out, entries[out])
  <2>1. logFile' = AppendLine(logFile, l)
    BY <1>2, <1>9, Zenon DEF WriteLine
  <2>2. l \in Lines /\ l.out = out /\ l.entry = entries[out] /\ l.fields = 5
    BY <1>3, <1>6, LineFacts, Zenon
  <2> HIDE DEF l
  <2>3. /\ logFile' \in LogFiles /\ logFile'.header = logFile.header
        /\ logFile'.open = FALSE /\ logFile'.lines # <<>>
        /\ ~logFile.open => logFile'.lines = Append(logFile.lines, l)
        /\ GoodLines(logFile'.lines, recorded)
    BY <1>1, <1>6, <2>1, <2>2, AppendLineFacts, Zenon
  <2>4. BuildLogInv'
    BY <1>1, <1>2, <2>3, Zenon DEF BuildLogInv
  <2>5. UntornInv'
    <3>1. CASE tears = 0
      <4>1. LineNext
        <5>1. logFile.header \in {"absent", "empty", "torn", "open", "complete", "old"}
          BY <1>1, Zenon DEF LogFiles
        <5> QED BY <1>7, <1>9, <3>1, <5>1, Zenon DEF LineNext
      <4>2. logFile.lines \in Seq(Lines)
        BY <1>1, Zenon DEF LogFiles
      <4>3. LoadEntries(logFile'.lines) = LoadLine(LoadEntries(logFile.lines), l)
        BY <1>7, <2>2, <2>3, <3>1, <4>2, LoadEntriesFacts, Zenon
      <4>4. LoadEntries(logFile'.lines) = entries
        BY <1>7, <2>2, <3>1, <4>3, Zenon DEF LoadLine
      <4> QED BY <1>2, <1>4, <1>7, <2>3, <3>1, <4>1, <4>4, Zenon DEF UntornInv
    <3>2. CASE tears # 0
      BY <1>2, <3>2, Zenon DEF UntornInv
    <3> QED BY <3>1, <3>2, Zenon
  <2> QED BY <2>4, <2>5, Zenon DEF LogSide
<1> QED BY <1>8, <1>9, Zenon

\* A write of the build log that is cut short.
LEMMA TearLogSide ==
  ASSUME LogsInv, ProcessEnds, recorded' = recorded, tears' = tears + 1,
         NEW out \in Outputs, TearLine(out, entries[out])
  PROVE  LogSide
<1>1. /\ logFile \in LogFiles /\ entries \in Tables
      /\ logFile.open => logFile.lines # <<>>
      /\ GoodLines(logFile.lines, recorded) /\ GoodTable(entries, recorded)
  BY Zenon DEF LogsInv, BuildLogInv
<1>2. UntornInv'
  <2>1. tears' # 0
    BY DEF LogsInv
  <2> QED BY <2>1, Zenon DEF UntornInv
<1>3. entries' \in Tables /\ GoodTable(entries', recorded)
  BY NoLogFacts, Zenon DEF ProcessEnds
<1> DEFINE Good == /\ logFile' \in LogFiles /\ (logFile'.open => logFile'.lines # <<>>)
                   /\ GoodLines(logFile'.lines, recorded)
<1>4. Good
  <2>1. ASSUME NEW how \in {"torn", "open", "old"}, logFile' = [logFile EXCEPT !.header = how]
        PROVE  Good
    <3>1. how \in {"absent", "empty", "torn", "open", "complete", "old"}
      OBVIOUS
    <3>2. /\ [logFile EXCEPT !.header = how] \in LogFiles
          /\ [logFile EXCEPT !.header = how].lines = logFile.lines
          /\ [logFile EXCEPT !.header = how].open = logFile.open
      BY <1>1, <3>1, WithHeader, Zenon
    <3> QED BY <1>1, <2>1, <3>2, Zenon
  <2>2. ASSUME NEW how \in Cuts,
               logFile' = [AppendLine(logFile, Cut(out, entries[out], how)) EXCEPT !.open = TRUE]
        PROVE  Good
    <3> DEFINE l == Cut(out, entries[out], how)
               g == AppendLine(logFile, l)
    <3>1. entries[out] \in Entries
          /\ (entries[out].hash \in Hashes => [out |-> out, entry |-> entries[out]] \in recorded)
      BY <1>1, Zenon DEF Tables, GoodTable
    <3>2. l \in Lines /\ (l.entry.hash \in Hashes => l.out = out /\ l.entry = entries[out])
      BY <3>1, CutFacts, Zenon
    <3> HIDE DEF l
    <3>3. l.entry.hash \in Hashes => [out |-> l.out, entry |-> l.entry] \in recorded
      BY <3>1, <3>2, Zenon
    <3>4. g \in LogFiles /\ g.lines # <<>> /\ GoodLines(g.lines, recorded)
      BY <1>1, <3>2, <3>3, AppendLineFacts, Zenon
    <3>5. logFile' = [g EXCEPT !.open = TRUE]
      BY <2>2, Zenon DEF l
    <3> HIDE DEF g
    <3>6. logFile' \in LogFiles /\ logFile'.lines = g.lines
      BY <3>4, <3>5, WithOpen, Zenon
    <3> QED BY <3>4, <3>6, Zenon
  <2> HIDE DEF Good
  <2> QED BY <2>1, <2>2, Zenon DEF TearLine
<1>5. BuildLogInv'
  BY <1>3, <1>4, Zenon DEF BuildLogInv
<1> QED BY <1>2, <1>5, Zenon DEF LogSide

\* The end of a process.
LEMMA EndLogSide ==
  ASSUME LogsInv, Exit \/ Crash
  PROVE  LogSide /\ tears' \in Nat
<1>1. ProcessEnds /\ recorded' = recorded
  BY Zenon DEF Exit, Crash
<1>2. entries' = NoEntries /\ proc' = "down" /\ ~LineFirst'
  BY <1>1, Zenon DEF ProcessEnds, LineFirst
<1>3. tears \in Nat
  BY Zenon DEF LogsInv
<1>4. CASE logFile' = logFile /\ tears' = tears
  BY <1>1, <1>2, <1>3, <1>4, SameLogSide, Zenon
<1>5. CASE /\ pending # <<>> /\ IsLine(Head(pending)) /\ tears' = tears + 1
           /\ TearLine(Head(pending).line, entries[Head(pending).line])
  <2>1. Head(pending).line \in Outputs
    BY <1>5, PendingFacts, Zenon DEF LogsInv
  <2> QED BY <1>1, <1>3, <1>5, <2>1, TearLogSide
<1> QED BY <1>4, <1>5, Zenon DEF Exit, Crash, bounds

\* Every step keeps the build log's invariant.
LEMMA NextLogSide ==
  ASSUME LogsInv, [Next]_vars
  PROVE  LogSide /\ tears' \in Nat
<1>1. CASE UNCHANGED vars
  <2>1. UNCHANGED <<logFile, entries, recorded, tears, proc, pending>>
    BY <1>1, Zenon DEF vars, logVars
  <2> QED BY <2>1, Zenon DEF LogsInv, LogSide, BuildLogInv, UntornInv, LineFirst
<1>2. CASE Exit \/ Crash
  BY <1>2, EndLogSide, Zenon
<1>3. CASE Next /\ ~(Exit \/ Crash)
  <2>1. tears' \in Nat
    <3>1. tears' = tears
      BY <1>3, Zenon DEF Next, OpenBuildLog, Recompact, Rename, OpenDepsLog, ExitUnreadable,
                  ToolRestat, FinishCommand, Write, bounds
    <3> QED BY <3>1, Zenon DEF LogsInv
  <2>2. CASE OpenBuildLog \/ Recompact \/ Rename \/ ToolRestat
    BY <2>1, <2>2, StartLogSide, Zenon
  <2>3. CASE \E out \in Outputs : FinishCommand(out)
    BY <2>1, <2>3, FinishLogSide, Zenon
  <2>4. CASE Write /\ IsLine(Head(pending))
    BY <2>1, <2>4, WriteLineLogSide, Zenon
  <2>5. CASE Write /\ ~IsLine(Head(pending))
    <3>1. /\ UNCHANGED <<logFile, recorded, tears, entries, proc>>
          /\ proc = "up" /\ pending # <<>>
          /\ pending' = pending \/ pending' = Tail(pending)
      BY <2>5, Zenon DEF Write, logVars, bounds
    <3>2. pending \in Seq(Records) /\ PendingInv
      BY <2>5, <3>1, PendingFacts, Zenon DEF LogsInv
    <3>3. pending' \in Seq(Records)
      BY <3>1, <3>2
    <3>4. ~LineFirst /\ ~LineFirst'
      BY <3>2, <3>3, RecordsFirst, Zenon DEF LineFirst
    <3> QED BY <2>1, <3>1, <3>4, SameLogSide, Zenon
  <2>6. CASE OpenDepsLog \/ ExitUnreadable
    <3>1. /\ UNCHANGED <<logFile, recorded, tears, entries, pending>>
          /\ proc # "up" /\ (proc' \in {"deps", "up"} => proc = "deps")
      BY <2>6, Zenon DEF OpenDepsLog, ExitUnreadable, logVars, bounds
    <3>2. pending = <<>>
      BY <3>1, NotUp, Zenon
    <3>3. ~LineFirst /\ ~LineFirst'
      BY <3>1, <3>2, Zenon DEF LineFirst
    <3> QED BY <2>1, <3>1, <3>3, SameLogSide, Zenon
  <2> QED BY <1>3, <2>2, <2>3, <2>4, <2>5, <2>6, Zenon DEF Next
<1> QED BY <1>1, <1>2, <1>3, Zenon

\* Before anything was recorded there is nothing to load.
LEMMA InitLogs ==
  ASSUME Init
  PROVE  LogsInv /\ Store!StoreInit
<1>1. /\ depsFile = NoFile /\ proc = "down" /\ pending = <<>> /\ request = NoRequest
      /\ stored = StoredIn(depsFile) /\ recorded = {} /\ tears = 0 /\ entries = NoEntries
      /\ logFile \in {NoLog, [NoLog EXCEPT !.header = "old"]}
  BY Zenon DEF Init, LogInit, DepsInit
<1>2. /\ depsFile \in DepsFiles /\ depsFile.recs = <<>> /\ depsFile.recs \in Seq(Records)
  BY <1>1 DEF NoFile, DepsFiles
<1>3. LoadDeps(depsFile.recs) = EmptyLog
  BY <1>2, LoadDepsFacts, Zenon
<1>4. GoodLog(EmptyLog) /\ EmptyLog.read = 0 /\ Len(EmptyLog.nodes) = 0
  BY DEF EmptyLog, GoodLog, IsInjective
<1>5. DepsFileInv
  BY <1>1, <1>2, <1>3, <1>4 DEF DepsFileInv, IdsAreKnown
<1>6. ~LineFirst
  BY <1>1, Zenon DEF LineFirst
<1>7. PendingInv
  BY <1>1, <1>6, Zenon DEF PendingInv
<1>8. logFile \in LogFiles /\ logFile.lines = <<>> /\ logFile.open = FALSE
        /\ logFile.header \in {"absent", "old"}
  <2>1. CASE logFile = NoLog
    BY <2>1, NoLogFacts, Zenon
  <2>2. CASE logFile = [NoLog EXCEPT !.header = "old"]
    <3>1. /\ NoLog \in LogFiles /\ NoLog.lines = <<>> /\ NoLog.open = FALSE
          /\ "old" \in {"absent", "empty", "torn", "open", "complete", "old"}
      BY NoLogFacts, Zenon
    <3> DEFINE f == NoLog
               h == "old"
    <3> HIDE DEF f, h
    <3>2. /\ [f EXCEPT !.header = h] \in LogFiles
          /\ [f EXCEPT !.header = h].lines = f.lines
          /\ [f EXCEPT !.header = h].open = f.open
          /\ [f EXCEPT !.header = h].header = h
      BY <3>1, WithHeader, Zenon DEF f, h
    <3>3. logFile = [f EXCEPT !.header = h] /\ f.lines = <<>> /\ f.open = FALSE /\ h = "old"
      BY <2>2, <3>1, Zenon DEF f, h
    <3> QED BY <3>2, <3>3, Zenon
  <2> QED BY <1>1, <2>1, <2>2, Zenon
<1>9. BuildLogInv
  BY <1>1, <1>8, NoLogFacts, Zenon DEF BuildLogInv
<1>10. UntornInv
  BY <1>1, <1>6, <1>8, Zenon DEF UntornInv
<1>11. Store!StoreInit
  <2>1. ASSUME NEW p PROVE GetDeps(EmptyLog, p) = [mtime |-> -1, paths |-> <<>>]
    <3>1. DepsOf(EmptyLog, p) = NoDeps /\ DOMAIN NoDeps.ids = {} /\ NoDeps.mtime = -1
      BY DEF DepsOf, EmptyLog, IdOf, NoDeps
    <3>2. GetDeps(EmptyLog, p) = [mtime |-> NoDeps.mtime,
             paths |-> [k \in DOMAIN NoDeps.ids |-> EmptyLog.nodes[NoDeps.ids[k]]]]
      BY <3>1, GetDepsIs, Zenon
    <3>3. [k \in {} |-> EmptyLog.nodes[NoDeps.ids[k]]] = <<>>
      OBVIOUS
    <3> QED BY <3>1, <3>2, <3>3, Zenon
  <2>2. stored = [o \in Outputs \intersect Paths |-> [mtime |-> -1, paths |-> <<>>]]
    BY <1>1, <1>3, <2>1, Zenon DEF StoredIn
  <2> QED BY <1>1, <2>2, Zenon DEF Store!StoreInit
<1> QED BY <1>1, <1>5, <1>7, <1>9, <1>10, <1>11, Zenon DEF LogsInv

----------------------------------------------------------------------------
\* The two logs keep their invariant, whichever processes write them and
\* wherever these die.
THEOREM LogsCorrect == Spec => []LogsInv
<1>1. Init => LogsInv
  BY InitLogs, Zenon
<1>2. LogsInv /\ [Next]_vars => LogsInv'
  <2> SUFFICES ASSUME LogsInv, [Next]_vars PROVE LogsInv'
    OBVIOUS
  <2>1. DepsFileInv' /\ PendingInv'
    BY NextDepsSide, Zenon DEF DepsSide
  <2>2. BuildLogInv' /\ UntornInv' /\ tears' \in Nat
    BY NextLogSide, Zenon DEF LogSide
  <2> QED BY <2>1, <2>2, Zenon DEF LogsInv
<1> QED BY <1>1, <1>2, PTL DEF Spec

\* A deps record in the file never names an id that has no path record before
\* it: Load keeps no nil node, wherever the process that wrote it died.
THEOREM DepsIdsKnown == Spec => []IdsAreKnown
<1>1. LogsInv => IdsAreKnown
  BY Zenon DEF LogsInv, DepsFileInv
<1> QED BY <1>1, LogsCorrect, PTL

\* Between two records, a process whose build log was never torn believes what
\* the next process will load, of both logs.
THEOREM MemoryIsOnDisk == Spec => []MemoryAgreesWithDisk
<1>1. LogsInv => MemoryAgreesWithDisk
  <2> SUFFICES ASSUME LogsInv, proc = "up", pending = <<>>
               PROVE  /\ tears = 0 => entries = LoadEntries(logFile.lines)
                      /\ \A p \in Paths : GetDeps([nodes |-> nodes, deps |-> deps], p)
                                            = GetDeps(LoadDeps(depsFile.recs), p)
    BY Zenon DEF MemoryAgreesWithDisk
  <2>1. tears = 0 => entries = LoadEntries(logFile.lines)
    BY Zenon DEF LogsInv, UntornInv, LineFirst
  <2> DEFINE log == LoadDeps(depsFile.recs)
             mem == [nodes |-> nodes, deps |-> deps]
  <2>2. nodes = log.nodes /\ deps = log.deps
    BY DepsFileFacts, Zenon DEF LogsInv
  <2>3. mem.nodes = nodes /\ mem.deps = deps
    OBVIOUS
  <2> HIDE DEF log, mem
  <2>4. \A p \in Paths : GetDeps(mem, p) = GetDeps(log, p)
    BY <2>2, <2>3, Zenon DEF GetDeps
  <2> QED BY <2>1, <2>4, Zenon DEF log, mem
<1> QED BY <1>1, LogsCorrect, PTL

\* However lines were torn and continued, an entry that Load takes for a
\* command's was recorded as it is.
THEOREM NothingInvented == Spec => []LoadInventsNothing
<1>1. LogsInv => LoadInventsNothing
  <2> SUFFICES ASSUME LogsInv PROVE LoadInventsNothing
    OBVIOUS
  <2>1. logFile.lines \in Seq(Lines) /\ GoodLines(logFile.lines, recorded)
    BY Zenon DEF LogsInv, BuildLogInv, LogFiles
  <2>2. GoodTable(LoadEntries(logFile.lines), recorded)
    BY <2>1, LoadGood, Zenon
  <2> QED BY <2>2, Zenon DEF GoodTable, LoadInventsNothing
<1> QED BY <1>1, LogsCorrect, PTL

\* The deps log implements the store: what a process starting now would load
\* changes only by whole records of the RecordDeps that runs.
THEOREM LogsImplementDepsStore == Spec => ImplementsDepsStore
<1>1. Init => Store!StoreInit
  BY InitLogs, Zenon
<1>2. LogsInv /\ [Next]_vars => StoreStep
  BY NextDepsSide, Zenon DEF DepsSide
<1> QED BY <1>1, <1>2, LogsCorrect, PTL DEF Spec, ImplementsDepsStore, Store!StoreSpec, StoreStep
=============================================================================
