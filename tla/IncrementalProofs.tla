------------------------- MODULE IncrementalProofs --------------------------
(***************************************************************************)
(* Incremental, for every project that satisfies its assumptions: no step  *)
(* of the program touches a source, and a full entry of the action cache   *)
(* holds what its command makes of the inputs in its key.                  *)
(***************************************************************************)
EXTENDS Incremental, Recursion, FiniteSetTheorems, TLAPS

\* A content has a version, which counts the edits of a source.
HasVersion(c) == "v" \in DOMAIN c /\ c.v \in 0..2

\* The variables that say what is on disk, in the logs and in the cache.
DiskType ==
    /\ DOMAIN disk = Files
    /\ \A f \in Files : disk[f].m \in Nat /\ HasVersion(disk[f].c)

DepsType ==
    /\ DOMAIN depfile = Edges /\ \A e \in Edges : depfile[e].ins \in Seq(Files)
    /\ DOMAIN depsLog = Files /\ \A f \in Files : depsLog[f].nodes \in Seq(Files)

CacheType == \A r \in actionCache : r.kind = "full" => HasVersion(r.content)

TreeType ==
    /\ project \in Projects /\ version \in 1..Len(project.manifests)
    /\ clock \in Nat \ {0}
    /\ DiskType /\ DepsType /\ CacheType

\* The records that run and uploads hold.  The entry to upload next exists.
RunType(r) ==
    /\ DOMAIN r = {"at", "start", "action", "content", "hit", "deps"}
    /\ HasVersion(r.content) /\ r.deps \in Seq(Files)

UploadType(u) ==
    /\ DOMAIN u = {"edge", "deps", "i", "content"}
    /\ HasVersion(u.content)
    /\ u.i = 1 \/ (u.i = 2 /\ Range(u.deps) # {})

\* Edge e is wanted, and the edges that make its inputs are not any more.
Started(e) ==
    /\ e \in want
    /\ \A x \in M.edges \ {e} :
          M.out[x] \in Range(scan.ins[e]) \union M.orderOnly[e] => x \notin want

RunOK(e) ==
    /\ RunType(run[e])
    /\ run[e].at # "no" => e \in M.edges \ M.phony
    /\ run[e].at \notin {"no", "logged"} => Started(e)
    /\ run[e].at = "read" => DOMAIN run[e].content.in \subseteq Files

\* What the scan found.  Its mtimes are a function, whatever they are.
ScanType ==
    /\ DOMAIN scan = {"dirty", "mtime", "ins", "depsMissing"}
    /\ scan.mtime \in [Files -> {scan.mtime[f] : f \in Files}]
    /\ \A e \in M.edges : /\ scan.ins[e] \in Seq(Files)
                          /\ Range(M.ins[e]) \subseteq Range(scan.ins[e])

\* Edges of the manifest run, in a build, and only after the edges that make
\* their inputs.
RunInv ==
    /\ DOMAIN run = Edges
    /\ want \subseteq M.edges
    /\ phase = "idle" => want = {} /\ uploads = {} /\ \A e \in Edges : run[e].at = "no"
    /\ phase # "idle" => ScanType
    /\ \A e \in Edges : RunOK(e)
    /\ \A u \in uploads : UploadType(u)

\* Content c is what edge e of the manifest m makes of the files of tree, and no
\* edge that is wanted makes one of them.
GroundedIn(m, tree, wanted, e, c) ==
    /\ c.cmd = m.cmd[e]
    /\ m.deps[e] \notin {"gcc", "depfile"} => DOMAIN c.in \subseteq Range(m.ins[e])
    /\ \A f \in DOMAIN c.in :
          /\ f \in Files /\ tree[f].m > 0
          /\ c.in[f] \in {tree[f].c, [tree[f].c EXCEPT !.v = @ \div 2]}
          /\ \A x \in wanted : m.out[x] # f

Grounded(e, c) == GroundedIn(M, disk, want, e, c)

\* The deps of e, as FinishCommand will find them, are what the command read.
Reported(e) ==
    M.deps[e] = "gcc" => Range(depfile[e].ins) = DOMAIN run[e].content.in

\* What a command read can be found in the key of its entry, but for what only
\* a depfile lists.
Keyed(u) ==
    M.deps[u.edge] # "depfile" =>
        DOMAIN u.content.in \subseteq Range(scan.ins[u.edge]) \union Range(u.deps)

ResultOK(e) ==
    e \notin stale =>
        /\ run[e].at = "read" => Grounded(e, run[e].content)
        /\ run[e].at = "ended" /\ run[e].hit = "no" =>
              Grounded(e, run[e].content) /\ Reported(e)

\* The edge is finished, so that it does not run again in this build.
UploadOK(u) ==
    /\ u.edge \in M.edges \ want
    /\ u.edge \notin stale => Grounded(u.edge, u.content) /\ Keyed(u)

\* With a cache, a result matches its inputs until it is uploaded or one of them
\* is changed.
ResultInv ==
    Cached => (\A e \in Edges : ResultOK(e)) /\ (\A u \in uploads : UploadOK(u))

\* Without a cache there is nothing to upload.
UploadsAreCached == uploads # {} => Cached

CacheInv ==
    TreeType /\ RunInv /\ UploadsAreCached /\ ResultInv /\ CacheEntriesMatchKeys

-----------------------------------------------------------------------------
(* The operators. *)

\* The manifest in use is one of the project's.
LEMMA ManifestFacts ==
  ASSUME project \in Projects, version \in 1..Len(project.manifests)
  PROVE  /\ IsFiniteSet(M.edges) /\ M.edges \subseteq Edges
         /\ \A e \in M.edges : /\ M.out[e] \in Files /\ M.orderOnly[e] \subseteq Files
                               /\ M.ins[e] \in Seq(Files)
<1>1. /\ M.edges \subseteq Edges /\ IsFiniteSet(Edges)
      /\ \A e \in M.edges : /\ M.out[e] \in Files /\ M.orderOnly[e] \subseteq Files
                            /\ M.ins[e] \in Seq(Files)
  BY ProjectAssumption, Zenon DEF M
<1> QED BY <1>1, FS_Subset, Zenon

\* Listing lists a set.
LEMMA Listed ==
  ASSUME NEW S, IsFiniteSet(S)
  PROVE  Listing(S) \in Seq(S) /\ Range(Listing(S)) = S
<1> DEFINE n == Cardinality(S)
           s == Listing(S)
<1>1. n \in Nat
  BY FS_CardinalityType, Zenon
<1>2. PICK g : g \in Bijection(1..n, S)
  BY FS_CardinalityType, Zenon DEF ExistsBijection
<1>3. g \in [1..n -> S] /\ Range(g) = S
  BY <1>2, Zenon DEF Bijection, Surjection, Range
<1>4. s \in [1..n -> S] /\ Range(s) = S
  BY <1>3, Zenon DEF Listing
<1> HIDE DEF s
<1>5. s \in Seq(S)
  BY <1>1, <1>4
<1> QED BY <1>4, <1>5, Zenon DEF s

\* The rounds g of Needs.
NeedsRounds(g, ins, f) ==
    /\ Needs(ins, f) = g[Cardinality(M.edges)]
    /\ g[0] = InEdges(f)
    /\ \A i \in 1..Cardinality(M.edges) : g[i] = WithInputs(ins, g[i - 1])

\* The loop of Needs is one.
LEMMA NeedsLoop ==
  ASSUME NEW ins, NEW f, IsFiniteSet(M.edges)
  PROVE  \E g : NeedsRounds(g, ins, f)
<1> DEFINE N == Cardinality(M.edges)
           Loop(h) == h = [n \in 0..N |-> IF n = 0 THEN InEdges(f)
                                          ELSE WithInputs(ins, h[n - 1])]
           needs == CHOOSE h : Loop(h)
           V == SUBSET M.edges
           D == [S \in V |-> WithInputs(ins, S)]
<1>1. N \in Nat
  BY FS_CardinalityType, Zenon
<1>2. InEdges(f) \in V /\ D \in [V -> V]
  BY Zenon DEF InEdges, WithInputs
<1>3. Needs(ins, f) = needs[N]
  BY Zenon DEF Needs
<1> HIDE DEF N, V
<1>4. PICK g \in [0..N -> V] : g[0] = InEdges(f) /\ \A i \in 1..N : g[i] = D[g[i - 1]]
  <2> DEFINE b == InEdges(f)
  <2> HIDE DEF D, b
  <2>1. b \in V
    BY <1>2, Zenon DEF b
  <2>2. \E g : Repeats(g, N, V, b, D)
    BY <1>1, <1>2, <2>1, RepeatsExists, Zenon
  <2> QED BY <2>2, Zenon DEF b, Repeats
<1>5. \A i \in 1..N : g[i] = WithInputs(ins, g[i - 1])
  <2>1. \A i \in 1..N : g[i - 1] \in V
    BY <1>1
  <2> QED BY <1>4, <2>1, Zenon
<1>6. Loop(g)
  <2>1. \A k \in 0..N : g[k] = IF k = 0 THEN InEdges(f) ELSE WithInputs(ins, g[k - 1])
    <3>1. \A k \in 0..N : k = 0 \/ k \in 1..N
      BY <1>1
    <3> QED BY <1>4, <1>5, <3>1, Zenon
  <2> QED BY <2>1, Zenon
<1>7. Loop(needs)
  <2> HIDE DEF Loop
  <2> QED BY <1>6, Zenon
<1>8. /\ needs[0] = InEdges(f)
      /\ \A i \in 1..N : needs[i] = WithInputs(ins, needs[i - 1])
  <2> HIDE DEF needs
  <2>1. 0 \in 0..N /\ \A i \in 1..N : i \in 0..N /\ i # 0
    BY <1>1
  <2> QED BY <1>7, <2>1, Zenon
<1> HIDE DEF needs
<1>9. NeedsRounds(needs, ins, f)
  BY <1>3, <1>8, Zenon DEF N, NeedsRounds
<1> QED BY <1>9, Zenon

\* Needs stays among the edges of the manifest, and has with an edge the edges
\* that make its inputs.
LEMMA NeedsFacts ==
  ASSUME NEW ins, NEW f, IsFiniteSet(M.edges)
  PROVE  /\ Needs(ins, f) \subseteq M.edges
         /\ \A e, x \in M.edges :
              M.out[e] = f /\ M.out[x] \in Range(ins[e]) \union M.orderOnly[e]
              => x \in Needs(ins, f)
<1> DEFINE N == Cardinality(M.edges)
<1>1. N \in Nat
  BY FS_CardinalityType, Zenon
<1>2. PICK g : /\ Needs(ins, f) = g[N]
               /\ g[0] = InEdges(f)
               /\ \A i \in 1..N : g[i] = WithInputs(ins, g[i - 1])
  <2>1. PICK g : NeedsRounds(g, ins, f)
    BY NeedsLoop, Zenon
  <2> QED BY <2>1, Zenon DEF NeedsRounds
<1>3. Needs(ins, f) \subseteq M.edges
  <2> DEFINE V == SUBSET M.edges
  <2>1. g[0] \in V /\ \A i \in 1..N : g[i - 1] \in V => g[i] \in V
    BY <1>2, Zenon DEF InEdges, WithInputs
  <2> HIDE DEF V, N
  <2>2. \A i \in 0..N : g[i] \in V
    BY <1>1, <2>1, StaysIn, Zenon
  <2>3. N \in 0..N
    BY <1>1
  <2> QED BY <1>2, <2>2, <2>3, Zenon DEF V
<1>4. ASSUME NEW e \in M.edges, NEW x \in M.edges, M.out[e] = f,
             M.out[x] \in Range(ins[e]) \union M.orderOnly[e]
      PROVE  x \in Needs(ins, f)
  <2> DEFINE V == {S \in SUBSET M.edges : e \in S}
  <2>1. g[0] \in V /\ \A i \in 1..N : g[i - 1] \in V => g[i] \in V
    <3>1. InEdges(f) \in V
      BY <1>4, Zenon DEF InEdges
    <3>2. \A S \in V : WithInputs(ins, S) \in V
      BY Zenon DEF WithInputs
    <3> HIDE DEF V, N
    <3> QED BY <1>2, <3>1, <3>2, Zenon
  <2>2. N # 0
    BY FS_EmptySet
  <2> HIDE DEF V, N
  <2>3. \A i \in 0..N : g[i] \in V
    BY <1>1, <2>1, StaysIn, Zenon
  <2>4. N \in 1..N /\ N - 1 \in 0..N
    BY <1>1, <2>2
  <2>5. e \in g[N - 1]
    BY <2>3, <2>4, Zenon DEF V
  <2>6. g[N] = WithInputs(ins, g[N - 1])
    BY <1>2, <2>4, Zenon
  <2>7. x \in WithInputs(ins, g[N - 1])
    BY <1>4, <2>5, Zenon DEF WithInputs
  <2> QED BY <1>2, <2>6, <2>7, Zenon
<1> QED BY <1>3, <1>4, Zenon

\* The greatest element of a set, or the same value for all sets that have none.
LEMMA MaxFacts ==
  ASSUME NEW S
  PROVE  Max(S) \in S \union {Max({})}
<1>1. CASE \E x \in S : \A y \in S : x >= y
  BY <1>1, Zenon DEF Max
<1>2. CASE ~\E x \in S : \A y \in S : x >= y
  <2>1. \A x : (x \in S /\ \A y \in S : x >= y) <=> (x \in {} /\ \A y \in {} : x >= y)
    BY <1>2, Zenon
  <2>2. Max(S) = Max({})
    BY <2>1, Zenon DEF Max
  <2> QED BY <2>2, Zenon
<1> QED BY <1>1, <1>2, Zenon

\* What UpdatePhonyMtime may set an mtime to, and what CleanNode works on.
Mtimes == {scan.mtime[f] : f \in Files} \union {-1, Max({})}

Cleanings(A) ==
    [edges : SUBSET A, nodes : SUBSET Files, mtime : [Files -> Mtimes], todo : Seq(A)]

\* Edges one of whose inputs another wanted edge makes.
AfterWanted ==
    {x \in M.edges : \E y \in (want \intersect M.edges) \ {x} :
                        M.out[y] \in Range(scan.ins[x]) \union M.orderOnly[x]}

\* One step of CleanNode, called for the output of the wanted edge a, looks only
\* at a and at such edges.
LEMMA CleanStepType ==
  ASSUME project \in Projects, version \in 1..Len(project.manifests), ScanType, NEW A,
         A \subseteq M.edges, AfterWanted \subseteq A, NEW c \in Cleanings(A)
  PROVE  CleanStep(c) \in Cleanings(A)
<1> DEFINE e == Head(c.todo)
           outs == Listing(OutEdges(M.out[e]))
           recent == Max({c.mtime[i] : i \in Range(scan.ins[e])} \union {-1})
           mtime == PhonyMtime(e, c.mtime, recent)
<1>1. CASE c.todo = <<>>
  BY <1>1, Zenon DEF CleanStep
<1>2. CASE c.todo # <<>>
  <2>1. /\ e \in A /\ Tail(c.todo) \in Seq(A) /\ c.edges \subseteq A /\ c.nodes \subseteq Files
        /\ c.mtime \in [Files -> Mtimes]
    BY <1>2 DEF Cleanings
  <2>2. CASE CleanStep(c) = [c EXCEPT !.todo = Tail(c.todo)]
    <3>1. \A t \in Seq(A) : [c EXCEPT !.todo = t] \in Cleanings(A)
      BY DEF Cleanings
    <3> QED BY <2>1, <2>2, <3>1, Zenon
  <2>3. CASE /\ e \in want
             /\ CleanStep(c) = [edges |-> c.edges \union {e}, nodes |-> c.nodes \union {M.out[e]},
                                mtime |-> mtime, todo |-> outs \o Tail(c.todo)]
    <3>1. OutEdges(M.out[e]) \subseteq A
      <4> SUFFICES ASSUME NEW x \in OutEdges(M.out[e])
                   PROVE  x \in A
        OBVIOUS
      <4>1. x \in M.edges /\ M.out[e] \in Range(scan.ins[x]) \union M.orderOnly[x]
        BY Zenon DEF OutEdges
      <4>2. x = e \/ x \in AfterWanted
        BY <2>1, <2>3, <4>1, Zenon DEF AfterWanted
      <4> QED BY <2>1, <4>2, Zenon
    <3>2. M.out[e] \in Files /\ IsFiniteSet(M.edges)
      BY <2>1, ManifestFacts, Zenon
    <3> DEFINE out == M.out[e]
               O == OutEdges(out)
    <3>3. IsFiniteSet(O)
      <4>1. O \subseteq M.edges
        BY Zenon DEF OutEdges
      <4> QED BY <3>2, <4>1, FS_Subset, Zenon
    <3>4. outs \in Seq(O)
      <4> HIDE DEF O
      <4>1. Listing(O) \in Seq(O)
        BY <3>3, Listed, Zenon
      <4> QED BY <4>1, Zenon DEF O
    <3>8. mtime \in [Files -> Mtimes]
      <4> DEFINE S == {c.mtime[i] : i \in Range(scan.ins[e])} \union {-1}
      <4>1. Range(scan.ins[e]) \subseteq Files
        <5>1. scan.ins[e] \in Seq(Files)
          BY <2>1, Zenon DEF ScanType
        <5> QED BY <5>1 DEF Range
      <4>2. S \subseteq Mtimes
        BY <2>1, <4>1, Zenon DEF Mtimes
      <4> HIDE DEF S
      <4>3. Max(S) \in Mtimes
        BY <4>2, MaxFacts, Zenon DEF Mtimes
      <4>4. recent \in Mtimes
        BY <4>3, Zenon DEF S
      <4> HIDE DEF recent, e
      <4> DEFINE old == c.mtime
      <4>5. old \in [Files -> Mtimes]
        BY <2>1, Zenon
      <4> HIDE DEF old
      <4>6. \A f \in Files : [old EXCEPT ![f] = recent] \in [Files -> Mtimes]
        BY <4>4, <4>5
      <4> QED BY <3>2, <4>5, <4>6, Zenon DEF PhonyMtime, old
    <3> HIDE DEF outs, e, out, O, mtime
    <3>5. O \subseteq A
      BY <3>1, Zenon DEF O, out
    <3>6. outs \o Tail(c.todo) \in Seq(A)
      BY <2>1, <3>4, <3>5
    <3>7. c.edges \union {e} \in SUBSET A /\ c.nodes \union {M.out[e]} \in SUBSET Files
      BY <2>1, <3>2, Zenon
    <3> QED BY <2>3, <3>6, <3>7, <3>8 DEF Cleanings
  <2> QED BY <1>2, <2>2, <2>3, Zenon DEF CleanStep
<1> QED BY <1>1, <1>2, Zenon

\* CleanNode for the output of edge a un-wants, a apart, only edges that wait for
\* another wanted edge, and keeps the mtimes a function.
LEMMA CleanNodeFacts ==
  ASSUME project \in Projects, version \in 1..Len(project.manifests), ScanType,
         NEW a \in M.edges, a \in want
  PROVE  /\ CleanNode(M.out[a]).edges \subseteq AfterWanted \union {a}
         /\ CleanNode(M.out[a]).mtime \in [Files -> Mtimes]
<1> DEFINE n == Cardinality(M.edges)
           N == n * (n + 1)
           A == AfterWanted \union {a}
           V == Cleanings(A)
           b == [edges |-> {}, nodes |-> {M.out[a]}, mtime |-> scan.mtime,
                 todo |-> Listing(OutEdges(M.out[a]))]
           D == [c \in V |-> CleanStep(c)]
           Loop(h) == h = [i \in 0..N |-> IF i = 0 THEN b ELSE CleanStep(h[i - 1])]
           clean == CHOOSE h : Loop(h)
<1>1. /\ IsFiniteSet(M.edges) /\ M.out[a] \in Files
      /\ A \subseteq M.edges /\ AfterWanted \subseteq A /\ OutEdges(M.out[a]) \subseteq A
  BY ManifestFacts, Zenon DEF AfterWanted, OutEdges
<1>2. n \in Nat
  BY <1>1, FS_CardinalityType, Zenon
<1>3. CleanNode(M.out[a]) = clean[N]
  BY Zenon DEF CleanNode
<1>4. N \in Nat
  <2> HIDE DEF n
  <2> QED BY <1>2
<1> HIDE DEF N
<1>5. D \in [V -> V]
  <2>1. \A c \in V : CleanStep(c) \in V
    <3> HIDE DEF A
    <3> QED BY <1>1, CleanStepType, Zenon
  <2> HIDE DEF V
  <2> QED BY <2>1, Zenon
<1>6. b \in V
  <2> DEFINE out == M.out[a]
             O == OutEdges(out)
  <2>1. IsFiniteSet(O) /\ O \subseteq A
    BY <1>1, FS_Subset, Zenon DEF OutEdges
  <2> HIDE DEF A, O
  <2>2. Listing(O) \in Seq(O)
    BY <2>1, Listed, Zenon
  <2>3. Listing(O) \in Seq(A)
    BY <2>1, <2>2
  <2>4. Listing(OutEdges(M.out[a])) \in Seq(A)
    BY <2>3, Zenon DEF O
  <2> HIDE DEF out
  <2>5. scan.mtime \in [Files -> Mtimes]
    BY DEF ScanType, Mtimes
  <2> QED BY <1>1, <2>4, <2>5, Zenon DEF Cleanings
<1> HIDE DEF V, b
<1>7. PICK g : Repeats(g, N, V, b, D)
  <2> HIDE DEF D
  <2> QED BY <1>4, <1>5, <1>6, RepeatsExists, Zenon
<1>8. /\ g[0] = b /\ g \in [0..N -> V]
      /\ \A i \in 1..N : g[i] = CleanStep(g[i - 1])
  <2>1. g \in [0..N -> V] /\ g[0] = b /\ \A i \in 1..N : g[i] = D[g[i - 1]]
    BY <1>7, Zenon DEF Repeats
  <2>2. \A i \in 1..N : g[i - 1] \in V
    BY <1>4, <2>1
  <2> QED BY <2>1, <2>2, Zenon
<1>9. Loop(g)
  <2>1. \A k \in 0..N : g[k] = IF k = 0 THEN b ELSE CleanStep(g[k - 1])
    <3>1. \A k \in 0..N : k = 0 \/ k \in 1..N
      BY <1>4
    <3> QED BY <1>8, <3>1, Zenon
  <2> QED BY <1>8, <2>1, Zenon
<1>10. Loop(clean)
  <2> HIDE DEF Loop
  <2> QED BY <1>9, Zenon
<1>11. clean[0] \in V /\ \A i \in 1..N : clean[i - 1] \in V => clean[i] \in V
  <2> HIDE DEF clean
  <2>1. 0 \in 0..N /\ \A i \in 1..N : i \in 0..N /\ i # 0
    BY <1>4
  <2>2. clean[0] = b /\ \A i \in 1..N : clean[i] = CleanStep(clean[i - 1])
    BY <1>10, <2>1, Zenon
  <2>3. \A c \in V : CleanStep(c) \in V
    BY <1>5, Zenon
  <2> QED BY <1>6, <2>2, <2>3, Zenon
<1> HIDE DEF clean
<1>12. clean[N] \in V
  <2>1. \A i \in 0..N : clean[i] \in V
    BY <1>4, <1>11, StaysIn, Zenon
  <2> QED BY <1>4, <2>1
<1> HIDE DEF A
<1>13. /\ CleanNode(M.out[a]).edges \subseteq A
       /\ CleanNode(M.out[a]).mtime \in [Files -> Mtimes]
  BY <1>3, <1>12, Zenon DEF V, Cleanings
<1> QED BY <1>13, Zenon DEF A

-----------------------------------------------------------------------------
(* The files and the runs of edges. *)

\* An edge that has not been started.
LEMMA IdleFacts ==
  /\ RunType(Idle) /\ Idle.at = "no"
  /\ \A at, start, action :
        LET r == [Idle EXCEPT !.at = at, !.start = start, !.action = action]
        IN  RunType(r) /\ r.at = at
<1>1. HasVersion(Missing.c)
  BY DEF Missing, HasVersion
<1>2. /\ DOMAIN Idle = {"at", "start", "action", "content", "hit", "deps"}
      /\ Idle.at = "no" /\ Idle.content = Missing.c /\ Idle.deps = <<>>
      /\ <<>> \in Seq(Files)
  BY DEF Idle
<1>3. ASSUME NEW at, NEW start, NEW action
      PROVE  LET r == [Idle EXCEPT !.at = at, !.start = start, !.action = action]
             IN  /\ DOMAIN r = {"at", "start", "action", "content", "hit", "deps"}
                 /\ r.at = at /\ r.content = Idle.content /\ r.deps = Idle.deps
  BY <1>2
<1> QED BY <1>1, <1>2, <1>3, Zenon DEF RunType

\* Updates of the record of one edge.
LEMMA AtSet ==
  ASSUME NEW r, RunType(r), NEW at
  PROVE  LET s == [r EXCEPT !.at = at]
         IN  RunType(s) /\ s.at = at /\ s.content = r.content /\ s.hit = r.hit
<1> DEFINE F == {"at", "start", "action", "content", "hit", "deps"}
<1>1. DOMAIN r = F /\ HasVersion(r.content) /\ r.deps \in Seq(Files)
  BY Zenon DEF RunType
<1>2. LET s == [r EXCEPT !.at = at]
      IN  DOMAIN s = F /\ s.at = at /\ s.content = r.content /\ s.hit = r.hit /\ s.deps = r.deps
  BY <1>1
<1> QED BY <1>1, <1>2, Zenon DEF RunType

\* In the first state.
LEMMA InitTree == Init => TreeType /\ RunInv
<1> SUFFICES ASSUME Init
             PROVE  TreeType /\ RunInv
  OBVIOUS
<1>1. version \in 1..Len(project.manifests) /\ project \in Projects
  BY ProjectAssumption DEF Init
<1>2. <<>> \in Seq(Files) /\ HasVersion(Missing.c) /\ Missing.m \in Nat /\ HasVersion(Source(0))
  BY DEF Missing, Source, HasVersion
<1>3. \A f \in Files : disk[f].m \in Nat /\ HasVersion(disk[f].c)
  <2> SUFFICES ASSUME NEW f \in Files
               PROVE  disk[f].m \in Nat /\ HasVersion(disk[f].c)
    OBVIOUS
  <2>1. disk[f] = Missing \/ disk[f] = [c |-> Source(0), m |-> 1]
    BY Zenon DEF Init
  <2>2. CASE disk[f] = Missing
    BY <1>2, <2>2, Zenon
  <2>3. CASE disk[f] = [c |-> Source(0), m |-> 1]
    <3>1. disk[f].c = Source(0) /\ disk[f].m = 1
      BY <2>3
    <3> QED BY <1>2, <3>1
  <2> QED BY <2>1, <2>2, <2>3, Zenon
<1>4. \A e \in Edges : depfile[e].ins \in Seq(Files)
  <2>1. \A e \in Edges : depfile[e] = NoDepfile
    BY Zenon DEF Init
  <2>2. NoDepfile.ins = <<>>
    BY DEF NoDepfile
  <2> QED BY <1>2, <2>1, <2>2, Zenon
<1>5. \A f \in Files : depsLog[f].nodes \in Seq(Files)
  <2>1. \A f \in Files : depsLog[f] = NoDeps
    BY Zenon DEF Init
  <2>2. NoDeps.nodes = <<>>
    BY DEF NoDeps
  <2> QED BY <1>2, <2>1, <2>2, Zenon
<1>6. TreeType
  <2>1. DOMAIN disk = Files /\ DOMAIN depfile = Edges /\ DOMAIN depsLog = Files
    BY Zenon DEF Init
  <2>2. clock \in Nat \ {0} /\ actionCache = {}
    BY DEF Init
  <2> QED BY <1>1, <1>3, <1>4, <1>5, <2>1, <2>2, Zenon DEF TreeType, DiskType, DepsType, CacheType
<1>7. RunInv
  <2>1. DOMAIN run = Edges /\ \A e \in Edges : run[e] = Idle
    BY Zenon DEF Init
  <2>2. \A e \in Edges : RunType(run[e]) /\ run[e].at = "no"
    BY <2>1, IdleFacts, Zenon
  <2>3. \A e \in Edges : RunOK(e)
    BY <2>2 DEF RunOK
  <2>4. want = {} /\ uploads = {} /\ phase = "idle"
    BY Zenon DEF Init
  <2> QED BY <2>1, <2>2, <2>3, <2>4, Zenon DEF RunInv
<1> QED BY <1>6, <1>7, Zenon

\* A step leaves every file but f alone.
OnlyWrites(f) == \A x \in Files : x # f => disk'[x] = disk[x]

\* A file is written, or removed.
LEMMA FileWritten ==
  ASSUME DiskType, NEW f, NEW c, NEW m, f \in Files => HasVersion(c) /\ m \in Nat,
         disk' = [disk EXCEPT ![f] = [c |-> c, m |-> m]]
  PROVE  DiskType' /\ OnlyWrites(f)
<1>1. DOMAIN disk' = Files /\ \A x \in Files : x # f => disk'[x] = disk[x]
  BY DEF DiskType
<1>2. ASSUME f \in Files
      PROVE  disk'[f].m \in Nat /\ HasVersion(disk'[f].c)
  <2>1. disk'[f] = [c |-> c, m |-> m]
    BY <1>2 DEF DiskType
  <2>2. disk'[f].m = m /\ disk'[f].c = c
    BY <2>1
  <2> QED BY <1>2, <2>2, Zenon
<1>3. \A x \in Files : disk'[x].m \in Nat /\ HasVersion(disk'[x].c)
  BY <1>1, <1>2, Zenon DEF DiskType
<1> QED BY <1>1, <1>3, Zenon DEF DiskType, OnlyWrites

\* Missing is the record it is.
LEMMA MissingFacts ==
  /\ Missing = [c |-> Missing.c, m |-> 0] /\ HasVersion(Missing.c) /\ Missing.m = 0
  /\ HasVersion(Source(0))
  /\ NoDepfile.ins = <<>> /\ <<>> \in Seq(Files)
BY DEF Missing, Source, HasVersion, NoDepfile

\* Files are removed by a clean tool or by Cleanup.
LEMMA FilesRemoved ==
  ASSUME DiskType, DepsType, NEW files, RemoveFiles(files), UNCHANGED depsLog
  PROVE  DiskType' /\ DepsType'
<1>1. /\ DOMAIN disk' = Files /\ DOMAIN depfile' = Edges
      /\ \A f \in Files : disk'[f] = Missing \/ disk'[f] = disk[f]
      /\ \A e \in Edges : depfile'[e] = NoDepfile \/ depfile'[e] = depfile[e]
  BY Zenon DEF RemoveFiles
<1>2. Missing.m \in Nat
  BY MissingFacts
<1>3. DiskType'
  BY <1>1, <1>2, MissingFacts, Zenon DEF DiskType
<1>4. DepsType'
  BY <1>1, MissingFacts, Zenon DEF DepsType
<1> QED BY <1>3, <1>4, Zenon

\* What the user does keeps the types.
LEMMA UserTree ==
  ASSUME TreeType, User
  PROVE  TreeType'
<1>1. ASSUME NEW f \in Editable, Edit(f)
      PROVE  TreeType'
  <2> DEFINE c == IF disk[f].m = 0 THEN Source(0) ELSE [disk[f].c EXCEPT !.v = @ + 1]
  <2>1. clock' \in Nat \ {0}
    BY <1>1 DEF Edit, TreeType
  <2>2. ASSUME f \in Files
        PROVE  HasVersion(c)
    <3>1. CASE disk[f].m = 0
      BY <3>1, MissingFacts, Zenon
    <3>2. CASE disk[f].m # 0
      <4> DEFINE old == disk[f].c
      <4>1. HasVersion(old) /\ old.v < 2
        BY <1>1, <2>2, <3>2, Zenon DEF TreeType, DiskType, Edit
      <4> HIDE DEF old
      <4>2. HasVersion([old EXCEPT !.v = @ + 1])
        BY <4>1 DEF HasVersion
      <4> QED BY <3>2, <4>2, Zenon DEF old
    <3> QED BY <3>1, <3>2, Zenon
  <2> DEFINE m == clock'
  <2>3. disk' = [disk EXCEPT ![f] = [c |-> c, m |-> m]] /\ DiskType
    BY <1>1, Zenon DEF Edit, Touch, TreeType
  <2>4. m \in Nat
    BY <2>1
  <2> HIDE DEF c, m
  <2>5. DiskType'
    BY <2>2, <2>3, <2>4, FileWritten, Zenon
  <2>6. UNCHANGED <<project, version, depfile, depsLog, actionCache>>
    BY <1>1, Zenon DEF Edit
  <2> QED BY <2>1, <2>5, <2>6 DEF TreeType, DepsType, CacheType
<1>2. ASSUME NEW f \in Deletable, Delete(f)
      PROVE  TreeType'
  <2> DEFINE c == Missing.c
             m == 0
  <2>1. disk' = [disk EXCEPT ![f] = [c |-> c, m |-> m]] /\ DiskType
    BY <1>2, MissingFacts, Zenon DEF Delete, TreeType
  <2>2. HasVersion(c) /\ m \in Nat
    BY MissingFacts
  <2> HIDE DEF c, m
  <2>3. DiskType'
    BY <2>1, <2>2, FileWritten, Zenon
  <2>4. UNCHANGED <<project, version, clock, depfile, depsLog, actionCache>>
    BY <1>2, Zenon DEF Delete
  <2> QED BY <2>3, <2>4 DEF TreeType, DepsType, CacheType
<1>3. CASE ChangeManifest
  <2>1. UNCHANGED <<project, disk, depfile, depsLog, actionCache, clock>>
    BY <1>3, Zenon DEF ChangeManifest
  <2>2. version' \in 1..Len(project.manifests)
    <3> DEFINE n == Len(project.manifests)
    <3>1. version' \in (version + 1)..n /\ version \in 1..n
      BY <1>3, Zenon DEF ChangeManifest, TreeType
    <3>2. n \in Nat
      BY ProjectAssumption, Zenon DEF TreeType
    <3> HIDE DEF n
    <3>3. version' \in 1..n
      BY <3>1, <3>2
    <3> QED BY <3>3, Zenon DEF n
  <2> QED BY <2>1, <2>2 DEF TreeType, DiskType, DepsType, CacheType
<1>4. ASSUME NEW files, ToolClean(files)
      PROVE  TreeType'
  <2>1. /\ RemoveFiles(files) /\ DiskType /\ DepsType
        /\ UNCHANGED <<project, version, depsLog, actionCache, clock>>
    BY <1>4, Zenon DEF ToolClean, TreeType
  <2>2. DiskType' /\ DepsType'
    BY <2>1, FilesRemoved, Zenon
  <2> QED BY <2>1, <2>2 DEF TreeType, CacheType
<1> QED BY <1>1, <1>2, <1>3, <1>4, Zenon DEF User

\* The clock only goes on.
LEMMA TreeSame ==
  ASSUME TreeType, UNCHANGED <<project, version, disk, depfile, depsLog, actionCache>>,
         clock' = clock \/ clock' = clock + 1
  PROVE  TreeType'
<1>1. clock' \in Nat \ {0}
  BY DEF TreeType
<1> QED BY <1>1 DEF TreeType, DiskType, DepsType, CacheType

\* An output is written, by the command or from the cache.
LEMMA OutputWritten ==
  ASSUME TreeType, NEW f, NEW c, HasVersion(c), clock' = clock + 1, Touch(f, c)
  PROVE  clock' \in Nat \ {0} /\ DiskType' /\ OnlyWrites(f)
<1>1. clock' \in Nat \ {0}
  BY DEF TreeType
<1> DEFINE m == clock'
<1>2. /\ disk' = [disk EXCEPT ![f] = [c |-> c, m |-> m]] /\ DiskType
      /\ f \in Files => HasVersion(c) /\ m \in Nat
  BY <1>1, Zenon DEF Touch, TreeType
<1> HIDE DEF m
<1>3. DiskType' /\ OnlyWrites(f)
  BY <1>2, FileWritten, Zenon
<1> QED BY <1>1, <1>3, Zenon

\* A depfile is written or removed.
LEMMA DepfileWritten ==
  ASSUME DepsType, NEW e \in Edges, NEW d, d.ins \in Seq(Files), UNCHANGED depsLog,
         depfile' = [depfile EXCEPT ![e] = d]
  PROVE  DepsType' /\ depfile'[e] = d /\ \A x \in Edges : x # e => depfile'[x] = depfile[x]
<1>1. /\ DOMAIN depfile' = Edges /\ depfile'[e] = d
      /\ \A x \in Edges : x # e => depfile'[x] = depfile[x]
  BY DEF DepsType
<1> QED BY <1>1, Zenon DEF DepsType

\* The steps of one edge keep the types.
LEMMA EdgeTree ==
  ASSUME TreeType, RunInv, NEW e \in M.edges,
         \/ FinishPhony(e) \/ StartEdge(e) \/ Miss(e) \/ Hit(e) \/ Read(e) \/ WriteOutput(e)
         \/ FinishCommand(e) \/ RecordDeps(e) \/ FinishFailed(e)
  PROVE  TreeType'
<1>1. /\ e \in Edges /\ M.out[e] \in Files /\ RunOK(e) /\ RunType(run[e])
      /\ DiskType /\ DepsType /\ CacheType
      /\ version \in 1..Len(project.manifests) /\ project \in Projects
      /\ clock \in Nat \ {0}
  <2>1. project \in Projects /\ version \in 1..Len(project.manifests)
    BY Zenon DEF TreeType
  <2>2. e \in Edges /\ M.out[e] \in Files
    BY <2>1, ManifestFacts, Zenon
  <2> QED BY <2>1, <2>2, Zenon DEF TreeType, RunInv, RunOK
<1>2. CASE FinishPhony(e) \/ StartEdge(e) \/ Miss(e) \/ Read(e)
  <2>1. /\ UNCHANGED <<project, version, disk, depfile, depsLog, actionCache>>
        /\ clock' = clock \/ clock' = clock + 1
    BY <1>2, Zenon DEF FinishPhony, StartEdge, Miss, Read, treeVars
  <2> QED BY <2>1, TreeSame, Zenon
<1>3. CASE Hit(e)
  <2>1. UNCHANGED <<project, version, depfile, depsLog, actionCache>>
    BY <1>3, Zenon DEF Hit
  <2>2. PICK r \in Results(e) :
          \/ r.kind = "full" /\ clock' = clock + 1 /\ Touch(M.out[e], r.content)
          \/ UNCHANGED <<clock, disk>>
    BY <1>3, Zenon DEF Hit
  <2>3. r \in actionCache
    BY Zenon DEF Results, Hits, DownloadActionResult
  <2>4. CASE r.kind = "full" /\ clock' = clock + 1 /\ Touch(M.out[e], r.content)
    <3> DEFINE f == M.out[e]
               c == r.content
    <3>1. HasVersion(c) /\ clock' = clock + 1 /\ Touch(f, c)
      BY <1>1, <2>3, <2>4, Zenon DEF CacheType
    <3> HIDE DEF f, c
    <3>2. clock' \in Nat \ {0} /\ DiskType'
      BY <3>1, OutputWritten, Zenon
    <3> QED BY <1>1, <2>1, <3>2 DEF TreeType, DepsType, CacheType
  <2>5. CASE UNCHANGED <<clock, disk>>
    BY <2>1, <2>5, TreeSame, Zenon
  <2> QED BY <2>2, <2>4, <2>5, Zenon
<1>4. CASE WriteOutput(e)
  <2> DEFINE in == DOMAIN run[e].content.in
  <2>1. UNCHANGED <<project, version, depsLog, actionCache>> /\ run[e].at = "read"
    BY <1>4, Zenon DEF WriteOutput
  <2>2. clock' \in Nat \ {0} /\ DiskType'
    <3>1. CASE UNCHANGED <<clock, disk>>
      BY <1>1, <3>1 DEF DiskType
    <3>2. CASE clock' = clock + 1 /\ Touch(M.out[e], run[e].content)
      <4> DEFINE f == M.out[e]
                 c == run[e].content
      <4>1. HasVersion(c) /\ clock' = clock + 1 /\ Touch(f, c)
        BY <1>1, <3>2, Zenon DEF RunType
      <4> HIDE DEF f, c
      <4> QED BY <4>1, OutputWritten, Zenon
    <3> QED BY <1>4, <3>1, <3>2, Zenon DEF WriteOutput
  <2>3. DepsType'
    <3>1. CASE depfile' = depfile
      BY <1>1, <2>1, <3>1 DEF DepsType
    <3>2. CASE depfile' = [depfile EXCEPT ![e] = [exists |-> TRUE, ins |-> Listing(in)]]
      <4>1. in \subseteq Files /\ IsFiniteSet(in)
        BY <1>1, <2>1, ProjectAssumption, FS_Subset, Zenon DEF RunOK
      <4> HIDE DEF in
      <4>2. Listing(in) \in Seq(in)
        BY <4>1, Listed, Zenon
      <4> DEFINE s == Listing(in)
                 d == [exists |-> TRUE, ins |-> s]
      <4>3. s \in Seq(Files)
        BY <4>1, <4>2
      <4> HIDE DEF s
      <4>4. d.ins \in Seq(Files)
        BY <4>3
      <4>5. depfile' = [depfile EXCEPT ![e] = d]
        BY <3>2, Zenon DEF s
      <4> HIDE DEF d
      <4> QED BY <1>1, <2>1, <4>4, <4>5, DepfileWritten, Zenon
    <3> QED BY <1>4, <3>1, <3>2, Zenon DEF WriteOutput
  <2> QED BY <1>1, <2>1, <2>2, <2>3 DEF TreeType, CacheType
<1>5. CASE FinishCommand(e) \/ FinishFailed(e)
  <2>1. /\ UNCHANGED <<project, version, disk, depsLog, actionCache, clock>>
        /\ depfile' = IF M.deps[e] = "gcc" THEN [depfile EXCEPT ![e] = NoDepfile] ELSE depfile
    BY <1>5, Zenon DEF FinishCommand, FinishFailed
  <2>2. DepsType'
    <3>1. CASE depfile' = depfile
      BY <1>1, <2>1, <3>1 DEF DepsType
    <3>2. CASE depfile' = [depfile EXCEPT ![e] = NoDepfile]
      BY <1>1, <2>1, <3>2, MissingFacts, DepfileWritten, Zenon
    <3> QED BY <2>1, <3>1, <3>2, Zenon
  <2> QED BY <1>1, <2>1, <2>2 DEF TreeType, DiskType, CacheType
<1>6. CASE RecordDeps(e)
  <2> DEFINE d == [mtime |-> disk[M.out[e]].m, nodes |-> run[e].deps]
             f == M.out[e]
  <2>1. /\ UNCHANGED <<project, version, disk, depfile, actionCache, clock>>
        /\ depsLog' = [depsLog EXCEPT ![f] = d]
    BY <1>6, Zenon DEF RecordDeps
  <2>2. d.nodes \in Seq(Files)
    <3>1. run[e].deps \in Seq(Files)
      BY <1>1, Zenon DEF RunType
    <3> QED BY <3>1
  <2> HIDE DEF d, f
  <2>3. DOMAIN depsLog' = Files /\ \A x \in Files : depsLog'[x] = d \/ depsLog'[x] = depsLog[x]
    BY <1>1, <2>1 DEF DepsType
  <2>4. DepsType'
    BY <1>1, <2>1, <2>2, <2>3, Zenon DEF DepsType
  <2> QED BY <1>1, <2>1, <2>4 DEF TreeType, DiskType, CacheType
<1> QED BY <1>2, <1>3, <1>4, <1>5, <1>6, Zenon

\* r is the entry as it is stored, under its own key or that of no action.
Stored(r, entry, sound) ==
    \/ r = [entry EXCEPT !.sound = sound]
    \/ r = [[entry EXCEPT !.sound = sound] EXCEPT !.key = NilAction]

\* The key of u's result says what its command read.
Sound(u) == u.edge \notin stale /\ M.deps[u.edge] # "depfile"

\* If r is a full entry, it is the one of content under the key all or no action.
StoredFull(r, all, content, sound) ==
    r.kind = "full" =>
       r.content = content /\ r.sound = sound /\ (r.key = all \/ r.key = NilAction)

\* What is stored of a full entry, and of a pointer.
LEMMA StoredFacts ==
  ASSUME NEW r, NEW sound
  PROVE  /\ \A all, content : Stored(r, Full(all, content), sound) =>
               /\ r.content = content /\ r.sound = sound
               /\ r.key = all \/ r.key = NilAction
         /\ \A action, paths : Stored(r, Pointer(action, paths), sound) => r.kind # "full"
<1> DEFINE nil == NilAction
           fields == {"key", "kind", "content", "paths", "sound"}
<1>1. ASSUME NEW p, DOMAIN p = fields, Stored(r, p, sound)
      PROVE  /\ r.content = p.content /\ r.kind = p.kind /\ r.sound = sound
             /\ r.key = p.key \/ r.key = nil
  <2> DEFINE q == [p EXCEPT !.sound = sound]
  <2>1. r = q \/ r = [q EXCEPT !.key = nil]
    BY <1>1, Zenon DEF Stored
  <2>2. /\ DOMAIN q = fields /\ q.sound = sound
        /\ q.content = p.content /\ q.kind = p.kind /\ q.key = p.key
    BY <1>1
  <2> HIDE DEF q, nil
  <2> QED BY <2>1, <2>2
<1>2. ASSUME NEW all, NEW content
      PROVE  /\ DOMAIN Full(all, content) = fields
             /\ Full(all, content).content = content /\ Full(all, content).key = all
  BY DEF Full
<1>3. ASSUME NEW action, NEW paths
      PROVE  DOMAIN Pointer(action, paths) = fields /\ Pointer(action, paths).kind # "full"
  <2> DEFINE none == Missing.c
             p == Pointer(action, paths)
  <2>1. p = [key |-> action, kind |-> "pointer", content |-> none, paths |-> paths,
             sound |-> TRUE]
    BY Zenon DEF Pointer
  <2> HIDE DEF none, p
  <2>2. DOMAIN p = fields /\ p.kind # "full"
    BY <2>1
  <2> QED BY <2>2, Zenon DEF p
<1>4. ASSUME NEW all, NEW content, Stored(r, Full(all, content), sound)
      PROVE  r.content = content /\ r.sound = sound /\ (r.key = all \/ r.key = nil)
  <2> DEFINE p == Full(all, content)
  <2>1. DOMAIN p = fields /\ Stored(r, p, sound) /\ p.content = content /\ p.key = all
    BY <1>2, <1>4, Zenon
  <2> HIDE DEF p, fields
  <2> QED BY <1>1, <2>1, Zenon
<1>5. ASSUME NEW action, NEW paths, Stored(r, Pointer(action, paths), sound)
      PROVE  r.kind # "full"
  <2> DEFINE p == Pointer(action, paths)
  <2>1. DOMAIN p = fields /\ Stored(r, p, sound) /\ p.kind # "full"
    BY <1>3, <1>5, Zenon
  <2> HIDE DEF p, fields
  <2> QED BY <1>1, <2>1, Zenon
<1> QED BY <1>4, <1>5, Zenon

\* A step of an upload goes on, puts one entry into the cache, or ends it.
LEMMA UploadFacts ==
  ASSUME NEW u \in uploads, Upload(u)
  PROVE  LET results == ActionResults(u.edge, scan.ins[u.edge], u.deps, u.content)
         IN  /\ UNCHANGED <<project, version, disk, depfile, log, depsLog, clock, phase, scan,
                            want, run, stale>>
             /\ \A r \in actionCache' : r \in actionCache \/ Stored(r, results[u.i], Sound(u))
             /\ \A x \in uploads' : \/ x \in uploads
                                    \/ u.i < Len(results) /\ x = [u EXCEPT !.i = @ + 1]
BY Zenon DEF Upload, UploadActionResult, Stored, Sound

\* Where the entries are in results: the full one has the key all, and comes
\* second if there are deps.
Placed(results, all, deps, content) ==
    /\ \/ results[1] = Full(all, content)
       \/ \E action, paths : results[1] = Pointer(action, paths)
    /\ Range(deps) = {} => Len(results) = 1
    /\ Range(deps) # {} => Len(results) = 2 /\ results[2] = Full(all, content)

\* In what uploadActionResult uploads, the key of the full entry has all inputs.
LEMMA ResultFacts ==
  ASSUME NEW e, NEW ins, NEW deps, NEW content
  PROVE  Placed(ActionResults(e, ins, deps, content),
                Action(e, Range(ins) \union Range(deps)), deps, content)
<1> DEFINE static == StaticInputs(e, ins)
           dynamic == DynamicInputs(ins)
           d == Range(deps)
           results == ActionResults(e, ins, deps, content)
           all == Action(e, Range(ins) \union Range(deps))
<1>1. static \union dynamic = Range(ins)
  BY Zenon DEF StaticInputs, DynamicInputs
<1>3. CASE dynamic = {} /\ d = {}
  <2>1. results = <<Full(Action(e, static), content)>>
    BY <1>3, Zenon DEF ActionResults
  <2>2. static = Range(ins) \union Range(deps)
    BY <1>1, <1>3, Zenon
  <2>3. results = <<Full(all, content)>>
    BY <2>1, <2>2, Zenon
  <2> HIDE DEF results, all
  <2>4. results[1] = Full(all, content) /\ Len(results) = 1
    BY <2>3
  <2> QED BY <1>3, <2>4, Zenon DEF results, all, Placed
<1>4. CASE dynamic # {} /\ d = {}
  <2> DEFINE p == Pointer(Action(e, static), dynamic)
  <2>1. results = <<p>>
    BY <1>4, Zenon DEF ActionResults
  <2> HIDE DEF results, p
  <2>2. results[1] = p /\ Len(results) = 1
    BY <2>1
  <2> QED BY <1>4, <2>2, Zenon DEF results, p, Placed
<1>5. CASE d # {}
  <2>1. PICK paths : results = <<Pointer(Action(e, static), paths),
                                 Full(Action(e, static \union dynamic \union d), content)>>
    BY <1>5, Zenon DEF ActionResults
  <2> DEFINE p == Pointer(Action(e, static), paths)
             q == Full(all, content)
  <2>2. results = <<p, q>>
    BY <1>1, <2>1, Zenon
  <2> HIDE DEF results, p, q
  <2>3. results[1] = p /\ Len(results) = 2 /\ results[2] = q
    BY <2>2
  <2> QED BY <1>5, <2>3, Zenon DEF results, p, q, Placed
<1> QED BY <1>3, <1>4, <1>5, Zenon

\* A full entry that an upload stores has the content of the upload, and its key
\* has all inputs or is that of no action.
LEMMA FullStored ==
  ASSUME NEW results, NEW all, NEW deps, NEW c, NEW r, NEW i, NEW s,
         Placed(results, all, deps, c), Stored(r, results[i], s),
         i = 1 \/ (i = 2 /\ Range(deps) # {})
  PROVE  StoredFull(r, all, c, s)
<1>1. results[i] = Full(all, c) \/ \E action, paths : results[i] = Pointer(action, paths)
  BY Zenon DEF Placed
<1> QED BY <1>1, StoredFacts, Zenon DEF StoredFull

\* The entry that upload u stores.
LEMMA UploadStored ==
  ASSUME NEW u, UploadType(u), NEW results, NEW all, NEW r,
         Placed(results, all, u.deps, u.content), Stored(r, results[u.i], Sound(u))
  PROVE  StoredFull(r, all, u.content, Sound(u))
<1> DEFINE deps == u.deps
           i == u.i
           c == u.content
           s == Sound(u)
<1>1. /\ Placed(results, all, deps, c) /\ Stored(r, results[i], s)
      /\ i = 1 \/ (i = 2 /\ Range(deps) # {})
  BY Zenon DEF UploadType
<1> HIDE DEF deps, i, c, s
<1>2. StoredFull(r, all, c, s)
  BY <1>1, FullStored, Zenon
<1> QED BY <1>2, Zenon DEF c, s

\* Reset, at the end of a build.
LEMMA ResetRun ==
  ASSUME Reset
  PROVE  RunInv'
<1>1. DOMAIN run' = Edges /\ \A e \in Edges : run'[e] = Idle
  BY Zenon DEF Reset
<1>2. \A e \in Edges : RunType(run'[e]) /\ run'[e].at = "no"
  BY <1>1, IdleFacts, Zenon
<1>3. \A e \in Edges : RunOK(e)'
  BY <1>2 DEF RunOK
<1>4. want' = {} /\ uploads' = {} /\ phase' = "idle"
  BY Zenon DEF Reset
<1> QED BY <1>1, <1>2, <1>3, <1>4, Zenon DEF RunInv

\* The types are kept by every step.
LEMMA NextTree ==
  ASSUME TreeType, RunInv, [Next]_vars
  PROVE  TreeType'
<1>1. CASE User
  BY <1>1, UserTree, Zenon
<1>2. CASE StartBuild \/ EndBuild \/ Crash \/ Terminated \/ UNCHANGED vars
  <2>1. UNCHANGED <<project, version, disk, depfile, depsLog, actionCache, clock>>
    BY <1>2, Zenon DEF StartBuild, EndBuild, Crash, Terminated, treeVars, vars
  <2> QED BY <2>1, TreeSame, Zenon
<1>3. ASSUME NEW e \in M.edges,
             \/ FinishPhony(e) \/ StartEdge(e) \/ Miss(e) \/ Hit(e) \/ Read(e)
             \/ WriteOutput(e) \/ FinishCommand(e) \/ RecordDeps(e) \/ FinishFailed(e)
      PROVE  TreeType'
  BY <1>3, EdgeTree, Zenon
<1>4. ASSUME NEW u \in uploads, Upload(u)
      PROVE  TreeType'
  <2> DEFINE results == ActionResults(u.edge, scan.ins[u.edge], u.deps, u.content)
  <2>1. /\ UNCHANGED <<project, version, disk, depfile, depsLog, clock>>
        /\ \A r \in actionCache' : r \in actionCache \/ Stored(r, results[u.i], Sound(u))
    BY <1>4, UploadFacts, Zenon
  <2>2. ASSUME NEW r \in actionCache', r.kind = "full"
        PROVE  HasVersion(r.content)
    <3>1. CASE r \in actionCache
      BY <2>2, <3>1, Zenon DEF TreeType, CacheType
    <3>2. CASE Stored(r, results[u.i], Sound(u))
      <4>1. UploadType(u) /\ HasVersion(u.content)
        BY Zenon DEF RunInv, UploadType
      <4> DEFINE all == Action(u.edge, Range(scan.ins[u.edge]) \union Range(u.deps))
      <4>2. Placed(results, all, u.deps, u.content)
        BY ResultFacts, Zenon
      <4> HIDE DEF all, results
      <4>3. StoredFull(r, all, u.content, Sound(u))
        BY <3>2, <4>1, <4>2, UploadStored, Zenon
      <4> QED BY <2>2, <4>1, <4>3, Zenon DEF StoredFull
    <3> QED BY <2>1, <3>1, <3>2, Zenon
  <2> QED BY <2>1, <2>2 DEF TreeType, DiskType, DepsType, CacheType
<1>5. CASE Interrupt
  <2>1. /\ UNCHANGED <<project, version, depsLog, actionCache, clock>>
        /\ \E files : RemoveFiles(files)
    BY <1>5, Zenon DEF Interrupt
  <2>2. DiskType' /\ DepsType'
    BY <2>1, FilesRemoved, Zenon DEF TreeType
  <2> QED BY <2>1, <2>2 DEF TreeType, CacheType
<1> QED BY <1>1, <1>2, <1>3, <1>4, <1>5, Zenon DEF Next, Build

\* Nothing that RunInv looks at changes.
LEMMA RunSame ==
  ASSUME RunInv, UNCHANGED <<project, version, phase, scan, want, run, uploads>>
  PROVE  RunInv'
BY DEF RunInv, RunOK, Started, ScanType, M

\* A step of edge e in a build.
LEMMA RunStep ==
  ASSUME RunInv, NEW e \in Edges, UNCHANGED <<project, version, phase>>,
         scan'.ins = scan.ins, ScanType', phase # "idle", want' \subseteq want,
         \A x \in Edges : x # e /\ run[x].at \notin {"no", "logged"} => x \in want',
         DOMAIN run' = Edges, \A x \in Edges : x # e => run'[x] = run[x],
         RunOK(e)', \A u \in uploads' : UploadType(u)
  PROVE  RunInv'
<1>1. M' = M
  BY Zenon DEF M
<1>2. ASSUME NEW x \in Edges, x # e
      PROVE  RunOK(x)'
  <2>1. RunOK(x) /\ run'[x] = run[x]
    BY <1>2, Zenon DEF RunInv
  <2>2. ASSUME run[x].at \notin {"no", "logged"}
        PROVE  Started(x)'
    BY <1>1, <1>2, <2>1, <2>2, Zenon DEF RunOK, Started
  <2> QED BY <1>1, <2>1, <2>2, Zenon DEF RunOK
<1>3. \A x \in Edges : RunOK(x)'
  BY <1>2, Zenon
<1> QED BY <1>1, <1>3, Zenon DEF RunInv

\* The record of one edge is set.
LEMMA RunSet ==
  ASSUME DOMAIN run = Edges, NEW e \in Edges, NEW r, run' = [run EXCEPT ![e] = r]
  PROVE  DOMAIN run' = Edges /\ run'[e] = r /\ \A x \in Edges : x # e => run'[x] = run[x]
OBVIOUS

\* What a command makes.
LEMMA MadeFacts ==
  ASSUME NEW e, NEW contents
  PROVE  /\ Made(e, contents).cmd = M.cmd[e] /\ HasVersion(Made(e, contents))
         /\ DOMAIN Made(e, contents).in = Reads(e, contents[M.ins[e][1]])
         /\ \A f \in Reads(e, contents[M.ins[e][1]]) : Made(e, contents).in[f] = View(e, contents[f])
<1> DEFINE in == [f \in Reads(e, contents[M.ins[e][1]]) |-> View(e, contents[f])]
           cmd == M.cmd[e]
<1>1. Made(e, contents) = [cmd |-> cmd, v |-> 0, in |-> in]
  BY Zenon DEF Made
<1>2. /\ DOMAIN in = Reads(e, contents[M.ins[e][1]])
      /\ \A f \in Reads(e, contents[M.ins[e][1]]) : in[f] = View(e, contents[f])
  BY Zenon
<1> DEFINE made == [cmd |-> cmd, v |-> 0, in |-> in]
<1> HIDE DEF in, cmd
<1>3. made.cmd = cmd /\ made.in = in /\ "v" \in DOMAIN made /\ made.v \in 0..2
  OBVIOUS
<1> HIDE DEF made
<1>4. Made(e, contents) = made
  BY <1>1, Zenon DEF made
<1> QED BY <1>2, <1>3, <1>4, Zenon DEF HasVersion, cmd

\* What a command that runs reads are files.
LEMMA ReadsFacts ==
  ASSUME TreeType, NEW e \in M.edges \ M.phony
  PROVE  LET first == disk[M.ins[e][1]].c IN
         /\ M.ins[e][1] \in Files /\ first.v \in 0..2
         /\ Contents[M.ins[e][1]] = first
         /\ Reads(e, first) \subseteq Files
         /\ Reads(e, first) \subseteq Range(M.ins[e]) \union project.includes[e][first.v]
<1> DEFINE first == disk[M.ins[e][1]].c
           ins == M.ins[e]
<1>1. /\ project \in Projects /\ version \in 1..Len(project.manifests)
      /\ ins \in Seq(Files)
  BY ManifestFacts, Zenon DEF TreeType
<1>2. project.includes[e] \in [0..2 -> SUBSET Files] /\ ins # <<>>
  <2>1. \A x \in M.edges : /\ project.includes[x] \in [0..2 -> SUBSET Files]
                           /\ x \in M.phony \/ M.ins[x] # <<>>
    <3>1. GoodCommands(project, M)
      BY <1>1, CommandAssumption, Zenon DEF M
    <3> QED BY <3>1, Zenon DEF GoodCommands
  <2> QED BY <2>1, Zenon
<1>3. ins[1] \in Files /\ Range(ins) \subseteq Files
  <2> HIDE DEF ins
  <2> QED BY <1>1, <1>2 DEF Range
<1>4. HasVersion(first) /\ Contents[ins[1]] = first
  BY <1>3, Zenon DEF TreeType, DiskType, Contents
<1> HIDE DEF first
<1>5. first.v \in 0..2 /\ project.includes[e][first.v] \subseteq Files
  BY <1>2, <1>4, Zenon DEF HasVersion
<1>6. Reads(e, first) \subseteq Range(M.ins[e]) \union project.includes[e][first.v]
  BY Zenon DEF Reads
<1> QED BY <1>3, <1>4, <1>5, <1>6, Zenon DEF first

\* The steps of one edge before its command has ended.
LEMMA RunBefore ==
  ASSUME TreeType, RunInv, NEW e \in M.edges,
         FinishPhony(e) \/ StartEdge(e) \/ Miss(e) \/ Hit(e) \/ Read(e) \/ WriteOutput(e)
  PROVE  RunInv'
<1>1. /\ e \in Edges /\ RunOK(e) /\ RunType(run[e]) /\ DOMAIN run = Edges
      /\ project \in Projects /\ version \in 1..Len(project.manifests) /\ IsFiniteSet(M.edges)
      /\ \A u \in uploads : UploadType(u)
      /\ want \subseteq M.edges
      /\ run[e].at # "no" => phase # "idle"
      /\ phase # "idle" => ScanType
  <2>1. project \in Projects /\ version \in 1..Len(project.manifests)
    BY Zenon DEF TreeType
  <2>2. e \in Edges /\ IsFiniteSet(M.edges)
    BY <2>1, ManifestFacts, Zenon
  <2> QED BY <2>1, <2>2, Zenon DEF RunInv, RunOK
<1>2. /\ UNCHANGED <<project, version, phase, scan, uploads>> /\ M' = M
  <2>1. UNCHANGED <<project, version, phase, scan, uploads>>
    BY Zenon DEF FinishPhony, StartEdge, Miss, Hit, Read, WriteOutput, treeVars
  <2> QED BY <2>1, Zenon DEF M
<1>11. phase # "idle" => ScanType'
  BY <1>1, <1>2, Zenon DEF ScanType
<1>3. \A x \in Edges : run[x].at \notin {"no", "logged"} => x \in want
  BY Zenon DEF RunInv, RunOK, Started
<1>4. CASE FinishPhony(e)
  <2>1. phase # "idle" /\ want' = want \ {e} /\ run' = run /\ run[e].at = "no"
    BY <1>4 DEF FinishPhony, Ready, Running
  <2>2. RunOK(e)'
    BY <1>1, <2>1 DEF RunOK
  <2>3. /\ want' \subseteq want
        /\ \A x \in Edges : x # e /\ run[x].at \notin {"no", "logged"} => x \in want'
        /\ DOMAIN run' = Edges /\ \A x \in Edges : x # e => run'[x] = run[x]
        /\ \A u \in uploads' : UploadType(u)
    BY <1>1, <1>2, <1>3, <2>1, Zenon
  <2> QED BY <1>1, <1>2, <1>11, <2>1, <2>2, <2>3, RunStep, Zenon
<1>5. CASE StartEdge(e)
  <2> DEFINE at == IF Cached THEN "lookup" ELSE "spawned"
             start == clock'
             action == Action(e, Range(scan.ins[e]))
             r == [Idle EXCEPT !.at = at, !.start = start, !.action = action]
  <2>1. /\ phase # "idle" /\ want' = want /\ Ready(e) /\ e \notin M.phony
        /\ run' = [run EXCEPT ![e] = r]
    BY <1>5 DEF StartEdge
  <2>2. RunType(r) /\ r.at = at
    <3> HIDE DEF at, start, action
    <3> QED BY IdleFacts, Zenon
  <2>3. at \notin {"no", "logged", "read"}
    OBVIOUS
  <2> HIDE DEF r, at
  <2>4. DOMAIN run' = Edges /\ run'[e] = r /\ \A x \in Edges : x # e => run'[x] = run[x]
    BY <1>1, <2>1, RunSet, Zenon
  <2>5. Started(e)
    <3> SUFFICES ASSUME NEW x \in M.edges \ {e},
                        M.out[x] \in Range(scan.ins[e]) \union M.orderOnly[e]
                 PROVE  x \notin want
      BY <2>1, Zenon DEF Started, Ready
    <3>1. x \in Needs(scan.ins, M.out[e])
      BY <1>1, NeedsFacts, Zenon
    <3> QED BY <2>1, <3>1, Zenon DEF Ready
  <2>6. RunOK(e)'
    BY <1>2, <2>1, <2>2, <2>3, <2>4, <2>5, Zenon DEF RunOK, Started
  <2>7. /\ want' \subseteq want
        /\ \A x \in Edges : x # e /\ run[x].at \notin {"no", "logged"} => x \in want'
        /\ \A u \in uploads' : UploadType(u)
    BY <1>1, <1>2, <1>3, <2>1, Zenon
  <2> QED BY <1>1, <1>2, <1>11, <2>1, <2>4, <2>6, <2>7, RunStep, Zenon
<1>6. ASSUME NEW r, DOMAIN run' = Edges, run'[e] = r,
             \A x \in Edges : x # e => run'[x] = run[x], RunType(r), want' = want,
             run[e].at \notin {"no", "logged"}, r.at \notin {"no", "logged"},
             r.at = "read" => DOMAIN r.content.in \subseteq Files
      PROVE  RunInv'
  <2>1. phase # "idle" /\ e \in M.edges \ M.phony /\ Started(e)
    BY <1>1, <1>6, Zenon DEF RunOK
  <2>2. RunOK(e)'
    BY <1>2, <1>6, <2>1, Zenon DEF RunOK, Started
  <2>3. /\ want' \subseteq want
        /\ \A x \in Edges : x # e /\ run[x].at \notin {"no", "logged"} => x \in want'
        /\ \A u \in uploads' : UploadType(u)
    BY <1>1, <1>2, <1>3, <1>6, Zenon
  <2> QED BY <1>1, <1>2, <1>6, <1>11, <2>1, <2>2, <2>3, RunStep, Zenon
<1>7. CASE Miss(e)
  <2> DEFINE r == [run[e] EXCEPT !.at = "spawned"]
  <2>1. run' = [run EXCEPT ![e].at = "spawned"] /\ want' = want /\ run[e].at = "lookup"
    BY <1>7, Zenon DEF Miss
  <2>2. DOMAIN run' = Edges /\ run'[e] = r /\ \A x \in Edges : x # e => run'[x] = run[x]
    BY <1>1, <2>1
  <2>3. RunType(r) /\ r.at = "spawned"
    BY <1>1, AtSet, Zenon
  <2> HIDE DEF r
  <2>4. /\ run[e].at \notin {"no", "logged"} /\ r.at \notin {"no", "logged"}
        /\ r.at = "read" => DOMAIN r.content.in \subseteq Files
    BY <2>1, <2>3
  <2> QED BY <1>6, <2>1, <2>2, <2>3, <2>4, Zenon
<1>8. CASE Hit(e)
  <2>5. PICK hit : run' = [run EXCEPT ![e].at = "ended", ![e].hit = hit]
    BY <1>8, Zenon DEF Hit
  <2> DEFINE r == [run[e] EXCEPT !.at = "ended", !.hit = hit]
  <2>1. run' = [run EXCEPT ![e].at = "ended", ![e].hit = hit] /\ want' = want /\ run[e].at = "lookup"
    BY <1>8, <2>5, Zenon DEF Hit
  <2>2. DOMAIN run' = Edges /\ run'[e] = r /\ \A x \in Edges : x # e => run'[x] = run[x]
    BY <1>1, <2>1
  <2>3. RunType(r) /\ r.at = "ended"
    <3>1. DOMAIN run[e] = {"at", "start", "action", "content", "hit", "deps"}
      BY <1>1, Zenon DEF RunType
    <3>2. DOMAIN r = DOMAIN run[e] /\ r.at = "ended" /\ r.content = run[e].content
          /\ r.deps = run[e].deps
      BY <3>1
    <3> HIDE DEF r
    <3> QED BY <1>1, <3>2, Zenon DEF RunType
  <2> HIDE DEF r
  <2>4. /\ run[e].at \notin {"no", "logged"} /\ r.at \notin {"no", "logged"}
        /\ r.at = "read" => DOMAIN r.content.in \subseteq Files
    BY <2>1, <2>3
  <2> QED BY <1>6, <2>1, <2>2, <2>3, <2>4, Zenon
<1>9. CASE WriteOutput(e)
  <2> DEFINE r == [run[e] EXCEPT !.at = "ended"]
  <2>1. run' = [run EXCEPT ![e].at = "ended"] /\ want' = want /\ run[e].at = "read"
    BY <1>9, Zenon DEF WriteOutput
  <2>2. DOMAIN run' = Edges /\ run'[e] = r /\ \A x \in Edges : x # e => run'[x] = run[x]
    BY <1>1, <2>1
  <2>3. RunType(r) /\ r.at = "ended"
    BY <1>1, AtSet, Zenon
  <2> HIDE DEF r
  <2>4. /\ run[e].at \notin {"no", "logged"} /\ r.at \notin {"no", "logged"}
        /\ r.at = "read" => DOMAIN r.content.in \subseteq Files
    BY <2>1, <2>3
  <2> QED BY <1>6, <2>1, <2>2, <2>3, <2>4, Zenon
<1>10. CASE Read(e)
  <2>1. want' = want /\ run[e].at = "spawned"
    BY <1>10, Zenon DEF Read
  <2>2. CASE run' = [run EXCEPT ![e].at = "broken"]
    <3> DEFINE r == [run[e] EXCEPT !.at = "broken"]
    <3>1. DOMAIN run' = Edges /\ run'[e] = r /\ \A x \in Edges : x # e => run'[x] = run[x]
      BY <1>1, <2>2
    <3>2. RunType(r) /\ r.at = "broken"
      BY <1>1, AtSet, Zenon
    <3> HIDE DEF r
    <3>3. /\ run[e].at \notin {"no", "logged"} /\ r.at \notin {"no", "logged"}
          /\ r.at = "read" => DOMAIN r.content.in \subseteq Files
      BY <2>1, <3>2
    <3> QED BY <1>6, <2>1, <3>1, <3>2, <3>3, Zenon
  <2>3. CASE run' = [run EXCEPT ![e].at = "read", ![e].content = Made(e, Contents)]
    <3> DEFINE c == Made(e, Contents)
               r == [run[e] EXCEPT !.at = "read", !.content = c]
               first == disk[M.ins[e][1]].c
    <3>1. HasVersion(c) /\ DOMAIN c.in \subseteq Files
      <4>1. e \in M.edges \ M.phony
        BY <1>1, <2>1 DEF RunOK
      <4>2. Contents[M.ins[e][1]] = first /\ Reads(e, first) \subseteq Files
        BY <4>1, ReadsFacts, Zenon
      <4>3. HasVersion(c) /\ DOMAIN c.in = Reads(e, Contents[M.ins[e][1]])
        BY MadeFacts, Zenon
      <4> HIDE DEF c, first
      <4> QED BY <4>2, <4>3, Zenon
    <3> HIDE DEF c
    <3>2. DOMAIN run' = Edges /\ run'[e] = r /\ \A x \in Edges : x # e => run'[x] = run[x]
      <4>1. run' = [run EXCEPT ![e].at = "read", ![e].content = c]
        BY <2>3, Zenon DEF c
      <4> QED BY <1>1, <4>1
    <3>3. RunType(r) /\ r.at = "read" /\ r.content = c
      <4>1. DOMAIN run[e] = {"at", "start", "action", "content", "hit", "deps"}
        BY <1>1, Zenon DEF RunType
      <4>2. DOMAIN r = DOMAIN run[e] /\ r.at = "read" /\ r.content = c /\ r.deps = run[e].deps
        BY <4>1
      <4> HIDE DEF r
      <4> QED BY <1>1, <3>1, <4>2, Zenon DEF RunType
    <3> HIDE DEF r
    <3>4. /\ run[e].at \notin {"no", "logged"} /\ r.at \notin {"no", "logged"}
          /\ r.at = "read" => DOMAIN r.content.in \subseteq Files
      BY <2>1, <3>1, <3>3
    <3> QED BY <1>6, <2>1, <3>2, <3>3, <3>4, Zenon
  <2> QED BY <1>10, <2>2, <2>3, Zenon DEF Read
<1> QED BY <1>4, <1>5, <1>7, <1>8, <1>9, <1>10, Zenon

\* ExtractDeps gives a list of files.
LEMMA ExtractDepsType ==
  ASSUME DepsType, NEW e \in Edges
  PROVE  ExtractDeps(e) \in Seq(Files)
<1>1. <<>> \in Seq(Files) /\ depfile[e].ins \in Seq(Files)
  BY MissingFacts, Zenon DEF DepsType
<1> QED BY <1>1, Zenon DEF ExtractDeps

\* FinishCommand un-wants no edge that runs, but the one it finishes.
LEMMA FinishWant ==
  ASSUME TreeType, RunInv, NEW e \in M.edges, FinishCommand(e)
  PROVE  /\ want' \subseteq want
         /\ \A x \in Edges : x # e /\ run[x].at \notin {"no", "logged"} => x \in want'
         /\ scan'.ins = scan.ins /\ ScanType'
<1> DEFINE cleaned == e \in M.restat /\ scan.mtime[M.out[e]] = disk[M.out[e]].m
           c == IF cleaned THEN CleanNode(M.out[e]) ELSE NothingCleaned
<1>1. /\ want' = want \ (c.edges \union {e}) /\ run[e].at = "ended"
      /\ scan' = [scan EXCEPT !.mtime = c.mtime] /\ UNCHANGED <<project, version>>
  BY Zenon DEF FinishCommand
<1>2. e \in Edges /\ e \in want /\ ScanType
  <2>1. e \in Edges
    BY ManifestFacts, Zenon DEF TreeType
  <2>2. run[e].at \notin {"no", "logged"}
    BY <1>1
  <2> QED BY <2>1, <2>2, Zenon DEF RunInv, RunOK, Started
<1>3. c.edges \subseteq AfterWanted \union {e} /\ c.mtime \in [Files -> Mtimes]
  <2>1. CASE cleaned
    BY <1>2, <2>1, CleanNodeFacts, Zenon DEF TreeType
  <2>2. CASE ~cleaned
    <3>1. NothingCleaned.edges = {} /\ NothingCleaned.mtime = scan.mtime
      BY DEF NothingCleaned
    <3>2. scan.mtime \in [Files -> Mtimes]
      BY <1>2 DEF ScanType, Mtimes
    <3> QED BY <2>2, <3>1, <3>2, Zenon
  <2> QED BY <2>1, <2>2, Zenon
<1> HIDE DEF c
<1>4. ASSUME NEW x \in Edges, x # e, run[x].at \notin {"no", "logged"}
      PROVE  x \in want'
  <2>1. Started(x)
    BY <1>4, Zenon DEF RunInv, RunOK
  <2>2. x \notin AfterWanted
    BY <2>1, Zenon DEF Started, AfterWanted
  <2> QED BY <1>1, <1>3, <1>4, <2>1, <2>2, Zenon DEF Started
<1>5. scan'.ins = scan.ins /\ ScanType'
  <2> DEFINE mtime == c.mtime
  <2>1. /\ scan' = [scan EXCEPT !.mtime = mtime] /\ mtime \in [Files -> Mtimes]
        /\ DOMAIN scan = {"dirty", "mtime", "ins", "depsMissing"}
    BY <1>1, <1>2, <1>3, Zenon DEF ScanType
  <2> HIDE DEF mtime
  <2>2. DOMAIN scan' = DOMAIN scan /\ scan'.ins = scan.ins /\ scan'.mtime = mtime
    BY <2>1
  <2>3. mtime \in [Files -> {mtime[f] : f \in Files}]
    BY <2>1
  <2>4. M' = M
    BY <1>1, Zenon DEF M
  <2> QED BY <1>2, <2>1, <2>2, <2>3, <2>4, Zenon DEF ScanType
<1> QED BY <1>1, <1>4, <1>5, Zenon

\* The entry that FinishCommand hands to CacheResult.
LEMMA NewUpload ==
  ASSUME NEW e, NEW deps, NEW content, HasVersion(content), NEW u,
         u = [edge |-> e, deps |-> deps, i |-> 1, content |-> content]
  PROVE  UploadType(u) /\ u.edge = e /\ u.deps = deps /\ u.content = content
<1>1. /\ DOMAIN u = {"edge", "deps", "i", "content"} /\ u.i = 1
      /\ u.edge = e /\ u.deps = deps /\ u.content = content
  OBVIOUS
<1> QED BY <1>1, Zenon DEF UploadType

\* The steps of one edge after its command has ended.
LEMMA RunAfter ==
  ASSUME TreeType, RunInv, NEW e \in M.edges,
         FinishCommand(e) \/ RecordDeps(e) \/ FinishFailed(e)
  PROVE  RunInv'
<1>1. /\ e \in Edges /\ RunType(run[e]) /\ DOMAIN run = Edges
      /\ \A u \in uploads : UploadType(u)
      /\ run[e].at # "no" => phase # "idle" /\ e \notin M.phony /\ ScanType
  <2>1. e \in Edges
    BY ManifestFacts, Zenon DEF TreeType
  <2> QED BY <2>1, Zenon DEF RunInv, RunOK
<1>2. UNCHANGED <<project, version, phase>> /\ M' = M
  <2>1. UNCHANGED <<project, version, phase>>
    BY Zenon DEF FinishCommand, RecordDeps, FinishFailed
  <2> QED BY <2>1, Zenon DEF M
<1>3. run[e].at # "no"
  BY DEF FinishCommand, RecordDeps, FinishFailed
<1>9. scan'.ins = scan.ins /\ ScanType'
  <2>1. CASE FinishCommand(e)
    BY <2>1, FinishWant, Zenon
  <2>2. CASE RecordDeps(e) \/ FinishFailed(e)
    <3>1. UNCHANGED scan
      BY <2>2, Zenon DEF RecordDeps, FinishFailed
    <3> QED BY <1>1, <1>2, <1>3, <3>1, Zenon DEF ScanType
  <2> QED BY <2>1, <2>2, Zenon
<1>4. \A x \in Edges : run[x].at \notin {"no", "logged"} => x \in want
  BY Zenon DEF RunInv, RunOK, Started
<1>5. ASSUME NEW r, run' = [run EXCEPT ![e] = r], RunType(r), r.at \in {"no", "logged"},
             want' \subseteq want,
             \A x \in Edges : x # e /\ run[x].at \notin {"no", "logged"} => x \in want',
             \A u \in uploads' : UploadType(u)
      PROVE  RunInv'
  <2>1. DOMAIN run' = Edges /\ run'[e] = r /\ \A x \in Edges : x # e => run'[x] = run[x]
    BY <1>1, <1>5, RunSet, Zenon
  <2>2. r.at # "read"
    BY <1>5
  <2>3. RunOK(e)'
    BY <1>1, <1>2, <1>3, <1>5, <2>1, <2>2, Zenon DEF RunOK
  <2> QED BY <1>1, <1>2, <1>3, <1>5, <1>9, <2>1, <2>3, RunStep, Zenon
<1>6. CASE RecordDeps(e)
  <2>1. run' = [run EXCEPT ![e] = Idle] /\ want' = want /\ uploads' = uploads
    BY <1>6, Zenon DEF RecordDeps
  <2> QED BY <1>1, <1>4, <1>5, <2>1, IdleFacts, Zenon
<1>7. CASE FinishFailed(e)
  <2>1. run' = [run EXCEPT ![e] = Idle] /\ want' = want \ {e} /\ uploads' = uploads
    BY <1>7, Zenon DEF FinishFailed
  <2> QED BY <1>1, <1>4, <1>5, <2>1, IdleFacts, Zenon
<1>8. CASE FinishCommand(e)
  <2> DEFINE deps == ExtractDeps(e)
             u == [edge |-> e, deps |-> deps, i |-> 1, content |-> run[e].content]
  <2>1. \A x \in uploads' : UploadType(x)
    <3>1. HasVersion(run[e].content)
      BY <1>1, Zenon DEF RunType
    <3>2. uploads' \subseteq uploads \union {u}
      BY <1>8, Zenon DEF FinishCommand
    <3> DEFINE content == run[e].content
    <3>3. u = [edge |-> e, deps |-> deps, i |-> 1, content |-> content] /\ HasVersion(content)
      BY <3>1, Zenon
    <3> HIDE DEF u, deps, content
    <3>4. UploadType(u)
      BY <3>3, NewUpload
    <3> QED BY <1>1, <3>2, <3>4, Zenon
  <2>2. deps \in Seq(Files)
    BY <1>1, ExtractDepsType, Zenon DEF TreeType
  <2> DEFINE r == [run[e] EXCEPT !.at = "logged", !.deps = deps]
  <2>3. run' = [run EXCEPT ![e] = IF M.deps[e] = "gcc" THEN r ELSE Idle]
    BY <1>8, Zenon DEF FinishCommand
  <2> HIDE DEF deps
  <2>4. RunType(r) /\ r.at = "logged"
    <3>1. DOMAIN run[e] = {"at", "start", "action", "content", "hit", "deps"}
      BY <1>1, Zenon DEF RunType
    <3>2. DOMAIN r = DOMAIN run[e] /\ r.at = "logged" /\ r.content = run[e].content /\ r.deps = deps
      BY <3>1
    <3> HIDE DEF r
    <3> QED BY <1>1, <2>2, <3>2, Zenon DEF RunType
  <2> HIDE DEF r
  <2>5. /\ want' \subseteq want
        /\ \A x \in Edges : x # e /\ run[x].at \notin {"no", "logged"} => x \in want'
    BY <1>8, FinishWant, Zenon
  <2>6. CASE M.deps[e] = "gcc"
    <3>1. run' = [run EXCEPT ![e] = r]
      BY <2>3, <2>6, Zenon
    <3> QED BY <1>5, <2>1, <2>4, <2>5, <3>1, Zenon
  <2>7. CASE M.deps[e] # "gcc"
    <3>1. run' = [run EXCEPT ![e] = Idle]
      BY <2>3, <2>7, Zenon
    <3> QED BY <1>5, <2>1, <2>5, <3>1, IdleFacts, Zenon
  <2> QED BY <2>6, <2>7, Zenon
<1> QED BY <1>6, <1>7, <1>8, Zenon

\* The first part of a concatenation is in it.
LEMMA RangeConcat ==
  ASSUME NEW S, NEW s \in Seq(S), NEW t \in Seq(S)
  PROVE  Range(s) \subseteq Range(s \o t)
<1> SUFFICES ASSUME NEW x \in Range(s)
             PROVE  x \in Range(s \o t)
  OBVIOUS
<1>1. PICK i \in DOMAIN s : x = s[i]
  BY Zenon DEF Range
<1>2. i \in DOMAIN (s \o t) /\ (s \o t)[i] = s[i]
  OBVIOUS
<1> QED BY <1>1, <1>2, Zenon DEF Range

\* The scan adds to the inputs of an edge.
LEMMA ScanFacts ==
  ASSUME TreeType
  PROVE  \A e \in M.edges : /\ RecomputeDirty.ins[e] \in Seq(Files)
                            /\ Range(M.ins[e]) \subseteq Range(RecomputeDirty.ins[e])
<1> SUFFICES ASSUME NEW e \in M.edges
             PROVE  /\ RecomputeDirty.ins[e] \in Seq(Files)
                    /\ Range(M.ins[e]) \subseteq Range(RecomputeDirty.ins[e])
  OBVIOUS
<1>1. e \in Edges /\ M.out[e] \in Files /\ M.ins[e] \in Seq(Files) /\ DepsType
  BY ManifestFacts, Zenon DEF TreeType
<1>2. RecomputeDirty.ins = [x \in M.edges |-> Inputs(x)]
  BY DEF RecomputeDirty
<1>3. RecomputeDirty.ins[e] = M.ins[e] \o LoadDeps(e).nodes
  BY <1>2, Zenon DEF Inputs
<1>4. LoadDeps(e).nodes \in Seq(Files)
  <2>1. \A nodes : Loaded(nodes).nodes = nodes
    BY DEF Loaded
  <2>2. NotLoaded.nodes = <<>> /\ <<>> \in Seq(Files)
    BY DEF NotLoaded
  <2>3. depsLog[M.out[e]].nodes \in Seq(Files) /\ depfile[e].ins \in Seq(Files)
    BY <1>1, Zenon DEF DepsType
  <2> QED BY <2>1, <2>2, <2>3, Zenon DEF LoadDeps, LoadDepsFromLog, LoadDepFile
<1>5. \A s, t \in Seq(Files) : s \o t \in Seq(Files)
  OBVIOUS
<1> QED BY <1>1, <1>3, <1>4, <1>5, RangeConcat, Zenon

\* The scan makes a record, and a function of the mtimes.
LEMMA ScanRecord ==
  ASSUME NEW s, s = RecomputeDirty
  PROVE  /\ DOMAIN s = {"dirty", "mtime", "ins", "depsMissing"}
         /\ s.mtime \in [Files -> {s.mtime[f] : f \in Files}]
<1>1. PICK found, node, ins, missing :
         s = [dirty |-> found, mtime |-> [f \in Files |-> node[f].mtime], ins |-> ins,
              depsMissing |-> missing]
  BY Zenon DEF RecomputeDirty
<1>2. /\ DOMAIN s = {"dirty", "mtime", "ins", "depsMissing"}
      /\ s.mtime = [f \in Files |-> node[f].mtime]
  BY <1>1
<1> DEFINE mtime == s.mtime
<1>3. mtime \in [Files -> {mtime[f] : f \in Files}]
  BY <1>2, Zenon
<1> QED BY <1>2, <1>3, Zenon

\* RunInv is kept by every step.
LEMMA NextRun ==
  ASSUME TreeType, RunInv, [Next]_vars
  PROVE  RunInv'
<1>1. CASE User
  <2>1. CASE ChangeManifest
    <3>1. phase = "idle" /\ UNCHANGED <<phase, scan, want, run, uploads>>
      BY <2>1, Zenon DEF ChangeManifest, buildVars
    <3>2. /\ want = {} /\ uploads = {} /\ DOMAIN run = Edges
          /\ \A e \in Edges : run[e].at = "no" /\ RunType(run[e])
      BY <3>1, Zenon DEF RunInv, RunOK
    <3>3. \A e \in Edges : RunOK(e)'
      BY <3>1, <3>2 DEF RunOK
    <3> QED BY <3>1, <3>2, <3>3, Zenon DEF RunInv
  <2>2. CASE UNCHANGED <<project, version, phase, scan, want, run, uploads>>
    BY <2>2, RunSame, Zenon
  <2> QED BY <1>1, <2>1, <2>2, Zenon DEF User, Edit, Delete, ToolClean, buildVars
<1>2. CASE StartBuild
  <2>1. /\ phase = "idle" /\ UNCHANGED <<project, version, run, uploads>>
        /\ \/ UNCHANGED <<phase, scan, want>>
           \/ /\ phase' = "building" /\ scan' = RecomputeDirty
              /\ want' = {e \in M.edges : M.out[e] \in RecomputeDirty.dirty}
    BY <1>2, Zenon DEF StartBuild, treeVars
  <2>2. CASE UNCHANGED <<phase, scan, want>>
    BY <2>1, <2>2, RunSame, Zenon
  <2>3. CASE /\ phase' = "building" /\ scan' = RecomputeDirty
             /\ want' = {e \in M.edges : M.out[e] \in RecomputeDirty.dirty}
    <3>1. /\ uploads = {} /\ DOMAIN run = Edges
          /\ \A e \in Edges : run[e].at = "no" /\ RunType(run[e])
      BY <2>1, Zenon DEF RunInv, RunOK
    <3>2. \A e \in Edges : RunOK(e)'
      BY <2>1, <3>1 DEF RunOK
    <3>3. M' = M /\ want' \subseteq M.edges
      BY <2>1, <2>3, Zenon DEF M
    <3>4. ScanType'
      <4> DEFINE s == scan'
      <4>1. \A e \in M.edges : /\ s.ins[e] \in Seq(Files)
                               /\ Range(M.ins[e]) \subseteq Range(s.ins[e])
        BY <2>3, ScanFacts, Zenon
      <4>2. s = RecomputeDirty
        BY <2>3, Zenon
      <4> HIDE DEF s
      <4>3. /\ DOMAIN s = {"dirty", "mtime", "ins", "depsMissing"}
            /\ s.mtime \in [Files -> {s.mtime[f] : f \in Files}]
        BY <4>2, ScanRecord, Zenon
      <4> QED BY <3>3, <4>1, <4>3, Zenon DEF s, ScanType
    <3>5. phase' # "idle"
      BY <2>3
    <3> QED BY <2>1, <3>1, <3>2, <3>3, <3>4, <3>5, Zenon DEF RunInv
  <2> QED BY <2>1, <2>2, <2>3, Zenon
<1>3. ASSUME NEW e \in M.edges,
             FinishPhony(e) \/ StartEdge(e) \/ Miss(e) \/ Hit(e) \/ Read(e) \/ WriteOutput(e)
      PROVE  RunInv'
  BY <1>3, RunBefore, Zenon
<1>4. ASSUME NEW e \in M.edges, FinishCommand(e) \/ RecordDeps(e) \/ FinishFailed(e)
      PROVE  RunInv'
  BY <1>4, RunAfter, Zenon
<1>5. ASSUME NEW u \in uploads, Upload(u)
      PROVE  RunInv'
  <2> DEFINE results == ActionResults(u.edge, scan.ins[u.edge], u.deps, u.content)
             all == Action(u.edge, Range(scan.ins[u.edge]) \union Range(u.deps))
  <2>1. /\ UNCHANGED <<project, version, phase, scan, want, run>>
        /\ \A x \in uploads' : \/ x \in uploads
                               \/ u.i < Len(results) /\ x = [u EXCEPT !.i = @ + 1]
    BY <1>5, UploadFacts, Zenon
  <2>2. UploadType(u) /\ \A x \in uploads : UploadType(x)
    BY Zenon DEF RunInv
  <2>3. Placed(results, all, u.deps, u.content)
    BY ResultFacts, Zenon
  <2> HIDE DEF results, all
  <2>4. ASSUME u.i < Len(results)
        PROVE  u.i = 1 /\ Range(u.deps) # {}
    <3>1. Range(u.deps) = {} => Len(results) = 1
      BY <2>3, Zenon DEF Placed
    <3>2. Range(u.deps) # {} => Len(results) = 2
      BY <2>3, Zenon DEF Placed
    <3>3. u.i = 1 \/ u.i = 2
      BY <2>2, Zenon DEF UploadType
    <3> DEFINE i == u.i
               n == Len(results)
               none == Range(u.deps) = {}
    <3>4. i < n /\ (none => n = 1) /\ (~none => n = 2) /\ (i = 1 \/ i = 2)
      BY <2>4, <3>1, <3>2, <3>3, Zenon
    <3> HIDE DEF i, n
    <3>5. i = 1 /\ n # 1
      BY <3>4
    <3> QED BY <3>1, <3>5, Zenon DEF i, n
  <2>5. ASSUME u.i = 1, Range(u.deps) # {}
        PROVE  UploadType([u EXCEPT !.i = @ + 1])
    <3> DEFINE x == [u EXCEPT !.i = @ + 1]
    <3>1. DOMAIN u = {"edge", "deps", "i", "content"}
      BY <2>2, Zenon DEF UploadType
    <3>2. DOMAIN x = DOMAIN u /\ x.i = 2 /\ x.deps = u.deps /\ x.content = u.content
      BY <2>5, <3>1
    <3> HIDE DEF x
    <3>3. UploadType(x)
      BY <2>2, <2>5, <3>2, Zenon DEF UploadType
    <3> QED BY <3>3, Zenon DEF x
  <2>6. \A x \in uploads' : UploadType(x)
    BY <2>1, <2>2, <2>4, <2>5, Zenon
  <2>7. phase = "idle" => uploads' = {}
    BY Zenon DEF RunInv
  <2> QED BY <2>1, <2>6, <2>7 DEF RunInv, RunOK, Started, ScanType, M
<1>6. CASE EndBuild \/ Interrupt \/ Crash
  BY <1>6, ResetRun, Zenon DEF EndBuild, Interrupt, Crash
<1>7. CASE Terminated \/ UNCHANGED vars
  <2>1. UNCHANGED <<project, version, phase, scan, want, run, uploads>>
    BY <1>7, Zenon DEF Terminated, vars, treeVars, buildVars
  <2> QED BY <2>1, RunSame, Zenon
<1> QED BY <1>1, <1>2, <1>3, <1>4, <1>5, <1>6, <1>7, Zenon DEF Next, Build

\* Edges run in a build only, they are edges of the manifest, and while one runs
\* no edge is wanted that makes one of its inputs, those that deps add included.
THEOREM EdgesRunInOrder == Spec => [](TreeType /\ RunInv)
<1> USE DEF Spec
<1>1. Init => TreeType /\ RunInv
  BY InitTree, Zenon
<1>2. TreeType /\ RunInv /\ [Next]_vars => TreeType' /\ RunInv'
  BY NextTree, NextRun, Zenon
<1> QED BY <1>1, <1>2, PTL

-----------------------------------------------------------------------------
(* Sources. *)

\* The files of the manifest are files.
LEMMA NodesAreFiles ==
  ASSUME TreeType
  PROVE  ManifestNodes \subseteq Files
<1>1. \A e \in M.edges : /\ M.out[e] \in Files /\ M.orderOnly[e] \subseteq Files
                         /\ M.ins[e] \in Seq(Files)
  BY ManifestFacts, Zenon DEF TreeType
<1>2. \A s \in Seq(Files) : Range(s) \subseteq Files
  BY DEF Range
<1> QED BY <1>1, <1>2, Zenon DEF ManifestNodes

\* The clean tools and Cleanup remove outputs, and files the manifest does not
\* have.
LEMMA RemovedKept ==
  ASSUME NEW files, RemoveFiles(files), NEW f \in Files, f \notin files.outs
  PROVE  disk'[f] = disk[f]
BY Zenon DEF RemoveFiles

\* No edge makes a source, so that no clean tool removes it.
LEMMA SourceNotCleaned ==
  ASSUME NEW f, InEdges(f) = {}, NEW S, S \subseteq M.edges
  PROVE  f \notin Removed(S).outs
<1>1. Removed(S).outs = {M.out[e] : e \in S}
  BY DEF Removed
<1> QED BY <1>1, Zenon DEF InEdges

\* A step that changes a source is the user's edit or deletion of it.
LEMMA NextKeepsSources ==
  ASSUME TreeType, RunInv, [Next]_vars, NEW f \in ManifestNodes, InEdges(f) = {},
         disk'[f] # disk[f]
  PROVE  (f \in Editable /\ Edit(f)) \/ (f \in Deletable /\ Delete(f))
<1>1. f \in Files /\ DiskType /\ \A e \in M.edges : M.out[e] # f
  BY NodesAreFiles, Zenon DEF TreeType, InEdges
<1>2. disk' # disk
  BY Zenon
<1>3. ASSUME NEW x \in Editable, Edit(x)
      PROVE  x = f
  <2>1. \E c : disk' = [disk EXCEPT ![x] = c]
    BY <1>3, Zenon DEF Edit, Touch
  <2>2. f # x => disk'[f] = disk[f]
    BY <1>1, <2>1 DEF DiskType
  <2> QED BY <2>2, Zenon
<1>4. ASSUME NEW x \in Deletable, Delete(x)
      PROVE  x = f
  <2>1. \E c : disk' = [disk EXCEPT ![x] = c]
    BY <1>4, Zenon DEF Delete
  <2>2. f # x => disk'[f] = disk[f]
    BY <1>1, <2>1 DEF DiskType
  <2> QED BY <2>2, Zenon
<1>5. ASSUME NEW files, ToolClean(files), f \notin files.outs
      PROVE  FALSE
  BY <1>1, <1>5, RemovedKept, Zenon DEF ToolClean
<1>6. \A generator \in BOOLEAN : f \notin CleanAll(generator).outs
  <2> SUFFICES ASSUME NEW generator \in BOOLEAN
               PROVE  f \notin CleanAll(generator).outs
    OBVIOUS
  <2> DEFINE S == IF generator THEN Commands ELSE Commands \ M.generator
  <2>1. S \subseteq M.edges /\ CleanAll(generator) = Removed(S)
    BY Zenon DEF Commands, CleanAll
  <2> HIDE DEF S
  <2> QED BY <2>1, SourceNotCleaned, Zenon
<1>7. \A t \in ManifestNodes : f \notin CleanTarget(t).outs
  <2> SUFFICES ASSUME NEW t \in ManifestNodes
               PROVE  f \notin CleanTarget(t).outs
    OBVIOUS
  <2> DEFINE S == Needs(M.ins, t) \ M.phony
  <2>1. IsFiniteSet(M.edges)
    BY ManifestFacts, Zenon DEF TreeType
  <2>2. Needs(M.ins, t) \subseteq M.edges
    BY <2>1, NeedsFacts, Zenon
  <2>3. S \subseteq M.edges /\ CleanTarget(t) = Removed(S)
    BY <2>2, Zenon DEF CleanTarget
  <2> HIDE DEF S
  <2> QED BY <2>3, SourceNotCleaned, Zenon
<1>8. \A r \in Rules : f \notin CleanRule(r \intersect M.edges).outs
  <2> SUFFICES ASSUME NEW r \in Rules
               PROVE  f \notin CleanRule(r \intersect M.edges).outs
    OBVIOUS
  <2> DEFINE S == r \intersect M.edges
  <2>1. S \subseteq M.edges /\ CleanRule(r \intersect M.edges) = Removed(S)
    BY Zenon DEF CleanRule
  <2> HIDE DEF S
  <2> QED BY <2>1, SourceNotCleaned, Zenon
<1>9. f \notin CleanDead.outs
  <2>1. CleanDead.outs = {x \in Files : log[x] # NoEntry /\ x \notin ManifestNodes}
    BY DEF CleanDead
  <2> QED BY <2>1, Zenon
<1>10. CASE User
  <2>1. ~ChangeManifest
    BY <1>2, Zenon DEF ChangeManifest
  <2>2. CASE \E x \in Editable : Edit(x)
    BY <1>3, <2>2, Zenon
  <2>3. CASE \E x \in Deletable : Delete(x)
    BY <1>4, <2>3, Zenon
  <2>4. ~ToolClean(CleanDead) /\ \A generator \in BOOLEAN : ~ToolClean(CleanAll(generator))
    BY <1>5, <1>6, <1>9, Zenon
  <2>5. /\ \A t \in ManifestNodes : ~ToolClean(CleanTarget(t))
        /\ \A r \in Rules : ~ToolClean(CleanRule(r \intersect M.edges))
    BY <1>5, <1>7, <1>8, Zenon
  <2> QED BY <1>10, <2>1, <2>2, <2>3, <2>4, <2>5, Zenon DEF User
<1>11. ASSUME NEW e \in M.edges, Hit(e) \/ WriteOutput(e)
       PROVE  FALSE
  <2>1. \E c : disk' = [disk EXCEPT ![M.out[e]] = c]
    BY <1>2, <1>11, Zenon DEF Hit, WriteOutput, Touch
  <2>2. M.out[e] # f
    BY <1>1, Zenon
  <2>3. disk'[f] = disk[f]
    BY <1>1, <2>1, <2>2 DEF DiskType
  <2> QED BY <2>3, Zenon
<1>12. ~Interrupt
  <2> SUFFICES ASSUME Interrupt
               PROVE  FALSE
    OBVIOUS
  <2> DEFINE active == {e \in Edges : run[e].at \notin {"no", "logged"}}
  <2>1. active \subseteq M.edges
    BY Zenon DEF RunInv, RunOK
  <2>2. PICK S, D : /\ S \subseteq active
                    /\ RemoveFiles([outs |-> {M.out[e] : e \in S}, depfiles |-> D])
    <3>1. PICK partly \in SUBSET {e \in active : run[e].at \in {"spawned", "read", "lookup"}} :
            LET changed == {e \in active : disk[M.out[e]].m # scan.mtime[M.out[e]]}
                             \union partly
                hasDepfile == {e \in active : M.deps[e] # "none"}
            IN  RemoveFiles([outs |-> {M.out[e] : e \in changed \union hasDepfile},
                             depfiles |-> hasDepfile])
      BY Zenon DEF Interrupt
    <3> DEFINE D == {e \in active : M.deps[e] # "none"}
               S == {e \in active : disk[M.out[e]].m # scan.mtime[M.out[e]]} \union partly \union D
    <3>2. RemoveFiles([outs |-> {M.out[e] : e \in S}, depfiles |-> D])
      BY <3>1, Zenon
    <3>3. S \subseteq active
      BY <3>1, Zenon
    <3> HIDE DEF S, D
    <3> QED BY <3>2, <3>3, Zenon
  <2> DEFINE files == [outs |-> {M.out[e] : e \in S}, depfiles |-> D]
  <2>3. files.outs = {M.out[e] : e \in S}
    OBVIOUS
  <2>4. f \notin files.outs
    BY <1>1, <2>1, <2>2, <2>3, Zenon
  <2> HIDE DEF files
  <2>5. RemoveFiles(files)
    BY <2>2, Zenon DEF files
  <2> QED BY <1>1, <2>4, <2>5, RemovedKept, Zenon
<1>13. ~ UNCHANGED disk
  BY <1>2, Zenon
<1> QED BY <1>10, <1>11, <1>12, <1>13, Zenon
        DEF Next, Build, StartBuild, FinishPhony, StartEdge, Miss, Read, FinishCommand,
            RecordDeps, FinishFailed, Upload, EndBuild, Crash, Terminated, vars, treeVars

\* No step of the program changes or removes a source of the manifest in use: not
\* a build, not Cleanup after an interrupt, not a clean tool; only the user's own
\* edit or deletion of that file.
THEOREM SourcesStay == Spec => SourcesAreKept
<1> DEFINE Kept == \A f \in ManifestNodes : InEdges(f) = {} /\ disk'[f] # disk[f] =>
                      \/ f \in Editable /\ Edit(f)
                      \/ f \in Deletable /\ Delete(f)
<1>1. TreeType /\ RunInv /\ [Next]_vars => [Kept]_vars
  BY NextKeepsSources, Zenon
<1>2. SourcesAreKept <=> [][Kept]_vars
  BY PTL DEF SourcesAreKept
<1> HIDE DEF Kept
<1> QED BY <1>1, <1>2, EdgesRunInOrder, PTL DEF Spec

-----------------------------------------------------------------------------
(* The cache. *)

\* A step changes no file, but the output of an edge that is wanted.
Harmless == \A f \in Files : disk'[f] = disk[f] \/ \E a \in want : M.out[a] = f

\* A result stays grounded as long as what was read stays the same and no edge
\* becomes wanted,
LEMMA GroundedSame ==
  ASSUME NEW m, NEW t, NEW t2, NEW w, NEW w2, NEW e, NEW c, GroundedIn(m, t, w, e, c),
         w2 \subseteq w, \A f \in DOMAIN c.in : t2[f] = t[f]
  PROVE  GroundedIn(m, t2, w2, e, c)
BY Zenon DEF GroundedIn

\* or only wanted edges write their outputs.
LEMMA GroundedKept ==
  ASSUME NEW m, NEW t, NEW t2, NEW w, NEW w2, NEW e, NEW c, GroundedIn(m, t, w, e, c),
         w2 \subseteq w, \A f \in Files : t2[f] = t[f] \/ \E a \in w : m.out[a] = f
  PROVE  GroundedIn(m, t2, w2, e, c)
<1>1. \A f \in DOMAIN c.in : t2[f] = t[f]
  BY Zenon DEF GroundedIn
<1> QED BY <1>1, GroundedSame, Zenon

\* In a build, a result that is grounded stays so.
LEMMA StaysGrounded ==
  ASSUME NEW e, NEW c, Grounded(e, c), UNCHANGED <<project, version>>,
         want' \subseteq want, Harmless
  PROVE  GroundedIn(M', disk', want', e, c)
<1> DEFINE m == M
           t == disk
           t2 == disk'
           w == want
           w2 == want'
<1>1. /\ w2 \subseteq w /\ \A f \in Files : t2[f] = t[f] \/ \E x \in w : m.out[x] = f
      /\ GroundedIn(m, t, w, e, c) /\ M' = m
  BY Zenon DEF Harmless, Grounded, M
<1> HIDE DEF m, t, t2, w, w2
<1>2. GroundedIn(m, t2, w2, e, c)
  BY <1>1, GroundedKept, Zenon
<1> QED BY <1>1, <1>2, Zenon DEF t2, w2

\* A step of edge a in a build.
LEMMA ResultStep ==
  ASSUME ResultInv, Cached, NEW a, UNCHANGED <<project, version>>, scan'.ins = scan.ins,
         want' \subseteq want, Harmless,
         stale \subseteq stale' \union {a}, stale \subseteq stale' \union want,
         \A x \in Edges : x # a => run'[x] = run[x] /\ depfile'[x] = depfile[x],
         a \in Edges => ResultOK(a)',
         \A u \in uploads' : u \in uploads \/ UploadOK(u)'
  PROVE  ResultInv'
<1>1. M' = M
  BY Zenon DEF M
<1>2. ASSUME NEW x \in Edges, x # a
      PROVE  ResultOK(x)'
  <2>1. ResultOK(x) /\ run'[x] = run[x] /\ depfile'[x] = depfile[x]
    BY <1>2, Zenon DEF ResultInv
  <2>2. Grounded(x, run[x].content) => Grounded(x, run[x].content)'
    BY <2>1, StaysGrounded, Zenon DEF Grounded
  <2>3. x \in stale => x \in stale'
    BY <1>2, Zenon
  <2> QED BY <1>1, <2>1, <2>2, <2>3, Zenon DEF ResultOK, Reported
<1>3. ASSUME NEW u \in uploads
      PROVE  UploadOK(u)'
  <2>1. UploadOK(u)
    BY Zenon DEF ResultInv
  <2>2. Grounded(u.edge, u.content) => Grounded(u.edge, u.content)'
    BY StaysGrounded, Zenon DEF Grounded
  <2>3. Keyed(u) => Keyed(u)'
    BY <1>1, Zenon DEF Keyed
  <2>4. u.edge \in M'.edges \ want' /\ (u.edge \in stale => u.edge \in stale')
    BY <1>1, <2>1, Zenon DEF UploadOK
  <2> QED BY <2>1, <2>2, <2>3, <2>4, Zenon DEF UploadOK
<1>4. \A x \in Edges : ResultOK(x)'
  BY <1>2, Zenon
<1> QED BY <1>3, <1>4, Zenon DEF ResultInv

\* The user changes file f, which makes the results stale that belong to it.
LEMMA ResultEdited ==
  ASSUME ResultInv, Cached, NEW f, stale' = stale \union Overtaken(f),
         \A x \in Files : x # f => disk'[x] = disk[x],
         UNCHANGED <<project, version, scan, want, run, depfile, uploads>>
  PROVE  ResultInv'
<1>1. M' = M
  BY Zenon DEF M
<1>2. ASSUME NEW e, NEW c, Grounded(e, c), f \notin DOMAIN c.in
      PROVE  Grounded(e, c)'
  <2> DEFINE m == M
             t == disk
             t2 == disk'
             w == want
  <2>1. \A x \in DOMAIN c.in : t2[x] = t[x]
    BY <1>2, Zenon DEF Grounded, GroundedIn
  <2>2. GroundedIn(m, t, w, e, c) /\ w \subseteq w
    BY <1>2, Zenon DEF Grounded
  <2> HIDE DEF m, t, t2, w
  <2>3. GroundedIn(m, t2, w, e, c)
    BY <2>1, <2>2, GroundedSame, Zenon
  <2> QED BY <1>1, <2>3, Zenon DEF m, t2, w, Grounded
<1>3. ASSUME NEW e \in Edges
      PROVE  ResultOK(e)'
  <2> SUFFICES ASSUME e \notin stale'
               PROVE  /\ run[e].at = "read" => Grounded(e, run[e].content)'
                      /\ run[e].at = "ended" /\ run[e].hit = "no" =>
                            Grounded(e, run[e].content)' /\ Reported(e)
    BY <1>1, Zenon DEF ResultOK, Reported
  <2>1. e \notin stale /\ (run[e].at \in {"read", "ended"} => f \notin DOMAIN run[e].content.in)
    BY Zenon DEF Overtaken
  <2>2. ResultOK(e)
    BY Zenon DEF ResultInv
  <2> QED BY <1>2, <2>1, <2>2, Zenon DEF ResultOK
<1>4. ASSUME NEW u \in uploads
      PROVE  UploadOK(u)'
  <2>1. UploadOK(u)
    BY Zenon DEF ResultInv
  <2>2. u.edge \notin stale' => u.edge \notin stale /\ f \notin DOMAIN u.content.in
    BY Zenon DEF Overtaken
  <2>3. Keyed(u) => Keyed(u)'
    BY <1>1, Zenon DEF Keyed
  <2> QED BY <1>1, <1>2, <2>1, <2>2, <2>3, Zenon DEF UploadOK
<1> QED BY <1>3, <1>4, Zenon DEF ResultInv

\* Between builds there is nothing to show.
LEMMA NoResults ==
  ASSUME \A e \in Edges : run'[e].at = "no", uploads' = {}
  PROVE  ResultInv'
<1>1. \A e \in Edges : ResultOK(e)'
  BY DEF ResultOK
<1> QED BY <1>1, Zenon DEF ResultInv

\* What CommandAssumption says of the manifest in use.
LEMMA CachedFacts ==
  ASSUME TreeType, Cached, NEW e \in M.edges, NEW v \in 0..2
  PROVE  /\ M.deps[e] \in {"gcc", "depfile"} \/ project.includes[e][v] = {}
         /\ M.out[e] \notin Range(M.ins[e]) \union project.includes[e][v]
         /\ \A x \in M.edges : M.out[x] \in project.includes[e][v] =>
               M.out[x] \in Range(M.ins[e]) \union M.orderOnly[e]
<1>1. project \in Projects /\ version \in 1..Len(project.manifests) /\ project.cache
  BY Zenon DEF TreeType, Cached
<1>2. GoodCommands(project, M)
  BY <1>1, CommandAssumption, Zenon DEF M
<1> QED BY <1>1, <1>2, Zenon DEF GoodCommands

\* A command reads files that are there and that no wanted edge makes.
LEMMA ReadGrounded ==
  ASSUME TreeType, RunInv, Cached, NEW e \in M.edges, run[e].at = "spawned",
         \A f \in Reads(e, disk[M.ins[e][1]].c) : disk[f].m # 0
  PROVE  Grounded(e, Made(e, Contents))
<1> DEFINE first == disk[M.ins[e][1]].c
           c == Made(e, Contents)
<1>1. /\ e \in Edges /\ e \in M.edges \ M.phony /\ Started(e) /\ DiskType
      /\ want \subseteq M.edges
      /\ Range(M.ins[e]) \subseteq Range(scan.ins[e])
  <2>1. e \in Edges
    BY ManifestFacts, Zenon DEF TreeType
  <2>2. run[e].at \notin {"no", "logged"} /\ run[e].at # "no"
    OBVIOUS
  <2>3. phase # "idle"
    BY <2>1, <2>2, Zenon DEF RunInv
  <2> QED BY <2>1, <2>2, <2>3, Zenon DEF RunInv, RunOK, ScanType, TreeType
<1>2. /\ Contents[M.ins[e][1]] = first /\ first.v \in 0..2
      /\ Reads(e, first) \subseteq Files
      /\ Reads(e, first) \subseteq Range(M.ins[e]) \union project.includes[e][first.v]
  BY <1>1, ReadsFacts, Zenon
<1>3. /\ c.cmd = M.cmd[e] /\ DOMAIN c.in = Reads(e, first)
      /\ \A f \in Reads(e, first) : c.in[f] = View(e, Contents[f])
  <2>1. /\ c.cmd = M.cmd[e] /\ DOMAIN c.in = Reads(e, Contents[M.ins[e][1]])
        /\ \A f \in Reads(e, Contents[M.ins[e][1]]) : c.in[f] = View(e, Contents[f])
    BY MadeFacts
  <2> HIDE DEF c
  <2> QED BY <1>2, <2>1, Zenon
<1> HIDE DEF c
<1>4. /\ M.deps[e] \in {"gcc", "depfile"} \/ project.includes[e][first.v] = {}
      /\ M.out[e] \notin Range(M.ins[e]) \union project.includes[e][first.v]
      /\ \A x \in M.edges : M.out[x] \in project.includes[e][first.v] =>
            M.out[x] \in Range(M.ins[e]) \union M.orderOnly[e]
  <2> HIDE DEF first
  <2> QED BY <1>2, CachedFacts, Zenon
<1>5. ASSUME NEW f \in Reads(e, first)
      PROVE  /\ f \in Files /\ disk[f].m > 0
             /\ c.in[f] \in {disk[f].c, [disk[f].c EXCEPT !.v = @ \div 2]}
             /\ \A x \in want : M.out[x] # f
  <2>1. f \in Files /\ disk[f].m # 0 /\ disk[f].m \in Nat
    BY <1>1, <1>2, Zenon DEF DiskType
  <2>2. disk[f].m > 0
    BY <2>1
  <2>3. Contents[f] = disk[f].c
    BY <2>1, Zenon DEF Contents
  <2>4. c.in[f] \in {disk[f].c, [disk[f].c EXCEPT !.v = @ \div 2]}
    BY <1>3, <2>3, Zenon DEF View
  <2>5. ASSUME NEW x \in want, M.out[x] = f
        PROVE  FALSE
    <3>1. x \in M.edges /\ f \in Range(M.ins[e]) \union project.includes[e][first.v]
      BY <1>1, <1>2, Zenon
    <3>2. x # e
      BY <1>4, <2>5, <3>1, Zenon
    <3>3. M.out[x] \in Range(M.ins[e]) \union M.orderOnly[e]
      BY <1>4, <2>5, <3>1, Zenon
    <3> QED BY <1>1, <3>1, <3>2, <3>3, Zenon DEF Started
  <2> QED BY <2>1, <2>2, <2>4, <2>5, Zenon
<1>6. M.deps[e] \notin {"gcc", "depfile"} => DOMAIN c.in \subseteq Range(M.ins[e])
  BY <1>2, <1>3, <1>4, Zenon
<1>7. Grounded(e, c)
  <2>1. \A f \in DOMAIN c.in : /\ f \in Files /\ disk[f].m > 0
                               /\ c.in[f] \in {disk[f].c, [disk[f].c EXCEPT !.v = @ \div 2]}
                               /\ \A x \in want : M.out[x] # f
    BY <1>3, <1>5, Zenon
  <2> QED BY <1>3, <1>6, <2>1, Zenon DEF Grounded, GroundedIn
<1> QED BY <1>7, Zenon DEF c

\* A step that writes the output of a wanted edge is harmless.
LEMMA HarmlessWrite ==
  ASSUME DiskType, NEW e \in want, \E c : disk' = [disk EXCEPT ![M.out[e]] = c]
  PROVE  Harmless
<1>1. \A f \in Files : f # M.out[e] => disk'[f] = disk[f]
  BY DEF DiskType
<1> QED BY <1>1, Zenon DEF Harmless

\* The steps of one edge before its command has ended.
LEMMA ResultBefore ==
  ASSUME TreeType, RunInv, ResultInv, Cached, NEW e \in M.edges,
         FinishPhony(e) \/ StartEdge(e) \/ Miss(e) \/ Hit(e) \/ Read(e) \/ WriteOutput(e)
  PROVE  ResultInv'
<1>1. /\ e \in Edges /\ RunType(run[e]) /\ DOMAIN run = Edges /\ ResultOK(e) /\ DiskType
      /\ DepsType
      /\ run[e].at \notin {"no", "logged"} => e \in want
  <2>1. e \in Edges
    BY ManifestFacts, Zenon DEF TreeType
  <2> QED BY <2>1, Zenon DEF RunInv, RunOK, Started, TreeType, ResultInv
<1>2. /\ UNCHANGED <<project, version, scan, uploads>> /\ want' \subseteq want /\ M' = M
      /\ stale \subseteq stale' \union {e} /\ stale \subseteq stale' \union want
  <2>1. UNCHANGED <<project, version, scan, uploads>> /\ want' \subseteq want
    BY Zenon DEF FinishPhony, StartEdge, Miss, Hit, Read, WriteOutput, treeVars
  <2>2. CASE UNCHANGED stale
    BY <2>1, <2>2, Zenon DEF M
  <2>3. CASE Read(e)
    <3>1. stale' = stale \ {e} /\ run[e].at \notin {"no", "logged"}
      BY <2>3 DEF Read
    <3> QED BY <1>1, <2>1, <3>1, Zenon DEF M
  <2> QED BY <2>2, <2>3, Zenon DEF FinishPhony, StartEdge, Miss, Hit, WriteOutput, userVars
<1>3. ASSUME Harmless, ResultOK(e)',
             \A x \in Edges : x # e => run'[x] = run[x] /\ depfile'[x] = depfile[x]
      PROVE  ResultInv'
  BY <1>1, <1>2, <1>3, ResultStep, Zenon
<1>4. ASSUME UNCHANGED disk
      PROVE  Harmless
  BY <1>4, Zenon DEF Harmless
<1>5. CASE FinishPhony(e)
  <2>1. UNCHANGED <<run, disk, depfile>> /\ run[e].at = "no"
    BY <1>5 DEF FinishPhony, treeVars, Ready, Running
  <2>2. ResultOK(e)'
    BY <2>1 DEF ResultOK
  <2> QED BY <1>3, <1>4, <2>1, <2>2, Zenon
<1>6. CASE StartEdge(e)
  <2> DEFINE at == IF Cached THEN "lookup" ELSE "spawned"
             start == clock'
             action == Action(e, Range(scan.ins[e]))
             r == [Idle EXCEPT !.at = at, !.start = start, !.action = action]
  <2>1. UNCHANGED <<disk, depfile>> /\ run' = [run EXCEPT ![e] = r]
    BY <1>6 DEF StartEdge, treeVars
  <2>2. r.at = at
    <3> HIDE DEF at, start, action
    <3> QED BY IdleFacts, Zenon
  <2>3. at \notin {"read", "ended"}
    OBVIOUS
  <2> HIDE DEF r, at
  <2>4. run'[e] = r /\ \A x \in Edges : x # e => run'[x] = run[x]
    BY <1>1, <2>1, RunSet, Zenon
  <2>5. ResultOK(e)'
    BY <2>2, <2>3, <2>4, Zenon DEF ResultOK
  <2> QED BY <1>3, <1>4, <2>1, <2>4, <2>5, Zenon
<1>7. CASE Miss(e)
  <2> DEFINE r == [run[e] EXCEPT !.at = "spawned"]
  <2>1. run' = [run EXCEPT ![e].at = "spawned"] /\ UNCHANGED <<disk, depfile>>
    BY <1>7, Zenon DEF Miss, treeVars
  <2>2. run'[e] = r /\ \A x \in Edges : x # e => run'[x] = run[x]
    BY <1>1, <2>1
  <2>3. r.at = "spawned"
    BY <1>1, AtSet, Zenon
  <2> HIDE DEF r
  <2>4. ResultOK(e)'
    BY <2>2, <2>3 DEF ResultOK
  <2> QED BY <1>3, <1>4, <2>1, <2>2, <2>4, Zenon
<1>8. CASE Hit(e)
  <2>6. PICK hit \in {"sound", "unsound", "empty"} :
          run' = [run EXCEPT ![e].at = "ended", ![e].hit = hit]
    BY <1>8, Zenon DEF Hit
  <2> DEFINE r == [run[e] EXCEPT !.at = "ended", !.hit = hit]
  <2>1. /\ run' = [run EXCEPT ![e].at = "ended", ![e].hit = hit] /\ depfile' = depfile
        /\ run[e].at = "lookup"
    BY <1>8, <2>6, Zenon DEF Hit
  <2>2. run'[e] = r /\ \A x \in Edges : x # e => run'[x] = run[x]
    BY <1>1, <2>1
  <2>3. r.at = "ended" /\ r.hit # "no"
    <3>1. DOMAIN run[e] = {"at", "start", "action", "content", "hit", "deps"}
      BY <1>1, Zenon DEF RunType
    <3>2. r.at = "ended" /\ r.hit = hit
      BY <3>1
    <3> HIDE DEF r
    <3> QED BY <2>6, <3>2
  <2> HIDE DEF r
  <2>4. ResultOK(e)'
    <3>1. r.at # "read"
      BY <2>3
    <3> QED BY <2>2, <2>3, <3>1, Zenon DEF ResultOK
  <2>5. Harmless
    <3>1. e \in want
      BY <1>1, <2>1
    <3>2. UNCHANGED disk \/ \E c : disk' = [disk EXCEPT ![M.out[e]] = c]
      BY <1>8, Zenon DEF Hit, Touch
    <3> QED BY <1>1, <1>4, <3>1, <3>2, HarmlessWrite, Zenon
  <2> QED BY <1>3, <2>1, <2>2, <2>4, <2>5, Zenon
<1>9. CASE Read(e)
  <2>1. UNCHANGED <<disk, depfile, want>> /\ run[e].at = "spawned"
    BY <1>9, Zenon DEF Read, treeVars
  <2>2. CASE run' = [run EXCEPT ![e].at = "broken"]
    <3> DEFINE r == [run[e] EXCEPT !.at = "broken"]
    <3>1. run'[e] = r /\ \A x \in Edges : x # e => run'[x] = run[x]
      BY <1>1, <2>2
    <3>2. r.at = "broken"
      BY <1>1, AtSet, Zenon
    <3> HIDE DEF r
    <3>3. ResultOK(e)'
      BY <3>1, <3>2 DEF ResultOK
    <3> QED BY <1>3, <1>4, <2>1, <3>1, <3>3, Zenon
  <2>3. CASE /\ run' = [run EXCEPT ![e].at = "read", ![e].content = Made(e, Contents)]
             /\ \A f \in Reads(e, disk[M.ins[e][1]].c) : disk[f].m # 0
    <3> DEFINE c == Made(e, Contents)
               r == [run[e] EXCEPT !.at = "read", !.content = c]
    <3>1. Grounded(e, c)
      BY <2>1, <2>3, ReadGrounded, Zenon
    <3>2. run' = [run EXCEPT ![e].at = "read", ![e].content = c]
      BY <2>3, Zenon
    <3> HIDE DEF c
    <3>3. run'[e] = r /\ \A x \in Edges : x # e => run'[x] = run[x]
      BY <1>1, <3>2
    <3>4. r.at = "read" /\ r.content = c
      <4>1. DOMAIN run[e] = {"at", "start", "action", "content", "hit", "deps"}
        BY <1>1, Zenon DEF RunType
      <4> QED BY <4>1
    <3> HIDE DEF r
    <3>5. r.at # "ended"
      BY <3>4
    <3>6. ResultOK(e)'
      BY <1>2, <2>1, <3>1, <3>3, <3>4, <3>5, Zenon DEF ResultOK, Grounded
    <3> QED BY <1>3, <1>4, <2>1, <3>3, <3>6, Zenon
  <2> QED BY <1>9, <2>2, <2>3, Zenon DEF Read
<1>10. CASE WriteOutput(e)
  <2> DEFINE r == [run[e] EXCEPT !.at = "ended"]
             in == DOMAIN run[e].content.in
  <2>1. run' = [run EXCEPT ![e].at = "ended"] /\ run[e].at = "read" /\ UNCHANGED want
    BY <1>10, Zenon DEF WriteOutput
  <2>2. run'[e] = r /\ \A x \in Edges : x # e => run'[x] = run[x]
    BY <1>1, <2>1
  <2>3. r.at = "ended" /\ r.content = run[e].content
    BY <1>1, AtSet, Zenon
  <2> HIDE DEF r
  <2>4. Harmless
    <3>1. e \in want
      BY <1>1, <2>1
    <3>2. UNCHANGED disk \/ \E c : disk' = [disk EXCEPT ![M.out[e]] = c]
      BY <1>10, Zenon DEF WriteOutput, Touch
    <3> QED BY <1>1, <1>4, <3>1, <3>2, HarmlessWrite, Zenon
  <2>5. e \notin stale => GroundedIn(M', disk', want', e, run[e].content)
    BY <1>1, <1>2, <2>1, <2>4, StaysGrounded, Zenon DEF ResultOK
  <2>9. stale' = stale
    BY <1>10, Zenon DEF WriteOutput, userVars
  <2>6. M.deps[e] = "gcc" => Range(depfile'[e].ins) = in
    <3> SUFFICES ASSUME M.deps[e] = "gcc"
                 PROVE  Range(depfile'[e].ins) = in
      OBVIOUS
    <3> DEFINE s == Listing(in)
               d == [exists |-> TRUE, ins |-> s]
    <3>1. M.deps[e] # "none"
      OBVIOUS
    <3>2. depfile' = [depfile EXCEPT ![e] = d]
      BY <1>10, <3>1, Zenon DEF WriteOutput
    <3>3. IsFiniteSet(in)
      BY <1>1, <2>1, ProjectAssumption, FS_Subset, Zenon DEF RunInv, RunOK
    <3> HIDE DEF in
    <3>4. Range(s) = in
      BY <3>3, Listed, Zenon
    <3>5. d.ins = s
      <4> HIDE DEF s
      <4> QED OBVIOUS
    <3> HIDE DEF d, s
    <3>6. depfile'[e] = d
      BY <1>1, <3>2 DEF DepsType
    <3> QED BY <3>4, <3>5, <3>6, Zenon
  <2>7. \A x \in Edges : x # e => depfile'[x] = depfile[x]
    <3>1. UNCHANGED depfile \/ \E d : depfile' = [depfile EXCEPT ![e] = d]
      BY <1>10, Zenon DEF WriteOutput
    <3>2. CASE UNCHANGED depfile
      BY <3>2, Zenon
    <3>3. CASE \E d : depfile' = [depfile EXCEPT ![e] = d]
      BY <1>1, <3>3 DEF DepsType
    <3> QED BY <3>1, <3>2, <3>3, Zenon
  <2>8. ResultOK(e)'
    <3>1. r.at # "read"
      BY <2>3
    <3> QED BY <1>2, <2>2, <2>3, <2>5, <2>6, <2>9, <3>1, Zenon
            DEF ResultOK, Grounded, Reported
  <2> QED BY <1>3, <2>2, <2>4, <2>7, <2>8, Zenon
<1> QED BY <1>5, <1>6, <1>7, <1>8, <1>9, <1>10, Zenon

\* FinishCommand hands on a result whose key will have all that was read.
LEMMA ResultFinished ==
  ASSUME TreeType, RunInv, ResultInv, Cached, NEW e \in M.edges, FinishCommand(e)
  PROVE  ResultInv'
<1> DEFINE deps == ExtractDeps(e)
           content == run[e].content
           u == [edge |-> e, deps |-> deps, i |-> 1, content |-> content]
<1>1. /\ e \in Edges /\ RunType(run[e]) /\ DOMAIN run = Edges /\ ResultOK(e)
      /\ DepsType /\ HasVersion(content) /\ phase # "idle" /\ e \in want
      /\ Range(M.ins[e]) \subseteq Range(scan.ins[e])
  <2>1. e \in Edges
    BY ManifestFacts, Zenon DEF TreeType
  <2>2. run[e].at # "no" /\ run[e].at \notin {"no", "logged"}
    BY DEF FinishCommand
  <2> QED BY <2>1, <2>2, Zenon
          DEF RunInv, RunOK, RunType, ScanType, Started, TreeType, ResultInv
<1>2. /\ UNCHANGED <<project, version, disk, stale>> /\ run[e].at = "ended" /\ e \notin want'
      /\ uploads' = IF Cached /\ run[e].hit = "no" THEN uploads \union {u} ELSE uploads
  BY Zenon DEF FinishCommand
<1>3. want' \subseteq want /\ M' = M /\ Harmless /\ scan'.ins = scan.ins
  BY <1>2, FinishWant, Zenon DEF M, Harmless
<1>4. /\ \A x \in Edges : x # e => run'[x] = run[x] /\ depfile'[x] = depfile[x]
      /\ ResultOK(e)'
  <2>1. \A x \in Edges : x # e => depfile'[x] = depfile[x]
    <3>1. UNCHANGED depfile \/ depfile' = [depfile EXCEPT ![e] = NoDepfile]
      BY Zenon DEF FinishCommand
    <3>2. CASE UNCHANGED depfile
      BY <3>2, Zenon
    <3>3. CASE depfile' = [depfile EXCEPT ![e] = NoDepfile]
      BY <1>1, <3>3 DEF DepsType
    <3> QED BY <3>1, <3>2, <3>3, Zenon
  <2> DEFINE r == [run[e] EXCEPT !.at = "logged", !.deps = deps]
             r2 == IF M.deps[e] = "gcc" THEN r ELSE Idle
  <2>2. run' = [run EXCEPT ![e] = r2]
    BY Zenon DEF FinishCommand
  <2>3. r.at = "logged"
    <3> HIDE DEF deps
    <3>1. DOMAIN run[e] = {"at", "start", "action", "content", "hit", "deps"}
      BY <1>1, Zenon DEF RunType
    <3> QED BY <3>1
  <2>4. r2.at \in {"no", "logged"}
    <3> HIDE DEF r
    <3> QED BY <2>3, IdleFacts, Zenon
  <2> HIDE DEF r2
  <2>5. run'[e] = r2 /\ \A x \in Edges : x # e => run'[x] = run[x]
    BY <1>1, <2>2, RunSet, Zenon
  <2>6. ResultOK(e)'
    BY <2>4, <2>5 DEF ResultOK
  <2> QED BY <2>1, <2>5, <2>6, Zenon
<1>5. ASSUME NEW x \in uploads', x \notin uploads
      PROVE  UploadOK(x)'
  <2>1. x = u /\ run[e].hit = "no"
    BY <1>2, <1>5, Zenon
  <2>5. x = [edge |-> e, deps |-> deps, i |-> 1, content |-> content]
    BY <2>1, Zenon
  <2>6. x.edge = e /\ x.deps = deps /\ x.content = content
    <3> HIDE DEF u, deps, content
    <3> QED BY <2>5
  <2> SUFFICES ASSUME e \notin stale
               PROVE  Grounded(x.edge, x.content)' /\ Keyed(x)'
    BY <1>2, <1>3, <2>6, Zenon DEF UploadOK
  <2>2. Grounded(e, content) /\ Reported(e)
    BY <1>1, <1>2, <2>1, Zenon DEF ResultOK
  <2>3. GroundedIn(M', disk', want', e, content)
    <3> HIDE DEF content
    <3> QED BY <1>2, <1>3, <2>2, StaysGrounded, Zenon
  <2>4. M.deps[e] # "depfile" =>
          DOMAIN content.in \subseteq Range(scan.ins[e]) \union Range(deps)
    <3>1. CASE M.deps[e] = "gcc"
      <4>1. deps = depfile[e].ins
        BY <3>1, Zenon DEF ExtractDeps
      <4> HIDE DEF deps
      <4> QED BY <2>2, <3>1, <4>1, Zenon DEF Reported
    <3>2. CASE M.deps[e] \notin {"gcc", "depfile"}
      BY <1>1, <2>2, <3>2, Zenon DEF Grounded, GroundedIn
    <3> QED BY <3>1, <3>2, Zenon
  <2> HIDE DEF u, deps, content
  <2>7. Keyed(x)'
    BY <1>2, <1>3, <2>4, <2>6, Zenon DEF Keyed
  <2> QED BY <2>3, <2>6, <2>7, Zenon DEF Grounded
<1>6. /\ \A x \in uploads' : x \in uploads \/ UploadOK(x)'
      /\ stale \subseteq stale' \union {e} /\ stale \subseteq stale' \union want
  BY <1>2, <1>5, Zenon
<1> QED BY <1>2, <1>3, <1>4, <1>6, ResultStep, Zenon

\* ResultInv is kept by every step.
LEMMA NextResult ==
  ASSUME TreeType, RunInv, ResultInv, [Next]_vars
  PROVE  ResultInv'
<1>1. UNCHANGED project
  BY Zenon DEF Next, User, Edit, Delete, ChangeManifest, ToolClean, Build, StartBuild,
       FinishPhony, StartEdge, Miss, Hit, Read, WriteOutput, FinishCommand, RecordDeps,
       FinishFailed, Upload, EndBuild, Interrupt, Crash, Terminated, vars, treeVars
<1> SUFFICES ASSUME Cached
             PROVE  ResultInv'
  BY <1>1, Zenon DEF ResultInv, Cached
<1>2. ASSUME phase = "idle", UNCHANGED <<run, uploads>>
      PROVE  ResultInv'
  <2>1. uploads' = {} /\ \A e \in Edges : run'[e].at = "no"
    BY <1>2, Zenon DEF RunInv
  <2> QED BY <2>1, NoResults, Zenon
<1>3. CASE User
  <2>1. ASSUME NEW f, Edit(f) \/ Delete(f)
        PROVE  ResultInv'
    <3>1. /\ stale' = stale \union Overtaken(f) /\ \E c : disk' = [disk EXCEPT ![f] = c]
          /\ UNCHANGED <<project, version, scan, want, run, depfile, uploads>>
      BY <2>1, Zenon DEF Edit, Delete, Touch, buildVars
    <3>2. \A x \in Files : x # f => disk'[x] = disk[x]
      BY <3>1 DEF TreeType, DiskType
    <3> QED BY <3>1, <3>2, ResultEdited, Zenon
  <2> QED BY <1>2, <1>3, <2>1, Zenon DEF User, ChangeManifest, ToolClean, buildVars
<1>4. CASE StartBuild
  BY <1>2, <1>4, Zenon DEF StartBuild
<1>5. ASSUME NEW e \in M.edges,
             FinishPhony(e) \/ StartEdge(e) \/ Miss(e) \/ Hit(e) \/ Read(e) \/ WriteOutput(e)
      PROVE  ResultInv'
  BY <1>5, ResultBefore, Zenon
<1>6. ASSUME NEW e \in M.edges, FinishCommand(e)
      PROVE  ResultInv'
  BY <1>6, ResultFinished, Zenon
<1>7. ASSUME NEW e \in M.edges, RecordDeps(e) \/ FinishFailed(e)
      PROVE  ResultInv'
  <2>1. e \in Edges /\ DOMAIN run = Edges /\ DepsType
    BY ManifestFacts, Zenon DEF TreeType, RunInv
  <2>2. /\ UNCHANGED <<project, version, scan, disk, uploads, stale>> /\ want' \subseteq want
        /\ run' = [run EXCEPT ![e] = Idle]
        /\ UNCHANGED depfile \/ depfile' = [depfile EXCEPT ![e] = NoDepfile]
    BY <1>7, Zenon DEF RecordDeps, FinishFailed
  <2>3. run'[e] = Idle /\ \A x \in Edges : x # e => run'[x] = run[x]
    BY <2>1, <2>2, RunSet, Zenon
  <2>4. \A x \in Edges : x # e => depfile'[x] = depfile[x]
    <3>1. CASE UNCHANGED depfile
      BY <3>1, Zenon
    <3>2. CASE depfile' = [depfile EXCEPT ![e] = NoDepfile]
      BY <2>1, <3>2 DEF DepsType
    <3> QED BY <2>2, <3>1, <3>2, Zenon
  <2>5. ResultOK(e)'
    <3>1. run'[e].at = "no"
      BY <2>3, IdleFacts, Zenon
    <3> QED BY <3>1 DEF ResultOK
  <2>6. Harmless
    BY <2>2, Zenon DEF Harmless
  <2>7. /\ \A u \in uploads' : u \in uploads
        /\ stale \subseteq stale' \union {e} /\ stale \subseteq stale' \union want
    BY <2>2, Zenon
  <2> QED BY <2>2, <2>3, <2>4, <2>5, <2>6, <2>7, ResultStep, Zenon
<1>8. ASSUME NEW u \in uploads, Upload(u)
      PROVE  ResultInv'
  <2>1. /\ UNCHANGED <<project, version, scan, disk, want, run, depfile, stale>>
        /\ \A x \in uploads' : x \in uploads \/ x = [u EXCEPT !.i = @ + 1]
    BY <1>8, UploadFacts, Zenon
  <2>2. M' = M /\ Harmless
    BY <2>1, Zenon DEF M, Harmless
  <2>3. UploadType(u) /\ UploadOK(u)
    BY Zenon DEF RunInv, ResultInv
  <2>4. ASSUME NEW x \in uploads', x \notin uploads
        PROVE  UploadOK(x)'
    <3>1. x = [u EXCEPT !.i = @ + 1]
      BY <2>1, <2>4, Zenon
    <3>2. DOMAIN u = {"edge", "deps", "i", "content"}
      BY <2>3, Zenon DEF UploadType
    <3>3. x.edge = u.edge /\ x.deps = u.deps /\ x.content = u.content
      BY <3>1, <3>2
    <3> QED BY <2>1, <2>2, <2>3, <3>3, Zenon DEF UploadOK, Grounded, Keyed
  <2>5. \A x \in Edges : ResultOK(x)'
    BY <2>1, <2>2, Zenon DEF ResultInv, ResultOK, Grounded, Reported
  <2>6. \A x \in uploads : UploadOK(x)'
    BY <2>1, <2>2, Zenon DEF ResultInv, UploadOK, Grounded, Keyed
  <2> QED BY <2>4, <2>5, <2>6, Zenon DEF ResultInv
<1>9. CASE EndBuild \/ Interrupt \/ Crash
  <2>1. run' = [e \in Edges |-> Idle] /\ uploads' = {}
    BY <1>9, Zenon DEF EndBuild, Interrupt, Crash, Reset
  <2>2. \A e \in Edges : run'[e].at = "no"
    BY <2>1, IdleFacts, Zenon
  <2> QED BY <2>1, <2>2, NoResults, Zenon
<1>10. CASE Terminated \/ UNCHANGED vars
  <2>1. UNCHANGED <<project, version, scan, disk, want, run, depfile, uploads, stale>>
    BY <1>10, Zenon DEF Terminated, vars, treeVars, buildVars, userVars
  <2>2. M' = M
    BY <2>1, Zenon DEF M
  <2> QED BY <2>1, <2>2, Zenon
          DEF ResultInv, ResultOK, UploadOK, Grounded, Reported, Keyed, Cached
<1> QED BY <1>3, <1>4, <1>5, <1>6, <1>7, <1>8, <1>9, <1>10, Zenon DEF Next, Build

\* CacheResult is called by the caching runner only.
LEMMA NextUploads ==
  ASSUME UploadsAreCached, [Next]_vars
  PROVE  UploadsAreCached'
<1>1. ASSUME UNCHANGED project, uploads' \subseteq uploads
      PROVE  UploadsAreCached'
  BY <1>1, Zenon DEF UploadsAreCached, Cached
<1>2. CASE User
  <2>1. UNCHANGED <<project, uploads>>
    BY <1>2, Zenon DEF User, Edit, Delete, ChangeManifest, ToolClean, buildVars
  <2> QED BY <1>1, <2>1, Zenon
<1>3. CASE StartBuild \/ EndBuild \/ Interrupt \/ Crash
  BY <1>1, <1>3, Zenon DEF StartBuild, EndBuild, Interrupt, Crash, Reset, treeVars
<1>4. ASSUME NEW e \in M.edges, FinishPhony(e) \/ StartEdge(e) \/ Miss(e) \/ Hit(e) \/ Read(e)
                                 \/ WriteOutput(e) \/ RecordDeps(e) \/ FinishFailed(e)
      PROVE  UploadsAreCached'
  <2>1. UNCHANGED <<project, uploads>>
    BY <1>4, Zenon DEF FinishPhony, StartEdge, Miss, Hit, Read, WriteOutput, RecordDeps,
         FinishFailed, treeVars
  <2> QED BY <1>1, <2>1, Zenon
<1>5. ASSUME NEW e \in M.edges, FinishCommand(e)
      PROVE  UploadsAreCached'
  <2>1. UNCHANGED project /\ (~Cached => uploads' = uploads)
    BY <1>5, Zenon DEF FinishCommand
  <2> QED BY <2>1, Zenon DEF UploadsAreCached, Cached
<1>6. ASSUME NEW u \in uploads, Upload(u)
      PROVE  UploadsAreCached'
  <2>1. UNCHANGED project
    BY <1>6, Zenon DEF Upload
  <2> QED BY <2>1, <1>6, Zenon DEF UploadsAreCached, Cached
<1>7. CASE Terminated \/ UNCHANGED vars
  BY <1>1, <1>7, Zenon DEF Terminated, vars, treeVars, buildVars
<1> QED BY <1>2, <1>3, <1>4, <1>5, <1>6, <1>7, Zenon DEF Next, Build

\* An entry that an upload puts into the cache matches its key.
LEMMA NextMatches ==
  ASSUME RunInv, UploadsAreCached, ResultInv, CacheEntriesMatchKeys, [Next]_vars
  PROVE  CacheEntriesMatchKeys'
<1>1. ASSUME UNCHANGED actionCache
      PROVE  CacheEntriesMatchKeys'
  BY <1>1, Zenon DEF CacheEntriesMatchKeys
<1>2. ASSUME NEW u \in uploads, Upload(u)
      PROVE  CacheEntriesMatchKeys'
  <2> DEFINE results == ActionResults(u.edge, scan.ins[u.edge], u.deps, u.content)
             inputs == Range(scan.ins[u.edge]) \union Range(u.deps)
             all == Action(u.edge, inputs)
  <2>1. \A r \in actionCache' : r \in actionCache \/ Stored(r, results[u.i], Sound(u))
    BY <1>2, UploadFacts, Zenon
  <2>2. /\ UploadType(u)
        /\ Sound(u) => Grounded(u.edge, u.content) /\ Keyed(u) /\ M.deps[u.edge] # "depfile"
    BY Zenon DEF RunInv, UploadsAreCached, ResultInv, UploadOK, Sound
  <2>3. Placed(results, all, u.deps, u.content)
    BY ResultFacts, Zenon
  <2>4. /\ all.cmd = M.cmd[u.edge]
        /\ DOMAIN all.in = {i \in inputs : disk[i].m > 0}
        /\ \A f \in {i \in inputs : disk[i].m > 0} : all.in[f] = disk[f].c
    <3> DEFINE in == [f \in {i \in inputs : disk[i].m > 0} |-> disk[f].c]
               cmd == M.cmd[u.edge]
    <3>1. all = [cmd |-> cmd, in |-> in]
      BY Zenon DEF Action
    <3>2. /\ DOMAIN in = {i \in inputs : disk[i].m > 0}
          /\ \A f \in {i \in inputs : disk[i].m > 0} : in[f] = disk[f].c
      BY Zenon
    <3> HIDE DEF all, in, cmd
    <3>3. all.cmd = cmd /\ all.in = in
      BY <3>1
    <3> QED BY <3>2, <3>3, Zenon DEF cmd
  <2> DEFINE c == u.content
  <2>5. ASSUME Sound(u)
        PROVE  /\ c.cmd = all.cmd
               /\ DOMAIN c.in \subseteq DOMAIN all.in
               /\ \A f \in DOMAIN c.in :
                     c.in[f] \in {all.in[f], [all.in[f] EXCEPT !.v = @ \div 2]}
    <3> HIDE DEF all
    <3>1. /\ c.cmd = M.cmd[u.edge] /\ DOMAIN c.in \subseteq inputs
          /\ \A f \in DOMAIN c.in :
                disk[f].m > 0 /\ c.in[f] \in {disk[f].c, [disk[f].c EXCEPT !.v = @ \div 2]}
      BY <2>2, <2>5, Zenon DEF Grounded, GroundedIn, Keyed
    <3> HIDE DEF c, inputs
    <3>2. DOMAIN c.in \subseteq DOMAIN all.in /\ \A f \in DOMAIN c.in : all.in[f] = disk[f].c
      BY <2>4, <3>1, Zenon
    <3> QED BY <2>4, <3>1, <3>2, Zenon
  <2> HIDE DEF results, all, c
  <2>6. ASSUME NEW r \in actionCache', r.kind = "full", r \notin actionCache
        PROVE  r.content = c /\ r.sound = Sound(u) /\ (r.key = all \/ r.key = NilAction)
    <3>1. Stored(r, results[u.i], Sound(u))
      BY <2>1, <2>6, Zenon
    <3>2. UploadType(u) /\ r.kind = "full"
      BY <2>2, <2>6, Zenon
    <3>3. StoredFull(r, all, u.content, Sound(u))
      BY <2>3, <3>1, <3>2, UploadStored, Zenon
    <3> QED BY <3>2, <3>3, Zenon DEF c, StoredFull
  <2>7. ASSUME NEW r \in actionCache', r.kind = "full", r.sound, r.key # NilAction
        PROVE  /\ r.content.cmd = r.key.cmd
               /\ DOMAIN r.content.in \subseteq DOMAIN r.key.in
               /\ \A f \in DOMAIN r.content.in :
                     r.content.in[f] \in {r.key.in[f], [r.key.in[f] EXCEPT !.v = @ \div 2]}
    <3>1. CASE r \in actionCache
      BY <2>7, <3>1, Zenon DEF CacheEntriesMatchKeys
    <3>2. CASE r \notin actionCache
      BY <2>5, <2>6, <2>7, <3>2, Zenon
    <3> QED BY <3>1, <3>2, Zenon
  <2> QED BY <2>7, Zenon DEF CacheEntriesMatchKeys
<1> QED BY <1>1, <1>2, Zenon
        DEF Next, User, Edit, Delete, ChangeManifest, ToolClean, Build, StartBuild,
            FinishPhony, StartEdge, Miss, Hit, Read, WriteOutput, FinishCommand, RecordDeps,
            FinishFailed, EndBuild, Interrupt, Crash, Terminated, vars, treeVars

\* A full entry of the cache holds what its command makes of the inputs in its
\* key, and all that the command read is in the key, although the key is made
\* from the files as they are when the upload runs and other edges have run.  The
\* only other entries are those of an edge with an input that was changed between
\* the read and the upload, those of an edge with a depfile and no deps, and those
\* under the digest of no action (setActionResult).
THEOREM EntriesMatchKeys == Spec => []CacheEntriesMatchKeys
<1> USE DEF Spec
<1>1. Init => UploadsAreCached /\ ResultInv /\ CacheEntriesMatchKeys
  <2> SUFFICES ASSUME Init
               PROVE  UploadsAreCached /\ ResultInv /\ CacheEntriesMatchKeys
    OBVIOUS
  <2>1. actionCache = {} /\ uploads = {} /\ \A e \in Edges : run[e] = Idle
    BY Zenon DEF Init
  <2>2. \A e \in Edges : run[e].at = "no"
    BY <2>1, IdleFacts, Zenon
  <2>3. \A e \in Edges : ResultOK(e)
    BY <2>2 DEF ResultOK
  <2> QED BY <2>1, <2>3, Zenon DEF UploadsAreCached, ResultInv, CacheEntriesMatchKeys
<1>2. CacheInv /\ [Next]_vars => CacheInv'
  BY NextTree, NextRun, NextUploads, NextResult, NextMatches, Zenon DEF CacheInv
<1>3. Init => CacheInv
  BY <1>1, InitTree, Zenon DEF CacheInv
<1>4. CacheInv => CacheEntriesMatchKeys
  BY Zenon DEF CacheInv
<1> QED BY <1>2, <1>3, <1>4, PTL
=============================================================================
