--------------------------- MODULE DependencyScan ---------------------------
(***************************************************************************)
(* What a run of the program finds out before it builds: the dependencies  *)
(* that earlier runs discovered, and the files that are dirty.  A manifest *)
(* is a record of functions on its edges; an edge has one output.          *)
(***************************************************************************)
EXTENDS Integers, Sequences, FiniteSetsExt

CONSTANTS Files, Edges,
          Projects        \* each: the versions of its manifest, in the order
                          \* of time, and whether it builds with a cache

ASSUME ProjectAssumption ==
    /\ IsFiniteSet(Files) /\ IsFiniteSet(Edges)
    /\ \A p \in Projects:
          /\ Len(p.manifests) \in Nat \ {0}
          /\ \A k \in 1..Len(p.manifests): LET m == p.manifests[k] IN
               /\ m.edges \subseteq Edges
               /\ \A e \in m.edges: /\ m.out[e] \in Files /\ m.orderOnly[e] \subseteq Files
                                    /\ m.ins[e] \in Seq(Files)

VARIABLES project,        \* the project that is built
          version,        \* the version of its manifest in use
          disk,           \* disk[f]: content c and mtime m, 0 for a missing file
          depfile,        \* depfile[e]: the depfile of edge e
          log,            \* the build log, by output
          depsLog         \* the deps log, by output

M == project.manifests[version]

Missing == [c |-> [cmd |-> "missing", v |-> 0, in |-> <<>>], m |-> 0]
NoEntry == [hash |-> "none", mtime |-> 0]
NoDeps == [mtime |-> -1, nodes |-> <<>>]
NoDepfile == [exists |-> FALSE, ins |-> <<>>]

InEdges(f) == {e \in M.edges: M.out[e] = f}

\* Nodes named in the manifest; every other node comes from a dep loader.
ManifestNodes ==
    UNION {Range(M.ins[e]) \union M.orderOnly[e] \union {M.out[e]}: e \in M.edges}

Loaded(nodes) == [loaded |-> TRUE, nodes |-> nodes]
NotLoaded == [loaded |-> FALSE, nodes |-> <<>>]

\* Mutant: deps are as old as the output, and taken for out of date.
LoadDepsStrictly(e) ==
    LET deps == depsLog[M.out[e]]
    IN  IF disk[M.out[e]].m >= deps.mtime THEN NotLoaded ELSE Loaded(deps.nodes)

LoadDepsFromLog(e) ==
    LET deps == depsLog[M.out[e]]
    IN  IF deps = NoDeps \/ disk[M.out[e]].m > deps.mtime THEN NotLoaded
        ELSE Loaded(deps.nodes)

LoadDepFile(e) ==
    IF depfile[e].exists THEN Loaded(depfile[e].ins) ELSE NotLoaded

LoadDeps(e) ==
    CASE M.deps[e] = "gcc" -> LoadDepsFromLog(e)
      [] M.deps[e] = "depfile" -> LoadDepFile(e)
      [] OTHER -> Loaded(<<>>)

\* RecomputeOutputDirty, for an output that was found with mtime m and the
\* mtime of the most recent clean input, -1 if there is none.
OutputDirty(e, m, recent) ==
    LET entry == log[M.out[e]]
        recorded == entry # NoEntry
        usedRestat == e \in M.restat /\ recorded
    IN  IF e \in M.phony THEN Len(M.ins[e]) = 0 /\ M.orderOnly[e] = {} /\ m = 0
        ELSE \/ m = 0
             \/ ~usedRestat /\ m < recent
             \/ recorded /\ e \notin M.generator /\ entry.hash # M.cmd[e]
             \/ recorded /\ entry.mtime < recent
             \/ ~recorded /\ e \notin M.generator

\* F of the value v, which TLC then computes only once.
Of(v, F(_)) == CHOOSE r \in {F(x): x \in {v}}: TRUE

Inputs(e) == M.ins[e] \o LoadDeps(e).nodes

\* RecomputeNodeDirty for the output f of edge e, given what the walk found for
\* the edge's inputs.  A phony output that does not exist gets the mtime of
\* the most recent input.
RecomputeNodeDirty(e, f, from) ==
    LET recent == Max({n.mtime: n \in {x \in from: ~x.dirty}} \union {-1})
        dirty == \/ ~LoadDeps(e).loaded
                 \/ \E n \in from: n.dirty
                 \/ OutputDirty(e, disk[f].m, recent)
        fake == e \in M.phony /\ disk[f].m = 0 /\ ~dirty /\ recent >= 0
    IN  [dirty |-> dirty, mtime |-> IF fake THEN recent ELSE disk[f].m]

\* What the walk finds for every node.
NodeStates ==
    LET node[f \in Files] ==
            IF InEdges(f) = {}
            THEN [dirty |-> disk[f].m = 0, mtime |-> disk[f].m]
            ELSE LET e == CHOOSE x \in InEdges(f): TRUE
                 IN  Of({node[i]: i \in Range(Inputs(e))},
                        LAMBDA from: RecomputeNodeDirty(e, f, from))
    IN  node

\* RecomputeDirty of the whole graph: the dirty nodes, the mtimes the nodes
\* keep, the inputs of each edge with the loaded ones, and the edges whose
\* dependencies could not be loaded.
RecomputeDirty ==
    LET node == NodeStates
        visited == ManifestNodes \union UNION {Range(Inputs(e)): e \in M.edges}
    IN  [dirty |-> {f \in visited: node[f].dirty},
         mtime |-> [f \in Files |-> node[f].mtime],
         ins |-> [e \in M.edges |-> Inputs(e)],
         depsMissing |-> {e \in M.edges: ~LoadDeps(e).loaded}]

\* The edges in S and the edges that make their inputs, which ins gives.
WithInputs(ins, S) ==
    S \union {x \in M.edges: \E e \in S: M.out[x] \in Range(ins[e]) \union M.orderOnly[e]}

\* The edges that have to be visited to make f, with these inputs of the edges.
Needs(ins, f) ==
    LET needs[n \in 0..Cardinality(M.edges)] ==
            IF n = 0 THEN InEdges(f) ELSE WithInputs(ins, needs[n - 1])
    IN  needs[Cardinality(M.edges)]
=============================================================================
