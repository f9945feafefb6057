------------------------------ MODULE Cleaner ------------------------------
(***************************************************************************)
(* -t clean and -t cleandead: the files they remove, output files by name  *)
(* and depfiles by edge.                                                   *)
(***************************************************************************)
EXTENDS DependencyScan

Commands == M.edges \ M.phony

Removed(edges) == [outs |-> {M.out[e]: e \in edges}, depfiles |-> edges]

\* CleanAll: generators keep their outputs unless -g is given.
CleanAll(generator) ==
    Removed(IF generator THEN Commands ELSE Commands \ M.generator)

\* DoCleanTarget: the target's edge and, through its inputs, every edge it
\* needs.  No log is loaded for -t clean, so these are the manifest's inputs.
CleanTarget(target) == Removed(Needs(M.ins, target) \ M.phony)

\* DoCleanRule; -g does not matter here.
CleanRule(edges) == Removed(edges)

\* Mutant: only in-edges keep a file alive.
CleanUnbuilt ==
    [outs |-> {f \in Files: log[f] # NoEntry /\ InEdges(f) = {}}, depfiles |-> {}]

\* CleanDead: what the build log knows and the graph no longer mentions.  A
\* node that is only in the deps log has no edge.
CleanDead ==
    [outs |-> {f \in Files: log[f] # NoEntry /\ f \notin ManifestNodes},
     depfiles |-> {}]
=============================================================================
