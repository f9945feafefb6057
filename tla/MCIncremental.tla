--------------------------- MODULE MCIncremental ---------------------------
(***************************************************************************)
(* Small projects around one shape:                                        *)
(*     e1: o1 from s, which includes h or the generated o2                 *)
(*     e2: o2 from g, a restat rule                                        *)
(*     e3: o3 from o2 and o1 in this order or the other, or from o1        *)
(*     all: phony, o3, or o2 and o1 where there is no e3                   *)
(* The second manifest changes the commands of e1 and e2; the third takes  *)
(* o1 as a source and no longer mentions o3.                               *)
(***************************************************************************)
EXTENDS Incremental, TLC

AllEdges == {"e1", "e2", "e3", "all"}

Manifest(edges, deps, before, generators, link) ==
    [edges |-> edges,
     ins |-> [e1 |-> <<"s">>, e2 |-> <<"g">>, e3 |-> link,
              all |-> IF "e3" \in edges THEN <<"o3">> ELSE <<"o2", "o1">>],
     orderOnly |-> [e \in AllEdges |-> IF e = "e1" THEN before ELSE {}],
     out |-> [e1 |-> "o1", e2 |-> "o2", e3 |-> "o3", all |-> "all"],
     cmd |-> [e1 |-> "cc", e2 |-> "gen", e3 |-> "ld", all |-> "phony"],
     deps |-> [e \in AllEdges |-> IF e = "e1" THEN deps ELSE "none"],
     restat |-> {"e2"}, generator |-> generators, phony |-> {"all"}]

Versions(m) ==
    LET second == [m EXCEPT !.cmd.e1 = "cc2", !.cmd.e2 = "gen2"]
    IN  <<m, second,
          [second EXCEPT !.edges = @ \intersect {"e2", "all"}, !.ins.all = <<"o2", "o1">>]>>

IncludesOf(i0, i1, i2) ==
    [e \in AllEdges |-> IF e = "e1" THEN (0 :> i0 @@ 1 :> i1 @@ 2 :> i2)
                        ELSE [v \in 0..2 |-> {}]]

GeneratedHeader == IncludesOf({"h"}, {"h", "o2"}, {"o2"})

CachedCompile ==
    [cache |-> TRUE, includes |-> GeneratedHeader,
     manifests |-> Versions(Manifest({"e1", "e2", "all"}, "gcc", {"o2"}, {}, <<>>))]

MCCachedCompile == {CachedCompile}

MCProjects ==
    {[cache |-> FALSE, includes |-> GeneratedHeader,
      manifests |-> Versions(Manifest(AllEdges, "gcc", {"o2"}, {}, <<"o2", "o1">>))],
     [cache |-> FALSE, includes |-> IncludesOf({"h"}, {}, {"h"}),
      manifests |-> Versions(Manifest(AllEdges, "depfile", {}, {"e3"}, <<"o1", "o2">>))],
     CachedCompile,
     [cache |-> TRUE, includes |-> IncludesOf({"h"}, {}, {"h"}),
      manifests |-> Versions(Manifest({"e1", "e3", "all"}, "depfile", {}, {}, <<"o1">>))]}

MCRules == {{"e1"}}
=============================================================================
