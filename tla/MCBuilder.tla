----------------------------- MODULE MCBuilder ------------------------------
(***************************************************************************)
(* A small project for TLC: a generator of two headers, two compilations   *)
(* in a pool of depth one (one of them needs the header only in order), a  *)
(* check of the second header in the same pool, a link, a phony target and *)
(* a manual that depends on none of them.                                  *)
(***************************************************************************)
EXTENDS Builder

MCEdges == {"gen", "cca", "ccb", "check", "link", "all", "doc"}

MCPools == {"default", "cc"}

MCOuts == [gen |-> {"h1", "h2"}, cca |-> {"a.o"}, ccb |-> {"b.o"},
           check |-> {"stamp"}, link |-> {"app"}, all |-> {"all"},
           doc |-> {"manual"}]

MCIns == [gen |-> <<"spec">>, cca |-> <<"a.c", "h1">>, ccb |-> <<"b.c">>,
          check |-> <<"h2">>, link |-> <<"a.o", "b.o">>,
          all |-> <<"app", "stamp">>, doc |-> <<"a.c">>]

MCOrderOnly == [gen |-> {}, cca |-> {}, ccb |-> {"h1"}, check |-> {},
                link |-> {}, all |-> {}, doc |-> {}]

(* The same project with the order-only input turned into an implicit one, *)
(* so that no edge of the plan is clean.                                   *)
MCInsStrict == [MCIns EXCEPT !.ccb = <<"b.c", "h1">>]

MCNoOrderOnly == [e \in MCEdges |-> {}]

MCNodes == {"spec", "h1", "h2", "a.c", "b.c", "a.o", "b.o", "stamp", "app",
            "all", "manual"}

MCPoolOf == [gen |-> "default", cca |-> "cc", ccb |-> "cc", check |-> "cc",
             link |-> "default", all |-> "default", doc |-> "default"]

MCDepth == [default |-> 0, cc |-> 1]

(* Critical path first, then the edge declared first.                      *)
MCPriority == [gen |-> 6, cca |-> 5, ccb |-> 4, check |-> 2, link |-> 3,
               all |-> 1, doc |-> 0]

MCPhony == {"all"}

(* The load average leaves no room, or room for two commands.             *)
MCLoads == {-1, 2}
=============================================================================
