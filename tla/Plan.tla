-------------------------------- MODULE Plan --------------------------------
(***************************************************************************)
(* The build plan of internal/build/build.go (type Plan) with the pools of *)
(* internal/graph/pool.go: which edges are wanted, which are ready to run, *)
(* and which wait for a place in their pool.  The graph is static: no      *)
(* dyndep file is pending.                                                 *)
(*                                                                         *)
(* Plan declares the state and the methods of Plan that change it; the     *)
(* module Builder sequences them the way Builder.Build does.               *)
(***************************************************************************)
EXTENDS Jobserver, Sequences

CONSTANTS
  Nodes,        \* files
  Edges,        \* build statements
  Pools,        \* pools, the default and the console pool included
  Outs,         \* Outs[e]: the set of nodes edge e produces
  Ins,          \* Ins[e]: its explicit, then implicit inputs, in order
  OrderOnly,    \* OrderOnly[e]: its order-only inputs
  PoolOf,       \* PoolOf[e]: the pool e belongs to
  Depth,        \* Depth[p]: capacity of pool p, 0 when unlimited
  Priority,     \* Priority[e]: position in the order of EdgePriorityLess
  Phony,        \* the phony edges
  DepsMissing,  \* edges whose recorded dependencies could not be loaded
  Targets       \* edges producing the requested targets and validations

(* The graph a manifest can declare: an output has one producer, and the   *)
(* edge id makes the priority order strict.                                *)
ASSUME PlanAssumption ==
  /\ IsFiniteSet(Edges)
  /\ Outs \in [Edges -> SUBSET Nodes]
  /\ Ins \in [Edges -> Seq(Nodes)]
  /\ OrderOnly \in [Edges -> SUBSET Nodes]
  /\ PoolOf \in [Edges -> Pools]
  /\ Depth \in [Pools -> Nat]
  /\ Priority \in [Edges -> Nat]
  /\ Phony \subseteq Edges
  /\ DepsMissing \subseteq Edges
  /\ Targets \subseteq Edges
  /\ \A e, f \in Edges : e # f => /\ Outs[e] \cap Outs[f] = {}
                                  /\ Priority[e] # Priority[f]

VARIABLES
  want,          \* Plan.want: "none" for an edge that is not in the map
  outputsReady,  \* the edges whose flag outputsReady is set
  dirty,         \* the nodes whose flag dirty is set
  ready,         \* Plan.ready: how many times each edge is in the queue
  currentUse,    \* Pool.currentUse
  delayed,       \* the edges in the delayed list of their pool
  wantedEdges,   \* Plan.wantedEdges
  commandEdges,  \* Plan.commandEdges
  jobSlot        \* Edge.jobSlot

planVars == <<want, outputsReady, dirty, ready, currentUse, delayed,
              wantedEdges, commandEdges, jobSlot>>

Wants == {"none", "nothing", "toStart", "toFinish"}

-----------------------------------------------------------------------------
(* The graph.                                                              *)

NonOrderOnlyInputs(e) == {Ins[e][i] : i \in DOMAIN Ins[e]}

Inputs(e) == NonOrderOnlyInputs(e) \cup OrderOnly[e]

(* Edge p is the in-edge of some input of edge e.                          *)
Feeds(p, e) == Outs[p] \cap Inputs(e) # {}

(* VerifyDAG stops the scan at a dependency cycle, before there is a plan: *)
(* in every set of edges there is one that no edge of the set feeds.       *)
ASSUME AcyclicAssumption ==
  \A S \in SUBSET Edges : S # {} => \E e \in S : \A p \in S : ~Feeds(p, e)

(* Mutant: AllInputsReady looks at non-order-only inputs only.             *)
OrderOnlyIgnored(e, done) ==
  \A p \in Edges : Outs[p] \cap NonOrderOnlyInputs(e) # {} => p \in done

(* Edge.AllInputsReady, when the edges in done have their outputs ready.   *)
AllInputsReady(e, done) == \A p \in Edges : Feeds(p, e) => p \in done

IsWanted(w, e) == w[e] \in {"toStart", "toFinish"}

MoreToDo == wantedEdges > 0 /\ commandEdges > 0

-----------------------------------------------------------------------------
(* What the dependency scan and AddTarget leave behind.                    *)

(* RecomputeNodeDirty: an edge is dirty on its own account or because a    *)
(* non-order-only input is; a phony edge only for the latter reason, or    *)
(* when it has no inputs and its output is missing.                        *)
ScanDirty(D) ==
  /\ \A e \in Edges :
       (\E p \in D : Outs[p] \cap NonOrderOnlyInputs(e) # {}) => e \in D
  /\ \A e \in D \cap Phony :
       \/ Inputs(e) = {}
       \/ \E p \in D : Outs[p] \cap NonOrderOnlyInputs(e) # {}

(* RecomputeNodeDirty: the outputs of an edge are ready when every input   *)
(* is and the edge is clean, or is phony and has no inputs.                *)
ScanReady(D, R) ==
  \A e \in Edges :
    e \in R <=> /\ AllInputsReady(e, R)
                /\ e \in D => e \in Phony /\ Inputs(e) = {}

(* AddSubTarget: the edges reached from the targets through edges whose    *)
(* outputs are not ready.                                                  *)
Reached(R, W) ==
  \A e \in Edges :
    e \in W <=> /\ e \notin R
                /\ e \in Targets \/ \E f \in W : Feeds(e, f)

(* The plan after Builder.AddTarget has been called for every target.      *)
PlanInit ==
  \E D \in SUBSET Edges :
    /\ ScanDirty(D)
    /\ dirty = UNION {Outs[e] : e \in D}
    /\ outputsReady \in SUBSET Edges
    /\ ScanReady(D, outputsReady)
    /\ \E W \in SUBSET Edges :
         /\ Reached(outputsReady, W)
         /\ want = [e \in Edges |-> IF e \notin W THEN "none"
                                    ELSE IF e \in D THEN "toStart" ELSE "nothing"]
         /\ wantedEdges = Cardinality(W \cap D)
         /\ commandEdges = Cardinality((W \cap D) \ Phony)
    /\ ready = [e \in Edges |-> 0]
    /\ currentUse = [p \in Pools |-> 0]
    /\ delayed = {}
    /\ jobSlot = [e \in Edges |-> ZeroSlot]

-----------------------------------------------------------------------------
(* Pools.                                                                  *)

ShouldDelayEdge(e) == Depth[PoolOf[e]] # 0

InPool(p) == {e \in Edges : PoolOf[e] = p}

(* Mutant: RetrieveReadyEdges stops one edge too early.                    *)
RetrieveOneLess(room, old, new, T) ==
  /\ T # {} => Cardinality(T) < room
  /\ T # old \cup new => Cardinality(T) >= room - 1
  /\ \A e \in T, f \in old \ T : e \in old /\ Priority[e] > Priority[f]

(* Pool.RetrieveReadyEdges with room for that many edges: old are the      *)
(* edges delayed before, new the ones delayed during this step, each at    *)
(* its turn (the order in which a node lists its out-edges is left open),  *)
(* and T the edges that leave the list for the ready queue.  Old edges     *)
(* leave by priority, and a new edge leaves only when no old one is left.  *)
RetrieveReadyEdges(room, old, new, T) ==
  /\ T # {} => Cardinality(T) <= room
  /\ T # old \cup new => Cardinality(T) >= room
  /\ \A e \in T, f \in old \ T : e \in old /\ Priority[e] > Priority[f]

(* What one step does to the pools and the ready queue: use is currentUse  *)
(* once finished edges have given back their places, the pools of the      *)
(* edges in touched retrieve what they can from old and new (the limited   *)
(* edges it schedules), and the edges in direct go straight to the queue,  *)
(* which was rdy.                                                          *)
Schedule(rdy, use, touched, old, new, direct) ==
  \E T \in SUBSET (old \cup new) :
    /\ \A p \in Pools :
         IF touched \cap InPool(p) = {}
         THEN T \cap InPool(p) = {}
         ELSE RetrieveReadyEdges(Depth[p] - use[p], old \cap InPool(p),
                                 new \cap InPool(p), T \cap InPool(p))
    /\ delayed' = (old \cup new) \ T
    /\ currentUse' = [p \in Pools |-> use[p] + Cardinality(T \cap InPool(p))]
    /\ ready' = [e \in Edges |-> IF e \in T \cup direct THEN rdy[e] + 1
                                                        ELSE rdy[e]]

(* Plan.ScheduleInitialEdges: an edge of a limited pool is delayed without *)
(* its want becoming "toFinish"; the others go through ScheduleWork.       *)
ScheduleInitialEdges ==
  LET initial == {e \in Edges : /\ want[e] = "toStart"
                                /\ AllInputsReady(e, outputsReady)}
      limited == {e \in initial : ShouldDelayEdge(e)}
      direct == initial \ limited
  IN  /\ want' = [e \in Edges |-> IF e \in direct THEN "toFinish"
                                                  ELSE want[e]]
      /\ Schedule(ready, currentUse, limited, delayed \cup limited, {}, direct)
      /\ UNCHANGED <<outputsReady, dirty, wantedEdges, commandEdges, jobSlot,
                     jobserverVars>>

-----------------------------------------------------------------------------
(* Plan.FindWork.                                                          *)

(* The edge Peek returns.                                                  *)
IsTop(e) ==
  /\ ready[e] > 0
  /\ \A f \in Edges : ready[f] > 0 => Priority[f] <= Priority[e]

(* Mutant: FindWork peeks at the queue and does not pop.                   *)
OnlyPeeked(e) == ready

Popped(e) == [ready EXCEPT ![e] = @ - 1]

(* FindWork takes the first edge e of the queue, and with it a valid slot  *)
(* of the jobserver: s, which leaves the client in state c.                *)
FindWork(e, s, c) ==
  /\ IsTop(e)
  /\ IF UseJobserver THEN Valid(s) /\ c = AfterAcquire(s)
                     ELSE s = jobSlot[e] /\ c = Client

(* The slots FindWork may try to take e with.                              *)
SlotsFor(e) == IF UseJobserver THEN TryAcquire ELSE {jobSlot[e]}

(* FindWork gets no token for the first edge of the queue, which keeps its *)
(* place and remembers the invalid slot.                                   *)
FindNoToken ==
  /\ UseJobserver
  /\ TryAcquire = {InvalidSlot}
  /\ \E e \in Edges : /\ IsTop(e)
                      /\ jobSlot' = [jobSlot EXCEPT ![e] = InvalidSlot]
  /\ UNCHANGED <<want, outputsReady, dirty, ready, currentUse, delayed,
                 wantedEdges, commandEdges, jobserverVars>>

(* Plan.EdgeFinished and RealCommandRunner.ClearJobTokens release the      *)
(* slots of the edges in S, if there is a jobserver.                       *)
ReleaseSlots(c, S, slot) ==
  SetClient(IF UseJobserver THEN AfterRelease(c, S, slot) ELSE c)

-----------------------------------------------------------------------------
(* Plan.CleanNode.                                                         *)

(* The positions sort.Search(n, f) looks at as long as f answers false.    *)
SearchProbes(n) ==
  LET from[i \in 0..n] == IF i = n THEN {}
                          ELSE LET h == (i + n) \div 2
                               IN  {h + 1} \cup from[h + 1]
  IN  from[0]

(* sort.Search over the inputs finds no dirty one, d being the dirty nodes.*)
SearchFindsNoDirty(e, d) ==
  \A i \in SearchProbes(Len(Ins[e])) : Ins[e][i] \notin d

(* Plan.want once CleanNode has un-wanted the edges in C.                  *)
WantAfterClean(C) == [f \in Edges |-> IF f \in C THEN "nothing" ELSE want[f]]

(* C is a set of edges that CleanNode may un-want when it is called for    *)
(* the nodes in K: an edge with a cleaned input, none of whose inputs is   *)
(* found dirty.  RecomputeOutputsDirty then gives any answer for a command *)
(* and always answers "clean" for a phony edge.                            *)
CleanNode(K, C) ==
  LET cleaned == K \cup UNION {Outs[f] : f \in C}
      eligible == {f \in Edges :
                     /\ IsWanted(want, f)
                     /\ f \notin DepsMissing
                     /\ Inputs(f) \cap cleaned # {}
                     /\ SearchFindsNoDirty(f, dirty \ cleaned)}
  IN  /\ C \subseteq eligible
      /\ eligible \cap Phony \subseteq C
      /\ dirty' = dirty \ cleaned

-----------------------------------------------------------------------------
(* Plan.EdgeFinished.                                                      *)

(* Mutant: EdgeMaybeReady does not wait for the other inputs of an edge    *)
(* that needs no work.                                                     *)
FinishingTooEarly(e, w) ==
  {f \in Edges : \A C \in SUBSET Edges :
     (/\ e \in C
      /\ \A g \in Edges : w[g] = "nothing" /\ (\E p \in C : Feeds(p, g))
                          => g \in C)
     => f \in C}

(* The edges whose outputs become ready when edge e finishes, w being the  *)
(* value of want: e and, as NodeFinished, EdgeMaybeReady and EdgeFinished  *)
(* call one another, every edge of the plan that needs no work once its    *)
(* inputs are ready.                                                       *)
Finishing(e, w) ==
  {f \in Edges : \A C \in SUBSET Edges :
     (/\ e \in C
      /\ \A g \in Edges : (/\ w[g] = "nothing"
                           /\ \E p \in C : Feeds(p, g)
                           /\ AllInputsReady(g, outputsReady \cup C))
                          => g \in C)
     => f \in C}

(* Mutant: EdgeFinished does not tell the pool.                            *)
PlaceKept(e, w) == currentUse

(* Pool.EdgeFinished gives back the place of e, if e was directly wanted.  *)
UseAfter(e, w) ==
  [p \in Pools |-> IF p = PoolOf[e] /\ Depth[p] # 0 /\ IsWanted(w, e)
                   THEN currentUse[p] - 1 ELSE currentUse[p]]

(* EdgeFinished(e, EdgeSucceeded), after CleanNode has un-wanted the edges *)
(* in C.  The ready queue is rdy, the slots of the edges are slot, and the *)
(* jobserver client is in state c.                                         *)
EdgeSucceeded(e, C, rdy, slot, c) ==
  LET w == WantAfterClean(C)
      finishing == Finishing(e, w)
      done == outputsReady \cup finishing
      woken == {f \in Edges : /\ w[f] = "toStart"
                              /\ \E p \in finishing : Feeds(p, f)
                              /\ AllInputsReady(f, done)}
      limited == {f \in woken : ShouldDelayEdge(f)}
  IN  /\ outputsReady' = done
      /\ want' = [f \in Edges |-> IF f \in finishing THEN "none"
                                  ELSE IF f \in woken THEN "toFinish"
                                  ELSE w[f]]
      /\ wantedEdges' = wantedEdges - Cardinality(C)
                        - (IF IsWanted(w, e) THEN 1 ELSE 0)
      /\ commandEdges' = commandEdges - Cardinality(C \ Phony)
      /\ Schedule(rdy, UseAfter(e, w), finishing \cup limited, delayed,
                  limited, woken \ limited)
      /\ ReleaseSlots(c, finishing, slot)
      /\ jobSlot' = slot

(* Mutants: a failed edge is dropped from the plan, counted as done, or    *)
(* keeps its token.                                                        *)
FailedIsForgotten(e) ==
  /\ Schedule(ready, UseAfter(e, want), {e}, delayed, {}, {})
  /\ ReleaseSlots(Client, {e}, jobSlot)
  /\ want' = [want EXCEPT ![e] = "none"]
  /\ UNCHANGED <<outputsReady, dirty, wantedEdges, commandEdges, jobSlot>>

FailedIsCounted(e) ==
  /\ Schedule(ready, UseAfter(e, want), {e}, delayed, {}, {})
  /\ ReleaseSlots(Client, {e}, jobSlot)
  /\ wantedEdges' = wantedEdges - 1
  /\ UNCHANGED <<want, outputsReady, dirty, commandEdges, jobSlot>>

FailedKeepsToken(e) ==
  /\ Schedule(ready, UseAfter(e, want), {e}, delayed, {}, {})
  /\ UNCHANGED <<want, outputsReady, dirty, wantedEdges, commandEdges, jobSlot,
                 jobserverVars>>

(* EdgeFinished(e, EdgeFailed): e gives back its place and its token, and  *)
(* stays wanted for ever.                                                  *)
EdgeFailed(e) ==
  /\ Schedule(ready, UseAfter(e, want), {e}, delayed, {}, {})
  /\ ReleaseSlots(Client, {e}, jobSlot)
  /\ UNCHANGED <<want, outputsReady, dirty, wantedEdges, commandEdges, jobSlot>>

=============================================================================
