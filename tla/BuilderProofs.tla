--------------------------- MODULE BuilderProofs ----------------------------
(***************************************************************************)
(* Builder, for every graph, every set of pools and every configuration    *)
(* that satisfies the assumptions of Jobserver, Plan and Builder: lemmas   *)
(* about their operators, type correctness, and placement, which is why no *)
(* edge is scheduled twice and why a command starts only after everything  *)
(* it reads; and where every token of the jobserver comes back.            *)
(***************************************************************************)
EXTENDS Builder, FiniteSetTheorems, TLAPS

(* Every subset of Edges is finite, so that counting its elements gives a  *)
(* natural number.                                                         *)
LEMMA CardinalityOfEdges ==
  ASSUME NEW S \in SUBSET Edges
  PROVE  IsFiniteSet(S) /\ Cardinality(S) \in Nat
BY FS_Subset, FS_CardinalityType, PlanAssumption, Zenon DEF PlanAssumption

(* Taking a subset away from a finite set.                                 *)
LEMMA CardinalityMinus ==
  ASSUME NEW S \in SUBSET Edges, NEW T \in SUBSET S
  PROVE  Cardinality(S \ T) = Cardinality(S) - Cardinality(T)
<1>1. /\ IsFiniteSet(S \ T) /\ IsFiniteSet(T)
      /\ Cardinality(S \ T) \in Nat /\ Cardinality(T) \in Nat
      /\ Cardinality(S) \in Nat
  BY CardinalityOfEdges, Zenon
<1>2. (S \ T) \cup T = S /\ (S \ T) \cap T = {}
  OBVIOUS
<1>3. Cardinality({}) = 0
  BY FS_EmptySet, Zenon
<1>4. Cardinality(S) = Cardinality(S \ T) + Cardinality(T) - 0
  BY <1>1, <1>2, <1>3, FS_Union, Zenon
<1> QED BY <1>1, <1>4

(* What TypeOK says of each variable ...                                   *)
LEMMA TypeFacts ==
  ASSUME TypeOK
  PROVE  /\ want \in [Edges -> Wants]
         /\ outputsReady \subseteq Edges
         /\ dirty \subseteq UNION {Outs[e] : e \in Edges}
         /\ ready \in [Edges -> Nat]
         /\ currentUse \in [Pools -> Int]
         /\ delayed \subseteq Edges
         /\ wantedEdges \in Int
         /\ commandEdges \in Int
         /\ jobSlot \in [Edges -> Slots]
         /\ hasImplicitSlot \in BOOLEAN
         /\ pipe \in [Bytes -> Int]
         /\ taken \in [Bytes -> Int]
         /\ pc \in {"prepare", "loop", "start", "reap", "record", "done"}
         /\ capacity \in Int
         /\ pendingCommands \in Int
         /\ failuresAllowed \in Nat
         /\ running \subseteq Edges
         /\ exitCode \in Statuses
         /\ result \in Results
         /\ starts \in [Edges -> Nat]
         /\ failed \subseteq Edges
BY Zenon DEF TypeOK

(* ... and that saying it of each variable after a step is all of TypeOK.  *)
LEMMA TypeIntro ==
  ASSUME /\ want' \in [Edges -> Wants]
         /\ outputsReady' \subseteq Edges
         /\ dirty' \subseteq UNION {Outs[e] : e \in Edges}
         /\ ready' \in [Edges -> Nat]
         /\ currentUse' \in [Pools -> Int]
         /\ delayed' \subseteq Edges
         /\ wantedEdges' \in Int
         /\ commandEdges' \in Int
         /\ jobSlot' \in [Edges -> Slots]
         /\ hasImplicitSlot' \in BOOLEAN
         /\ pipe' \in [Bytes -> Int]
         /\ taken' \in [Bytes -> Int]
         /\ pc' \in {"prepare", "loop", "start", "reap", "record", "done"}
         /\ capacity' \in Int
         /\ pendingCommands' \in Int
         /\ failuresAllowed' \in Nat
         /\ running' \subseteq Edges
         /\ exitCode' \in Statuses
         /\ result' \in Results
         /\ starts' \in [Edges -> Nat]
         /\ failed' \subseteq Edges
  PROVE  TypeOK'
BY Zenon DEF TypeOK

(* An edge with all its inputs ready keeps them when more edges are done.  *)
LEMMA AllInputsReadyMonotone ==
  ASSUME NEW e \in Edges, NEW R, NEW S, R \subseteq S, AllInputsReady(e, R)
  PROVE  AllInputsReady(e, S)
BY Zenon DEF AllInputsReady

(* Starting a phony edge takes it off the queue and changes nothing of the *)
(* loop.                                                                   *)
LEMMA StartPhonyFacts ==
  ASSUME NEW e, NEW s, StartPhony(e, s)
  PROVE  /\ ready[e] > 0 /\ pc = "start" /\ Building
         /\ UNCHANGED <<pc, running, starts, failed, result>>
<1>1. pc = "start" /\ UNCHANGED loopVars
  BY Zenon DEF StartPhony
<1>2. ready[e] > 0
  BY Zenon DEF StartPhony, FindWork, IsTop
<1>3. UNCHANGED <<pc, running, starts, failed, result>>
  BY <1>1, Zenon DEF loopVars
<1> QED BY <1>1, <1>2, <1>3, Zenon DEF Building

(* The cascade of EdgeFinished: besides the edge itself it finishes only   *)
(* edges of the plan that need no work, each of them when all its inputs   *)
(* are ready.                                                              *)
LEMMA FinishingFacts ==
  ASSUME NEW e \in Edges, NEW w
  PROVE  /\ Finishing(e, w) \subseteq Edges
         /\ e \in Finishing(e, w)
         /\ \A f \in Finishing(e, w) :
              /\ f = e \/ w[f] = "nothing"
              /\ f = e \/ AllInputsReady(f, outputsReady \cup Finishing(e, w))
<1> DEFINE F == Finishing(e, w)
           Closed(C) == 
             /\ e \in C
             /\ \A g \in Edges : (/\ w[g] = "nothing"
                                  /\ \E p \in C : Feeds(p, g)
                                  /\ AllInputsReady(g, outputsReady \cup C))
                                 => g \in C
           N == {f \in Edges : f = e \/ w[f] = "nothing"}
           X == {f \in F : f = e \/ AllInputsReady(f, outputsReady \cup F)}
<1>1. F = {f \in Edges : \A C \in SUBSET Edges : Closed(C) => f \in C}
  BY Zenon DEF Finishing
<1> HIDE DEF F
<1>2. F \subseteq Edges /\ e \in F
  BY <1>1, Zenon
<1>3. ASSUME NEW C \in SUBSET Edges, Closed(C)
      PROVE  F \subseteq C
  BY <1>1, <1>3, Zenon
<1>4. F \subseteq N
  <2>1. N \in SUBSET Edges /\ Closed(N)
    OBVIOUS
  <2> QED BY <2>1, <1>3, Zenon
<1>5. Closed(F)
  <2> SUFFICES ASSUME NEW g \in Edges, w[g] = "nothing",
                      NEW p \in F, Feeds(p, g),
                      AllInputsReady(g, outputsReady \cup F),
                      NEW C \in SUBSET Edges, Closed(C)
               PROVE  g \in C
    BY <1>1, <1>2, Zenon
  <2>1. F \subseteq C
    BY <1>3, Zenon
  <2>2. AllInputsReady(g, outputsReady \cup C)
    BY <2>1, AllInputsReadyMonotone
  <2> QED BY <2>1, <2>2, Zenon
<1>6. X \in SUBSET Edges /\ Closed(X)
  <2>1. X \in SUBSET Edges /\ e \in X
    BY <1>2, Zenon
  <2> SUFFICES ASSUME NEW g \in Edges, w[g] = "nothing",
                      NEW p \in X, Feeds(p, g),
                      AllInputsReady(g, outputsReady \cup X)
               PROVE  g \in X
    BY <2>1, Zenon
  <2>2. AllInputsReady(g, outputsReady \cup F)
    BY AllInputsReadyMonotone, Zenon
  <2>3. g \in F
    BY <1>5, <2>2, Zenon
  <2> QED BY <2>2, <2>3, Zenon
<1>7. F \subseteq X
  BY <1>3, <1>6, Zenon
<1> QED BY <1>2, <1>4, <1>7, Zenon DEF F

(* What Schedule leaves in the pools and the ready queue is well typed.    *)
LEMMA ScheduleType ==
  ASSUME NEW rdy \in [Edges -> Nat], NEW use \in [Pools -> Int], NEW touched,
         NEW old \in SUBSET Edges, NEW new \in SUBSET Edges, NEW direct,
         Schedule(rdy, use, touched, old, new, direct)
  PROVE  /\ delayed' \subseteq Edges
         /\ currentUse' \in [Pools -> Int]
         /\ ready' \in [Edges -> Nat]
<1>1. PICK T \in SUBSET (old \cup new) :
        /\ delayed' = (old \cup new) \ T
        /\ currentUse' = [p \in Pools |->
                            use[p] + Cardinality(T \cap InPool(p))]
        /\ ready' = [e \in Edges |-> IF e \in T \cup direct THEN rdy[e] + 1
                                                            ELSE rdy[e]]
  BY Zenon DEF Schedule
<1>2. \A p \in Pools : Cardinality(T \cap InPool(p)) \in Nat
  BY CardinalityOfEdges, Zenon DEF InPool
<1> QED BY <1>1, <1>2

(* The jobserver client stays well typed when slots are given back.        *)
LEMMA ReleaseSlotsType ==
  ASSUME NEW c \in [implicit : BOOLEAN, pipe : [Bytes -> Int]],
         NEW S \in SUBSET Edges, NEW slot,
         ReleaseSlots(c, S, slot), taken \in [Bytes -> Int]
  PROVE  /\ hasImplicitSlot' \in BOOLEAN
         /\ pipe' \in [Bytes -> Int]
         /\ taken' \in [Bytes -> Int]
<1>1. \A b \in Bytes : Cardinality({e \in S : slot[e] = b}) \in Nat
  BY CardinalityOfEdges, Zenon
<1>2. CASE UseJobserver
  <2>1. /\ hasImplicitSlot' = (c.implicit \/ \E e \in S : slot[e] = ImplicitSlot)
        /\ pipe' = [b \in Bytes |->
                      c.pipe[b] + Cardinality({e \in S : slot[e] = b})]
        /\ taken' = taken
    BY <1>2, Zenon DEF ReleaseSlots, SetClient, AfterRelease
  <2>2. hasImplicitSlot' \in BOOLEAN
    BY <2>1, Zenon
  <2> QED BY <1>1, <2>1, <2>2
<1>3. CASE ~UseJobserver
  <2>1. hasImplicitSlot' = c.implicit /\ pipe' = c.pipe /\ taken' = taken
    BY <1>3, Zenon DEF ReleaseSlots, SetClient
  <2> QED BY <2>1, Zenon
<1> QED BY <1>2, <1>3, Zenon

(* ... and when a slot is taken.                                           *)
LEMMA ClientType ==
  ASSUME TypeOK, NEW s
  PROVE  /\ Client \in [implicit : BOOLEAN, pipe : [Bytes -> Int]]
         /\ AfterAcquire(s) \in [implicit : BOOLEAN, pipe : [Bytes -> Int]]
<1>1. hasImplicitSlot \in BOOLEAN /\ pipe \in [Bytes -> Int]
  BY TypeFacts, Zenon
<1>2. (hasImplicitSlot /\ s # ImplicitSlot) \in BOOLEAN
  BY Zenon
<1>3. [b \in Bytes |-> IF b = s THEN pipe[b] - 1 ELSE pipe[b]] \in [Bytes -> Int]
  BY <1>1
<1> QED BY <1>1, <1>2, <1>3, Zenon DEF Client, AfterAcquire

(* CanRunMore answers with a number.                                       *)
LEMMA CanRunMoreType ==
  ASSUME NEW n \in Int, NEW idle \in BOOLEAN, NEW x \in CanRunMore(n, idle)
  PROVE  x \in Nat
<1>1. Unbounded \in Int
  BY CardinalityOfEdges DEF Unbounded
<1> QED BY <1>1, BuilderAssumption DEF CanRunMore, BuilderAssumption

(* The bookkeeping that EdgeFinished does for an edge that succeeded is    *)
(* well typed.                                                             *)
LEMMA EdgeSucceededType ==
  ASSUME TypeOK, NEW e \in Edges, NEW C \in SUBSET Edges,
         NEW rdy \in [Edges -> Nat], NEW slot \in [Edges -> Slots],
         NEW c \in [implicit : BOOLEAN, pipe : [Bytes -> Int]],
         EdgeSucceeded(e, C, rdy, slot, c)
  PROVE  /\ want' \in [Edges -> Wants]
         /\ outputsReady' \subseteq Edges
         /\ ready' \in [Edges -> Nat]
         /\ currentUse' \in [Pools -> Int]
         /\ delayed' \subseteq Edges
         /\ wantedEdges' \in Int /\ commandEdges' \in Int
         /\ jobSlot' \in [Edges -> Slots]
         /\ hasImplicitSlot' \in BOOLEAN
         /\ pipe' \in [Bytes -> Int] /\ taken' \in [Bytes -> Int]
<1> DEFINE w == [f \in Edges |-> IF f \in C THEN "nothing" ELSE want[f]]
           F == Finishing(e, w)
           done == outputsReady \cup F
           woken == {f \in Edges : /\ w[f] = "toStart"
                                   /\ \E p \in F : Feeds(p, f)
                                   /\ AllInputsReady(f, done)}
           limited == {f \in woken : ShouldDelayEdge(f)}
<1>1. /\ outputsReady' = done
      /\ want' = [f \in Edges |-> IF f \in F THEN "none"
                                  ELSE IF f \in woken THEN "toFinish"
                                  ELSE w[f]]
      /\ wantedEdges' = wantedEdges - Cardinality(C)
                        - (IF IsWanted(w, e) THEN 1 ELSE 0)
      /\ commandEdges' = commandEdges - Cardinality(C \ Phony)
      /\ Schedule(rdy, UseAfter(e, w), F \cup limited, delayed,
                  limited, woken \ limited)
      /\ ReleaseSlots(c, F, slot)
      /\ jobSlot' = slot
  BY Zenon DEF EdgeSucceeded, WantAfterClean
<1> HIDE DEF w, F, done, woken, limited
<1>2. /\ want \in [Edges -> Wants] /\ outputsReady \subseteq Edges
      /\ currentUse \in [Pools -> Int] /\ delayed \in SUBSET Edges
      /\ wantedEdges \in Int /\ commandEdges \in Int
      /\ taken \in [Bytes -> Int]
  BY TypeFacts, Zenon
<1>3. F \in SUBSET Edges
  BY Zenon DEF F, Finishing
<1>4. w \in [Edges -> Wants]
  BY <1>2, Zenon DEF w, Wants
<1>5. UseAfter(e, w) \in [Pools -> Int]
  BY <1>2 DEF UseAfter
<1>6. limited \in SUBSET Edges
  BY Zenon DEF limited, woken
<1>7. /\ delayed' \subseteq Edges
      /\ currentUse' \in [Pools -> Int]
      /\ ready' \in [Edges -> Nat]
  BY <1>1, <1>2, <1>5, <1>6, ScheduleType, Zenon
<1>8. /\ hasImplicitSlot' \in BOOLEAN
      /\ pipe' \in [Bytes -> Int]
      /\ taken' \in [Bytes -> Int]
  BY <1>1, <1>2, <1>3, ReleaseSlotsType, Zenon
<1>9. want' \in [Edges -> Wants]
  BY <1>1, <1>4, Zenon DEF Wants
<1>10. wantedEdges' \in Int /\ commandEdges' \in Int
  <2>1. Cardinality(C) \in Nat /\ Cardinality(C \ Phony) \in Nat
    BY CardinalityOfEdges, Zenon
  <2> QED BY <1>1, <1>2, <2>1
<1>11. outputsReady' \subseteq Edges /\ jobSlot' \in [Edges -> Slots]
  BY <1>1, <1>2, <1>3, Zenon DEF done
<1> QED BY <1>7, <1>8, <1>9, <1>10, <1>11, Zenon

(* CleanNode un-wants only wanted edges that an un-wanted edge or the edge *)
(* being finished feeds.                                                   *)
LEMMA CleanNodeFacts ==
  ASSUME NEW e \in Edges, NEW K \in SUBSET Outs[e], NEW C \in SUBSET Edges,
         CleanNode(K, C), NEW f \in C
  PROVE  /\ IsWanted(want, f)
         /\ \E p \in C \cup {e} : Feeds(p, f)
<1>1. /\ IsWanted(want, f)
      /\ Inputs(f) \cap (K \cup UNION {Outs[g] : g \in C}) # {}
  BY Zenon DEF CleanNode
<1>2. PICK n \in Inputs(f) : n \in K \/ \E g \in C : n \in Outs[g]
  BY <1>1, Zenon
<1>3. \E p \in C \cup {e} : n \in Outs[p]
  BY <1>2, Zenon
<1> QED BY <1>1, <1>3, Zenon DEF Feeds

(* An edge in the ready queue is there once and has never been started: it *)
(* is wanted and has its inputs ready.                                     *)
LEMMA QueuedFacts ==
  ASSUME TypeOK, PlacementInv, NEW e \in Edges, ready[e] > 0
  PROVE  /\ ready[e] = 1 /\ starts[e] = 0 /\ e \notin delayed
         /\ e \notin running /\ e \notin failed /\ e \notin outputsReady
         /\ IsWanted(want, e) /\ AllInputsReady(e, outputsReady)
<1>1. ready[e] \in Nat /\ starts[e] \in Nat
  BY TypeFacts, Zenon
<1>2. ready[e] + starts[e] <= 1 /\ (e \in delayed => ready[e] + starts[e] = 0)
  BY Zenon DEF PlacementInv, StartedOnce
<1>3. IsWanted(want, e) /\ AllInputsReady(e, outputsReady)
  BY Zenon DEF PlacementInv, Placed
<1>4. e \in running \cup failed => starts[e] > 0
  BY Zenon DEF PlacementInv
<1>5. e \notin outputsReady
  BY <1>3, Zenon DEF PlacementInv, IsWanted
<1> QED BY <1>1, <1>2, <1>3, <1>4, <1>5

(* An edge whose command runs was started, is neither queued nor delayed,  *)
(* and is wanted with its inputs ready.                                    *)
LEMMA RunningFacts ==
  ASSUME TypeOK, PlacementInv, NEW e \in running
  PROVE  /\ starts[e] > 0 /\ ready[e] = 0 /\ e \notin delayed /\ e \notin failed
         /\ IsWanted(want, e) /\ AllInputsReady(e, outputsReady)
<1>0. e \in Edges
  BY TypeFacts, Zenon
<1>1. ready[e] \in Nat /\ starts[e] \in Nat
  BY <1>0, TypeFacts, Zenon
<1>2. ready[e] + starts[e] <= 1 /\ (e \in delayed => ready[e] + starts[e] = 0)
  BY <1>0, Zenon DEF PlacementInv, StartedOnce
<1>3. IsWanted(want, e) /\ AllInputsReady(e, outputsReady)
  BY <1>0, Zenon DEF PlacementInv, Placed
<1>4. starts[e] > 0 /\ e \notin failed
  BY Zenon DEF PlacementInv
<1> QED BY <1>1, <1>2, <1>3, <1>4

(* What EdgeFinished(e, EdgeSucceeded) does to the placement of edges when *)
(* e was wanted, had its inputs ready and is neither queued nor delayed.   *)
LEMMA EdgeSucceededPlacement ==
  ASSUME TypeOK, PlacementInv, Building,
         NEW e \in Edges, NEW C \in SUBSET Edges,
         NEW rdy \in [Edges -> Nat], NEW slot, NEW c,
         EdgeSucceeded(e, C, rdy, slot, c),
         IsWanted(want, e), AllInputsReady(e, outputsReady),
         rdy[e] = 0, e \notin delayed, \A f \in Edges : rdy[f] <= ready[f],
         \A f \in C : /\ IsWanted(want, f)
                      /\ \E p \in C \cup {e} : Feeds(p, f)
  PROVE  /\ \A f \in Edges : want'[f] # "none" => f \notin outputsReady'
         /\ \A f \in Edges :
              \/ ready'[f] > 0
              \/ f \in delayed'
              \/ f # e /\ f \in running \cup failed
              => IsWanted(want', f) /\ AllInputsReady(f, outputsReady')
         /\ \A f \in Edges : /\ ready'[f] + starts[f] <= 1
                             /\ f \in delayed' => ready'[f] + starts[f] = 0
         /\ \E F \in SUBSET Edges :
              /\ outputsReady' = outputsReady \cup F
              /\ e \in F
              /\ F \cap outputsReady = {}
              /\ \A f \in F : /\ AllInputsReady(f, outputsReady')
                              /\ f # e => ~Placed(f)
<1> DEFINE w == [f \in Edges |-> IF f \in C THEN "nothing" ELSE want[f]]
           F == Finishing(e, w)
           done == outputsReady \cup F
           woken == {f \in Edges : /\ w[f] = "toStart"
                                   /\ \E p \in F : Feeds(p, f)
                                   /\ AllInputsReady(f, done)}
           limited == {f \in woken : ShouldDelayEdge(f)}
<1>1. /\ outputsReady' = done
      /\ want' = [f \in Edges |-> IF f \in F THEN "none"
                                  ELSE IF f \in woken THEN "toFinish"
                                  ELSE w[f]]
      /\ Schedule(rdy, UseAfter(e, w), F \cup limited, delayed,
                  limited, woken \ limited)
  BY Zenon DEF EdgeSucceeded, WantAfterClean
<1> HIDE DEF w, F, done, woken, limited
<1>0. ready \in [Edges -> Nat] /\ starts \in [Edges -> Nat]
  BY TypeFacts, Zenon
<1>2. /\ F \subseteq Edges
      /\ e \in F
      /\ \A f \in F : f = e \/ w[f] = "nothing"
      /\ \A f \in F : f = e \/ AllInputsReady(f, done)
  BY FinishingFacts, Zenon DEF F, done
<1>3. PICK T \in SUBSET (delayed \cup limited) :
        /\ delayed' = (delayed \cup limited) \ T
        /\ ready' = [f \in Edges |-> IF f \in T \cup (woken \ limited)
                                     THEN rdy[f] + 1 ELSE rdy[f]]
  BY <1>1, Zenon DEF Schedule
<1>4. \A f \in C \cup {e} : f \notin outputsReady
  BY Zenon DEF PlacementInv, IsWanted
<1>5. \A f \in Edges : AllInputsReady(f, outputsReady) => f \notin C
  BY <1>4, Zenon DEF AllInputsReady
<1>6. \A f \in Edges : Placed(f) => f \notin C
  BY <1>5, Zenon DEF PlacementInv
<1>7. F \cap outputsReady = {}
  <2> SUFFICES ASSUME NEW f \in F PROVE f \notin outputsReady
    BY Zenon
  <2>1. CASE f = e
    BY <2>1, <1>4, Zenon
  <2>2. CASE f # e
    <3>1. w[f] = "nothing" /\ f \in Edges
      BY <2>2, <1>2, Zenon
    <3>2. f \in C \/ want[f] = "nothing"
      BY <3>1, Zenon DEF w
    <3> QED BY <3>1, <3>2, <1>4, Zenon DEF PlacementInv
  <2> QED BY <2>1, <2>2, Zenon
<1>8. \A f \in F : f # e => ~Placed(f)
  <2> SUFFICES ASSUME NEW f \in F, f # e, Placed(f) PROVE FALSE
    BY Zenon
  <2>1. f \in Edges /\ w[f] = "nothing"
    BY <1>2, Zenon
  <2>2. f \notin C
    BY <1>6, <2>1, Zenon
  <2>3. want[f] = "nothing"
    BY <2>1, <2>2, Zenon DEF w
  <2> QED BY <2>1, <2>3, Zenon DEF PlacementInv, IsWanted
<1>9. \A f \in woken : ~AllInputsReady(f, outputsReady) /\ ~Placed(f)
  <2>1. \A f \in woken : f \in Edges /\ \E p \in F : Feeds(p, f)
    BY Zenon DEF woken
  <2>2. \A f \in woken : ~AllInputsReady(f, outputsReady)
    BY <1>2, <1>7, <2>1, Zenon DEF AllInputsReady
  <2> QED BY <2>1, <2>2, Zenon DEF PlacementInv
<1>10. \A f \in woken : starts[f] = 0
  <2> SUFFICES ASSUME NEW f \in woken, starts[f] # 0 PROVE FALSE
    BY Zenon
  <2>1. f \in Edges /\ w[f] = "toStart" /\ starts[f] > 0
    BY <1>0 DEF woken
  <2>2. want[f] = "toStart"
    BY <2>1, Zenon DEF w
  <2>3. f \notin outputsReady
    BY <2>1, <2>2, Zenon DEF PlacementInv
  <2> QED BY <1>9, <2>1, <2>3, Zenon DEF PlacementInv, Placed
<1>11. AllInputsReady(e, done) /\ e \notin woken
  <2>1. outputsReady \subseteq done
    BY Zenon DEF done
  <2>2. AllInputsReady(e, done)
    BY <2>1, AllInputsReadyMonotone, Zenon
  <2> QED BY <1>9, <2>2, Zenon
<1>12. \A f \in Edges : want'[f] # "none" => f \notin outputsReady'
  <2> SUFFICES ASSUME NEW f \in Edges, want'[f] # "none", f \in outputsReady
               PROVE  FALSE
    BY <1>1, Zenon DEF done
  <2>1. f \notin F
    BY <1>1, Zenon
  <2>2. want[f] = "none"
    BY Zenon DEF PlacementInv
  <2>3. f \notin C
    BY <1>4, Zenon
  <2>4. w[f] = "none"
    BY <2>2, <2>3, Zenon DEF w
  <2>5. f \notin woken
    BY <2>4, Zenon DEF woken
  <2> QED BY <1>1, <2>1, <2>4, <2>5, Zenon
<1>13. \A f \in Edges : f # e /\ Placed(f) =>
         IsWanted(want', f) /\ AllInputsReady(f, outputsReady')
  <2> SUFFICES ASSUME NEW f \in Edges, f # e, Placed(f)
               PROVE  IsWanted(want', f) /\ AllInputsReady(f, outputsReady')
    BY Zenon
  <2>1. f \notin F /\ f \notin C /\ f \notin woken
    BY <1>6, <1>8, <1>9, Zenon
  <2>2. want'[f] = want[f]
    BY <1>1, <2>1, Zenon DEF w
  <2>3. IsWanted(want, f) /\ AllInputsReady(f, outputsReady)
    BY Zenon DEF PlacementInv
  <2>4. AllInputsReady(f, outputsReady')
    <3>1. outputsReady \subseteq outputsReady'
      BY <1>1, Zenon DEF done
    <3> QED BY <2>3, <3>1, AllInputsReadyMonotone, Zenon
  <2> QED BY <2>2, <2>3, <2>4, Zenon DEF IsWanted
<1>14. \A f \in woken : IsWanted(want', f) /\ AllInputsReady(f, outputsReady')
  <2> SUFFICES ASSUME NEW f \in woken
               PROVE  IsWanted(want', f) /\ AllInputsReady(f, outputsReady')
    BY Zenon
  <2>1. f \in Edges /\ w[f] = "toStart" /\ AllInputsReady(f, done)
    BY Zenon DEF woken
  <2>2. f \notin F
    BY <1>2, <1>11, <2>1, Zenon
  <2> QED BY <1>1, <2>1, <2>2, Zenon DEF IsWanted
<1>15. limited \subseteq woken /\ woken \subseteq Edges
  BY Zenon DEF limited, woken
<1>16. \A f \in Edges : ready'[f] > 0 \/ f \in delayed' =>
         f \in woken \/ (f # e /\ Placed(f))
  <2> SUFFICES ASSUME NEW f \in Edges, ready'[f] > 0 \/ f \in delayed',
                      f \notin woken
               PROVE  f # e /\ Placed(f)
    BY Zenon
  <2>1. rdy[f] > 0 \/ f \in delayed
    BY <1>3, <1>15, Zenon
  <2> QED BY <1>0, <2>1 DEF Placed
<1>17. \A f \in Edges : /\ ready'[f] + starts[f] <= 1
                        /\ f \in delayed' => ready'[f] + starts[f] = 0
  <2> SUFFICES ASSUME NEW f \in Edges
               PROVE  /\ ready'[f] + starts[f] <= 1
                      /\ f \in delayed' => ready'[f] + starts[f] = 0
    BY Zenon
  <2>0. /\ rdy[f] \in Nat /\ ready[f] \in Nat /\ starts[f] \in Nat
        /\ rdy[f] <= ready[f]
        /\ ready[f] + starts[f] <= 1
        /\ f \in delayed => ready[f] + starts[f] = 0
    BY <1>0, Zenon DEF PlacementInv, StartedOnce
  <2>1. /\ ready'[f] = IF f \in T \cup (woken \ limited) THEN rdy[f] + 1
                                                       ELSE rdy[f]
        /\ f \in delayed' <=> f \in delayed \cup limited /\ f \notin T
        /\ f \in T => f \in delayed \cup limited
    BY <1>3, Zenon
  <2>2. CASE f \in woken
    <3>1. ~Placed(f) /\ starts[f] = 0
      BY <1>9, <1>10, <2>2, Zenon
    <3>2. ~(ready[f] > 0) /\ f \notin delayed
      BY <3>1, Zenon DEF Placed
    <3>3. ready[f] = 0 /\ rdy[f] = 0
      BY <2>0, <3>2
    <3> QED BY <2>1, <3>1, <3>2, <3>3
  <2>3. CASE f \notin woken
    <3>1. f \notin limited
      BY <1>15, <2>3, Zenon
    <3>2. /\ ready'[f] = IF f \in T THEN rdy[f] + 1 ELSE rdy[f]
          /\ f \in delayed' <=> f \in delayed /\ f \notin T
          /\ f \in T => f \in delayed
      BY <2>1, <2>3, <3>1, Zenon
    <3> QED BY <2>0, <3>2
  <2> QED BY <2>2, <2>3, Zenon
<1>18. \A f \in F : AllInputsReady(f, outputsReady')
  BY <1>1, <1>2, <1>11, Zenon
<1>19. \A f \in Edges : f \in running \cup failed => Placed(f)
  BY Zenon DEF Placed
<1>20. \A f \in Edges :
         \/ ready'[f] > 0
         \/ f \in delayed'
         \/ f # e /\ f \in running \cup failed
         => IsWanted(want', f) /\ AllInputsReady(f, outputsReady')
  BY <1>13, <1>14, <1>16, <1>19, Zenon
<1>21. \E G \in SUBSET Edges :
         /\ outputsReady' = outputsReady \cup G
         /\ e \in G
         /\ G \cap outputsReady = {}
         /\ \A f \in G : /\ AllInputsReady(f, outputsReady')
                         /\ f # e => ~Placed(f)
  <2>1. outputsReady' = outputsReady \cup F /\ F \in SUBSET Edges
    BY <1>1, <1>2, Zenon DEF done
  <2> QED BY <1>2, <1>7, <1>8, <1>18, <2>1, Zenon
<1> QED BY <1>12, <1>17, <1>20, <1>21, Zenon

----------------------------------------------------------------------------
(* The initial state has the right types.                                  *)
LEMMA InitType == Init => TypeOK
<1> SUFFICES ASSUME Init PROVE TypeOK
  OBVIOUS
<1>1. PICK D \in SUBSET Edges, W \in SUBSET Edges :
        /\ dirty = UNION {Outs[e] : e \in D}
        /\ outputsReady \in SUBSET Edges
        /\ want = [e \in Edges |-> IF e \notin W THEN "none"
                                   ELSE IF e \in D THEN "toStart" ELSE "nothing"]
        /\ ready = [e \in Edges |-> 0]
        /\ currentUse = [p \in Pools |-> 0]
        /\ delayed = {}
        /\ wantedEdges = Cardinality(W \cap D)
        /\ commandEdges = Cardinality((W \cap D) \ Phony)
        /\ jobSlot = [e \in Edges |-> ZeroSlot]
  BY Zenon DEF Init, PlanInit
<1>2. wantedEdges \in Nat /\ commandEdges \in Nat
  BY <1>1, CardinalityOfEdges, Zenon
<1>3. dirty \subseteq UNION {Outs[e] : e \in Edges}
  BY <1>1, Zenon
<1>4. want \in [Edges -> Wants]
  BY <1>1, Zenon DEF Wants
<1>5. jobSlot \in [Edges -> Slots]
  BY <1>1, Zenon DEF Slots, Bytes
<1>6. /\ hasImplicitSlot \in BOOLEAN
      /\ pipe \in [Bytes -> Int]
      /\ taken \in [Bytes -> Int]
  BY JobserverAssumption DEF Init, JobserverInit, JobserverAssumption
<1>7. /\ pc \in {"prepare", "loop", "start", "reap", "record", "done"}
      /\ capacity \in Int
      /\ pendingCommands \in Int
      /\ failuresAllowed \in Nat
      /\ running \subseteq Edges
      /\ exitCode \in Statuses
      /\ result \in Results
      /\ starts \in [Edges -> Nat]
      /\ failed \subseteq Edges
  BY BuilderAssumption DEF Init, BuilderAssumption, Statuses, Results
<1> QED BY <1>1, <1>2, <1>3, <1>4, <1>5, <1>6, <1>7 DEF TypeOK

(* The slots FindWork may hand out are slots.                              *)
LEMMA SlotsForType ==
  ASSUME TypeOK, NEW e \in Edges, NEW s \in SlotsFor(e)
  PROVE  s \in Slots
BY TypeFacts, Zenon DEF SlotsFor, TryAcquire, Slots

(* Every way a step may fail and abort the build keeps the types.          *)
LEMMA FaultStepType ==
  ASSUME TypeOK, FaultStep
  PROVE  TypeOK'
<1>1. ASSUME NEW e \in Edges, NEW s \in SlotsFor(e), StartFails(e, s)
      PROVE  TypeOK'
  <2>1. PICK c \in {AfterAcquire(s), Client} :
          FindWork(e, s, c) /\ Abort(running, jobSlot, c)
    BY <1>1, Zenon DEF StartFails
  <2>2. /\ hasImplicitSlot' \in BOOLEAN
        /\ pipe' \in [Bytes -> Int]
        /\ taken' \in [Bytes -> Int]
    <3>1. c \in [implicit : BOOLEAN, pipe : [Bytes -> Int]]
      BY ClientType, Zenon
    <3> QED BY <2>1, <3>1, ReleaseSlotsType, TypeFacts, Zenon
      DEF Abort
  <2>3. /\ ready' \in [Edges -> Nat]
        /\ jobSlot' \in [Edges -> Slots]
    BY <1>1, <2>1, SlotsForType, TypeFacts
      DEF StartFails, FindWork, IsTop, Popped
  <2>4. result' \in Results
    BY <1>1, Zenon DEF StartFails, Return, Results, Statuses, Errors
  <2>5. running' = {}
    BY <2>1, Zenon DEF Abort
  <2> QED BY <1>1, <2>2, <2>3, <2>4, <2>5, TypeIntro, TypeFacts, Zenon
    DEF StartFails, Return
<1>2. ASSUME NEW S \in SUBSET Edges, Abort(S, jobSlot, Client)
      PROVE  /\ hasImplicitSlot' \in BOOLEAN
             /\ pipe' \in [Bytes -> Int]
             /\ taken' \in [Bytes -> Int]
             /\ running' = {}
  <2>1. Client \in [implicit : BOOLEAN, pipe : [Bytes -> Int]]
    BY ClientType, Zenon
  <2> QED BY <1>2, <2>1, ReleaseSlotsType, TypeFacts, Zenon
    DEF Abort
<1>3. ASSUME NEW e \in Edges, StatFails(e)
      PROVE  TypeOK'
  <2>1. Abort(running \ {e}, jobSlot, Client) /\ running \ {e} \in SUBSET Edges
    BY <1>3, TypeFacts, Zenon DEF StatFails
  <2>2. result' \in Results
    BY <1>3, Zenon DEF StatFails, Return, Results, Statuses, Errors
  <2>3. PICK C \in SUBSET Edges :
          /\ dirty' \subseteq dirty
          /\ want' = WantAfterClean(C)
          /\ wantedEdges' = wantedEdges - Cardinality(C)
          /\ commandEdges' = commandEdges - Cardinality(C \ Phony)
    BY <1>3, Zenon DEF StatFails, CleanNode
  <2>4. want' \in [Edges -> Wants]
    BY <2>3, TypeFacts, Zenon DEF WantAfterClean, Wants
  <2>5. wantedEdges' \in Int /\ commandEdges' \in Int
    BY <2>3, CardinalityOfEdges
  <2>6. UNCHANGED <<outputsReady, ready, currentUse, delayed, jobSlot, capacity,
                    failuresAllowed, starts, failed>>
    BY <1>3, Zenon DEF StatFails
  <2>7. /\ pc' = "done" /\ exitCode' = "failure"
        /\ pendingCommands' = pendingCommands - 1
    BY <1>3, Zenon DEF StatFails, Return
  <2> QED BY <1>2, <2>1, <2>2, <2>3, <2>4, <2>5, <2>6, <2>7,
             TypeIntro, TypeFacts DEF Statuses
<1>4. CASE RecordFails
  <2>1. Abort(running, jobSlot, Client) /\ running \in SUBSET Edges
    BY <1>4, TypeFacts, Zenon DEF RecordFails
  <2>2. result' \in Results
    BY <1>4, Zenon DEF RecordFails, Return, Results, Statuses, Errors
  <2> QED BY <1>2, <1>4, <2>1, <2>2, TypeIntro, TypeFacts, Zenon
    DEF RecordFails, Return, planVars, Statuses
<1>5. CASE Interrupted
  <2>1. PICK S \in SUBSET Edges : Abort(S, jobSlot, Client)
    BY <1>5, TypeFacts, Zenon DEF Interrupted
  <2>2. result' \in Results
    BY <1>5, Zenon DEF Interrupted, Return, Results, Statuses, Errors
  <2> QED BY <1>2, <1>5, <2>1, <2>2, TypeIntro, TypeFacts, Zenon
    DEF Interrupted, Return, planVars
<1> QED BY <1>1, <1>3, <1>4, <1>5, Zenon DEF FaultStep

(* Every step keeps the types.                                             *)
LEMMA NextType == TypeOK /\ [Next]_vars => TypeOK'
<1> SUFFICES ASSUME TypeOK, [Next]_vars PROVE TypeOK'
  OBVIOUS
<1>0. /\ ready \in [Edges -> Nat] /\ jobSlot \in [Edges -> Slots]
      /\ running \subseteq Edges /\ capacity \in Int
      /\ pipe \in [Bytes -> Int] /\ taken \in [Bytes -> Int]
      /\ currentUse \in [Pools -> Int] /\ failuresAllowed \in Nat
  BY TypeFacts, Zenon
<1>1. CASE PrepareQueue
  <2> DEFINE initial == {e \in Edges : /\ want[e] = "toStart"
                                       /\ AllInputsReady(e, outputsReady)}
             limited == {e \in initial : ShouldDelayEdge(e)}
             direct == initial \ limited
  <2>1. /\ want' = [e \in Edges |-> IF e \in direct THEN "toFinish"
                                                    ELSE want[e]]
        /\ Schedule(ready, currentUse, limited, delayed \cup limited, {}, direct)
        /\ UNCHANGED <<outputsReady, dirty, wantedEdges, commandEdges, jobSlot,
                       hasImplicitSlot, pipe, taken>>
        /\ pc' = "loop"
        /\ UNCHANGED <<capacity, pendingCommands, failuresAllowed, running,
                       exitCode, result, starts, failed>>
    BY <1>1, Zenon DEF PrepareQueue, ScheduleInitialEdges, jobserverVars
  <2>2. delayed \cup limited \in SUBSET Edges /\ {} \in SUBSET Edges
    BY TypeFacts, Zenon
  <2>3. want' \in [Edges -> Wants]
    BY <2>1, TypeFacts, Zenon DEF Wants
  <2>4. /\ delayed' \subseteq Edges
        /\ currentUse' \in [Pools -> Int]
        /\ ready' \in [Edges -> Nat]
    <3> HIDE DEF initial, limited, direct
    <3> QED BY <2>1, <2>2, ScheduleType, TypeFacts, Zenon
  <2> QED BY <2>1, <2>3, <2>4, TypeIntro, TypeFacts, Zenon
<1>2. CASE LoopHead
  <2>1. capacity' \in Int
    BY <1>2, CanRunMoreType, CardinalityOfEdges, TypeFacts DEF LoopHead
  <2>2. pc' \in {"start", "reap"}
    BY <1>2, Zenon DEF LoopHead
  <2> QED BY <1>2, <2>1, <2>2, TypeIntro, TypeFacts, Zenon
    DEF LoopHead, planVars, jobserverVars
<1>3. CASE LoopExit
  BY <1>3, TypeIntro, TypeFacts, Zenon
    DEF LoopExit, Return, planVars, jobserverVars, Results, Statuses, Errors
<1>4. CASE StopStarting
  <2>1. /\ pc' \in {"reap", "done"}
        /\ result' = result \/ result' = [status |-> "success", error |-> "nil"]
        /\ UNCHANGED <<capacity, pendingCommands, failuresAllowed, running,
                       exitCode, starts, failed>>
    BY <1>4, Zenon DEF StopStarting, Return
  <2>4. result' \in Results
    <3>1. [status |-> "success", error |-> "nil"] \in Results
      BY Zenon DEF Results, Statuses, Errors
    <3> QED BY <2>1, <3>1, TypeFacts, Zenon
  <2>2. CASE UNCHANGED <<planVars, jobserverVars>>
    BY <2>1, <2>2, <2>4, TypeIntro, TypeFacts, Zenon DEF planVars, jobserverVars
  <2>3. CASE FindNoToken
    <3>1. jobSlot' \in [Edges -> Slots]
      BY <2>3, TypeFacts, Zenon DEF FindNoToken, Slots
    <3> QED BY <2>1, <2>3, <2>4, <3>1, TypeIntro, TypeFacts, Zenon
      DEF FindNoToken, jobserverVars
  <2> QED BY <1>4, <2>2, <2>3, Zenon DEF StopStarting
<1>5. CASE RecordCommand
  BY <1>5, TypeIntro, TypeFacts, Zenon DEF RecordCommand, planVars, jobserverVars
<1>6. CASE NoProgress
  <2>1. result' \in Results /\ pc' = "done"
    BY <1>6, TypeFacts, Zenon DEF NoProgress, Return, Results, Statuses, Errors
  <2> QED BY <1>6, <2>1, TypeIntro, TypeFacts, Zenon
    DEF NoProgress, planVars, jobserverVars
<1>7. ASSUME NEW e \in Edges, NEW s \in SlotsFor(e), StartEdge(e, s)
      PROVE  TypeOK'
  <2>1. jobSlot' \in [Edges -> Slots]
    BY <1>7, SlotsForType, TypeFacts, Zenon DEF StartEdge
  <2>2. ready' \in [Edges -> Nat]
    <3>1. ready' = Popped(e) /\ ready[e] > 0
      BY <1>7, Zenon DEF StartEdge, FindWork, IsTop
    <3> QED BY <1>0, <3>1 DEF Popped
  <2>3. PICK c \in {AfterAcquire(s), Client} : SetClient(c)
    BY <1>7, Zenon DEF StartEdge
  <2>4. /\ hasImplicitSlot' \in BOOLEAN
        /\ pipe' \in [Bytes -> Int]
        /\ taken' \in [Bytes -> Int]
    <3>1. c \in [implicit : BOOLEAN, pipe : [Bytes -> Int]]
      BY ClientType, Zenon
    <3>2. hasImplicitSlot' = c.implicit /\ pipe' = c.pipe /\ taken' = taken
      BY <2>3, Zenon DEF SetClient
    <3> QED BY <3>1, <3>2, TypeFacts, Zenon
  <2>5. capacity' \in Int
    <3>1. PICK n \in CanRunMore(Cardinality(running \cup {e}), FALSE) :
            capacity' = IF n < capacity - 1 THEN n ELSE capacity - 1
      BY <1>7, Zenon DEF StartEdge
    <3>2. Cardinality(running \cup {e}) \in Int
      BY <1>0, CardinalityOfEdges
    <3>3. n \in Nat
      BY <3>2, CanRunMoreType, Zenon
    <3> QED BY <1>0, <3>1, <3>3
  <2>6. starts' \in [Edges -> Nat]
    BY <1>7, TypeFacts DEF StartEdge
  <2>7. /\ UNCHANGED <<want, outputsReady, dirty, currentUse, delayed, wantedEdges,
                       commandEdges, pc, failuresAllowed, exitCode, result, failed>>
        /\ running' = running \cup {e} /\ pendingCommands' = pendingCommands + 1
    BY <1>7, Zenon DEF StartEdge
  <2>8. running' \subseteq Edges /\ pendingCommands' \in Int
    BY <2>7, TypeFacts
  <2> QED BY <2>1, <2>2, <2>4, <2>5, <2>6, <2>7, <2>8, TypeIntro, TypeFacts, Zenon
<1>8. ASSUME NEW e \in Edges, NEW s \in SlotsFor(e), StartPhony(e, s)
      PROVE  TypeOK'
  <2>1. PICK c \in {AfterAcquire(s), Client} :
          /\ FindWork(e, s, c)
          /\ EdgeSucceeded(e, {}, Popped(e), [jobSlot EXCEPT ![e] = s], c)
    BY <1>8, Zenon DEF StartPhony
  <2>2. /\ Popped(e) \in [Edges -> Nat]
        /\ [jobSlot EXCEPT ![e] = s] \in [Edges -> Slots]
        /\ {} \in SUBSET Edges
    <3>1. ready[e] > 0
      BY <2>1, Zenon DEF FindWork, IsTop
    <3>2. Popped(e) \in [Edges -> Nat]
      BY <1>0, <3>1 DEF Popped
    <3> QED BY <1>0, <3>2, SlotsForType, Zenon
  <2>3. c \in [implicit : BOOLEAN, pipe : [Bytes -> Int]]
    BY ClientType, Zenon
  <2>4. /\ want' \in [Edges -> Wants]
        /\ outputsReady' \subseteq Edges
        /\ ready' \in [Edges -> Nat]
        /\ currentUse' \in [Pools -> Int]
        /\ delayed' \subseteq Edges
        /\ wantedEdges' \in Int /\ commandEdges' \in Int
        /\ jobSlot' \in [Edges -> Slots]
        /\ hasImplicitSlot' \in BOOLEAN
        /\ pipe' \in [Bytes -> Int] /\ taken' \in [Bytes -> Int]
    BY <2>1, <2>2, <2>3, EdgeSucceededType, Zenon
  <2> QED BY <1>8, <2>4, TypeIntro, TypeFacts, Zenon DEF StartPhony, loopVars
<1>9. ASSUME NEW e \in Edges, FinishCommand(e)
      PROVE  TypeOK'
  <2>1. PICK K \in SUBSET Outs[e], C \in SUBSET Edges :
          /\ CleanNode(K, C)
          /\ EdgeSucceeded(e, C, ready, jobSlot, Client)
    BY <1>9, Zenon DEF FinishCommand
  <2>2. dirty' \subseteq dirty
    BY <2>1, Zenon DEF CleanNode
  <2>3. /\ Client \in [implicit : BOOLEAN, pipe : [Bytes -> Int]]
        /\ ready \in [Edges -> Nat] /\ jobSlot \in [Edges -> Slots]
    BY ClientType, TypeFacts, Zenon
  <2>4. /\ want' \in [Edges -> Wants]
        /\ outputsReady' \subseteq Edges
        /\ ready' \in [Edges -> Nat]
        /\ currentUse' \in [Pools -> Int]
        /\ delayed' \subseteq Edges
        /\ wantedEdges' \in Int /\ commandEdges' \in Int
        /\ jobSlot' \in [Edges -> Slots]
        /\ hasImplicitSlot' \in BOOLEAN
        /\ pipe' \in [Bytes -> Int] /\ taken' \in [Bytes -> Int]
    BY <2>1, <2>3, EdgeSucceededType, Zenon
  <2>5. /\ UNCHANGED <<capacity, failuresAllowed, exitCode, result, starts, failed>>
        /\ running' = running \ {e} /\ pendingCommands' = pendingCommands - 1
        /\ pc' = "record"
    BY <1>9, Zenon DEF FinishCommand
  <2>6. running' \subseteq Edges /\ pendingCommands' \in Int
        /\ dirty' \subseteq UNION {Outs[x] : x \in Edges}
    BY <2>2, <2>5, TypeFacts
  <2> QED BY <2>4, <2>5, <2>6, TypeIntro, TypeFacts, Zenon
<1>10. ASSUME NEW e \in Edges, FinishFailed(e)
       PROVE  TypeOK'
  <2>1. UseAfter(e, want) \in [Pools -> Int]
    BY <1>0 DEF UseAfter
  <2>2. /\ Schedule(ready, UseAfter(e, want), {e}, delayed, {}, {})
        /\ ReleaseSlots(Client, {e}, jobSlot)
        /\ UNCHANGED <<want, outputsReady, dirty, wantedEdges, commandEdges,
                       jobSlot>>
    BY <1>10, Zenon DEF FinishFailed, EdgeFailed
  <2>3. /\ delayed' \subseteq Edges
        /\ currentUse' \in [Pools -> Int]
        /\ ready' \in [Edges -> Nat]
    <3>1. delayed \in SUBSET Edges /\ {} \in SUBSET Edges
      BY TypeFacts, Zenon
    <3> QED BY <2>1, <2>2, <3>1, ScheduleType, TypeFacts, Zenon
  <2>4. /\ hasImplicitSlot' \in BOOLEAN
        /\ pipe' \in [Bytes -> Int]
        /\ taken' \in [Bytes -> Int]
    <3>1. Client \in [implicit : BOOLEAN, pipe : [Bytes -> Int]]
      BY ClientType, Zenon
    <3>2. {e} \in SUBSET Edges
      OBVIOUS
    <3> QED BY <2>2, <3>1, <3>2, ReleaseSlotsType, TypeFacts, Zenon
  <2>5. failuresAllowed' \in Nat /\ exitCode' \in Statuses
    BY <1>0, <1>10 DEF FinishFailed, BudgetAfterFailure, Statuses
  <2>6. /\ running' \subseteq Edges /\ failed' \subseteq Edges
        /\ pendingCommands' \in Int
    BY <1>10, TypeFacts DEF FinishFailed
  <2>7. pc' = "loop" /\ UNCHANGED <<capacity, result, starts>>
    BY <1>10, Zenon DEF FinishFailed
  <2> QED BY <2>2, <2>3, <2>4, <2>5, <2>6, <2>7, TypeIntro, TypeFacts, Zenon
<1>11. CASE FaultStep
  BY <1>11, FaultStepType, Zenon
<1>12. CASE OtherClient
  <2>1. /\ pipe' \in [Bytes -> Int] /\ taken' \in [Bytes -> Int]
        /\ UNCHANGED hasImplicitSlot
    BY <1>0, <1>12 DEF OtherClient, OtherTakes, OtherReturns
  <2>2. UNCHANGED <<planVars, loopVars>>
    BY <1>12, Zenon DEF OtherClient
  <2> QED BY <2>1, <2>2, TypeIntro, TypeFacts, Zenon DEF planVars, loopVars
<1>13. CASE UNCHANGED vars
  BY <1>13, TypeIntro, TypeFacts, Zenon DEF vars, planVars, jobserverVars, loopVars
<1> QED
  BY <1>1, <1>2, <1>3, <1>4, <1>5, <1>6, <1>7, <1>8, <1>9, <1>10, <1>11, <1>12,
     <1>13, Zenon
  DEF Next, BuildStep, Returned

(* The state of the builder, the plan, the pools and the jobserver client  *)
(* stays well typed through every step of Build.                           *)
THEOREM TypeCorrect == Spec => []TypeOK
BY InitType, NextType, PTL DEF Spec

----------------------------------------------------------------------------
(* No edge is placed initially.                                            *)
LEMMA InitPlacement == Init => PlacementInv
<1> SUFFICES ASSUME Init PROVE PlacementInv
  OBVIOUS
<1>1. PICK D \in SUBSET Edges, W \in SUBSET Edges :
        /\ outputsReady \in SUBSET Edges
        /\ Reached(outputsReady, W)
        /\ want = [e \in Edges |-> IF e \notin W THEN "none"
                                   ELSE IF e \in D THEN "toStart" ELSE "nothing"]
        /\ ready = [e \in Edges |-> 0]
        /\ delayed = {}
  BY Zenon DEF Init, PlanInit
<1>2. \A e \in Edges : want[e] # "none" => e \notin outputsReady
  BY <1>1, Zenon DEF Reached
<1>3. running = {} /\ failed = {} /\ starts = [e \in Edges |-> 0]
  BY Zenon DEF Init
<1> QED BY <1>1, <1>2, <1>3 DEF PlacementInv, Placed, StartedOnce

(* A step that leaves the plan alone and takes nothing but running edges   *)
(* away preserves the placement.                                           *)
LEMMA PlacementKept ==
  ASSUME PlacementInv,
         UNCHANGED <<want, outputsReady, delayed, starts, failed>>,
         \A e \in Edges : ready'[e] \in Nat /\ ready[e] \in Nat
                          /\ ready'[e] <= ready[e] /\ starts[e] \in Nat,
         running' \subseteq running,
         Building' => Building /\ running' = running,
         pc' = "prepare" => pc = "prepare"
  PROVE  PlacementInv'
<1>1. \A e \in Edges : Placed(e)' => Placed(e)
  BY DEF Placed
<1>2. /\ \A e \in Edges : want'[e] # "none" => e \notin outputsReady'
      /\ \A e \in running' \cup failed' : starts'[e] > 0
      /\ running' \cap failed' = {}
      /\ Building' => \A e \in Edges :
           starts'[e] > 0 => e \in running' \cup failed' \cup outputsReady'
      /\ pc' = "prepare" => \A e \in Edges : ~Placed(e)' /\ starts'[e] = 0
  BY <1>1, Zenon DEF PlacementInv
<1>3. \A e \in Edges :
        Placed(e)' => IsWanted(want', e) /\ AllInputsReady(e, outputsReady')
  BY <1>1, Zenon DEF PlacementInv
<1>4. StartedOnce'
  BY DEF PlacementInv, StartedOnce
<1> QED BY <1>2, <1>3, <1>4, Zenon DEF PlacementInv

(* A build that stops because a stat failed has already un-wanted edges,   *)
(* none of which was placed.                                               *)
LEMMA StatFailsPlacement ==
  ASSUME PlacementInv, NEW e \in Edges, StatFails(e)
  PROVE  PlacementInv'
<1>1. PICK K \in SUBSET Outs[e], C \in SUBSET Edges :
        CleanNode(K, C) /\ want' = WantAfterClean(C)
  BY Zenon DEF StatFails
<1>2. /\ e \in running /\ running' = {} /\ pc' = "done"
      /\ UNCHANGED <<outputsReady, ready, delayed, starts, failed>>
  BY Zenon DEF StatFails, Return, Abort
<1>3. \A f \in C : /\ IsWanted(want, f)
                   /\ \E p \in C \cup {e} : Feeds(p, f)
  BY <1>1, CleanNodeFacts, Zenon
<1>4. IsWanted(want, e)
  BY <1>2, Zenon DEF PlacementInv, Placed
<1>5. \A f \in C \cup {e} : f \notin outputsReady
  BY <1>3, <1>4, Zenon DEF PlacementInv, IsWanted
<1>6. \A f \in C : ~Placed(f)
  BY <1>3, <1>5 DEF PlacementInv, AllInputsReady
<1>7. \A f \in Edges : Placed(f)' => Placed(f)
  BY <1>2, Zenon DEF Placed
<1>8. \A f \in Edges :
        Placed(f)' => IsWanted(want', f) /\ AllInputsReady(f, outputsReady')
  BY <1>1, <1>2, <1>6, <1>7, Zenon DEF PlacementInv, WantAfterClean, IsWanted
<1>9. \A f \in Edges : want'[f] # "none" => f \notin outputsReady'
  BY <1>1, <1>2, <1>5, Zenon DEF PlacementInv, WantAfterClean
<1>10. StartedOnce'
  BY <1>2, Zenon DEF PlacementInv, StartedOnce
<1> QED BY <1>2, <1>8, <1>9, <1>10, Zenon DEF PlacementInv, Building

(* Every step keeps the invariant of placement.                            *)
LEMMA NextPlacement == TypeOK /\ PlacementInv /\ [Next]_vars => PlacementInv'
<1> SUFFICES ASSUME TypeOK, PlacementInv, [Next]_vars PROVE PlacementInv'
  OBVIOUS
<1>0. /\ ready \in [Edges -> Nat] /\ starts \in [Edges -> Nat]
      /\ running \subseteq Edges /\ failed \subseteq Edges
      /\ delayed \subseteq Edges
  BY TypeFacts, Zenon
<1>1. CASE PrepareQueue
  <2> DEFINE initial == {e \in Edges : /\ want[e] = "toStart"
                                       /\ AllInputsReady(e, outputsReady)}
             limited == {e \in initial : ShouldDelayEdge(e)}
             direct == initial \ limited
  <2>1. /\ want' = [e \in Edges |-> IF e \in direct THEN "toFinish"
                                                    ELSE want[e]]
        /\ Schedule(ready, currentUse, limited, delayed \cup limited, {}, direct)
        /\ UNCHANGED <<outputsReady, running, starts, failed>>
        /\ pc = "prepare" /\ pc' = "loop"
    BY <1>1, Zenon DEF PrepareQueue, ScheduleInitialEdges
  <2>2. PICK T \in SUBSET (delayed \cup limited) :
          /\ delayed' = (delayed \cup limited) \ T
          /\ ready' = [e \in Edges |-> IF e \in T \cup direct THEN ready[e] + 1
                                                              ELSE ready[e]]
    BY <2>1 DEF Schedule
  <2>3. \A e \in Edges : ~Placed(e) /\ starts[e] = 0
    BY <2>1, Zenon DEF PlacementInv
  <2>4. delayed = {} /\ \A e \in Edges : ready[e] = 0
    BY <1>0, <2>3 DEF Placed
  <2>5. \A e \in Edges : want'[e] # "none" => e \notin outputsReady'
    BY <2>1, Zenon DEF PlacementInv
  <2>6. \A e \in Edges : Placed(e)' => e \in initial
    BY <2>1, <2>2, <2>3, <2>4, Zenon DEF Placed
  <2>7. \A e \in initial : IsWanted(want', e) /\ AllInputsReady(e, outputsReady')
    BY <2>1, Zenon DEF IsWanted
  <2>8. \A e \in Edges : starts'[e] = 0
    BY <2>1, <2>3, Zenon
  <2>9. running' = {} /\ failed' = {} /\ pc' # "prepare"
    BY <1>0, <2>1, <2>3, Zenon DEF Placed
  <2>10. StartedOnce'
    <3>1. \A e \in Edges : ready'[e] = (IF e \in T \cup direct THEN 1 ELSE 0)
      BY <2>2, <2>4
    <3>2. \A e \in delayed' : e \notin T \cup direct
      BY <2>2, <2>4, Zenon
    <3> QED BY <2>8, <3>1, <3>2 DEF StartedOnce
  <2>11. \A e \in Edges : Placed(e)' => IsWanted(want', e) /\ AllInputsReady(e, outputsReady')
    BY <2>6, <2>7, Zenon
  <2> QED BY <2>5, <2>8, <2>9, <2>10, <2>11 DEF PlacementInv
<1>2. CASE LoopHead
  BY <1>0, <1>2, PlacementKept DEF LoopHead, planVars, Building
<1>3. CASE LoopExit
  BY <1>0, <1>3, PlacementKept DEF LoopExit, planVars, Return, Building
<1>4. CASE StopStarting
  <2>1. UNCHANGED <<want, outputsReady, delayed, ready>>
    BY <1>4, Zenon DEF StopStarting, planVars, FindNoToken
  <2>2. /\ UNCHANGED <<starts, failed, running>>
        /\ Building
        /\ pc' # "prepare"
    BY <1>4, Zenon DEF StopStarting, Return, Building
  <2> QED BY <1>0, <2>1, <2>2, PlacementKept
<1>5. CASE RecordCommand
  BY <1>0, <1>5, PlacementKept DEF RecordCommand, planVars, Building
<1>6. CASE NoProgress
  <2>1. /\ UNCHANGED <<want, outputsReady, delayed, ready, starts, failed, running>>
        /\ pc' = "done"
    BY <1>6, Zenon DEF NoProgress, planVars, Return
  <2> QED BY <1>0, <2>1, PlacementKept DEF Building
<1>7. ASSUME NEW e \in Edges, NEW s \in SlotsFor(e), StartEdge(e, s)
      PROVE  PlacementInv'
  <2>1. /\ ready[e] > 0
        /\ ready' = [ready EXCEPT ![e] = @ - 1]
        /\ running' = running \cup {e}
        /\ starts' = [starts EXCEPT ![e] = @ + 1]
        /\ UNCHANGED <<want, outputsReady, delayed, pc, failed>>
        /\ pc = "start"
    BY <1>7, Zenon DEF StartEdge, FindWork, IsTop, Popped
  <2>2. /\ ready[e] = 1 /\ starts[e] = 0 /\ e \notin delayed
        /\ IsWanted(want, e) /\ AllInputsReady(e, outputsReady)
        /\ e \notin failed
    BY <2>1, QueuedFacts, Zenon
  <2>3. \A f \in Edges : Placed(f)' => Placed(f)
    BY <1>0, <2>1, Zenon DEF Placed
  <2>4. StartedOnce'
    BY <1>0, <2>1, <2>2 DEF PlacementInv, StartedOnce
  <2>5. \A f \in Edges :
          Placed(f)' => IsWanted(want', f) /\ AllInputsReady(f, outputsReady')
    BY <2>1, <2>3, Zenon DEF PlacementInv
  <2>6. /\ \A f \in running' \cup failed' : starts'[f] > 0
        /\ \A f \in Edges :
             starts'[f] > 0 => f \in running' \cup failed' \cup outputsReady'
    BY <1>0, <2>1 DEF PlacementInv, Building
  <2>7. /\ running' \cap failed' = {}
        /\ \A f \in Edges : want'[f] # "none" => f \notin outputsReady'
        /\ pc' # "prepare"
    BY <2>1, <2>2, Zenon DEF PlacementInv
  <2> QED BY <2>4, <2>5, <2>6, <2>7, Zenon DEF PlacementInv
<1>8. ASSUME NEW e \in Edges, NEW s \in SlotsFor(e), StartPhony(e, s)
      PROVE  PlacementInv'
  <2>1. PICK c \in {AfterAcquire(s), Client} :
          /\ FindWork(e, s, c)
          /\ EdgeSucceeded(e, {}, Popped(e), [jobSlot EXCEPT ![e] = s], c)
    BY <1>8, Zenon DEF StartPhony
  <2>2. /\ ready[e] > 0 /\ pc = "start"
        /\ UNCHANGED <<pc, running, starts, failed>>
    BY <1>8, <2>1, Zenon DEF FindWork, IsTop, StartPhony, loopVars
  <2>3. /\ ready[e] = 1 /\ starts[e] = 0 /\ e \notin delayed
        /\ IsWanted(want, e) /\ AllInputsReady(e, outputsReady)
        /\ e \notin running \cup failed
    BY <2>2, QueuedFacts, Zenon
  <2>4. /\ Popped(e) \in [Edges -> Nat]
        /\ Popped(e)[e] = 0
        /\ \A f \in Edges : Popped(e)[f] <= ready[f]
    BY <1>0, <2>3 DEF Popped
  <2>5. {} \in SUBSET Edges /\ Building
    BY <2>2, Zenon DEF Building
  <2>6. /\ \A f \in Edges : want'[f] # "none" => f \notin outputsReady'
        /\ \A f \in Edges :
             \/ ready'[f] > 0
             \/ f \in delayed'
             \/ f # e /\ f \in running \cup failed
             => IsWanted(want', f) /\ AllInputsReady(f, outputsReady')
        /\ \A f \in Edges : /\ ready'[f] + starts[f] <= 1
                            /\ f \in delayed' => ready'[f] + starts[f] = 0
        /\ outputsReady \subseteq outputsReady'
    BY <2>1, <2>3, <2>4, <2>5, EdgeSucceededPlacement, Zenon
  <2>7. StartedOnce'
    BY <2>2, <2>6, Zenon DEF StartedOnce
  <2>8. \A f \in Edges :
          Placed(f)' => IsWanted(want', f) /\ AllInputsReady(f, outputsReady')
    BY <2>2, <2>3, <2>6, Zenon DEF Placed
  <2>9. /\ \A f \in running' \cup failed' : starts'[f] > 0
        /\ running' \cap failed' = {}
        /\ \A f \in Edges :
             starts'[f] > 0 => f \in running' \cup failed' \cup outputsReady'
        /\ pc' # "prepare"
    BY <2>2, <2>5, <2>6, Zenon DEF PlacementInv
  <2> QED BY <2>6, <2>7, <2>8, <2>9, Zenon DEF PlacementInv
<1>9. ASSUME NEW e \in Edges, FinishCommand(e)
      PROVE  PlacementInv'
  <2>1. PICK K \in SUBSET Outs[e], C \in SUBSET Edges :
          /\ CleanNode(K, C)
          /\ EdgeSucceeded(e, C, ready, jobSlot, Client)
    BY <1>9, Zenon DEF FinishCommand
  <2>2. /\ e \in running /\ pc = "reap" /\ pc' = "record"
        /\ running' = running \ {e}
        /\ UNCHANGED <<starts, failed>>
    BY <1>9, Zenon DEF FinishCommand
  <2>3. /\ starts[e] > 0 /\ ready[e] = 0 /\ e \notin delayed
        /\ IsWanted(want, e) /\ AllInputsReady(e, outputsReady)
        /\ e \notin failed
    BY <2>2, RunningFacts, Zenon
  <2>4. Building /\ \A f \in Edges : ready[f] <= ready[f]
    BY <1>0, <2>2 DEF Building
  <2>5. \A f \in C : /\ IsWanted(want, f)
                     /\ \E p \in C \cup {e} : Feeds(p, f)
    BY <2>1, CleanNodeFacts, Zenon
  <2>6. /\ \A f \in Edges : want'[f] # "none" => f \notin outputsReady'
        /\ \A f \in Edges :
             \/ ready'[f] > 0
             \/ f \in delayed'
             \/ f # e /\ f \in running \cup failed
             => IsWanted(want', f) /\ AllInputsReady(f, outputsReady')
        /\ \A f \in Edges : /\ ready'[f] + starts[f] <= 1
                            /\ f \in delayed' => ready'[f] + starts[f] = 0
        /\ outputsReady \subseteq outputsReady' /\ e \in outputsReady'
    BY <1>0, <2>1, <2>3, <2>4, <2>5, EdgeSucceededPlacement, Zenon
  <2>7. StartedOnce'
    BY <2>2, <2>6, Zenon DEF StartedOnce
  <2>8. \A f \in Edges :
          Placed(f)' => IsWanted(want', f) /\ AllInputsReady(f, outputsReady')
    BY <2>2, <2>3, <2>6, Zenon DEF Placed
  <2>9. /\ \A f \in running' \cup failed' : starts'[f] > 0
        /\ running' \cap failed' = {}
        /\ \A f \in Edges :
             starts'[f] > 0 => f \in running' \cup failed' \cup outputsReady'
        /\ pc' # "prepare"
    BY <2>2, <2>4, <2>6, Zenon DEF PlacementInv
  <2> QED BY <2>6, <2>7, <2>8, <2>9, Zenon DEF PlacementInv
<1>10. ASSUME NEW e \in Edges, FinishFailed(e)
       PROVE  PlacementInv'
  <2>1. /\ Schedule(ready, UseAfter(e, want), {e}, delayed, {}, {})
        /\ UNCHANGED <<want, outputsReady, starts>>
        /\ e \in running /\ pc = "reap" /\ pc' = "loop"
        /\ running' = running \ {e}
        /\ failed' = failed \cup {e}
    BY <1>10, Zenon DEF FinishFailed, EdgeFailed
  <2>2. PICK T \in SUBSET delayed :
          /\ delayed' = delayed \ T
          /\ ready' = [f \in Edges |-> IF f \in T THEN ready[f] + 1 ELSE ready[f]]
    BY <2>1, Zenon DEF Schedule
  <2>3. \A f \in Edges : Placed(f)' => Placed(f)
    BY <1>0, <2>1, <2>2, Zenon DEF Placed
  <2>4. \A f \in Edges :
          Placed(f)' => IsWanted(want', f) /\ AllInputsReady(f, outputsReady')
    BY <2>1, <2>3, Zenon DEF PlacementInv
  <2>5. StartedOnce'
    BY <1>0, <2>1, <2>2 DEF PlacementInv, StartedOnce
  <2>6. /\ \A f \in running' \cup failed' : starts'[f] > 0
        /\ running' \cap failed' = {}
        /\ \A f \in Edges :
             starts'[f] > 0 => f \in running' \cup failed' \cup outputsReady'
        /\ pc' # "prepare"
        /\ \A f \in Edges : want'[f] # "none" => f \notin outputsReady'
    BY <1>0, <2>1, Zenon DEF PlacementInv, Building
  <2> QED BY <2>4, <2>5, <2>6, Zenon DEF PlacementInv
<1>11. ASSUME NEW e \in Edges, NEW s \in SlotsFor(e), StartFails(e, s)
       PROVE  PlacementInv'
  <2>1. /\ ready[e] > 0
        /\ ready' = [ready EXCEPT ![e] = @ - 1]
        /\ running' = {}
        /\ UNCHANGED <<want, outputsReady, delayed, starts, failed>>
        /\ pc' = "done"
    BY <1>11, Zenon DEF StartFails, FindWork, IsTop, Popped, Return, Abort
  <2> QED BY <1>0, <2>1, PlacementKept DEF Building
<1>12. ASSUME NEW e \in Edges, StatFails(e)
       PROVE  PlacementInv'
  BY <1>12, StatFailsPlacement, Zenon
<1>13. CASE RecordFails
  BY <1>0, <1>13, PlacementKept DEF RecordFails, planVars, Return, Abort, Building
<1>14. CASE Interrupted
  <2>1. running' = {}
    BY <1>14, Zenon DEF Interrupted, Abort
  <2> QED BY <1>0, <1>14, <2>1, PlacementKept
          DEF Interrupted, planVars, Return, Building
<1>15. CASE OtherClient
  BY <1>0, <1>15, PlacementKept DEF OtherClient, planVars, loopVars, Building
<1>16. CASE UNCHANGED vars
  BY <1>0, <1>16, PlacementKept DEF vars, planVars, loopVars, Building
<1> QED
  BY <1>1, <1>2, <1>3, <1>4, <1>5, <1>6, <1>7, <1>8, <1>9, <1>10, <1>11, <1>12,
     <1>13, <1>14, <1>15, <1>16, Zenon
  DEF Next, BuildStep, FaultStep, Returned

(* The placement invariant holds throughout every build.                   *)
THEOREM PlacementCorrect == Spec => []PlacementInv
BY InitType, NextType, InitPlacement, NextPlacement, PTL DEF Spec

(* No edge is queued or started twice in one build, whatever the graph,    *)
(* the pools, the failures and the results of restat.                      *)
THEOREM EdgesStartOnce == Spec => []StartedOnce
<1>1. PlacementInv => StartedOnce
  BY Zenon DEF PlacementInv
<1> QED BY <1>1, PlacementCorrect, PTL

(* A command runs only when everything it reads, order-only inputs         *)
(* included, has been built and nothing it reads has failed.               *)
THEOREM CommandsRunInOrder == Spec => []InputsBuiltFirst
<1>1. TypeOK /\ PlacementInv => InputsBuiltFirst
  <2> SUFFICES ASSUME TypeOK, PlacementInv, NEW e \in running,
                      NEW p \in Edges, Feeds(p, e)
               PROVE  /\ p \in outputsReady \ (running \cup failed)
                      /\ want[p] = "none"
    BY Zenon DEF InputsBuiltFirst
  <2>1. e \in Edges /\ p \in outputsReady
    BY TypeFacts, Zenon DEF PlacementInv, Placed, AllInputsReady
  <2>2. want[p] = "none"
    BY <2>1, Zenon DEF PlacementInv
  <2>3. ~Placed(p)
    BY <2>2, Zenon DEF PlacementInv, IsWanted
  <2> QED BY <2>1, <2>2, <2>3, Zenon DEF Placed
<1> QED BY <1>1, TypeCorrect, PlacementCorrect, PTL

-----------------------------------------------------------------------------
(* The tokens of the jobserver.                                            *)

(* The builds in which every token comes back: with a jobserver, without   *)
(* the errors after which an edge that holds a token is no longer active   *)
(* (StartFails, StatFails, Interrupted), and where no edge of the plan can *)
(* be without work, so that none is finished that never had a token.       *)
StrictBuild ==
  /\ UseJobserver
  /\ Faults \subseteq {"command", "record"}
  /\ Restat = {}
  /\ \A e \in Edges : OrderOnly[e] = {}

(* TokensConserved for a client in state c, the edges in R holding their   *)
(* slots.                                                                  *)
Conserved(c, R, slot) ==
  /\ \A b \in Bytes : c.pipe[b] + taken[b] + Cardinality({e \in R : slot[e] = b})
                        = IF b = TokenByte THEN Tokens ELSE 0
  /\ Cardinality({e \in R : slot[e] = ImplicitSlot}) = IF c.implicit THEN 0 ELSE 1

TokenInv ==
  /\ \A e \in Edges : want[e] # "nothing"
  /\ Conserved(Client, running, jobSlot)

Clients == [implicit : BOOLEAN, pipe : [Bytes -> Int]]

(* The implicit slot is not a byte.                                        *)
LEMMA SlotFacts ==
  /\ Tokens \in Nat /\ Bytes \subseteq Int /\ ImplicitSlot \notin Bytes
  /\ \A b \in Bytes : (IF b = TokenByte THEN Tokens ELSE 0) \in Int
BY JobserverAssumption DEF JobserverAssumption, Bytes, ZeroSlot, ImplicitSlot

(* When some edges give their slots back, the others still account for     *)
(* every token.                                                            *)
LEMMA Released ==
  ASSUME NEW c \in Clients, taken \in [Bytes -> Int], NEW slot,
         NEW R \in SUBSET Edges, NEW S \in SUBSET R, Conserved(c, R, slot)
  PROVE  Conserved(AfterRelease(c, S, slot), R \ S, slot)
<1> DEFINE H(T, b) == {e \in T : slot[e] = b}
           d == AfterRelease(c, S, slot)
<1>1. ASSUME NEW b
      PROVE  /\ Cardinality(H(R \ S, b)) = Cardinality(H(R, b)) - Cardinality(H(S, b))
             /\ Cardinality(H(R, b)) \in Nat /\ Cardinality(H(S, b)) \in Nat
             /\ Cardinality(H(R \ S, b)) \in Nat
             /\ Cardinality(H(S, b)) = 0 <=> H(S, b) = {}
  <2>1. /\ H(R, b) \in SUBSET Edges /\ H(S, b) \in SUBSET H(R, b)
        /\ H(S, b) \in SUBSET Edges
        /\ H(R \ S, b) = H(R, b) \ H(S, b) /\ H(R \ S, b) \in SUBSET Edges
    BY Zenon
  <2> HIDE DEF H
  <2>2. /\ IsFiniteSet(H(S, b))
        /\ Cardinality(H(R, b)) \in Nat /\ Cardinality(H(S, b)) \in Nat
        /\ Cardinality(H(R \ S, b)) \in Nat
    BY <2>1, CardinalityOfEdges, Zenon
  <2>3. Cardinality(H(S, b)) = 0 <=> H(S, b) = {}
    BY <2>2, FS_EmptySet, Zenon
  <2>4. Cardinality(H(R \ S, b)) = Cardinality(H(R, b)) - Cardinality(H(S, b))
    BY <2>1, CardinalityMinus, Zenon
  <2> QED BY <2>2, <2>3, <2>4, Zenon
<1> DEFINE before(b) == Cardinality(H(R, b))
           given(b) == Cardinality(H(S, b))
           left(b) == Cardinality(H(R \ S, b))
<1>2. /\ \A b \in Bytes : d.pipe[b] = c.pipe[b] + given(b)
      /\ d.implicit <=> (c.implicit \/ H(S, ImplicitSlot) # {})
  BY Zenon DEF AfterRelease
<1>3. /\ \A b \in Bytes : c.pipe[b] + taken[b] + before(b)
                            = IF b = TokenByte THEN Tokens ELSE 0
      /\ before(ImplicitSlot) = IF c.implicit THEN 0 ELSE 1
  BY Zenon DEF Conserved
<1>4. \A b \in Bytes : c.pipe[b] \in Int /\ taken[b] \in Int
  BY Zenon DEF Clients
<1>5. ASSUME NEW b
      PROVE  /\ left(b) = before(b) - given(b)
             /\ before(b) \in Nat /\ given(b) \in Nat /\ left(b) \in Nat
             /\ given(b) = 0 <=> H(S, b) = {}
  BY <1>1, Zenon
<1> HIDE DEF H, d, before, given, left
<1>6. \A b \in Bytes : d.pipe[b] + taken[b] + left(b)
                         = IF b = TokenByte THEN Tokens ELSE 0
  <2> SUFFICES ASSUME NEW b \in Bytes
               PROVE  d.pipe[b] + taken[b] + left(b) = c.pipe[b] + taken[b] + before(b)
    BY <1>3, Zenon
  <2> QED BY <1>2, <1>4, <1>5
<1>7. left(ImplicitSlot) = IF d.implicit THEN 0 ELSE 1
  <2>1. CASE H(S, ImplicitSlot) = {}
    <3>1. left(ImplicitSlot) = before(ImplicitSlot)
      BY <1>5, <2>1
    <3> QED BY <1>2, <1>3, <2>1, <3>1, Zenon
  <2>2. CASE H(S, ImplicitSlot) # {}
    <3>1. before(ImplicitSlot) \in {0, 1}
      BY <1>3, Zenon
    <3>2. given(ImplicitSlot) # 0
      BY <1>5, <2>2, Zenon
    <3>3. left(ImplicitSlot) = 0
      BY <1>5, <3>1, <3>2
    <3> QED BY <1>2, <2>2, <3>3, Zenon
  <2> QED BY <2>1, <2>2, Zenon
<1> QED BY <1>6, <1>7, Zenon DEF Conserved, H, d, left

(* An edge that holds nothing may change its slot.                         *)
LEMMA SlotOfOther ==
  ASSUME NEW c, NEW R \in SUBSET Edges, NEW slot \in [Edges -> Slots],
         NEW e \in Edges \ R, NEW s, Conserved(c, R, slot)
  PROVE  Conserved(c, R, [slot EXCEPT ![e] = s])
<1>1. \A x \in R : [slot EXCEPT ![e] = s][x] = slot[x]
  BY Zenon
<1>2. \A b : {x \in R : [slot EXCEPT ![e] = s][x] = b} = {x \in R : slot[x] = b}
  BY <1>1, Zenon
<1> QED BY <1>2, Zenon DEF Conserved

(* An edge that takes a slot accounts for it from then on.                 *)
LEMMA Acquired ==
  ASSUME TypeOK, NEW R \in SUBSET Edges, NEW slot \in [Edges -> Slots],
         NEW e \in Edges \ R, NEW s \in TryAcquire, Valid(s),
         Conserved(Client, R, slot)
  PROVE  Conserved(AfterAcquire(s), R \cup {e}, [slot EXCEPT ![e] = s])
<1> DEFINE now == [slot EXCEPT ![e] = s]
           G(b) == {x \in R : slot[x] = b}
           H(b) == {x \in R \cup {e} : now[x] = b}
           d == AfterAcquire(s)
<1>1. /\ now[e] = s /\ \A x \in R : now[x] = slot[x]
  BY Zenon
<1> HIDE DEF now
<1>2. ASSUME NEW b
      PROVE  /\ Cardinality(G(b)) \in Nat
             /\ b = s => Cardinality(H(b)) = Cardinality(G(b)) + 1
             /\ b # s => Cardinality(H(b)) = Cardinality(G(b))
  <2>1. G(b) \in SUBSET Edges /\ e \notin G(b)
    BY Zenon
  <2>2. /\ b = s => H(b) = G(b) \cup {e}
        /\ b # s => H(b) = G(b)
    BY <1>1, Zenon
  <2> HIDE DEF G, H
  <2>3. IsFiniteSet(G(b)) /\ Cardinality(G(b)) \in Nat
    BY <2>1, CardinalityOfEdges, Zenon
  <2>4. Cardinality(G(b) \cup {e}) = Cardinality(G(b)) + 1
    BY <2>1, <2>3, FS_AddElement, Zenon
  <2> QED BY <2>2, <2>3, <2>4, Zenon
<1>3. /\ \A b \in Bytes : d.pipe[b] = IF b = s THEN pipe[b] - 1 ELSE pipe[b]
      /\ d.implicit <=> (hasImplicitSlot /\ s # ImplicitSlot)
  BY Zenon DEF AfterAcquire
<1>4. /\ \A b \in Bytes : pipe[b] + taken[b] + Cardinality(G(b))
                            = IF b = TokenByte THEN Tokens ELSE 0
      /\ Cardinality(G(ImplicitSlot)) = IF hasImplicitSlot THEN 0 ELSE 1
  BY Zenon DEF Conserved, Client
<1>5. \A b \in Bytes : pipe[b] \in Int /\ taken[b] \in Int
  BY TypeFacts, Zenon
<1>6. (hasImplicitSlot /\ s = ImplicitSlot) \/ (~hasImplicitSlot /\ s # ImplicitSlot)
  <2>1. s = InvalidSlot => ~Valid(s)
    BY DEF InvalidSlot, Valid
  <2> QED BY <2>1, SlotFacts, Zenon DEF TryAcquire
<1> HIDE DEF G, H, d
<1>7. \A b \in Bytes : d.pipe[b] + taken[b] + Cardinality(H(b))
                         = IF b = TokenByte THEN Tokens ELSE 0
  <2> SUFFICES ASSUME NEW b \in Bytes
               PROVE  d.pipe[b] + taken[b] + Cardinality(H(b))
                        = pipe[b] + taken[b] + Cardinality(G(b))
    BY <1>4, Zenon
  <2> QED BY <1>2, <1>3, <1>5
<1>8. Cardinality(H(ImplicitSlot)) = IF d.implicit THEN 0 ELSE 1
  <2>1. CASE hasImplicitSlot /\ s = ImplicitSlot
    <3>1. Cardinality(G(ImplicitSlot)) = 0 /\ ~d.implicit
      BY <1>3, <1>4, <2>1, Zenon
    <3>2. Cardinality(H(ImplicitSlot)) = 1
      BY <1>2, <2>1, <3>1
    <3> QED BY <3>1, <3>2, Zenon
  <2>2. CASE ~hasImplicitSlot /\ s # ImplicitSlot
    BY <1>2, <1>3, <1>4, <2>2, Zenon
  <2> QED BY <1>6, <2>1, <2>2, Zenon
<1> QED BY <1>7, <1>8, Zenon DEF Conserved, H, d, now

(* In a graph without order-only inputs every edge of the plan is dirty:   *)
(* one that is not ready has an input that is not ready, and the first     *)
(* such edge is dirty.                                                     *)
LEMMA InitTokens ==
  ASSUME StrictBuild, Init
  PROVE  TokenInv
<1>1. \A e \in Edges : want[e] # "nothing"
  <2>1. PICK D \in SUBSET Edges :
          /\ ScanDirty(D) /\ ScanReady(D, outputsReady)
          /\ \E W \in SUBSET Edges :
               /\ Reached(outputsReady, W)
               /\ want = [e \in Edges |-> IF e \notin W THEN "none"
                                          ELSE IF e \in D THEN "toStart" ELSE "nothing"]
    BY Zenon DEF Init, PlanInit
  <2>2. PICK W \in SUBSET Edges :
          /\ Reached(outputsReady, W)
          /\ want = [e \in Edges |-> IF e \notin W THEN "none"
                                     ELSE IF e \in D THEN "toStart" ELSE "nothing"]
    BY <2>1, Zenon
  <2> DEFINE S == {e \in Edges : e \notin outputsReady /\ e \notin D}
  <2>3. S = {}
    <3> SUFFICES ASSUME S # {} PROVE FALSE
      BY Zenon
    <3>1. S \in SUBSET Edges
      BY Zenon
    <3>2. PICK e \in S : \A p \in S : ~Feeds(p, e)
      BY <3>1, AcyclicAssumption, Zenon
    <3>3. PICK p \in Edges : Feeds(p, e) /\ p \notin outputsReady
      BY <2>1, Zenon DEF ScanReady, AllInputsReady
    <3>4. p \in D
      BY <3>2, <3>3, Zenon
    <3>5. Outs[p] \cap NonOrderOnlyInputs(e) # {}
      BY <3>3, Zenon DEF Feeds, Inputs, StrictBuild
    <3> QED BY <2>1, <3>4, <3>5, Zenon DEF ScanDirty
  <2>4. \A e \in W : e \in D
    BY <2>2, <2>3, Zenon DEF Reached
  <2> QED BY <2>2, <2>4, Zenon
<1>2. Conserved(Client, running, jobSlot)
  <2>1. /\ running = {} /\ hasImplicitSlot = TRUE
        /\ pipe = [b \in Bytes |-> IF b = TokenByte THEN Tokens ELSE 0]
        /\ taken = [b \in Bytes |-> 0]
    BY Zenon DEF Init, JobserverInit
  <2>2. \A b : Cardinality({e \in running : jobSlot[e] = b}) = 0
    <3>1. \A b : {e \in running : jobSlot[e] = b} = {}
      BY <2>1, Zenon
    <3>2. Cardinality({}) = 0
      BY FS_EmptySet, Zenon
    <3> QED BY <3>1, <3>2, Zenon
  <2>3. \A b \in Bytes : pipe[b] = (IF b = TokenByte THEN Tokens ELSE 0) /\ taken[b] = 0
    BY <2>1, Zenon
  <2>4. \A b \in Bytes : pipe[b] + taken[b] + Cardinality({e \in running : jobSlot[e] = b})
                           = IF b = TokenByte THEN Tokens ELSE 0
    BY <2>2, <2>3, SlotFacts
  <2> QED BY <2>1, <2>2, <2>4, Zenon DEF Conserved, Client
<1> QED BY <1>1, <1>2, Zenon DEF TokenInv

(* The client's new state, once the step has set it.                       *)
LEMMA ClientNow ==
  ASSUME NEW c, NEW R, NEW slot, Conserved(c, R, slot), SetClient(c),
         running' = R, jobSlot' = slot
  PROVE  Conserved(Client, running, jobSlot)'
BY Zenon DEF Conserved, Client, SetClient

(* EdgeFinished(e, EdgeSucceeded) finishes e alone, which gives its slot   *)
(* back.                                                                   *)
LEMMA EdgeSucceededTokens ==
  ASSUME StrictBuild, TypeOK, TokenInv, NEW e \in Edges, NEW rdy,
         NEW slot, NEW c \in Clients, NEW R \in SUBSET Edges, e \in R,
         Conserved(c, R, slot), EdgeSucceeded(e, {}, rdy, slot, c),
         running' = R \ {e}
  PROVE  TokenInv'
<1> DEFINE w == WantAfterClean({})
           F == Finishing(e, w)
<1>1. \A f \in Edges : w[f] # "nothing"
  BY Zenon DEF WantAfterClean, TokenInv
<1> HIDE DEF w
<1>2. F = {e}
  <2>1. F \subseteq Edges /\ e \in F /\ \A f \in F : f = e \/ w[f] = "nothing"
    BY FinishingFacts, Zenon
  <2> HIDE DEF F
  <2> QED BY <1>1, <2>1, Zenon
<1>3. /\ ReleaseSlots(c, F, slot) /\ jobSlot' = slot
      /\ \E woken \in SUBSET Edges :
           want' = [f \in Edges |-> IF f \in F THEN "none"
                                    ELSE IF f \in woken THEN "toFinish" ELSE w[f]]
  <2> DEFINE woken == {f \in Edges : /\ w[f] = "toStart"
                                     /\ \E p \in F : Feeds(p, f)
                                     /\ AllInputsReady(f, outputsReady \cup F)}
  <2>1. /\ ReleaseSlots(c, F, slot) /\ jobSlot' = slot
        /\ want' = [f \in Edges |-> IF f \in F THEN "none"
                                    ELSE IF f \in woken THEN "toFinish" ELSE w[f]]
    BY Zenon DEF EdgeSucceeded, w
  <2>2. woken \in SUBSET Edges
    BY Zenon
  <2> HIDE DEF woken, F
  <2> QED BY <2>1, <2>2, Zenon
<1>4. \A f \in Edges : want'[f] # "nothing"
  BY <1>1, <1>3, Zenon
<1>5. SetClient(AfterRelease(c, {e}, slot))
  BY <1>2, <1>3, Zenon DEF ReleaseSlots, StrictBuild
<1>6. Conserved(AfterRelease(c, {e}, slot), R \ {e}, slot)
  <2>1. {e} \in SUBSET R /\ taken \in [Bytes -> Int]
    BY TypeFacts, Zenon
  <2> QED BY <2>1, Released, Zenon
<1>7. Conserved(Client, running, jobSlot)'
  BY <1>3, <1>5, <1>6, ClientNow, Zenon
<1> QED BY <1>4, <1>7, Zenon DEF TokenInv

(* Without restat CleanNode is called for no node, and un-wants nothing.   *)
LEMMA NothingCleaned ==
  ASSUME NEW C \in SUBSET Edges, CleanNode({}, C)
  PROVE  C = {}
<1> SUFFICES ASSUME C # {} PROVE FALSE
  BY Zenon
<1>1. PICK f \in C : \A p \in C : ~Feeds(p, f)
  BY AcyclicAssumption, Zenon
<1>2. Inputs(f) \cap ({} \cup UNION {Outs[g] : g \in C}) # {}
  BY Zenon DEF CleanNode
<1> QED BY <1>1, <1>2, Zenon DEF Feeds

(* A step that leaves the plan's wants, the client, the slots and the      *)
(* running commands alone.                                                 *)
LEMMA TokensKept ==
  ASSUME TokenInv, UNCHANGED <<want, jobserverVars, running, jobSlot>>
  PROVE  TokenInv'
BY Zenon DEF TokenInv, Conserved, Client, jobserverVars

(* Every step of a strict build accounts for every token.                  *)
LEMMA NextTokens ==
  ASSUME StrictBuild, TypeOK, PlacementInv, TokenInv, [Next]_vars
  PROVE  TokenInv'
<1>1. /\ Client \in Clients /\ \A s : AfterAcquire(s) \in Clients
      /\ running \in SUBSET Edges /\ jobSlot \in [Edges -> Slots]
      /\ taken \in [Bytes -> Int] /\ pipe \in [Bytes -> Int]
      /\ Conserved(Client, running, jobSlot)
  BY TypeFacts, ClientType, Zenon DEF TokenInv, Clients
<1>2. \A e \in Edges : ready[e] > 0 => e \in Edges \ running
  BY QueuedFacts, Zenon
<1>3. CASE UNCHANGED vars
  BY <1>3, TokensKept, Zenon DEF vars, planVars, jobserverVars, loopVars
<1>4. CASE PrepareQueue
  <2>1. /\ UNCHANGED <<jobserverVars, running, jobSlot>>
        /\ \E direct : want' = [e \in Edges |-> IF e \in direct THEN "toFinish" ELSE want[e]]
    BY <1>4, Zenon DEF PrepareQueue, ScheduleInitialEdges
  <2>2. \A e \in Edges : want'[e] # "nothing"
    BY <2>1, Zenon DEF TokenInv
  <2>3. Conserved(Client, running, jobSlot)'
    BY <1>1, <2>1, Zenon DEF Conserved, Client, jobserverVars
  <2> QED BY <2>2, <2>3, Zenon DEF TokenInv
<1>5. CASE LoopHead \/ LoopExit \/ RecordCommand \/ NoProgress
  BY <1>5, TokensKept, Zenon DEF LoopHead, LoopExit, RecordCommand, NoProgress, planVars
<1>6. CASE StopStarting
  <2>1. CASE UNCHANGED <<planVars, jobserverVars>>
    BY <1>6, <2>1, TokensKept, Zenon DEF StopStarting, planVars
  <2>2. CASE FindNoToken
    <3>1. PICK e \in Edges : IsTop(e) /\ jobSlot' = [jobSlot EXCEPT ![e] = InvalidSlot]
      BY <2>2, Zenon DEF FindNoToken
    <3>2. Conserved(Client, running, [jobSlot EXCEPT ![e] = InvalidSlot])
      BY <1>1, <1>2, <3>1, SlotOfOther, Zenon DEF IsTop
    <3>3. want' = want /\ SetClient(Client) /\ running' = running
      BY <1>6, <2>2, Zenon DEF FindNoToken, StopStarting, SetClient, Client, jobserverVars
    <3>4. Conserved(Client, running, jobSlot)'
      BY <3>1, <3>2, <3>3, ClientNow, Zenon
    <3> QED BY <3>3, <3>4, Zenon DEF TokenInv
  <2> QED BY <1>6, <2>1, <2>2, Zenon DEF StopStarting
<1>7. ASSUME NEW e \in Edges, NEW s \in SlotsFor(e), StartEdge(e, s) \/ StartPhony(e, s)
      PROVE  TokenInv'
  <2> DEFINE slot == [jobSlot EXCEPT ![e] = s]
             R == running \cup {e}
  <2>1. \E c \in {AfterAcquire(s), Client} : FindWork(e, s, c)
    BY <1>7, Zenon DEF StartEdge, StartPhony
  <2>2. Valid(s) /\ s \in TryAcquire /\ e \in Edges \ running
    BY <1>2, <2>1, Zenon DEF FindWork, IsTop, SlotsFor, StrictBuild
  <2>3. Conserved(AfterAcquire(s), R, slot)
    BY <1>1, <2>2, Acquired, Zenon
  <2>4. CASE StartEdge(e, s)
    <3>1. SetClient(AfterAcquire(s)) /\ running' = R /\ jobSlot' = slot /\ want' = want
      BY <2>4, Zenon DEF StartEdge, FindWork, StrictBuild
    <3>2. Conserved(Client, running, jobSlot)'
      BY <2>3, <3>1, ClientNow, Zenon
    <3> QED BY <3>1, <3>2, Zenon DEF TokenInv
  <2>5. CASE StartPhony(e, s)
    <3>1. EdgeSucceeded(e, {}, Popped(e), slot, AfterAcquire(s)) /\ running' = running
      BY <2>5, Zenon DEF StartPhony, FindWork, StrictBuild, loopVars
    <3>2. R \in SUBSET Edges /\ e \in R /\ running' = R \ {e}
      BY <1>1, <2>2, <3>1, Zenon
    <3> QED BY <1>1, <2>3, <3>1, <3>2, EdgeSucceededTokens, Zenon
  <2> QED BY <1>7, <2>4, <2>5, Zenon
<1>8. ASSUME NEW e \in Edges, FinishFailed(e)
      PROVE  TokenInv'
  <2>1. /\ {e} \in SUBSET running /\ running' = running \ {e}
        /\ SetClient(AfterRelease(Client, {e}, jobSlot))
        /\ want' = want /\ jobSlot' = jobSlot
    BY <1>8, Zenon DEF FinishFailed, EdgeFailed, ReleaseSlots, StrictBuild
  <2>2. Conserved(AfterRelease(Client, {e}, jobSlot), running \ {e}, jobSlot)
    BY <1>1, <2>1, Released, Zenon
  <2>3. Conserved(Client, running, jobSlot)'
    BY <2>1, <2>2, ClientNow, Zenon
  <2> QED BY <2>1, <2>3, Zenon DEF TokenInv
<1>9. ASSUME NEW e \in Edges, FinishCommand(e)
      PROVE  TokenInv'
  <2>1. PICK K \in SUBSET Outs[e], C \in SUBSET Edges :
          /\ K # {} => e \in Restat
          /\ CleanNode(K, C)
          /\ EdgeSucceeded(e, C, ready, jobSlot, Client)
    BY <1>9, Zenon DEF FinishCommand
  <2>2. K = {} /\ e \in running /\ running' = running \ {e}
    BY <1>9, <2>1, Zenon DEF FinishCommand, StrictBuild
  <2>3. C = {}
    BY <2>1, <2>2, NothingCleaned, Zenon
  <2> QED BY <1>1, <2>1, <2>2, <2>3, EdgeSucceededTokens, Zenon
<1>10. CASE RecordFails
  <2>1. /\ SetClient(AfterRelease(Client, running, jobSlot)) /\ running' = {}
        /\ want' = want /\ jobSlot' = jobSlot
    BY <1>10, Zenon DEF RecordFails, Abort, ReleaseSlots, StrictBuild, planVars
  <2>2. Conserved(AfterRelease(Client, running, jobSlot), running \ running, jobSlot)
    BY <1>1, Released, Zenon
  <2>3. running \ running = {}
    BY Zenon
  <2>4. Conserved(Client, running, jobSlot)'
    BY <2>1, <2>2, <2>3, ClientNow, Zenon
  <2> QED BY <2>1, <2>4, Zenon DEF TokenInv
<1>11. CASE FaultStep
  <2>1. ~Interrupted /\ \A e \in Edges : ~StatFails(e) /\ \A s : ~StartFails(e, s)
    BY DEF Interrupted, StatFails, StartFails, StrictBuild
  <2> QED BY <1>10, <1>11, <2>1, Zenon DEF FaultStep
<1>12. CASE OtherClient
  <2>1. PICK b \in Bytes : (OtherTakes(b) \/ OtherReturns(b)) /\ UNCHANGED <<planVars, loopVars>>
    BY <1>12, Zenon DEF OtherClient
  <2>2. /\ hasImplicitSlot' = hasImplicitSlot /\ want' = want
        /\ running' = running /\ jobSlot' = jobSlot
    BY <2>1, Zenon DEF OtherTakes, OtherReturns, planVars, loopVars
  <2>3. \A x \in Bytes : pipe'[x] + taken'[x] = pipe[x] + taken[x]
    <3>1. CASE OtherTakes(b)
      BY <1>1, <3>1 DEF OtherTakes
    <3>2. CASE OtherReturns(b)
      BY <1>1, <3>2 DEF OtherReturns
    <3> QED BY <2>1, <3>1, <3>2, Zenon
  <2>4. Conserved(Client, running, jobSlot)'
    BY <1>1, <2>2, <2>3, Zenon DEF Conserved, Client
  <2> QED BY <2>2, <2>4, Zenon DEF TokenInv
<1> QED BY <1>3, <1>4, <1>5, <1>6, <1>7, <1>8, <1>9, <1>11, <1>12, Zenon
        DEF Next, BuildStep, Returned

(* For every strict build, whatever the number of tokens, the order of     *)
(* exits and what the other clients of the pool do: no token is lost or    *)
(* made up (TryAcquire and Release, called from FindWork, EdgeFinished and *)
(* ClearJobTokens).  Outside of StrictBuild a token can be made up, as the *)
(* run zero_slot shows, or be lost with a command that cannot be started.  *)
THEOREM EveryTokenComesBack ==
  ASSUME StrictBuild
  PROVE  Spec => []TokensConserved
<1>1. TokenInv => TokensConserved
  BY Zenon DEF TokenInv, Conserved, Client, TokensConserved, PipeTokensConserved
<1> QED BY <1>1, InitTokens, NextTokens, TypeCorrect, PlacementCorrect, PTL DEF Spec

=============================================================================
