------------------------- MODULE BuilderPlanProofs --------------------------
(***************************************************************************)
(* Plan and Build's loop, on top of the placement of BuilderProofs (an     *)
(* edge is queued, running or delayed at most once).  What Plan counts is  *)
(* exact, hence Builder implements BuildOrder; the use of a pool is exact  *)
(* and within its depth, and no edge waits for a place while there is one. *)
(* The loop never lets too many commands run, stops when the budget of     *)
(* failures is spent, is never stuck, and its result means what it says.   *)
(***************************************************************************)
EXTENDS BuilderProofs

Wanted == {e \in Edges : IsWanted(want, e)}

WantedCommands == {e \in Edges \ Phony : IsWanted(want, e)}

(* The counters of the plan and of the loop, and what keeps them exact:    *)
(* only commands run or fail, Build has a result once it has returned, and *)
(* exitCode remembers a failure.                                           *)
CountInv ==
  /\ WantedEdgesCounted
  /\ (running \cup failed) \cap Phony = {}
  /\ Building => pendingCommands = Cardinality(running)
  /\ Building <=> result.status = "none"
  /\ exitCode = "success" => failed = {}

-----------------------------------------------------------------------------
(* Counting.                                                               *)

(* When MoreToDo fails no command is wanted, so none runs or has failed.   *)
LEMMA NothingLeft ==
  ASSUME TypeOK, PlacementInv, CountInv, ~MoreToDo
  PROVE  WantedCommands = {} /\ running = {} /\ failed = {}
<1>1. /\ Wanted \in SUBSET Edges /\ WantedCommands \in SUBSET Edges
      /\ WantedCommands \subseteq Wanted
  BY Zenon DEF Wanted, WantedCommands
<1>2. /\ IsFiniteSet(Wanted) /\ IsFiniteSet(WantedCommands)
      /\ Cardinality(Wanted) \in Nat /\ Cardinality(WantedCommands) \in Nat
  BY <1>1, CardinalityOfEdges, Zenon
<1>3. /\ wantedEdges = Cardinality(Wanted)
      /\ commandEdges >= Cardinality(WantedCommands)
  BY Zenon DEF CountInv, WantedEdgesCounted, Wanted, WantedCommands
<1>4. Cardinality(Wanted) = 0 \/ Cardinality(WantedCommands) = 0
  BY <1>2, <1>3, TypeFacts DEF MoreToDo
<1>5. WantedCommands = {}
  BY <1>1, <1>2, <1>4, FS_EmptySet, Zenon
<1>6. \A e \in running \cup failed : e \in Edges \ Phony /\ IsWanted(want, e)
  BY TypeFacts, Zenon DEF CountInv, PlacementInv, Placed
<1> QED BY <1>5, <1>6, Zenon DEF WantedCommands

(* CleanNode takes exactly the edges it un-wants out of the wanted edges.  *)
LEMMA UnwantedCount ==
  ASSUME TypeOK, WantedEdgesCounted, NEW C \in SUBSET Wanted,
         want' = WantAfterClean(C),
         wantedEdges' = wantedEdges - Cardinality(C),
         commandEdges' = commandEdges - Cardinality(C \ Phony)
  PROVE  WantedEdgesCounted'
<1>1. Wanted' = Wanted \ C /\ WantedCommands' = WantedCommands \ (C \ Phony)
  BY Zenon DEF Wanted, WantedCommands, IsWanted, WantAfterClean
<1>2. /\ Wanted \in SUBSET Edges /\ WantedCommands \in SUBSET Edges
      /\ C \ Phony \in SUBSET WantedCommands
  BY Zenon DEF Wanted, WantedCommands
<1>3. /\ Cardinality(Wanted') = Cardinality(Wanted) - Cardinality(C)
      /\ Cardinality(WantedCommands')
           = Cardinality(WantedCommands) - Cardinality(C \ Phony)
  BY <1>1, <1>2, CardinalityMinus, Zenon
<1>4. /\ Cardinality(WantedCommands) \in Nat /\ Cardinality(C \ Phony) \in Nat
      /\ commandEdges \in Int
  BY <1>2, CardinalityOfEdges, TypeFacts, Zenon
<1>5. /\ wantedEdges = Cardinality(Wanted)
      /\ commandEdges >= Cardinality(WantedCommands)
  BY Zenon DEF WantedEdgesCounted, Wanted, WantedCommands
<1>6. /\ wantedEdges' = Cardinality(Wanted')
      /\ commandEdges' >= Cardinality(WantedCommands')
  BY <1>3, <1>4, <1>5
<1> QED BY <1>6, Zenon DEF WantedEdgesCounted, Wanted, WantedCommands

(* EdgeFinished(e, EdgeSucceeded) and the CleanNode before it take exactly *)
(* e and the edges CleanNode un-wanted out of the wanted edges.            *)
LEMMA EdgeSucceededWanted ==
  ASSUME TypeOK, PlacementInv, NEW e \in Edges, NEW C \in SUBSET Edges,
         NEW rdy, NEW slot, NEW c,
         EdgeSucceeded(e, C, rdy, slot, c),
         IsWanted(want, e), AllInputsReady(e, outputsReady),
         \A f \in C : /\ IsWanted(want, f)
                      /\ \E p \in C \cup {e} : Feeds(p, f),
         WantedEdgesCounted
  PROVE  WantedEdgesCounted'
<1> DEFINE w == [f \in Edges |-> IF f \in C THEN "nothing" ELSE want[f]]
           F == Finishing(e, w)
           done == outputsReady \cup F
           woken == {f \in Edges : /\ w[f] = "toStart"
                                   /\ \E p \in F : Feeds(p, f)
                                   /\ AllInputsReady(f, done)}
<1>1. /\ want' = [f \in Edges |-> IF f \in F THEN "none"
                                  ELSE IF f \in woken THEN "toFinish"
                                  ELSE w[f]]
      /\ wantedEdges' = wantedEdges - Cardinality(C)
                        - (IF IsWanted(w, e) THEN 1 ELSE 0)
      /\ commandEdges' = commandEdges - Cardinality(C \ Phony)
  BY Zenon DEF EdgeSucceeded, WantAfterClean
<1>2. /\ F \subseteq Edges
      /\ e \in F
      /\ \A f \in F : f = e \/ w[f] = "nothing"
  BY FinishingFacts, Zenon
<1>3. \A f \in C \cup {e} : f \notin outputsReady
  BY Zenon DEF PlacementInv, IsWanted
<1>4. e \notin C
  BY <1>3, Zenon DEF AllInputsReady
<1>5. \A f \in woken : w[f] = "toStart"
  OBVIOUS
<1>6. IsWanted(w, e)
  BY <1>4, Zenon DEF IsWanted
<1> HIDE DEF F, woken
<1>7. \A f \in Edges : IsWanted(want', f) <=> IsWanted(want, f) /\ f \notin C \cup {e}
  <2> SUFFICES ASSUME NEW f \in Edges
               PROVE  IsWanted(want', f) <=>
                        IsWanted(want, f) /\ f \notin C \cup {e}
    OBVIOUS
  <2>1. CASE f \in F
    <3>1. want'[f] = "none"
      BY <1>1, <2>1, Zenon
    <3>2. f = e \/ w[f] = "nothing"
      BY <1>2, <2>1, Zenon
    <3>3. f = e \/ f \in C \/ want[f] = "nothing"
      BY <3>2, Zenon
    <3> QED BY <3>1, <3>3, Zenon DEF IsWanted
  <2>2. CASE f \notin F /\ f \in woken
    <3>1. want'[f] = "toFinish" /\ w[f] = "toStart"
      BY <1>1, <1>5, <2>2, Zenon
    <3>2. f \notin C /\ want[f] = "toStart" /\ f # e
      BY <1>2, <2>2, <3>1, Zenon
    <3> QED BY <3>1, <3>2, Zenon DEF IsWanted
  <2>3. CASE f \notin F /\ f \notin woken
    <3>1. want'[f] = w[f] /\ f # e
      BY <1>1, <1>2, <2>3, Zenon
    <3> QED BY <3>1, Zenon DEF IsWanted
  <2> QED BY <2>1, <2>2, <2>3, Zenon
<1>8. Wanted' = Wanted \ (C \cup {e})
  BY <1>7, Zenon DEF Wanted
<1>9. WantedCommands' \subseteq WantedCommands \ (C \ Phony)
  BY <1>7, Zenon DEF WantedCommands
<1>10. /\ C \cup {e} \in SUBSET Wanted /\ Wanted \in SUBSET Edges
       /\ C \ Phony \in SUBSET WantedCommands /\ WantedCommands \in SUBSET Edges
  BY Zenon DEF Wanted, WantedCommands
<1>11. Cardinality(C \cup {e}) = Cardinality(C) + 1
  BY <1>4, CardinalityOfEdges, FS_AddElement, Zenon
<1>12. Cardinality(Wanted') = Cardinality(Wanted) - (Cardinality(C) + 1)
  BY <1>8, <1>10, <1>11, CardinalityMinus, Zenon
<1>13. Cardinality(WantedCommands')
         <= Cardinality(WantedCommands) - Cardinality(C \ Phony)
  <2>1. WantedCommands \ (C \ Phony) \in SUBSET Edges
    BY <1>10, Zenon
  <2>2. Cardinality(WantedCommands')
          <= Cardinality(WantedCommands \ (C \ Phony))
    BY <1>9, <2>1, CardinalityOfEdges, FS_Subset, Zenon
  <2> QED BY <1>10, <2>2, CardinalityMinus, Zenon
<1>14. /\ wantedEdges = Cardinality(Wanted)
       /\ commandEdges >= Cardinality(WantedCommands)
  BY Zenon DEF WantedEdgesCounted, Wanted, WantedCommands
<1>15. /\ Cardinality(Wanted) \in Nat /\ Cardinality(WantedCommands) \in Nat
       /\ Cardinality(C) \in Nat /\ Cardinality(C \ Phony) \in Nat
       /\ wantedEdges \in Int /\ commandEdges \in Int
  BY <1>10, CardinalityOfEdges, TypeFacts, Zenon
<1>16. WantedCommands' \in SUBSET Edges
  BY <1>9, <1>10, Zenon
<1>17. Cardinality(WantedCommands') \in Nat
  BY <1>16, CardinalityOfEdges, Zenon
<1>18. /\ wantedEdges' = Cardinality(Wanted')
       /\ commandEdges' >= Cardinality(WantedCommands')
  BY <1>1, <1>6, <1>12, <1>13, <1>14, <1>15, <1>17
<1> QED BY <1>18, Zenon DEF WantedEdgesCounted, Wanted, WantedCommands

(* Initially the counts are those of the edges that are wanted.            *)
LEMMA InitCount == Init => CountInv
<1> SUFFICES ASSUME Init PROVE CountInv
  OBVIOUS
<1>1. PICK D \in SUBSET Edges, W \in SUBSET Edges :
        /\ want = [e \in Edges |-> IF e \notin W THEN "none"
                                   ELSE IF e \in D THEN "toStart" ELSE "nothing"]
        /\ wantedEdges = Cardinality(W \cap D)
        /\ commandEdges = Cardinality((W \cap D) \ Phony)
  BY Zenon DEF Init, PlanInit
<1>2. Wanted = W \cap D /\ WantedCommands = (W \cap D) \ Phony
  BY <1>1, Zenon DEF Wanted, WantedCommands, IsWanted
<1>3. Cardinality((W \cap D) \ Phony) \in Nat
  BY CardinalityOfEdges, Zenon
<1>4. WantedEdgesCounted
  BY <1>1, <1>2, <1>3 DEF WantedEdgesCounted, Wanted, WantedCommands
<1>5. /\ running = {} /\ failed = {} /\ pendingCommands = 0
      /\ result.status = "none" /\ pc = "prepare"
  BY Zenon DEF Init, NoResult
<1> QED BY <1>4, <1>5, FS_EmptySet, Zenon DEF CountInv, Building

(* A step that changes neither what is wanted nor, while the build goes    *)
(* on, what is running preserves the counts.                               *)
LEMMA CountKept ==
  ASSUME CountInv, UNCHANGED <<want, wantedEdges, commandEdges, failed>>,
         running' \subseteq running,
         Building' => UNCHANGED <<running, pendingCommands>>,
         Building,
         exitCode' \in {exitCode, "failure"},
         Building' <=> result'.status = "none"
  PROVE  CountInv'
<1>1. WantedEdgesCounted'
  BY Zenon DEF CountInv, WantedEdgesCounted, IsWanted
<1> QED BY <1>1, Zenon DEF CountInv

(* Build's result once it has returned.                                    *)
LEMMA ReturnResult ==
  ASSUME NEW status \in Statuses, NEW error, Return(status, error)
  PROVE  ~Building' /\ result'.status # "none"
BY Zenon DEF Return, Building, Statuses

(* Every step keeps the counts exact.                                      *)
LEMMA NextCount ==
  TypeOK /\ PlacementInv /\ CountInv /\ [Next]_vars => CountInv'
<1> SUFFICES ASSUME TypeOK, PlacementInv, CountInv, [Next]_vars PROVE CountInv'
  OBVIOUS
<1>0. /\ running \subseteq Edges /\ failed \subseteq Edges
      /\ ready \in [Edges -> Nat] /\ starts \in [Edges -> Nat]
      /\ pendingCommands \in Int
      /\ exitCode \in Statuses
      /\ {"success", "failure", "interrupted"} \subseteq Statuses
  BY TypeFacts, Zenon DEF Statuses
<1>1. CASE PrepareQueue
  <2> DEFINE direct == {e \in Edges : /\ want[e] = "toStart"
                                      /\ AllInputsReady(e, outputsReady)}
                       \ {e \in Edges : ShouldDelayEdge(e)}
  <2>1. /\ want' = [e \in Edges |-> IF e \in direct THEN "toFinish"
                                                    ELSE want[e]]
        /\ UNCHANGED <<wantedEdges, commandEdges>>
    BY <1>1, Zenon DEF PrepareQueue, ScheduleInitialEdges
  <2>2. \A e \in Edges : IsWanted(want', e) <=> IsWanted(want, e)
    BY <2>1, Zenon DEF IsWanted
  <2>3. Wanted' = Wanted /\ WantedCommands' = WantedCommands
    BY <2>2, Zenon DEF Wanted, WantedCommands
  <2>4. WantedEdgesCounted'
    BY <2>1, <2>3, Zenon DEF CountInv, WantedEdgesCounted, Wanted, WantedCommands
  <2>5. /\ UNCHANGED <<running, failed, pendingCommands, result, exitCode>>
        /\ Building /\ Building'
    BY <1>1, Zenon DEF PrepareQueue, Building
  <2> QED BY <2>4, <2>5, Zenon DEF CountInv
<1>2. CASE LoopHead
  <2>1. /\ UNCHANGED <<want, wantedEdges, commandEdges, failed, running,
                       pendingCommands, result, exitCode>>
        /\ Building /\ Building'
    BY <1>2, Zenon DEF LoopHead, planVars, Building
  <2> QED BY <2>1, CountKept, Zenon DEF CountInv
<1>3. CASE LoopExit
  <2>1. /\ UNCHANGED <<want, wantedEdges, commandEdges, failed, running, exitCode>>
        /\ Building /\ Return("success", "nil")
    BY <1>3, Zenon DEF LoopExit, planVars, Building
  <2> QED BY <1>0, <2>1, ReturnResult, CountKept, Zenon
<1>4. CASE StopStarting
  <2>1. UNCHANGED <<want, wantedEdges, commandEdges>>
    BY <1>4, Zenon DEF StopStarting, planVars, FindNoToken
  <2>2. /\ UNCHANGED <<failed, running, pendingCommands, exitCode>>
        /\ Building
        /\ Return("success", "nil") \/ (pc' = "reap" /\ UNCHANGED result)
    BY <1>4, Zenon DEF StopStarting, Building
  <2>3. Building' <=> result'.status = "none"
    BY <1>0, <2>2, ReturnResult, Zenon DEF CountInv, Building
  <2> QED BY <2>1, <2>2, <2>3, CountKept, Zenon
<1>5. CASE RecordCommand
  <2>1. /\ UNCHANGED <<want, wantedEdges, commandEdges, failed, running,
                       pendingCommands, result, exitCode>>
        /\ Building /\ Building'
    BY <1>5, Zenon DEF RecordCommand, planVars, Building
  <2> QED BY <2>1, CountKept, Zenon DEF CountInv
<1>6. CASE NoProgress
  <2>1. /\ UNCHANGED <<want, wantedEdges, commandEdges, failed, running, exitCode>>
        /\ Building /\ \E error \in Errors : Return(exitCode, error)
    BY <1>6, Zenon DEF NoProgress, planVars, Building, Errors
  <2> QED BY <1>0, <2>1, ReturnResult, CountKept, Zenon
<1>7. ASSUME NEW e \in Edges, NEW s \in SlotsFor(e), StartEdge(e, s)
      PROVE  CountInv'
  <2>1. /\ ready[e] > 0 /\ e \notin Phony /\ pc = "start"
        /\ running' = running \cup {e}
        /\ pendingCommands' = pendingCommands + 1
        /\ UNCHANGED <<want, wantedEdges, commandEdges, failed, result, pc,
                       exitCode>>
    BY <1>7, Zenon DEF StartEdge, FindWork, IsTop
  <2>2. e \notin running
    BY <2>1, QueuedFacts, Zenon
  <2>3. Cardinality(running') = Cardinality(running) + 1
    BY <1>0, <2>1, <2>2, CardinalityOfEdges, FS_AddElement, Zenon
  <2>4. WantedEdgesCounted'
    BY <2>1, Zenon DEF CountInv, WantedEdgesCounted, IsWanted
  <2> QED BY <2>1, <2>3, <2>4, Zenon DEF CountInv, Building
<1>8. ASSUME NEW e \in Edges, NEW s \in SlotsFor(e), StartPhony(e, s)
      PROVE  CountInv'
  <2>1. PICK c \in {AfterAcquire(s), Client} :
          /\ FindWork(e, s, c)
          /\ EdgeSucceeded(e, {}, Popped(e), [jobSlot EXCEPT ![e] = s], c)
    BY <1>8, Zenon DEF StartPhony
  <2>2. /\ ready[e] > 0
        /\ UNCHANGED <<pc, running, failed, pendingCommands, result, exitCode>>
    BY <1>8, <2>1, Zenon DEF FindWork, IsTop, StartPhony, loopVars
  <2>3. IsWanted(want, e) /\ AllInputsReady(e, outputsReady)
    BY <2>2, QueuedFacts, Zenon
  <2>4. WantedEdgesCounted /\ {} \in SUBSET Edges
    BY Zenon DEF CountInv
  <2>5. WantedEdgesCounted'
    BY <2>1, <2>3, <2>4, EdgeSucceededWanted, Zenon
  <2> QED BY <2>2, <2>5, Zenon DEF CountInv, Building
<1>9. ASSUME NEW e \in Edges, FinishCommand(e)
      PROVE  CountInv'
  <2>1. PICK K \in SUBSET Outs[e], C \in SUBSET Edges :
          /\ CleanNode(K, C)
          /\ EdgeSucceeded(e, C, ready, jobSlot, Client)
    BY <1>9, Zenon DEF FinishCommand
  <2>2. /\ e \in running /\ Building /\ Building'
        /\ running' = running \ {e}
        /\ pendingCommands' = pendingCommands - 1
        /\ UNCHANGED <<failed, result, exitCode>>
    BY <1>9, Zenon DEF FinishCommand, Building
  <2>3. IsWanted(want, e) /\ AllInputsReady(e, outputsReady)
    BY <2>2, RunningFacts, Zenon
  <2>4. \A f \in C : /\ IsWanted(want, f)
                     /\ \E p \in C \cup {e} : Feeds(p, f)
    BY <2>1, CleanNodeFacts, Zenon
  <2>5. WantedEdgesCounted'
    BY <2>1, <2>3, <2>4, EdgeSucceededWanted, Zenon DEF CountInv
  <2>6. Cardinality(running') = Cardinality(running) - 1
    BY <1>0, <2>2, CardinalityOfEdges, FS_RemoveElement, Zenon
  <2> QED BY <2>2, <2>5, <2>6, Zenon DEF CountInv
<1>10. ASSUME NEW e \in Edges, FinishFailed(e)
       PROVE  CountInv'
  <2>1. /\ e \in running /\ Building /\ Building'
        /\ running' = running \ {e}
        /\ failed' = failed \cup {e}
        /\ pendingCommands' = pendingCommands - 1
        /\ exitCode' = "failure"
        /\ UNCHANGED <<want, wantedEdges, commandEdges, result>>
    BY <1>10, Zenon DEF FinishFailed, EdgeFailed, Building
  <2>2. Cardinality(running') = Cardinality(running) - 1
    BY <1>0, <2>1, CardinalityOfEdges, FS_RemoveElement, Zenon
  <2>3. WantedEdgesCounted'
    BY <2>1, Zenon DEF CountInv, WantedEdgesCounted, IsWanted
  <2> QED BY <2>1, <2>2, <2>3, Zenon DEF CountInv
<1>11. ASSUME NEW e \in Edges, NEW s \in SlotsFor(e), StartFails(e, s)
       PROVE  CountInv'
  <2>1. /\ UNCHANGED <<want, wantedEdges, commandEdges, failed>>
        /\ exitCode' \in {exitCode, "failure"}
        /\ running' = {} /\ Building /\ Return("failure", "start")
    BY <1>11, Zenon DEF StartFails, Abort, Building
  <2> QED BY <1>0, <2>1, ReturnResult, CountKept, Zenon
<1>12. ASSUME NEW e \in Edges, StatFails(e)
       PROVE  CountInv'
  <2>1. PICK K \in SUBSET Outs[e], C \in SUBSET Edges :
          /\ CleanNode(K, C)
          /\ want' = WantAfterClean(C)
          /\ wantedEdges' = wantedEdges - Cardinality(C)
          /\ commandEdges' = commandEdges - Cardinality(C \ Phony)
    BY <1>12, Zenon DEF StatFails
  <2>2. /\ UNCHANGED failed /\ exitCode' = "failure"
        /\ running' = {} /\ Return("failure", "finish")
    BY <1>12, Zenon DEF StatFails, Abort
  <2>3. C \in SUBSET Wanted
    BY <2>1, CleanNodeFacts, Zenon DEF Wanted
  <2>4. WantedEdgesCounted'
    BY <2>1, <2>3, UnwantedCount, Zenon DEF CountInv
  <2> QED BY <1>0, <2>2, <2>4, ReturnResult, Zenon DEF CountInv
<1>13. CASE RecordFails
  <2>1. /\ UNCHANGED <<want, wantedEdges, commandEdges, failed>>
        /\ exitCode' \in {exitCode, "failure"}
        /\ running' = {} /\ Building /\ Return("failure", "finish")
    BY <1>13, Zenon DEF RecordFails, planVars, Abort, Building
  <2> QED BY <1>0, <2>1, ReturnResult, CountKept, Zenon
<1>14. CASE Interrupted
  <2>1. /\ UNCHANGED <<want, wantedEdges, commandEdges, failed>>
        /\ exitCode' \in {exitCode, "failure"}
        /\ running' = {} /\ Building /\ Return("interrupted", "interrupted")
    BY <1>14, Zenon DEF Interrupted, planVars, Abort, Building
  <2> QED BY <1>0, <2>1, ReturnResult, CountKept, Zenon
<1>15. CASE OtherClient
  <2>1. UNCHANGED <<planVars, loopVars>>
    BY <1>15, Zenon DEF OtherClient
  <2>2. WantedEdgesCounted'
    BY <2>1, Zenon DEF planVars, CountInv, WantedEdgesCounted, IsWanted
  <2> QED BY <2>1, <2>2, Zenon DEF loopVars, CountInv, Building
<1>16. CASE UNCHANGED vars
  <2>1. WantedEdgesCounted'
    BY <1>16, Zenon DEF vars, planVars, CountInv, WantedEdgesCounted, IsWanted
  <2> QED BY <1>16, <2>1, Zenon DEF vars, loopVars, CountInv, Building
<1> QED
  BY <1>1, <1>2, <1>3, <1>4, <1>5, <1>6, <1>7, <1>8, <1>9, <1>10, <1>11, <1>12,
     <1>13, <1>14, <1>15, <1>16, Zenon
  DEF Next, BuildStep, FaultStep, Returned

(* The counts are exact throughout every build.                            *)
LEMMA CountCorrect == Spec => [](TypeOK /\ PlacementInv /\ CountInv)
BY InitType, NextType, InitPlacement, NextPlacement, InitCount, NextCount, PTL
   DEF Spec

(* Plan.wantedEdges is exact, and commandEdges never too small, for every  *)
(* graph: the condition of Build's loop means what MoreToDo says.          *)
THEOREM MoreToDoIsExact == Spec => []WantedEdgesCounted
<1>1. CountInv => WantedEdgesCounted
  BY Zenon DEF CountInv
<1> QED BY <1>1, CountCorrect, PTL

(* Every running command is wanted and pendingCommands counts them, for    *)
(* every graph: WaitForCommand is called only when there is one.           *)
THEOREM PendingIsExact == Spec => []RunningIsWanted
<1>1. TypeOK /\ PlacementInv /\ CountInv => RunningIsWanted
  BY TypeFacts, Zenon DEF PlacementInv, CountInv, RunningIsWanted, Placed
<1> QED BY <1>1, CountCorrect, PTL

-----------------------------------------------------------------------------
(* Builder implements BuildOrder.                                          *)

(* An initial state is one of BuildOrder.                                  *)
LEMMA InitOrder == Init => Order!Init
<1> SUFFICES ASSUME Init PROVE Order!Init
  OBVIOUS
<1>1. outputsReady \in SUBSET Edges
  BY Zenon DEF Init, PlanInit
<1>2. /\ running = {} /\ failed = {} /\ starts = [e \in Edges |-> 0]
      /\ result.status = "none"
  BY Zenon DEF Init, NoResult
<1> QED BY <1>1, <1>2 DEF Order!Init

(* The end of a build is a Stop of BuildOrder.                             *)
LEMMA StopOrder ==
  ASSUME CountInv, Building, NEW status \in Statuses, NEW error,
         Return(status, error),
         status = "success" => running = {} /\ failed = {},
         running' = {}, UNCHANGED <<outputsReady, starts, failed>>
  PROVE  Order!Next
<1>1. result.status = "none" /\ result'.status = status
  BY Zenon DEF CountInv, Return
<1>2. Order!Stop(status)
  BY <1>1, Zenon DEF Order!Stop
<1> QED BY <1>2, Zenon DEF Order!Next, Statuses

(* An edge that succeeds, with the edges that become up to date with it,   *)
(* is a Complete of BuildOrder.                                            *)
LEMMA CompleteOrder ==
  ASSUME TypeOK, PlacementInv, CountInv, Building,
         NEW e \in Edges, NEW F \in SUBSET Edges,
         outputsReady' = outputsReady \cup F,
         e \in F, F \cap outputsReady = {},
         \A f \in F : /\ AllInputsReady(f, outputsReady')
                      /\ f # e => ~Placed(f),
         \/ starts[e] = 0 /\ running' = running
         \/ starts[e] > 0 /\ e \in running /\ running' = running \ {e},
         UNCHANGED <<starts, failed, result>>
  PROVE  Order!Next
<1> DEFINE ran == {f \in Edges : starts[f] > 0}
           a == IF starts[e] > 0 THEN {e} ELSE {}
<1>0. starts \in [Edges -> Nat]
  BY TypeFacts, Zenon
<1>1. result.status = "none"
  BY Zenon DEF CountInv
<1>2. \A f \in F : f # e => starts[f] = 0
  <2>1. \A f \in Edges : starts[f] > 0 => Placed(f) \/ f \in outputsReady
    BY Zenon DEF PlacementInv, Placed
  <2>2. \A f \in F : f \in Edges /\ f \notin outputsReady
    OBVIOUS
  <2> QED BY <1>0, <2>1, <2>2
<1>3. F \cap ran = a
  BY <1>0, <1>2
<1>4. a \subseteq running /\ running' = running \ a
  BY <1>0
<1>5. \A f \in F : [g \in Edges |-> {p \in Edges : Feeds(p, g)}][f]
                     \subseteq outputsReady \cup F
  BY Zenon DEF AllInputsReady
<1>6. Order!Complete(a, F)
  BY <1>1, <1>3, <1>4, <1>5, Zenon DEF Order!Complete
<1>7. a \in {{}} \cup {{f} : f \in F}
  OBVIOUS
<1> QED BY <1>6, <1>7, Zenon DEF Order!Next

(* Every step is a step of BuildOrder, or none.                            *)
LEMMA NextOrder ==
  TypeOK /\ PlacementInv /\ CountInv /\ [Next]_vars
    => [Order!Next]_(Order!vars)
<1> SUFFICES ASSUME TypeOK, PlacementInv, CountInv, [Next]_vars
             PROVE  Order!Next \/ UNCHANGED Order!vars
  OBVIOUS
<1>0. /\ running \subseteq Edges /\ failed \subseteq Edges
      /\ ready \in [Edges -> Nat] /\ starts \in [Edges -> Nat]
      /\ exitCode \in Statuses
      /\ {"success", "failure", "interrupted"} \subseteq Statuses
  BY TypeFacts, Zenon DEF Statuses
<1>1. ASSUME UNCHANGED <<outputsReady, starts, running, failed, result>>
      PROVE  UNCHANGED Order!vars
  BY <1>1, Zenon DEF Order!vars
<1>2. CASE PrepareQueue \/ LoopHead \/ RecordCommand \/ OtherClient
  <2>1. UNCHANGED <<outputsReady, starts, running, failed, result>>
    BY <1>2, Zenon DEF PrepareQueue, ScheduleInitialEdges, LoopHead, RecordCommand,
                OtherClient, planVars, loopVars
  <2> QED BY <1>1, <2>1, Zenon
<1>3. CASE LoopExit
  <2>1. /\ ~MoreToDo /\ Building /\ Return("success", "nil")
        /\ UNCHANGED <<outputsReady, starts, running, failed>>
    BY <1>3, Zenon DEF LoopExit, planVars, Building
  <2> QED BY <1>0, <2>1, NothingLeft, StopOrder, Zenon
<1>4. CASE StopStarting
  <2>1. UNCHANGED outputsReady
    BY <1>4, Zenon DEF StopStarting, planVars, FindNoToken
  <2>2. /\ Building /\ UNCHANGED <<starts, running, failed>>
        /\ \/ ~MoreToDo /\ Return("success", "nil")
           \/ UNCHANGED result
    BY <1>4, Zenon DEF StopStarting, Building
  <2>3. CASE ~MoreToDo /\ Return("success", "nil")
    BY <1>0, <2>1, <2>2, <2>3, NothingLeft, StopOrder, Zenon
  <2> QED BY <1>1, <2>1, <2>2, <2>3, Zenon
<1>5. CASE NoProgress
  <2>1. /\ pendingCommands = 0 /\ Building
        /\ \E error \in Errors : Return(exitCode, error)
        /\ UNCHANGED <<outputsReady, starts, running, failed>>
    BY <1>5, Zenon DEF NoProgress, planVars, Building, Errors
  <2>2. running = {}
    BY <1>0, <2>1, CardinalityOfEdges, FS_EmptySet, Zenon DEF CountInv
  <2>3. exitCode = "success" => failed = {}
    BY Zenon DEF CountInv
  <2> QED BY <1>0, <2>1, <2>2, <2>3, StopOrder, Zenon
<1>6. ASSUME NEW e \in Edges, NEW s \in SlotsFor(e), StartEdge(e, s)
      PROVE  Order!Next
  <2>1. /\ ready[e] > 0 /\ Building
        /\ running' = running \cup {e}
        /\ starts' = [starts EXCEPT ![e] = @ + 1]
        /\ UNCHANGED <<outputsReady, failed, result>>
    BY <1>6, Zenon DEF StartEdge, FindWork, IsTop, Building
  <2>2. /\ starts[e] = 0 /\ e \notin outputsReady
        /\ AllInputsReady(e, outputsReady)
    BY <2>1, QueuedFacts, Zenon
  <2>3. {f \in Edges : starts'[f] > 0} = {f \in Edges : starts[f] > 0} \cup {e}
    BY <1>0, <2>1
  <2>4. result.status = "none"
    BY <2>1, Zenon DEF CountInv
  <2>5. [g \in Edges |-> {p \in Edges : Feeds(p, g)}][e] \subseteq outputsReady
    BY <2>2, Zenon DEF AllInputsReady
  <2>6. Order!Run(e)
    BY <2>1, <2>2, <2>3, <2>4, <2>5, SMTT(20) DEF Order!Run
  <2> QED BY <2>6, SMTT(20) DEF Order!Next
<1>7. ASSUME NEW e \in Edges, NEW s \in SlotsFor(e), StartPhony(e, s)
      PROVE  Order!Next
  <2>1. PICK c \in {AfterAcquire(s), Client} :
          /\ FindWork(e, s, c)
          /\ EdgeSucceeded(e, {}, Popped(e), [jobSlot EXCEPT ![e] = s], c)
    BY <1>7, Zenon DEF StartPhony
  <2>2. /\ ready[e] > 0 /\ Building
        /\ UNCHANGED <<running, starts, failed, result>>
    BY <1>7, StartPhonyFacts, Zenon
  <2>3. /\ ready[e] = 1 /\ starts[e] = 0 /\ e \notin delayed
        /\ IsWanted(want, e) /\ AllInputsReady(e, outputsReady)
    BY <2>2, QueuedFacts, Zenon
  <2>4. /\ Popped(e) \in [Edges -> Nat]
        /\ Popped(e)[e] = 0
        /\ \A f \in Edges : Popped(e)[f] <= ready[f]
        /\ {} \in SUBSET Edges
    BY <1>0, <2>3 DEF Popped
  <2>5. PICK F \in SUBSET Edges :
          /\ outputsReady' = outputsReady \cup F
          /\ e \in F
          /\ F \cap outputsReady = {}
          /\ \A f \in F : /\ AllInputsReady(f, outputsReady')
                          /\ f # e => ~Placed(f)
    BY <2>1, <2>2, <2>3, <2>4, EdgeSucceededPlacement, Zenon
  <2>6. \/ starts[e] = 0 /\ running' = running
        \/ starts[e] > 0 /\ e \in running /\ running' = running \ {e}
    BY <2>2, <2>3, Zenon
  <2> QED BY <2>2, <2>5, <2>6, CompleteOrder, Zenon
<1>8. ASSUME NEW e \in Edges, FinishCommand(e)
      PROVE  Order!Next
  <2>1. PICK K \in SUBSET Outs[e], C \in SUBSET Edges :
          /\ CleanNode(K, C)
          /\ EdgeSucceeded(e, C, ready, jobSlot, Client)
    BY <1>8, Zenon DEF FinishCommand
  <2>2. /\ e \in running /\ Building
        /\ running' = running \ {e}
        /\ UNCHANGED <<starts, failed, result>>
    BY <1>8, Zenon DEF FinishCommand, Building
  <2>3. /\ starts[e] > 0 /\ ready[e] = 0 /\ e \notin delayed
        /\ IsWanted(want, e) /\ AllInputsReady(e, outputsReady)
        /\ \A f \in Edges : ready[f] <= ready[f]
    <3>1. \A f \in Edges : ready[f] <= ready[f]
      BY <1>0
    <3> QED BY <2>2, <3>1, RunningFacts, Zenon
  <2>4. \A f \in C : /\ IsWanted(want, f)
                     /\ \E p \in C \cup {e} : Feeds(p, f)
    BY <2>1, CleanNodeFacts, Zenon
  <2>5. PICK F \in SUBSET Edges :
          /\ outputsReady' = outputsReady \cup F
          /\ e \in F
          /\ F \cap outputsReady = {}
          /\ \A f \in F : /\ AllInputsReady(f, outputsReady')
                          /\ f # e => ~Placed(f)
    BY <1>0, <2>1, <2>2, <2>3, <2>4, EdgeSucceededPlacement, Zenon
  <2>6. \/ starts[e] = 0 /\ running' = running
        \/ starts[e] > 0 /\ e \in running /\ running' = running \ {e}
    BY <2>2, <2>3, Zenon
  <2> QED BY <2>2, <2>5, <2>6, CompleteOrder, Zenon
<1>9. ASSUME NEW e \in Edges, FinishFailed(e)
      PROVE  Order!Next
  <2>1. /\ e \in running /\ Building
        /\ running' = running \ {e}
        /\ failed' = failed \cup {e}
        /\ UNCHANGED <<outputsReady, starts, result>>
    BY <1>9, Zenon DEF FinishFailed, EdgeFailed, Building
  <2>2. result.status = "none"
    BY <2>1, Zenon DEF CountInv
  <2>3. Order!Break(e)
    BY <2>1, <2>2, Zenon DEF Order!Break
  <2> QED BY <2>3, Zenon DEF Order!Next
<1>10. ASSUME NEW e \in Edges, NEW s \in SlotsFor(e), StartFails(e, s)
       PROVE  Order!Next
  <2>1. /\ UNCHANGED <<outputsReady, starts, failed>>
        /\ running' = {} /\ Building /\ Return("failure", "start")
    BY <1>10, Zenon DEF StartFails, Abort, Building
  <2> QED BY <1>0, <2>1, StopOrder, Zenon
<1>11. ASSUME NEW e \in Edges, StatFails(e)
       PROVE  Order!Next
  <2>1. /\ UNCHANGED <<outputsReady, starts, failed>>
        /\ running' = {} /\ Building /\ Return("failure", "finish")
    BY <1>11, Zenon DEF StatFails, Abort, Building
  <2> QED BY <1>0, <2>1, StopOrder, Zenon
<1>12. CASE RecordFails
  <2>1. /\ UNCHANGED <<outputsReady, starts, failed>>
        /\ running' = {} /\ Building /\ Return("failure", "finish")
    BY <1>12, Zenon DEF RecordFails, planVars, Abort, Building
  <2> QED BY <1>0, <2>1, StopOrder, Zenon
<1>13. CASE Interrupted
  <2>1. /\ UNCHANGED <<outputsReady, starts, failed>>
        /\ running' = {} /\ Building /\ Return("interrupted", "interrupted")
    BY <1>13, Zenon DEF Interrupted, planVars, Abort, Building
  <2> QED BY <1>0, <2>1, StopOrder, Zenon
<1>14. CASE UNCHANGED vars
  <2>1. UNCHANGED <<outputsReady, starts, running, failed, result>>
    BY <1>14, Zenon DEF vars, planVars, loopVars
  <2> QED BY <1>1, <2>1, Zenon
<1> QED
  BY <1>2, <1>3, <1>4, <1>5, <1>6, <1>7, <1>8, <1>9, <1>10, <1>11, <1>12,
     <1>13, <1>14, Zenon
  DEF Next, BuildStep, FaultStep, Returned

(* Build runs and finishes edges in the order of BuildOrder, for every     *)
(* graph, whatever fails, is cleaned by restat or is interrupted.          *)
THEOREM BuilderImplementsOrder == Spec => ImplementsBuildOrder
<1>1. Spec => Order!Spec
  BY InitOrder, NextOrder, CountCorrect, PTL DEF Spec, Order!Spec
<1> QED BY <1>1, Zenon DEF ImplementsBuildOrder

----------------------------------------------------------------------------
(* Only edges of limited pools are delayed.                                *)
PoolInv ==
  /\ PoolsRespected
  /\ DelayedOnlyWhenFull
  /\ Building => \A e \in delayed : ShouldDelayEdge(e)

(* The edges of p that hold a place, given the ready queue and the running *)
(* commands.                                                               *)
Holding(p, rdy, R) == {e \in InPool(p) : rdy[e] > 0 \/ e \in R}

(* What holds when a step hands edges to the pools: use counts the places  *)
(* held, the edges that are or become delayed (old and new) hold none, and *)
(* one that waits in a pool the step does not touch waits for a full pool. *)
BeforeSchedule(rdy, use, touched, old, new, direct, R) ==
  /\ rdy \in [Edges -> Nat] /\ use \in [Pools -> Int]
  /\ old \in SUBSET Edges /\ new \in SUBSET Edges
  /\ direct \in SUBSET Edges /\ R \in SUBSET Edges
  /\ \A e \in old \cup new : ShouldDelayEdge(e) /\ rdy[e] = 0 /\ e \notin R
  /\ \A e \in direct : ~ShouldDelayEdge(e)
  /\ \A p \in Pools : Depth[p] # 0 =>
       /\ use[p] = Cardinality(Holding(p, rdy, R))
       /\ use[p] <= Depth[p]
  /\ \A e \in old \cup new :
       touched \cap InPool(PoolOf[e]) = {} => use[PoolOf[e]] >= Depth[PoolOf[e]]

(* Pool.RetrieveReadyEdges and what precedes it keep the pools exact.      *)
LEMMA SchedulePools ==
  ASSUME NEW rdy, NEW use, NEW touched, NEW old, NEW new, NEW direct, NEW R,
         Schedule(rdy, use, touched, old, new, direct),
         BeforeSchedule(rdy, use, touched, old, new, direct, R)
  PROVE  /\ \A p \in Pools : Depth[p] # 0 =>
              /\ currentUse'[p] = Cardinality(Holding(p, ready', R))
              /\ currentUse'[p] <= Depth[p]
         /\ \A e \in delayed' : /\ ShouldDelayEdge(e)
                                /\ currentUse'[PoolOf[e]] >= Depth[PoolOf[e]]
<1> USE DEF BeforeSchedule
<1>1. PICK T \in SUBSET (old \cup new) :
        /\ \A p \in Pools :
             IF touched \cap InPool(p) = {}
             THEN T \cap InPool(p) = {}
             ELSE RetrieveReadyEdges(Depth[p] - use[p], old \cap InPool(p),
                                     new \cap InPool(p), T \cap InPool(p))
        /\ delayed' = (old \cup new) \ T
        /\ currentUse' = [p \in Pools |-> use[p] + Cardinality(T \cap InPool(p))]
        /\ ready' = [e \in Edges |-> IF e \in T \cup direct THEN rdy[e] + 1
                                                            ELSE rdy[e]]
  BY Zenon DEF Schedule
<1>2. \A p \in Pools :
        /\ IsFiniteSet(T \cap InPool(p)) /\ Cardinality(T \cap InPool(p)) \in Nat
        /\ Cardinality({}) = 0
        /\ Depth[p] \in Nat /\ use[p] \in Int
  BY CardinalityOfEdges, FS_EmptySet, PlanAssumption, Zenon DEF InPool
<1>3. ASSUME NEW p \in Pools, Depth[p] # 0
      PROVE  /\ currentUse'[p] = Cardinality(Holding(p, ready', R))
             /\ currentUse'[p] <= Depth[p]
  <2>0. /\ Cardinality(T \cap InPool(p)) \in Nat /\ Cardinality({}) = 0
        /\ Depth[p] \in Nat /\ use[p] \in Int
    BY <1>2, Zenon
  <2>1. \A e \in InPool(p) : e \in Edges /\ ShouldDelayEdge(e)
    BY <1>3, Zenon DEF InPool, ShouldDelayEdge
  <2>2. \A e \in InPool(p) : e \notin direct
    BY <2>1, Zenon
  <2>3. \A e \in InPool(p) :
          ready'[e] > 0 <=> rdy[e] > 0 \/ e \in T
    BY <1>1, <2>1, <2>2
  <2>4. Holding(p, ready', R) = Holding(p, rdy, R) \cup (T \cap InPool(p))
    BY <2>3, Zenon DEF Holding
  <2>5. Holding(p, rdy, R) \cap (T \cap InPool(p)) = {}
    BY DEF Holding
  <2>6. IsFiniteSet(Holding(p, rdy, R)) /\ Cardinality(Holding(p, rdy, R)) \in Nat
    <3>1. Holding(p, rdy, R) \in SUBSET Edges
      BY Zenon DEF Holding, InPool
    <3> QED BY <3>1, CardinalityOfEdges, Zenon
  <2>7. Cardinality(Holding(p, ready', R))
          = Cardinality(Holding(p, rdy, R)) + Cardinality(T \cap InPool(p)) - 0
    BY <1>2, <2>4, <2>5, <2>6, FS_Union
  <2>8. currentUse'[p] = use[p] + Cardinality(T \cap InPool(p))
    BY <1>1, Zenon
  <2>9. T \cap InPool(p) = {} \/ Cardinality(T \cap InPool(p)) <= Depth[p] - use[p]
    BY <1>1, Zenon DEF RetrieveReadyEdges
  <2>10. use[p] = Cardinality(Holding(p, rdy, R)) /\ use[p] <= Depth[p]
    BY <1>3, Zenon
  <2>11. currentUse'[p] = Cardinality(Holding(p, ready', R))
    BY <2>0, <2>6, <2>7, <2>8, <2>10
  <2>12. currentUse'[p] <= Depth[p]
    <3>1. CASE T \cap InPool(p) = {}
      <4>1. Cardinality(T \cap InPool(p)) = 0
        BY <2>0, <3>1, Zenon
      <4> QED BY <2>0, <2>8, <2>10, <4>1
    <3>2. CASE Cardinality(T \cap InPool(p)) <= Depth[p] - use[p]
      BY <2>0, <2>8, <3>2
    <3> QED BY <2>9, <3>1, <3>2, Zenon
  <2> QED BY <2>11, <2>12, Zenon
<1>4. ASSUME NEW e \in delayed'
      PROVE  /\ ShouldDelayEdge(e)
             /\ currentUse'[PoolOf[e]] >= Depth[PoolOf[e]]
  <2> DEFINE p == PoolOf[e]
  <2>1. e \in (old \cup new) \ T /\ e \in Edges
    BY <1>1, <1>4, Zenon
  <2>2. p \in Pools /\ e \in InPool(p)
    BY <2>1, PlanAssumption, Zenon DEF InPool
  <2>3. /\ currentUse'[p] = use[p] + Cardinality(T \cap InPool(p))
        /\ Cardinality(T \cap InPool(p)) \in Nat
        /\ Depth[p] \in Nat /\ use[p] \in Int
    BY <1>1, <1>2, <2>2, Zenon
  <2> HIDE DEF p
  <2>4. CASE touched \cap InPool(p) = {}
    <3>1. use[p] >= Depth[p]
      BY <2>1, <2>4, Zenon DEF p
    <3>2. currentUse'[p] >= Depth[p]
      BY <2>3, <3>1
    <3> QED BY <2>1, <3>2, Zenon DEF p
  <2>5. CASE touched \cap InPool(p) # {}
    <3>1. RetrieveReadyEdges(Depth[p] - use[p], old \cap InPool(p),
                             new \cap InPool(p), T \cap InPool(p))
      BY <1>1, <2>2, <2>5, Zenon
    <3>2. T \cap InPool(p) # (old \cap InPool(p)) \cup (new \cap InPool(p))
      BY <2>1, <2>2, Zenon
    <3>3. Cardinality(T \cap InPool(p)) >= Depth[p] - use[p]
      BY <3>1, <3>2, Zenon DEF RetrieveReadyEdges
    <3>4. currentUse'[p] >= Depth[p]
      BY <2>3, <3>3
    <3> QED BY <2>1, <3>4, Zenon DEF p
  <2> QED BY <2>4, <2>5, Zenon
<1> QED BY <1>3, <1>4, Zenon

(* The use of the pools stays a number for each pool.                      *)
LEMMA UseAfterType ==
  ASSUME currentUse \in [Pools -> Int], NEW e, NEW w
  PROVE  UseAfter(e, w) \in [Pools -> Int]
BY DEF UseAfter

(* The places once edge e, which holds one, has given it back.             *)
LEMMA PlaceGivenBack ==
  ASSUME TypeOK, PoolInv, Building, NEW e \in Edges, NEW w, IsWanted(w, e),
         NEW rdy, NEW R, ready[e] > 0 \/ e \in running,
         \A f \in Edges : (rdy[f] > 0 \/ f \in R)
                            <=> f # e /\ (ready[f] > 0 \/ f \in running),
         NEW p \in Pools, Depth[p] # 0
  PROVE  /\ UseAfter(e, w)[p] = Cardinality(Holding(p, rdy, R))
         /\ UseAfter(e, w)[p] <= Depth[p]
<1>1. Holding(p, rdy, R) = Occupying(p) \ {e}
  BY Zenon DEF Holding, Occupying, InPool
<1>2. /\ currentUse[p] = Cardinality(Occupying(p))
      /\ currentUse[p] <= Depth[p]
  BY Zenon DEF PoolInv, PoolsRespected
<1>3. IsFiniteSet(Occupying(p)) /\ Cardinality(Occupying(p)) \in Nat
  <2>1. Occupying(p) \in SUBSET Edges
    BY Zenon DEF Occupying, InPool
  <2> QED BY <2>1, CardinalityOfEdges, Zenon
<1>4. Depth[p] \in Nat
  BY PlanAssumption, Zenon
<1>5. CASE PoolOf[e] = p
  <2>1. e \in Occupying(p)
    BY <1>5, Zenon DEF Occupying, InPool
  <2>2. Cardinality(Occupying(p) \ {e}) = Cardinality(Occupying(p)) - 1
    BY <1>3, <2>1, FS_RemoveElement, Zenon
  <2>3. UseAfter(e, w)[p] = currentUse[p] - 1
    BY <1>5, Zenon DEF UseAfter
  <2> QED BY <1>1, <1>2, <1>3, <1>4, <2>2, <2>3
<1>6. CASE PoolOf[e] # p
  <2>1. Occupying(p) \ {e} = Occupying(p)
    BY <1>6, Zenon DEF Occupying, InPool
  <2>2. UseAfter(e, w)[p] = currentUse[p]
    BY <1>6, Zenon DEF UseAfter
  <2> QED BY <1>1, <1>2, <2>1, <2>2, Zenon
<1> QED BY <1>5, <1>6, Zenon

(* What SchedulePools concludes is the invariant of the next state.        *)
LEMMA PoolsAfter ==
  ASSUME \A p \in Pools : Depth[p] # 0 =>
           /\ currentUse'[p] = Cardinality(Holding(p, ready', running'))
           /\ currentUse'[p] <= Depth[p],
         \A e \in delayed' : /\ ShouldDelayEdge(e)
                             /\ currentUse'[PoolOf[e]] >= Depth[PoolOf[e]]
  PROVE  PoolInv'
<1>1. \A p \in Pools : Occupying(p)' = Holding(p, ready', running')
  BY Zenon DEF Occupying, Holding, InPool
<1>2. PoolsRespected'
  BY <1>1, Zenon DEF PoolsRespected
<1>3. DelayedOnlyWhenFull'
  BY Zenon DEF DelayedOnlyWhenFull
<1>4. \A e \in delayed' : ShouldDelayEdge(e)'
  BY Zenon DEF ShouldDelayEdge
<1> QED BY <1>2, <1>3, <1>4, Zenon DEF PoolInv

(* An edge that succeeds gives back its place, and everything it wakes     *)
(* takes one or waits in a full pool.                                      *)
LEMMA EdgeSucceededPools ==
  ASSUME TypeOK, PlacementInv, PoolInv, Building,
         NEW e \in Edges, NEW C \in SUBSET Edges,
         NEW rdy \in [Edges -> Nat], NEW slot, NEW c,
         EdgeSucceeded(e, C, rdy, slot, c),
         IsWanted(want, e), AllInputsReady(e, outputsReady), e \notin delayed,
         \A f \in Edges : rdy[f] <= ready[f],
         \A f \in C : /\ IsWanted(want, f)
                      /\ \E p \in C \cup {e} : Feeds(p, f),
         running' \in SUBSET Edges, running' \subseteq running,
         ready[e] > 0 \/ e \in running,
         \A f \in Edges : (rdy[f] > 0 \/ f \in running')
                            <=> f # e /\ (ready[f] > 0 \/ f \in running)
  PROVE  PoolInv'
<1> DEFINE w == WantAfterClean(C)
           F == Finishing(e, w)
           woken == {f \in Edges : /\ w[f] = "toStart"
                                   /\ \E p \in F : Feeds(p, f)
                                   /\ AllInputsReady(f, outputsReady \cup F)}
           limited == {f \in woken : ShouldDelayEdge(f)}
<1>0. /\ ready \in [Edges -> Nat] /\ starts \in [Edges -> Nat]
      /\ running \subseteq Edges /\ delayed \in SUBSET Edges
      /\ currentUse \in [Pools -> Int]
  BY TypeFacts, SMTT(20)
<1>1. Schedule(rdy, UseAfter(e, w), F \cup limited, delayed, limited,
               woken \ limited)
  BY Zenon DEF EdgeSucceeded
<1>2. e \in F /\ \A f \in F : f = e \/ w[f] = "nothing"
  <2>1. w = [f \in Edges |-> IF f \in C THEN "nothing" ELSE want[f]]
    BY Zenon DEF WantAfterClean
  <2> QED BY <2>1, FinishingFacts, Zenon
<1>3. \A f \in Edges : w[f] # "none" => f \notin outputsReady
  BY Zenon DEF PlacementInv, WantAfterClean, IsWanted
<1>4. e \notin C
  BY DEF PlacementInv, IsWanted, AllInputsReady
<1>5. IsWanted(w, e)
  BY <1>4, Zenon DEF WantAfterClean, IsWanted
<1>6. \A f \in F \cap Edges : f \notin outputsReady
  BY <1>2, <1>3, <1>5, Zenon DEF IsWanted
<1>7. F \subseteq Edges
  BY Zenon DEF Finishing
<1>8. \A f \in woken : ~Placed(f)
  BY <1>6, <1>7, Zenon DEF PlacementInv, AllInputsReady
<1> HIDE DEF w, F
<1>9. \A f \in delayed \cup limited : /\ ShouldDelayEdge(f)
                                      /\ rdy[f] = 0
                                      /\ f \notin running'
  <2>1. \A f \in limited : /\ ShouldDelayEdge(f)
                           /\ ready[f] = 0
                           /\ f \notin running'
    BY <1>0, <1>8 DEF Placed
  <2>2. \A f \in delayed : /\ ready[f] = 0
                           /\ starts[f] = 0
    BY <1>0 DEF PlacementInv, StartedOnce
  <2>3. \A f \in delayed : /\ ShouldDelayEdge(f)
                           /\ f \notin running'
    BY <1>0, <2>2 DEF PlacementInv, PoolInv
  <2> QED BY <1>0, <2>1, <2>2, <2>3
<1>10. \A f \in woken \ limited : ~ShouldDelayEdge(f)
  OBVIOUS
<1>11. \A p \in Pools : Depth[p] # 0 =>
         /\ UseAfter(e, w)[p] = Cardinality(Holding(p, rdy, running'))
         /\ UseAfter(e, w)[p] <= Depth[p]
  BY <1>5, PlaceGivenBack, Zenon
<1>12. \A f \in delayed \cup limited :
         (F \cup limited) \cap InPool(PoolOf[f]) = {}
           => UseAfter(e, w)[PoolOf[f]] >= Depth[PoolOf[f]]
  <2> SUFFICES ASSUME NEW f \in delayed \cup limited,
                      (F \cup limited) \cap InPool(PoolOf[f]) = {}
               PROVE  UseAfter(e, w)[PoolOf[f]] >= Depth[PoolOf[f]]
    BY Zenon
  <2>1. f \in Edges /\ f \notin limited /\ PoolOf[e] # PoolOf[f]
    BY <1>0, <1>2, Zenon DEF InPool
  <2>2. f \in delayed /\ PoolOf[f] \in Pools
    BY <2>1, PlanAssumption, Zenon
  <2>3. UseAfter(e, w)[PoolOf[f]] = currentUse[PoolOf[f]]
    BY <2>1, <2>2, Zenon DEF UseAfter
  <2> QED BY <2>2, <2>3, Zenon DEF PoolInv, DelayedOnlyWhenFull
<1>13. UseAfter(e, w) \in [Pools -> Int]
  BY <1>0, UseAfterType, Zenon
<1>14. limited \in SUBSET Edges /\ woken \ limited \in SUBSET Edges
  BY Zenon
<1> HIDE DEF woken, limited
<1>15. BeforeSchedule(rdy, UseAfter(e, w), F \cup limited, delayed, limited,
                      woken \ limited, running')
  BY <1>0, <1>9, <1>10, <1>11, <1>12, <1>13, <1>14, Zenon DEF BeforeSchedule
<1>16. /\ \A p \in Pools : Depth[p] # 0 =>
            /\ currentUse'[p] = Cardinality(Holding(p, ready', running'))
            /\ currentUse'[p] <= Depth[p]
       /\ \A f \in delayed' : /\ ShouldDelayEdge(f)
                              /\ currentUse'[PoolOf[f]] >= Depth[PoolOf[f]]
  BY <1>1, <1>15, SchedulePools, Zenon
<1> QED BY <1>16, PoolsAfter, Zenon

(* The pools are unused initially.                                         *)
LEMMA InitPools == Init => PoolInv
<1> SUFFICES ASSUME Init PROVE PoolInv
  OBVIOUS
<1>1. /\ ready = [e \in Edges |-> 0] /\ delayed = {} /\ running = {}
      /\ currentUse = [p \in Pools |-> 0]
  BY Zenon DEF Init, PlanInit
<1>2. \A p \in Pools : Occupying(p) = {}
  BY <1>1 DEF Occupying, InPool
<1>3. \A p \in Pools : Cardinality(Occupying(p)) = 0
  BY <1>2, FS_EmptySet, Zenon
<1>4. \A p \in Pools : 0 <= Depth[p]
  BY PlanAssumption
<1> QED BY <1>1, <1>3, <1>4, Zenon DEF PoolInv, PoolsRespected, DelayedOnlyWhenFull

(* A step that neither ends the build nor moves an edge in or out of a     *)
(* pool keeps the invariant.                                               *)
LEMMA PoolsKept ==
  ASSUME PoolInv, Building' => Building, UNCHANGED <<currentUse, delayed>>,
         Building' => \A e \in Edges :
           (ready'[e] > 0 \/ e \in running') <=> (ready[e] > 0 \/ e \in running)
  PROVE  PoolInv'
<1>1. Building' => \A p \in Pools : Occupying(p)' = Occupying(p)
  BY Zenon DEF Occupying, InPool
<1>2. PoolsRespected'
  BY <1>1, Zenon DEF PoolInv, PoolsRespected
<1>3. DelayedOnlyWhenFull'
  BY Zenon DEF PoolInv, DelayedOnlyWhenFull
<1> QED BY <1>2, <1>3, Zenon DEF PoolInv, ShouldDelayEdge

(* A build that has returned uses its pools no more.                       *)
LEMMA PoolsDone == ~Building' => PoolInv'
BY Zenon DEF PoolInv, PoolsRespected, DelayedOnlyWhenFull

(* Every step keeps the use of the pools exact.                            *)
LEMMA NextPools ==
  TypeOK /\ PlacementInv /\ PoolInv /\ [Next]_vars => PoolInv'
<1> SUFFICES ASSUME TypeOK, PlacementInv, PoolInv, [Next]_vars PROVE PoolInv'
  OBVIOUS
<1>0. /\ ready \in [Edges -> Nat] /\ starts \in [Edges -> Nat]
      /\ running \in SUBSET Edges /\ delayed \in SUBSET Edges
      /\ currentUse \in [Pools -> Int]
  BY TypeFacts, Zenon
<1>1. CASE PrepareQueue
  <2> DEFINE initial == {e \in Edges : /\ want[e] = "toStart"
                                       /\ AllInputsReady(e, outputsReady)}
             limited == {e \in initial : ShouldDelayEdge(e)}
             direct == initial \ limited
  <2>1. /\ Schedule(ready, currentUse, limited, delayed \cup limited, {}, direct)
        /\ running' = running /\ pc = "prepare"
    BY <1>1, Zenon DEF PrepareQueue, ScheduleInitialEdges
  <2>2. \A e \in Edges : ready[e] = 0 /\ e \notin running /\ e \notin delayed
    BY <1>0, <2>1 DEF PlacementInv, Placed
  <2>3. delayed \cup limited = limited
    BY <1>0, <2>2, Zenon
  <2>4. \A e \in limited \cup {} :
          /\ ShouldDelayEdge(e) /\ ready[e] = 0 /\ e \notin running'
    BY <2>1, <2>2, Zenon
  <2>5. \A e \in direct : ~ShouldDelayEdge(e)
    OBVIOUS
  <2>6. \A p \in Pools : Depth[p] # 0 =>
          /\ currentUse[p] = Cardinality(Holding(p, ready, running'))
          /\ currentUse[p] <= Depth[p]
    BY <2>1, Zenon DEF PoolInv, PoolsRespected, Building, Occupying, Holding
  <2>7. \A e \in limited \cup {} :
          limited \cap InPool(PoolOf[e]) = {}
            => currentUse[PoolOf[e]] >= Depth[PoolOf[e]]
    BY Zenon DEF InPool
  <2>8. /\ limited \in SUBSET Edges /\ direct \in SUBSET Edges
        /\ {} \in SUBSET Edges /\ running' \in SUBSET Edges
        /\ Schedule(ready, currentUse, limited, limited, {}, direct)
    BY <1>0, <2>1, <2>3, Zenon
  <2> HIDE DEF initial, limited, direct
  <2>9. BeforeSchedule(ready, currentUse, limited, limited, {}, direct, running')
    BY <1>0, <2>4, <2>5, <2>6, <2>7, <2>8, Zenon DEF BeforeSchedule
  <2>10. /\ \A p \in Pools : Depth[p] # 0 =>
             /\ currentUse'[p] = Cardinality(Holding(p, ready', running'))
             /\ currentUse'[p] <= Depth[p]
        /\ \A e \in delayed' : /\ ShouldDelayEdge(e)
                               /\ currentUse'[PoolOf[e]] >= Depth[PoolOf[e]]
    BY <2>8, <2>9, SchedulePools, Zenon
  <2> QED BY <2>10, PoolsAfter, Zenon
<1>2. CASE LoopHead \/ RecordCommand
  BY <1>2, PoolsKept, Zenon DEF LoopHead, RecordCommand, planVars, Building
<1>3. CASE LoopExit \/ NoProgress
  BY <1>3, PoolsDone, Zenon DEF LoopExit, NoProgress, Return, Building
<1>4. CASE StopStarting
  <2>1. UNCHANGED <<currentUse, delayed, ready, running>> /\ Building
    BY <1>4, Zenon DEF StopStarting, planVars, FindNoToken, Building
  <2> QED BY <2>1, PoolsKept, Zenon
<1>5. ASSUME NEW e \in Edges, NEW s \in SlotsFor(e), StartEdge(e, s)
      PROVE  PoolInv'
  <2>1. /\ ready[e] > 0
        /\ ready' = [ready EXCEPT ![e] = @ - 1]
        /\ running' = running \cup {e}
        /\ UNCHANGED <<currentUse, delayed, pc>>
    BY <1>5, Zenon DEF StartEdge, FindWork, IsTop, Popped
  <2>2. \A f \in Edges :
          (ready'[f] > 0 \/ f \in running') <=> (ready[f] > 0 \/ f \in running)
    BY <1>0, <2>1, SMTT(20)
  <2> QED BY <2>1, <2>2, PoolsKept, Zenon DEF Building
<1>6. ASSUME NEW e \in Edges, NEW s \in SlotsFor(e), StartPhony(e, s)
      PROVE  PoolInv'
  <2>1. PICK c \in {AfterAcquire(s), Client} :
          /\ FindWork(e, s, c)
          /\ EdgeSucceeded(e, {}, Popped(e), [jobSlot EXCEPT ![e] = s], c)
    BY <1>6, SMTT(20) DEF StartPhony
  <2>2. /\ ready[e] > 0 /\ Building /\ running' = running
    BY <1>6, StartPhonyFacts, Zenon
  <2>3. /\ ready[e] = 1 /\ starts[e] = 0 /\ e \notin delayed
        /\ IsWanted(want, e) /\ AllInputsReady(e, outputsReady)
        /\ e \notin running
    BY <2>2, QueuedFacts, Zenon
  <2>4. /\ Popped(e) \in [Edges -> Nat]
        /\ \A f \in Edges : Popped(e)[f] <= ready[f]
        /\ {} \in SUBSET Edges
        /\ running' \in SUBSET Edges /\ running' \subseteq running
    BY <1>0, <2>2, <2>3 DEF Popped
  <2>5. \A f \in Edges : (Popped(e)[f] > 0 \/ f \in running')
                           <=> f # e /\ (ready[f] > 0 \/ f \in running)
    BY <1>0, <2>2, <2>3 DEF Popped
  <2> QED BY <2>1, <2>2, <2>3, <2>4, <2>5, EdgeSucceededPools, Zenon
<1>7. ASSUME NEW e \in Edges, FinishCommand(e)
      PROVE  PoolInv'
  <2>1. PICK K \in SUBSET Outs[e], C \in SUBSET Edges :
          /\ CleanNode(K, C)
          /\ EdgeSucceeded(e, C, ready, jobSlot, Client)
    BY <1>7, Zenon DEF FinishCommand
  <2>2. e \in running /\ Building /\ running' = running \ {e}
    BY <1>7, Zenon DEF FinishCommand, Building
  <2>3. /\ ready[e] = 0 /\ e \notin delayed
        /\ IsWanted(want, e) /\ AllInputsReady(e, outputsReady)
    BY <2>2, RunningFacts, Zenon
  <2>4. \A f \in C : /\ IsWanted(want, f)
                     /\ \E p \in C \cup {e} : Feeds(p, f)
    BY <2>1, CleanNodeFacts, Zenon
  <2>5. /\ \A f \in Edges : ready[f] <= ready[f]
        /\ running' \in SUBSET Edges /\ running' \subseteq running
        /\ \A f \in Edges : (ready[f] > 0 \/ f \in running')
                              <=> f # e /\ (ready[f] > 0 \/ f \in running)
    BY <1>0, <2>2, <2>3
  <2> QED BY <1>0, <2>1, <2>2, <2>3, <2>4, <2>5, EdgeSucceededPools, Zenon
<1>8. ASSUME NEW e \in Edges, FinishFailed(e)
      PROVE  PoolInv'
  <2> DEFINE none == {}
             own == {e}
             use == UseAfter(e, want)
             R == running \ {e}
  <2>1. /\ Schedule(ready, use, own, delayed, none, none)
        /\ e \in running /\ Building
        /\ running' = R
    BY <1>8, Zenon DEF FinishFailed, EdgeFailed, Building
  <2>2. /\ ready[e] = 0 /\ IsWanted(want, e)
        /\ \A f \in running : starts[f] > 0
    BY <2>1, RunningFacts, Zenon
  <2>3. /\ use \in [Pools -> Int]
        /\ \A p \in Pools : p # PoolOf[e] => use[p] = currentUse[p]
    BY <1>0 DEF UseAfter
  <2>4. /\ none \in SUBSET Edges /\ R \in SUBSET Edges
        /\ \A f : f \notin none
        /\ \A f : f \in own <=> f = e
        /\ \A f : f \in R <=> f \in running /\ f # e
    BY <1>0, Zenon
  <2>5. \A f \in Edges : (ready[f] > 0 \/ f \in R)
                           <=> f # e /\ (ready[f] > 0 \/ f \in running)
    BY <1>0, <2>2, <2>4
  <2>6. \A p \in Pools : Depth[p] # 0 =>
          /\ use[p] = Cardinality(Holding(p, ready, R))
          /\ use[p] <= Depth[p]
    BY <2>1, <2>2, <2>5, PlaceGivenBack, Zenon
  <2> HIDE DEF none, own, use, R
  <2>7. \A f \in delayed : /\ ShouldDelayEdge(f)
                            /\ ready[f] = 0
                            /\ f \notin running
    BY <1>0, <2>1, <2>2 DEF PlacementInv, StartedOnce, PoolInv
  <2>8. \A f \in delayed \cup none :
          /\ ShouldDelayEdge(f) /\ ready[f] = 0 /\ f \notin R
    BY <2>4, <2>7, Zenon
  <2>9. \A f \in none : ~ShouldDelayEdge(f)
    BY <2>4, Zenon
  <2>10. \A f \in delayed : own \cap InPool(PoolOf[f]) = {}
                               => use[PoolOf[f]] >= Depth[PoolOf[f]]
    <3> SUFFICES ASSUME NEW f \in delayed, own \cap InPool(PoolOf[f]) = {}
                 PROVE  use[PoolOf[f]] >= Depth[PoolOf[f]]
      BY Zenon
    <3>1. currentUse[PoolOf[f]] >= Depth[PoolOf[f]]
      BY <2>1, Zenon DEF PoolInv, DelayedOnlyWhenFull
    <3>2. PoolOf[f] \in Pools /\ PoolOf[f] # PoolOf[e]
      BY <1>0, <2>4, PlanAssumption, Zenon DEF InPool
    <3> QED BY <2>3, <3>1, <3>2, Zenon
  <2>11. \A f \in delayed \cup none :
           own \cap InPool(PoolOf[f]) = {}
             => use[PoolOf[f]] >= Depth[PoolOf[f]]
    BY <2>4, <2>10, Zenon
  <2>12. BeforeSchedule(ready, use, own, delayed, none, none, R)
    BY <1>0, <2>3, <2>4, <2>6, <2>8, <2>9, <2>11, Zenon DEF BeforeSchedule
  <2>13. /\ \A p \in Pools : Depth[p] # 0 =>
              /\ currentUse'[p] = Cardinality(Holding(p, ready', R))
              /\ currentUse'[p] <= Depth[p]
         /\ \A f \in delayed' : /\ ShouldDelayEdge(f)
                                /\ currentUse'[PoolOf[f]] >= Depth[PoolOf[f]]
    BY <2>1, <2>12, SchedulePools, Zenon
  <2>14. \A p \in Pools : Depth[p] # 0 =>
              /\ currentUse'[p] = Cardinality(Holding(p, ready', running'))
              /\ currentUse'[p] <= Depth[p]
    BY <2>1, <2>13, Zenon
  <2> QED BY <2>13, <2>14, PoolsAfter, Zenon
<1>9. CASE FaultStep
  BY <1>9, PoolsDone, Zenon
  DEF FaultStep, RecordFails, Interrupted, StartFails, StatFails, Return, Building
<1>10. CASE OtherClient \/ UNCHANGED vars
  BY <1>10, PoolsKept, Zenon DEF OtherClient, vars, planVars, loopVars, Building
<1> QED
  BY <1>1, <1>2, <1>3, <1>4, <1>5, <1>6, <1>7, <1>8, <1>9, <1>10
  DEF Next, BuildStep, Returned

(* The invariant of the pools holds with those it rests on.                *)
LEMMA PoolsCorrect == Spec => [](TypeOK /\ PlacementInv /\ PoolInv)
BY InitType, NextType, InitPlacement, NextPlacement, InitPools, NextPools, PTL
   DEF Spec

(* A pool never runs more edges than its depth and its use is exact, for   *)
(* every graph, set of pools and course of the build.                      *)
THEOREM PoolDepthRespected == Spec => []PoolsRespected
<1>1. PoolInv => PoolsRespected
  BY Zenon DEF PoolInv
<1> QED BY <1>1, PoolsCorrect, PTL

(* No edge waits for a place in a pool that has one.                       *)
THEOREM NoPlaceWasted == Spec => []DelayedOnlyWhenFull
<1>1. PoolInv => DelayedOnlyWhenFull
  BY Zenon DEF PoolInv
<1> QED BY <1>1, PoolsCorrect, PTL

----------------------------------------------------------------------------
(* Build's own loop. *)

(* The local variables of Build: commands are started only while some of   *)
(* the budget of failures is left and there is room, the loop is entered   *)
(* again only after a command has made room, and exitCode and the budget   *)
(* agree on whether something failed.                                      *)
LoopInv ==
  /\ failuresAllowed <= FailuresAllowed
  /\ Building => (exitCode = "success" <=> failuresAllowed = FailuresAllowed)
  /\ pc = "start" => /\ failuresAllowed > 0 /\ capacity >= 0
                     /\ running = {} => capacity > 0
  /\ ~UseJobserver =>
       /\ Cardinality(running) <= Parallelism
       /\ pc \in {"prepare", "loop", "record"} =>
            Cardinality(running) < Parallelism
       /\ pc = "start" => Cardinality(running) + capacity <= Parallelism

(* Why there is always something to do: an edge of the plan waits only for *)
(* edges of the plan, one that needs no work waits for some input and one  *)
(* passed on for none, and one that is wanted and waits for none has been  *)
(* placed.                                                                 *)
ProgressInv ==
  Building =>
    /\ \A e \in Edges :
         /\ want[e] = "nothing" => ~AllInputsReady(e, outputsReady)
         /\ want[e] = "toFinish" => AllInputsReady(e, outputsReady)
    /\ \A p, e \in Edges :
         want[e] # "none" /\ Feeds(p, e) => p \in outputsReady \/ want[p] # "none"
    /\ IF pc = "prepare"
       THEN \A e \in Edges : want[e] # "toFinish"
       ELSE \A e \in Edges :
              IsWanted(want, e) /\ AllInputsReady(e, outputsReady) => Placed(e)

(* The implicit slot is free unless a running command holds it.            *)
SlotInv ==
  Building /\ ~hasImplicitSlot =>
    UseJobserver /\ \E e \in running : jobSlot[e] = ImplicitSlot

(* Build waits for a command only when one runs, unless something failed.  *)
ResultInv ==
  /\ NeverStuck
  /\ SuccessIsComplete
  /\ pc = "reap" => running # {} \/ failuresAllowed < FailuresAllowed

-----------------------------------------------------------------------------
(* The loop.                                                               *)

(* CanRunMore never grants more than there is room for, as long as there   *)
(* is any, and grants something when nothing runs.                         *)
LEMMA CanRunMoreFacts ==
  ASSUME NEW n \in Nat, NEW idle \in BOOLEAN, NEW x \in CanRunMore(n, idle)
  PROVE  /\ x \in Nat
         /\ idle => x > 0
         /\ ~UseJobserver /\ n < Parallelism => n + x <= Parallelism
<1>1. Unbounded \in Int
  BY CardinalityOfEdges DEF Unbounded
<1>2. Parallelism \in Int /\ Loads \subseteq Int
  BY BuilderAssumption DEF BuilderAssumption
<1> QED BY <1>1, <1>2 DEF CanRunMore

(* The loop has not started anything yet.                                  *)
LEMMA InitLoop == Init => LoopInv
<1> SUFFICES ASSUME Init PROVE LoopInv
  OBVIOUS
<1>1. /\ running = {} /\ pc = "prepare" /\ exitCode = "success"
      /\ failuresAllowed = FailuresAllowed
  BY Zenon DEF Init
<1>2. /\ Cardinality(running) = 0
      /\ FailuresAllowed \in Nat /\ Parallelism \in Nat \ {0}
  BY <1>1, FS_EmptySet, BuilderAssumption, Zenon DEF BuilderAssumption
<1> QED BY <1>1, <1>2 DEF LoopInv

(* A build that has returned and whose commands are gone.                  *)
LEMMA LoopDone ==
  ASSUME TypeOK, LoopInv, pc' = "done", running' \subseteq running,
         UNCHANGED failuresAllowed
  PROVE  LoopInv'
<1>1. Cardinality(running') <= Cardinality(running)
  BY CardinalityOfEdges, FS_Subset, TypeFacts, Zenon
<1>2. Cardinality(running) \in Nat /\ Cardinality(running') \in Nat
  BY CardinalityOfEdges, TypeFacts, Zenon
<1>3. Parallelism \in Nat
  BY BuilderAssumption, Zenon DEF BuilderAssumption
<1> QED BY <1>1, <1>2, <1>3 DEF LoopInv, Building

(* Every step keeps the invariant of the loop.                             *)
LEMMA NextLoop ==
  TypeOK /\ PlacementInv /\ CountInv /\ LoopInv /\ [Next]_vars => LoopInv'
<1> SUFFICES ASSUME TypeOK, PlacementInv, CountInv, LoopInv, [Next]_vars
             PROVE  LoopInv'
  OBVIOUS
<1>0. /\ Cardinality(running) \in Nat /\ running \in SUBSET Edges
      /\ capacity \in Int /\ failuresAllowed \in Nat
      /\ Parallelism \in Nat \ {0} /\ FailuresAllowed \in Nat \ {0}
      /\ ready \in [Edges -> Nat]
  BY CardinalityOfEdges, BuilderAssumption, TypeFacts, Zenon DEF BuilderAssumption
<1>1. CASE PrepareQueue \/ RecordCommand
  <2>1. /\ pc \in {"prepare", "record"} /\ pc' = "loop"
        /\ UNCHANGED <<capacity, failuresAllowed, running, exitCode>>
    BY <1>1, Zenon DEF PrepareQueue, RecordCommand
  <2> QED BY <2>1, Zenon DEF LoopInv, Building
<1>2. CASE LoopHead
  <2>1. /\ pc = "loop" /\ UNCHANGED <<failuresAllowed, running, exitCode>>
        /\ \/ /\ failuresAllowed > 0 /\ pc' = "start"
              /\ \E idle \in BOOLEAN :
                   /\ running = {} => idle
                   /\ capacity' \in CanRunMore(Cardinality(running), idle)
           \/ pc' = "reap"
    BY <1>2, Zenon DEF LoopHead
  <2>2. CASE pc' = "start"
    <3>1. PICK idle \in BOOLEAN :
            /\ running = {} => idle
            /\ capacity' \in CanRunMore(Cardinality(running), idle)
      BY <2>1, <2>2, Zenon
    <3>2. /\ capacity' \in Nat
          /\ idle => capacity' > 0
          /\ ~UseJobserver /\ Cardinality(running) < Parallelism
               => Cardinality(running) + capacity' <= Parallelism
      BY <1>0, <3>1, CanRunMoreFacts, Zenon
    <3> QED BY <1>0, <2>1, <2>2, <3>1, <3>2 DEF LoopInv, Building
  <2>3. CASE pc' = "reap"
    BY <1>0, <2>1, <2>3, Zenon DEF LoopInv, Building
  <2> QED BY <2>1, <2>2, <2>3, Zenon
<1>3. CASE LoopExit
  <2>1. pc' = "done" /\ UNCHANGED <<running, failuresAllowed>>
    BY <1>3, Zenon DEF LoopExit, Return
  <2> QED BY <2>1, LoopDone, Zenon
<1>4. CASE StopStarting
  <2>1. /\ pc' \in {"reap", "done"}
        /\ pc = "start"
        /\ UNCHANGED <<failuresAllowed, running, exitCode, capacity>>
    BY <1>4, Zenon DEF StopStarting, Return
  <2> QED BY <1>0, <2>1, Zenon DEF LoopInv, Building
<1>5. CASE NoProgress
  <2>1. pc' = "done" /\ UNCHANGED <<running, failuresAllowed>>
    BY <1>5, Zenon DEF NoProgress, Return
  <2> QED BY <2>1, LoopDone, Zenon
<1>6. ASSUME NEW e \in Edges, NEW s \in SlotsFor(e), StartEdge(e, s)
      PROVE  LoopInv'
  <2>1. /\ pc = "start" /\ capacity > 0 /\ ready[e] > 0
        /\ running' = running \cup {e}
        /\ UNCHANGED <<pc, failuresAllowed, exitCode>>
    BY <1>6, Zenon DEF StartEdge, FindWork, IsTop
  <2>2. PICK n \in CanRunMore(Cardinality(running \cup {e}), FALSE) :
          capacity' = IF n < capacity - 1 THEN n ELSE capacity - 1
    BY <1>6, Zenon DEF StartEdge
  <2>3. e \notin running
    <3>1. starts \in [Edges -> Nat]
      BY TypeFacts, Zenon
    <3>2. ready[e] + starts[e] <= 1 /\ (e \in running => starts[e] > 0)
      BY Zenon DEF PlacementInv, StartedOnce
    <3> QED BY <1>0, <2>1, <3>1, <3>2
  <2>4. Cardinality(running') = Cardinality(running) + 1
    BY <1>0, <2>1, <2>3, CardinalityOfEdges, FS_AddElement, Zenon
  <2>5. n \in Nat
    <3>1. Cardinality(running \cup {e}) \in Nat /\ FALSE \in BOOLEAN
      BY <1>0, <2>1, <2>4
    <3> QED BY <3>1, CanRunMoreFacts, Zenon
  <2>6. capacity' >= 0 /\ capacity' <= capacity - 1 /\ capacity' \in Int
    BY <1>0, <2>1, <2>2, <2>5
  <2>7. running' # {}
    BY <2>1, Zenon
  <2> QED BY <1>0, <2>1, <2>4, <2>6, <2>7 DEF LoopInv, Building
<1>7. ASSUME NEW e \in Edges, NEW s \in SlotsFor(e), StartPhony(e, s)
      PROVE  LoopInv'
  <2>1. UNCHANGED loopVars
    BY <1>7, Zenon DEF StartPhony
  <2> QED BY <2>1, Zenon DEF loopVars, LoopInv, Building
<1>8. ASSUME NEW e \in Edges, FinishCommand(e)
      PROVE  LoopInv'
  <2>1. /\ e \in running /\ running' = running \ {e}
        /\ pc = "reap" /\ pc' = "record"
        /\ UNCHANGED <<failuresAllowed, exitCode>>
    BY <1>8, Zenon DEF FinishCommand
  <2>2. Cardinality(running') = Cardinality(running) - 1
    BY <1>0, <2>1, CardinalityOfEdges, FS_RemoveElement, Zenon
  <2> QED BY <1>0, <2>1, <2>2 DEF LoopInv, Building
<1>9. ASSUME NEW e \in Edges, FinishFailed(e)
      PROVE  LoopInv'
  <2>1. /\ e \in running /\ running' = running \ {e}
        /\ pc = "reap" /\ pc' = "loop"
        /\ failuresAllowed' = BudgetAfterFailure
        /\ exitCode' = "failure"
    BY <1>9, Zenon DEF FinishFailed
  <2>2. Cardinality(running') = Cardinality(running) - 1
    BY <1>0, <2>1, CardinalityOfEdges, FS_RemoveElement, Zenon
  <2>3. failuresAllowed' < FailuresAllowed /\ failuresAllowed' \in Nat
    BY <1>0, <2>1 DEF LoopInv, BudgetAfterFailure
  <2> QED BY <1>0, <2>1, <2>2, <2>3 DEF LoopInv, Building
<1>10. CASE FaultStep
  <2>1. pc' = "done" /\ running' = {} /\ UNCHANGED failuresAllowed
    BY <1>10, Zenon DEF FaultStep, StartFails, StatFails, RecordFails,
                        Interrupted, Return, Abort
  <2> QED BY <2>1, LoopDone, Zenon
<1>11. CASE OtherClient \/ UNCHANGED vars
  <2>1. UNCHANGED loopVars
    BY <1>11, Zenon DEF OtherClient, vars
  <2> QED BY <2>1, Zenon DEF loopVars, LoopInv, Building
<1> QED
  BY <1>1, <1>2, <1>3, <1>4, <1>5, <1>6, <1>7, <1>8, <1>9, <1>10, <1>11
  DEF Next, BuildStep, Returned

(* The invariant of the loop holds with those it rests on.                 *)
LEMMA LoopCorrect ==
  Spec => [](TypeOK /\ PlacementInv /\ CountInv /\ LoopInv)
BY InitType, NextType, InitPlacement, NextPlacement, InitCount, NextCount,
   InitLoop, NextLoop, PTL DEF Spec

(* Without a jobserver Build never runs more than Parallelism commands,    *)
(* for every graph and load, although CanRunMore believes that nothing     *)
(* runs once every process has exited.                                     *)
THEOREM NeverTooManyCommands == Spec => []ParallelismRespected
<1>1. LoopInv => ParallelismRespected
  BY Zenon DEF LoopInv, ParallelismRespected
<1> QED BY <1>1, LoopCorrect, PTL

(* One step of Build never starts a command once the budget is spent, and  *)
(* neither forgets a failure nor starts or finishes a failed edge.         *)
LEMMA FailuresStep ==
  TypeOK /\ PlacementInv /\ CountInv /\ LoopInv
    /\ TypeOK' /\ PlacementInv' /\ [Next]_vars
  => [/\ failuresAllowed = 0 => starts' = starts
      /\ failed \subseteq failed'
      /\ failed' \cap (outputsReady' \cup running') = {}]_vars
<1> SUFFICES ASSUME TypeOK, PlacementInv, LoopInv, TypeOK', PlacementInv', Next
             PROVE  /\ failuresAllowed = 0 => starts' = starts
                    /\ failed \subseteq failed'
                    /\ failed' \cap (outputsReady' \cup running') = {}
  OBVIOUS
<1>1. failuresAllowed = 0 => pc # "start"
  BY DEF LoopInv
<1>2. pc = "start" \/ starts' = starts
  BY Zenon DEF Next, BuildStep, FaultStep, OtherClient, Returned, vars, loopVars,
         PrepareQueue, LoopHead, LoopExit, StopStarting, RecordCommand,
         NoProgress, StartEdge, StartPhony, FinishCommand, FinishFailed,
         RecordFails, Interrupted, StartFails, StatFails
<1>3. failed \subseteq failed'
  BY DEF Next, BuildStep, FaultStep, OtherClient, Returned, vars, loopVars,
         PrepareQueue, LoopHead, LoopExit, StopStarting, RecordCommand,
         NoProgress, StartEdge, StartPhony, FinishCommand, FinishFailed,
         RecordFails, Interrupted, StartFails, StatFails
<1>4. \A e \in failed' : e \notin outputsReady'
  <2> SUFFICES ASSUME NEW e \in failed' PROVE e \notin outputsReady'
    OBVIOUS
  <2>1. e \in Edges
    BY Zenon DEF TypeOK
  <2>2. IsWanted(want', e)
    BY <2>1, Zenon DEF PlacementInv, Placed
  <2> QED BY <2>1, <2>2, Zenon DEF PlacementInv, IsWanted
<1>5. failed' \cap running' = {}
  BY Zenon DEF PlacementInv
<1> QED BY <1>1, <1>2, <1>3, <1>4, <1>5

(* Once the budget of failures is spent Build starts nothing more, and a   *)
(* failed edge stays failed, for every graph and budget.                   *)
THEOREM SpentBudgetStopsBuild == Spec => FailuresStopBuild
<1>1. Spec => [](TypeOK /\ PlacementInv /\ CountInv /\ LoopInv)
  BY LoopCorrect, Zenon
<1> QED BY <1>1, FailuresStep, PTL DEF Spec, FailuresStopBuild

-----------------------------------------------------------------------------
(* Progress.                                                               *)

(* The cascade of EdgeFinished leaves out no edge that needs no work and   *)
(* that has just become ready.                                             *)
LEMMA FinishingClosed ==
  ASSUME NEW e \in Edges, NEW w, NEW F, F = Finishing(e, w),
         NEW g \in Edges, w[g] = "nothing", \E p \in F : Feeds(p, g),
         AllInputsReady(g, outputsReady \cup F)
  PROVE  g \in F
<1> DEFINE Closed(C) ==
             /\ e \in C
             /\ \A h \in Edges : (/\ w[h] = "nothing"
                                  /\ \E p \in C : Feeds(p, h)
                                  /\ AllInputsReady(h, outputsReady \cup C))
                                 => h \in C
<1>1. F = {f \in Edges : \A C \in SUBSET Edges : Closed(C) => f \in C}
  BY Zenon DEF Finishing
<1> SUFFICES ASSUME NEW C \in SUBSET Edges, Closed(C) PROVE g \in C
  BY <1>1, Zenon
<1>2. F \subseteq C
  BY <1>1, Zenon
<1> HIDE DEF Closed
<1>3. \E p \in C : Feeds(p, g)
  BY <1>2, Zenon
<1>4. AllInputsReady(g, outputsReady \cup C)
  BY <1>2, Zenon DEF AllInputsReady
<1> QED BY <1>3, <1>4, Zenon DEF Closed

(* EdgeFinished(e, EdgeSucceeded) leaves the plan without an edge that has *)
(* become ready and that nobody looks at any more.                         *)
LEMMA EdgeSucceededProgress ==
  ASSUME TypeOK, PlacementInv, ProgressInv, Building, pc # "prepare",
         NEW e \in Edges, NEW C \in SUBSET Edges,
         NEW rdy \in [Edges -> Nat], NEW slot, NEW c,
         EdgeSucceeded(e, C, rdy, slot, c),
         IsWanted(want, e), AllInputsReady(e, outputsReady),
         \A f \in Edges \ {e} : rdy[f] = ready[f],
         running \ {e} \subseteq running', UNCHANGED failed,
         \A f \in C : /\ IsWanted(want, f)
                      /\ \E p \in C \cup {e} : Feeds(p, f)
  PROVE  /\ \A f \in Edges :
              /\ want'[f] = "nothing" => ~AllInputsReady(f, outputsReady')
              /\ want'[f] = "toFinish" => AllInputsReady(f, outputsReady')
         /\ \A p, f \in Edges :
              want'[f] # "none" /\ Feeds(p, f)
                => p \in outputsReady' \/ want'[p] # "none"
         /\ \A f \in Edges :
              IsWanted(want', f) /\ AllInputsReady(f, outputsReady')
                => Placed(f)'
<1> DEFINE w == [f \in Edges |-> IF f \in C THEN "nothing" ELSE want[f]]
           F == Finishing(e, w)
           done == outputsReady \cup F
           woken == {f \in Edges : /\ w[f] = "toStart"
                                   /\ \E p \in F : Feeds(p, f)
                                   /\ AllInputsReady(f, done)}
           limited == {f \in woken : ShouldDelayEdge(f)}
<1>1. /\ outputsReady' = done
      /\ want' = [f \in Edges |-> IF f \in F THEN "none"
                                  ELSE IF f \in woken THEN "toFinish"
                                  ELSE w[f]]
      /\ Schedule(rdy, UseAfter(e, w), F \cup limited, delayed,
                  limited, woken \ limited)
  BY Zenon DEF EdgeSucceeded, WantAfterClean
<1>2. /\ F \subseteq Edges
      /\ e \in F
      /\ \A f \in F : f = e \/ w[f] = "nothing"
  <2> HIDE DEF w
  <2> QED BY FinishingFacts, Zenon
<1> HIDE DEF w, F, done, woken, limited
<1>3. PICK T \in SUBSET (delayed \cup limited) :
        /\ delayed' = (delayed \cup limited) \ T
        /\ ready' = [f \in Edges |-> IF f \in T \cup (woken \ limited)
                                     THEN rdy[f] + 1 ELSE rdy[f]]
  BY <1>1, Zenon DEF Schedule
<1>4. \A f \in C \cup {e} : f \notin outputsReady
  BY Zenon DEF PlacementInv, IsWanted
<1>5. \A f \in Edges :
        AllInputsReady(f, done) /\ ~AllInputsReady(f, outputsReady)
          => \E p \in F : Feeds(p, f)
  BY Zenon DEF AllInputsReady, done
<1>6. \A f \in Edges : w[f] = "nothing" => ~AllInputsReady(f, outputsReady)
  <2> SUFFICES ASSUME NEW f \in Edges, w[f] = "nothing",
                      AllInputsReady(f, outputsReady)
               PROVE  FALSE
    BY Zenon
  <2>1. f \notin C
    BY <1>4, Zenon DEF AllInputsReady
  <2>2. want[f] = "nothing"
    BY <2>1, Zenon DEF w
  <2> QED BY <2>2, Zenon DEF ProgressInv
<1>7. \A f \in Edges : w[f] = "nothing" /\ AllInputsReady(f, done) => f \in F
  BY <1>5, <1>6, FinishingClosed, ZenonT(30) DEF F, done
<1>8. \A f \in Edges :
        want'[f] = "nothing" => ~AllInputsReady(f, outputsReady')
  <2> SUFFICES ASSUME NEW f \in Edges, want'[f] = "nothing",
                      AllInputsReady(f, done)
               PROVE  FALSE
    BY <1>1, Zenon
  <2>1. f \notin F /\ w[f] = "nothing"
    BY <1>1, Zenon
  <2> QED BY <1>7, <2>1, Zenon
<1>9. \A p, f \in Edges :
        want'[f] # "none" /\ Feeds(p, f) => p \in outputsReady' \/ want'[p] # "none"
  <2> SUFFICES ASSUME NEW p \in Edges, NEW f \in Edges, want'[f] # "none",
                      Feeds(p, f), p \notin done
               PROVE  want'[p] # "none"
    BY <1>1, Zenon
  <2>1. w[f] # "none"
    BY <1>1, Zenon DEF woken
  <2>2. want[f] # "none"
    BY <2>1, Zenon DEF w, IsWanted
  <2>3. want[p] # "none" /\ p \notin F
    BY <2>2, Zenon DEF ProgressInv, done
  <2> QED BY <1>1, <2>3, Zenon DEF w
<1>10. \A f \in Edges :
         want'[f] = "toFinish" => AllInputsReady(f, outputsReady')
  <2> SUFFICES ASSUME NEW f \in Edges, want'[f] = "toFinish", f \notin woken
               PROVE  AllInputsReady(f, done)
    BY <1>1, Zenon DEF woken
  <2>1. w[f] = "toFinish"
    BY <1>1, Zenon
  <2>2. want[f] = "toFinish"
    BY <2>1, Zenon DEF w
  <2>3. AllInputsReady(f, outputsReady) /\ outputsReady \subseteq done
    BY <2>2, Zenon DEF ProgressInv, done
  <2> QED BY <2>3, AllInputsReadyMonotone, Zenon
<1>11. limited \subseteq woken /\ woken \subseteq Edges
  BY Zenon DEF limited, woken
<1>12. \A f \in woken : ready'[f] > 0 \/ f \in delayed'
  <2> SUFFICES ASSUME NEW f \in woken PROVE ready'[f] > 0 \/ f \in delayed'
    OBVIOUS
  <2>1. rdy[f] \in Nat /\ f \in Edges
    BY <1>11, Zenon
  <2> QED BY <1>3, <2>1
<1>13. \A f \in Edges : f # e /\ Placed(f) => Placed(f)'
  <2> SUFFICES ASSUME NEW f \in Edges, f # e, Placed(f) PROVE Placed(f)'
    BY Zenon
  <2>1. rdy[f] \in Nat /\ rdy[f] = ready[f]
    OBVIOUS
  <2>2. ready[f] > 0 => ready'[f] > 0
    BY <1>3, <2>1
  <2>3. f \in delayed => ready'[f] > 0 \/ f \in delayed'
    BY <1>3, <2>1
  <2> QED BY <2>2, <2>3, Zenon DEF Placed
<1>14. \A f \in Edges :
         IsWanted(want', f) /\ AllInputsReady(f, outputsReady') => Placed(f)'
  <2> SUFFICES ASSUME NEW f \in Edges, IsWanted(want', f),
                      AllInputsReady(f, done)
               PROVE  Placed(f)'
    BY <1>1, Zenon
  <2>1. CASE f \in woken
    BY <1>12, <2>1, Zenon DEF Placed
  <2>2. CASE f \notin woken
    <3>1. f \notin F /\ IsWanted(w, f)
      BY <1>1, <2>2, Zenon DEF IsWanted
    <3>2. f # e /\ f \notin C /\ IsWanted(want, f)
      BY <1>2, <3>1, Zenon DEF IsWanted, w
    <3>3. CASE AllInputsReady(f, outputsReady)
      <4>1. Placed(f)
        BY <3>2, <3>3, Zenon DEF ProgressInv
      <4> QED BY <1>13, <3>2, <4>1, Zenon
    <3>4. CASE ~AllInputsReady(f, outputsReady)
      <4>1. \E p \in F : Feeds(p, f)
        BY <1>5, <3>4, Zenon
      <4>2. w[f] # "toStart"
        BY <2>2, <4>1, Zenon DEF woken
      <4>3. want[f] = "toFinish"
        BY <3>1, <3>2, <4>2, Zenon DEF IsWanted, w
      <4> QED BY <3>4, <4>3, Zenon DEF ProgressInv
    <3> QED BY <3>3, <3>4, Zenon
  <2> QED BY <2>1, <2>2, Zenon
<1> QED BY <1>8, <1>9, <1>10, <1>14, Zenon

(* Before the loop there is nothing to wait for.                           *)
LEMMA InitProgress == Init => ProgressInv
<1> SUFFICES ASSUME Init PROVE ProgressInv
  OBVIOUS
<1>1. PICK D \in SUBSET Edges, W \in SUBSET Edges :
        /\ ScanReady(D, outputsReady)
        /\ Reached(outputsReady, W)
        /\ want = [e \in Edges |-> IF e \notin W THEN "none"
                                   ELSE IF e \in D THEN "toStart" ELSE "nothing"]
  BY Zenon DEF Init, PlanInit
<1>2. pc = "prepare"
  BY Zenon DEF Init
<1>3. \A e \in Edges : want[e] # "none" <=> e \in W
  BY <1>1, Zenon
<1>4. \A e \in Edges : want[e] = "nothing" => e \in W /\ e \notin D
  BY <1>1, Zenon
<1>5. \A e \in Edges : want[e] = "nothing" => ~AllInputsReady(e, outputsReady)
  BY <1>1, <1>4, Zenon DEF Reached, ScanReady
<1>6. \A e \in Edges : want[e] # "toFinish"
  BY <1>1, Zenon
<1>7. \A p, e \in Edges :
        want[e] # "none" /\ Feeds(p, e) => p \in outputsReady \/ want[p] # "none"
  BY <1>1, <1>3, Zenon DEF Reached
<1> QED BY <1>2, <1>5, <1>6, <1>7, Zenon DEF ProgressInv

(* A step that leaves the plan alone and takes no edge from its place.     *)
LEMMA ProgressKept ==
  ASSUME ProgressInv, UNCHANGED <<want, outputsReady>>,
         Building' => Building /\ \A e \in Edges : Placed(e) => Placed(e)',
         Building' => (pc = "prepare" <=> pc' = "prepare")
  PROVE  ProgressInv'
<1> SUFFICES ASSUME Building' PROVE ProgressInv'
  BY Zenon DEF ProgressInv
<1> QED BY Zenon DEF ProgressInv, Building

(* Every step leaves a way on.                                             *)
LEMMA NextProgress ==
  TypeOK /\ PlacementInv /\ ProgressInv /\ [Next]_vars => ProgressInv'
<1> SUFFICES ASSUME TypeOK, PlacementInv, ProgressInv, [Next]_vars
             PROVE  ProgressInv'
  OBVIOUS
<1>0. ready \in [Edges -> Nat] /\ starts \in [Edges -> Nat]
  BY TypeFacts, Zenon
<1>1. CASE PrepareQueue
  <2> DEFINE initial == {e \in Edges : /\ want[e] = "toStart"
                                       /\ AllInputsReady(e, outputsReady)}
             limited == {e \in initial : ShouldDelayEdge(e)}
             direct == initial \ limited
  <2>1. /\ want' = [e \in Edges |-> IF e \in direct THEN "toFinish"
                                                    ELSE want[e]]
        /\ Schedule(ready, currentUse, limited, delayed \cup limited, {}, direct)
        /\ pc = "prepare" /\ UNCHANGED outputsReady
    BY <1>1, Zenon DEF PrepareQueue, ScheduleInitialEdges
  <2>2. PICK T \in SUBSET (delayed \cup limited \cup {}) :
          /\ delayed' = (delayed \cup limited \cup {}) \ T
          /\ ready' = [e \in Edges |-> IF e \in T \cup direct THEN ready[e] + 1
                                                              ELSE ready[e]]
    BY <2>1, Zenon DEF Schedule
  <2>3. Building /\ \A e \in Edges : ~Placed(e)
    BY <2>1, Zenon DEF PlacementInv, Building
  <2>4. \A e \in Edges : want[e] # "toFinish"
    BY <2>1, <2>3, Zenon DEF ProgressInv
  <2>5. \A e \in initial : ready'[e] > 0 \/ e \in delayed'
    BY <1>0, <2>2
  <2>6. \A e \in Edges :
          /\ want'[e] = "toFinish" => e \in initial
          /\ IsWanted(want', e) <=> IsWanted(want, e)
          /\ want'[e] = "nothing" <=> want[e] = "nothing"
          /\ want'[e] = "none" <=> want[e] = "none"
    BY <2>1, <2>4, Zenon DEF IsWanted
  <2>7. \A e \in Edges : IsWanted(want, e) => want[e] = "toStart"
    BY <2>4, Zenon DEF IsWanted
  <2>8. pc' = "loop"
    BY <1>1, Zenon DEF PrepareQueue
  <2>9. \A e \in Edges :
          IsWanted(want', e) /\ AllInputsReady(e, outputsReady') => Placed(e)'
    BY <2>1, <2>5, <2>6, <2>7, Zenon DEF Placed
  <2>10. \A e \in Edges :
           /\ want'[e] = "nothing" => ~AllInputsReady(e, outputsReady')
           /\ want'[e] = "toFinish" => AllInputsReady(e, outputsReady')
    BY <2>1, <2>3, <2>6, Zenon DEF ProgressInv
  <2>11. \A p, e \in Edges :
           want'[e] # "none" /\ Feeds(p, e)
             => p \in outputsReady' \/ want'[p] # "none"
    BY <2>1, <2>3, <2>6, Zenon DEF ProgressInv
  <2> QED BY <2>8, <2>9, <2>10, <2>11, Zenon DEF ProgressInv
<1>2. CASE LoopHead \/ LoopExit \/ NoProgress \/ RecordCommand \/ UNCHANGED vars
           \/ OtherClient
  <2>1. /\ UNCHANGED <<want, outputsReady, ready, delayed, running, failed>>
        /\ pc' # "done" => pc # "done" /\ (pc = "prepare" <=> pc' = "prepare")
    BY <1>2, Zenon DEF LoopHead, LoopExit, NoProgress, RecordCommand,
                       OtherClient, vars, planVars, loopVars, Return
  <2> QED BY <2>1, ProgressKept, Zenon DEF Placed, Building
<1>3. CASE StopStarting
  <2>1. UNCHANGED <<want, outputsReady, ready, delayed>>
    BY <1>3, Zenon DEF StopStarting, planVars, FindNoToken
  <2>2. pc = "start" /\ pc' \in {"reap", "done"} /\ UNCHANGED <<running, failed>>
    BY <1>3, Zenon DEF StopStarting, Return
  <2> QED BY <2>1, <2>2, ProgressKept, Zenon DEF Placed, Building
<1>4. ASSUME NEW e \in Edges, NEW s \in SlotsFor(e), StartEdge(e, s)
      PROVE  ProgressInv'
  <2>1. /\ pc = "start" /\ running' = running \cup {e}
        /\ ready' = Popped(e)
        /\ UNCHANGED <<want, outputsReady, delayed, failed, pc>>
    BY <1>4, Zenon DEF StartEdge
  <2>2. \A f \in Edges : Placed(f) => Placed(f)'
    BY <1>0, <2>1, Zenon DEF Placed, Popped
  <2> QED BY <2>1, <2>2, ProgressKept, Zenon DEF Building
<1>5. ASSUME NEW e \in Edges, NEW s \in SlotsFor(e), StartPhony(e, s)
      PROVE  ProgressInv'
  <2>1. PICK c \in {AfterAcquire(s), Client} :
          /\ FindWork(e, s, c)
          /\ EdgeSucceeded(e, {}, Popped(e), [jobSlot EXCEPT ![e] = s], c)
    BY <1>5, Zenon DEF StartPhony
  <2>2. /\ ready[e] > 0 /\ Building /\ pc = "start" /\ pc' = pc
        /\ UNCHANGED <<running, failed>>
    BY <1>5, StartPhonyFacts, Zenon
  <2>3. IsWanted(want, e) /\ AllInputsReady(e, outputsReady)
    BY <2>2, QueuedFacts, Zenon
  <2>4. /\ Popped(e) \in [Edges -> Nat]
        /\ \A f \in Edges \ {e} : Popped(e)[f] = ready[f]
        /\ {} \in SUBSET Edges
        /\ running \ {e} \subseteq running'
    BY <1>0, <2>2 DEF Popped
  <2>5. pc # "prepare"
    BY <2>2, Zenon
  <2>6. /\ \A f \in Edges :
             /\ want'[f] = "nothing" => ~AllInputsReady(f, outputsReady')
             /\ want'[f] = "toFinish" => AllInputsReady(f, outputsReady')
        /\ \A p, f \in Edges :
             want'[f] # "none" /\ Feeds(p, f)
               => p \in outputsReady' \/ want'[p] # "none"
        /\ \A f \in Edges :
             IsWanted(want', f) /\ AllInputsReady(f, outputsReady')
               => Placed(f)'
    BY <2>1, <2>2, <2>3, <2>4, <2>5, EdgeSucceededProgress, Zenon
  <2> QED BY <2>2, <2>6, Zenon DEF ProgressInv
<1>6. ASSUME NEW e \in Edges, FinishCommand(e)
      PROVE  ProgressInv'
  <2>1. PICK K \in SUBSET Outs[e], C \in SUBSET Edges :
          /\ CleanNode(K, C)
          /\ EdgeSucceeded(e, C, ready, jobSlot, Client)
    BY <1>6, Zenon DEF FinishCommand
  <2>2. /\ e \in running /\ Building /\ pc # "prepare" /\ pc' = "record"
        /\ running \ {e} \subseteq running'
        /\ UNCHANGED failed
    BY <1>6, Zenon DEF FinishCommand, Building
  <2>3. IsWanted(want, e) /\ AllInputsReady(e, outputsReady)
    BY <2>2, RunningFacts, Zenon
  <2>4. \A f \in C : /\ IsWanted(want, f)
                     /\ \E p \in C \cup {e} : Feeds(p, f)
    BY <2>1, CleanNodeFacts, Zenon
  <2>5. \A f \in Edges \ {e} : ready[f] = ready[f]
    OBVIOUS
  <2>6. /\ \A f \in Edges :
             /\ want'[f] = "nothing" => ~AllInputsReady(f, outputsReady')
             /\ want'[f] = "toFinish" => AllInputsReady(f, outputsReady')
        /\ \A p, f \in Edges :
             want'[f] # "none" /\ Feeds(p, f)
               => p \in outputsReady' \/ want'[p] # "none"
        /\ \A f \in Edges :
             IsWanted(want', f) /\ AllInputsReady(f, outputsReady')
               => Placed(f)'
    BY <1>0, <2>1, <2>2, <2>3, <2>4, <2>5, EdgeSucceededProgress, Zenon
  <2> QED BY <2>2, <2>6, Zenon DEF ProgressInv
<1>7. ASSUME NEW e \in Edges, FinishFailed(e)
      PROVE  ProgressInv'
  <2>1. /\ e \in running /\ pc = "reap" /\ pc' = "loop"
        /\ running' = running \ {e} /\ failed' = failed \cup {e}
        /\ Schedule(ready, UseAfter(e, want), {e}, delayed, {}, {})
        /\ UNCHANGED <<want, outputsReady>>
    BY <1>7, Zenon DEF FinishFailed, EdgeFailed
  <2>2. PICK T \in SUBSET (delayed \cup {}) :
          /\ delayed' = (delayed \cup {}) \ T
          /\ ready' = [f \in Edges |-> IF f \in T \cup {} THEN ready[f] + 1
                                                          ELSE ready[f]]
    BY <2>1, Zenon DEF Schedule
  <2>3. \A f \in Edges : Placed(f) => Placed(f)'
    BY <1>0, <2>1, <2>2 DEF Placed
  <2> QED BY <2>1, <2>3, ProgressKept, Zenon DEF Building
<1>8. CASE FaultStep
  <2>1. pc' = "done"
    BY <1>8, Zenon
    DEF FaultStep, StartFails, StatFails, RecordFails, Interrupted, Return
  <2> QED BY <2>1, Zenon DEF ProgressInv, Building
<1> QED
  BY <1>1, <1>2, <1>3, <1>4, <1>5, <1>6, <1>7, <1>8
  DEF Next, BuildStep, Returned

-----------------------------------------------------------------------------
(* The implicit slot of the jobserver client.                              *)

(* Releasing slots never loses the implicit one.                           *)
LEMMA ReleaseImplicit ==
  ASSUME NEW c, NEW S, NEW slot, ReleaseSlots(c, S, slot)
  PROVE  /\ c.implicit => hasImplicitSlot'
         /\ UseJobserver /\ (\E e \in S : slot[e] = ImplicitSlot)
              => hasImplicitSlot'
BY Zenon DEF ReleaseSlots, SetClient, AfterRelease

(* The implicit slot is one the client sees.                               *)
LEMMA ClientImplicit == hasImplicitSlot => Client.implicit
BY Zenon DEF Client

(* Only taking the implicit slot loses it.                                 *)
LEMMA AcquireImplicit ==
  ASSUME NEW e, NEW s, NEW c, FindWork(e, s, c), hasImplicitSlot,
         ~(UseJobserver /\ s = ImplicitSlot)
  PROVE  c.implicit
<1>1. CASE UseJobserver
  <2>1. c = AfterAcquire(s) /\ s # ImplicitSlot
    BY <1>1, Zenon DEF FindWork
  <2>2. AfterAcquire(s).implicit = (hasImplicitSlot /\ s # ImplicitSlot)
    BY Zenon DEF AfterAcquire
  <2> QED BY <2>1, <2>2, Zenon
<1>2. CASE ~UseJobserver
  <2>1. c = Client
    BY <1>2, Zenon DEF FindWork
  <2> QED BY <2>1, ClientImplicit, Zenon
<1> QED BY <1>1, <1>2, Zenon

(* A step that neither takes the implicit slot nor ends the command that   *)
(* holds it.                                                               *)
LEMMA SlotKept ==
  ASSUME SlotInv, Building' => Building, hasImplicitSlot => hasImplicitSlot',
         Building' => \A e \in running : jobSlot[e] = ImplicitSlot =>
                        e \in running' /\ jobSlot'[e] = ImplicitSlot
  PROVE  SlotInv'
BY Zenon DEF SlotInv

(* Every step keeps the invariant of the slots.                            *)
LEMMA NextSlot ==
  TypeOK /\ PlacementInv /\ SlotInv /\ [Next]_vars => SlotInv'
<1> SUFFICES ASSUME TypeOK, PlacementInv, SlotInv, [Next]_vars PROVE SlotInv'
  OBVIOUS
<1>0. /\ jobSlot \in [Edges -> Slots] /\ running \subseteq Edges
      /\ \A e \in Edges : ready[e] > 0 => e \notin running
  <2>1. /\ jobSlot \in [Edges -> Slots] /\ running \subseteq Edges
        /\ ready \in [Edges -> Nat] /\ starts \in [Edges -> Nat]
    BY TypeFacts, Zenon
  <2>2. /\ \A e \in running : starts[e] > 0
        /\ \A e \in Edges : ready[e] + starts[e] <= 1
    BY Zenon DEF PlacementInv, StartedOnce
  <2> QED BY <2>1, <2>2
<1>1. CASE PrepareQueue \/ LoopHead \/ LoopExit \/ NoProgress \/ RecordCommand
           \/ UNCHANGED vars \/ OtherClient
  <2>1. /\ UNCHANGED <<hasImplicitSlot, jobSlot, running>>
        /\ Building' => Building
    BY <1>1, Zenon DEF PrepareQueue, ScheduleInitialEdges, LoopHead, LoopExit,
                NoProgress, RecordCommand, OtherClient, OtherTakes,
                OtherReturns, vars, planVars, jobserverVars, loopVars, Building
  <2> QED BY <2>1, SlotKept, Zenon
<1>2. CASE StopStarting
  <2>1. Building /\ UNCHANGED <<hasImplicitSlot, running>>
    BY <1>2, Zenon DEF StopStarting, FindNoToken, jobserverVars, Building
  <2>2. \/ UNCHANGED jobSlot
        \/ \E e \in Edges : ready[e] > 0
                            /\ jobSlot' = [jobSlot EXCEPT ![e] = InvalidSlot]
    BY <1>2, Zenon DEF StopStarting, FindNoToken, IsTop, planVars
  <2>3. \A f \in running : jobSlot'[f] = jobSlot[f]
    BY <1>0, <2>2, Zenon
  <2> QED BY <2>1, <2>3, SlotKept, Zenon
<1>3. ASSUME NEW e \in Edges, NEW s \in SlotsFor(e), StartEdge(e, s)
      PROVE  SlotInv'
  <2>1. PICK c : FindWork(e, s, c) /\ SetClient(c)
    BY <1>3, Zenon DEF StartEdge
  <2>2. /\ running' = running \cup {e} /\ Building
        /\ jobSlot' = [jobSlot EXCEPT ![e] = s]
    BY <1>3, Zenon DEF StartEdge, Building
  <2>3. e \notin running
    BY <1>0, <2>1, Zenon DEF FindWork, IsTop
  <2>4. \A f \in running : f \in running' /\ jobSlot'[f] = jobSlot[f]
    BY <1>0, <2>2, <2>3, Zenon
  <2>5. e \in running' /\ jobSlot'[e] = s
    BY <1>0, <2>2, Zenon
  <2>6. hasImplicitSlot' = c.implicit
    BY <2>1, Zenon DEF SetClient
  <2>7. CASE UseJobserver /\ s = ImplicitSlot
    BY <2>5, <2>7, Zenon DEF SlotInv
  <2>8. CASE ~(UseJobserver /\ s = ImplicitSlot)
    <3>1. hasImplicitSlot => c.implicit
      BY <2>1, <2>8, AcquireImplicit, Zenon
    <3>2. hasImplicitSlot => hasImplicitSlot'
      BY <2>6, <3>1, Zenon
    <3> QED BY <2>2, <2>4, <3>2, SlotKept, Zenon
  <2> QED BY <2>7, <2>8, Zenon
<1>4. ASSUME NEW e \in Edges, NEW s \in SlotsFor(e), StartPhony(e, s)
      PROVE  SlotInv'
  <2>1. PICK c \in {AfterAcquire(s), Client} :
          /\ FindWork(e, s, c)
          /\ EdgeSucceeded(e, {}, Popped(e), [jobSlot EXCEPT ![e] = s], c)
    BY <1>4, Zenon DEF StartPhony
  <2>2. Building /\ UNCHANGED running
    BY <1>4, Zenon DEF StartPhony, loopVars, Building
  <2>3. PICK F : /\ F = Finishing(e, WantAfterClean({}))
                 /\ ReleaseSlots(c, F, [jobSlot EXCEPT ![e] = s])
                 /\ jobSlot' = [jobSlot EXCEPT ![e] = s]
    BY <2>1, Zenon DEF EdgeSucceeded
  <2>4. e \in F
    BY <2>3, FinishingFacts, Zenon
  <2>5. e \notin running
    BY <1>0, <2>1, Zenon DEF FindWork, IsTop
  <2>6. /\ [jobSlot EXCEPT ![e] = s][e] = s
        /\ \A f \in running : jobSlot'[f] = jobSlot[f]
    BY <1>0, <2>3, <2>5, Zenon
  <2>7. hasImplicitSlot => hasImplicitSlot'
    <3>1. /\ c.implicit => hasImplicitSlot'
          /\ UseJobserver /\ (\E f \in F : [jobSlot EXCEPT ![e] = s][f]
                                             = ImplicitSlot)
               => hasImplicitSlot'
      BY <2>3, ReleaseImplicit, Zenon
    <3>2. hasImplicitSlot /\ ~(UseJobserver /\ s = ImplicitSlot) => c.implicit
      BY <2>1, AcquireImplicit, Zenon
    <3>3. CASE UseJobserver /\ s = ImplicitSlot
      BY <2>4, <2>6, <3>1, <3>3, Zenon
    <3>4. CASE ~(UseJobserver /\ s = ImplicitSlot)
      BY <3>1, <3>2, <3>4, Zenon
    <3> QED BY <3>3, <3>4, Zenon
  <2> QED BY <2>2, <2>6, <2>7, SlotKept, Zenon
<1>5. ASSUME NEW e \in Edges, e \in running, NEW F, e \in F, Building,
             ReleaseSlots(Client, F, jobSlot), running' = running \ {e},
             UNCHANGED jobSlot
      PROVE  SlotInv'
  <2>1. hasImplicitSlot => hasImplicitSlot'
    BY <1>5, ClientImplicit, ReleaseImplicit, Zenon
  <2>2. CASE UseJobserver /\ jobSlot[e] = ImplicitSlot
    <3>1. hasImplicitSlot'
      BY <1>5, <2>2, ReleaseImplicit, Zenon
    <3> QED BY <3>1, Zenon DEF SlotInv
  <2>3. CASE UseJobserver /\ jobSlot[e] # ImplicitSlot
    BY <1>5, <2>1, <2>3, SlotKept, Zenon
  <2>4. CASE ~UseJobserver
    BY <1>5, <2>1, <2>4, Zenon DEF SlotInv
  <2> QED BY <2>2, <2>3, <2>4, Zenon
<1>6. ASSUME NEW e \in Edges, FinishCommand(e)
      PROVE  SlotInv'
  <2>1. PICK C \in SUBSET Edges : EdgeSucceeded(e, C, ready, jobSlot, Client)
    BY <1>6, Zenon DEF FinishCommand
  <2>2. e \in running /\ Building /\ running' = running \ {e}
    BY <1>6, Zenon DEF FinishCommand, Building
  <2>3. PICK F : /\ F = Finishing(e, WantAfterClean(C))
                 /\ ReleaseSlots(Client, F, jobSlot)
                 /\ UNCHANGED jobSlot
    BY <2>1, Zenon DEF EdgeSucceeded
  <2>4. e \in F
    BY <2>3, FinishingFacts, Zenon
  <2> QED BY <1>5, <2>2, <2>3, <2>4, Zenon
<1>7. ASSUME NEW e \in Edges, FinishFailed(e)
      PROVE  SlotInv'
  <2>1. /\ e \in running /\ Building /\ running' = running \ {e}
        /\ ReleaseSlots(Client, {e}, jobSlot) /\ UNCHANGED jobSlot
    BY <1>7, Zenon DEF FinishFailed, EdgeFailed, Building
  <2> QED BY <1>5, <2>1, Zenon
<1>8. CASE FaultStep
  <2>1. pc' = "done"
    BY <1>8, Zenon
    DEF FaultStep, StartFails, StatFails, RecordFails, Interrupted, Return
  <2> QED BY <2>1, Zenon DEF SlotInv, Building
<1> QED
  BY <1>1, <1>2, <1>3, <1>4, <1>6, <1>7, <1>8, Zenon DEF Next, BuildStep, Returned

-----------------------------------------------------------------------------
(* The result.                                                             *)

(* In a build in which nothing failed, nothing runs and nothing is queued, *)
(* the plan is empty: an edge of it that no other edge of it feeds would   *)
(* have been placed, and could only wait for a pool that is empty.         *)
LEMMA IdlePlanIsEmpty ==
  ASSUME TypeOK, PoolInv, ProgressInv, Building, pc # "prepare",
         running = {}, failed = {}, \A e \in Edges : ready[e] = 0
  PROVE  \A e \in Edges : want[e] = "none"
<1> DEFINE S == {e \in Edges : want[e] # "none"}
<1> SUFFICES ASSUME S # {} PROVE FALSE
  OBVIOUS
<1>1. PICK e \in S : \A p \in S : ~Feeds(p, e)
  <2>1. S \in SUBSET Edges
    OBVIOUS
  <2> QED BY <2>1, AcyclicAssumption, Zenon
<1>2. e \in Edges /\ want[e] \in Wants \ {"none"}
  BY TypeFacts, Zenon
<1>3. AllInputsReady(e, outputsReady)
  BY <1>1, <1>2, Zenon DEF ProgressInv, AllInputsReady
<1>4. IsWanted(want, e)
  BY <1>2, <1>3, Zenon DEF ProgressInv, IsWanted, Wants
<1>5. Placed(e)
  BY <1>2, <1>3, <1>4, Zenon DEF ProgressInv
<1>6. e \in delayed
  BY <1>2, <1>5 DEF Placed
<1>7. PoolOf[e] \in Pools /\ Depth[PoolOf[e]] \in Nat
  BY <1>2, PlanAssumption, Zenon DEF PlanAssumption
<1>8. Depth[PoolOf[e]] # 0 /\ currentUse[PoolOf[e]] >= Depth[PoolOf[e]]
  BY <1>6, Zenon DEF PoolInv, DelayedOnlyWhenFull, ShouldDelayEdge
<1>9. currentUse[PoolOf[e]] = Cardinality(Occupying(PoolOf[e]))
  BY <1>7, <1>8, Zenon DEF PoolInv, PoolsRespected
<1>10. Occupying(PoolOf[e]) = {}
  BY DEF Occupying, InPool
<1>11. currentUse[PoolOf[e]] = 0
  BY <1>9, <1>10, FS_EmptySet, Zenon
<1>12. \A d \in Nat : 0 >= d => d = 0
  OBVIOUS
<1> QED BY <1>7, <1>8, <1>11, <1>12, Zenon

(* When the inner loop of Build ends and the build goes on, some command   *)
(* runs or has failed.                                                     *)
LEMMA SomethingRuns ==
  ASSUME TypeOK, PlacementInv, CountInv, PoolInv, LoopInv, ProgressInv, SlotInv,
         StopStarting, pc' = "reap", failuresAllowed = FailuresAllowed
  PROVE  running # {}
<1> SUFFICES ASSUME running = {} PROVE FALSE
  OBVIOUS
<1>1. pc = "start" /\ Building
  BY Zenon DEF StopStarting, Building
<1>2. capacity \in Int /\ capacity > 0
  BY <1>1, TypeFacts, Zenon DEF LoopInv
<1>3. failed = {}
  BY <1>1, Zenon DEF LoopInv, CountInv
<1>4. pendingCommands = 0
  BY <1>1, FS_EmptySet, Zenon DEF CountInv
<1>5. MoreToDo
  BY <1>4, Zenon DEF StopStarting, Return
<1>6. CASE FindNoToken
  <2>1. hasImplicitSlot
    BY <1>1, Zenon DEF SlotInv
  <2>2. TryAcquire = {ImplicitSlot} /\ TryAcquire = {InvalidSlot}
    BY <1>6, <2>1, Zenon DEF FindNoToken, TryAcquire
  <2>3. ImplicitSlot # InvalidSlot
    BY DEF ImplicitSlot, InvalidSlot
  <2> QED BY <2>2, <2>3, Zenon
<1>7. CASE \A e \in Edges : ready[e] = 0
  <2>1. \A e \in Edges : want[e] = "none"
    BY <1>1, <1>3, <1>7, IdlePlanIsEmpty, Zenon
  <2>2. {e \in Edges : IsWanted(want, e)} = {}
    BY <2>1, Zenon DEF IsWanted
  <2>3. wantedEdges = 0
    BY <2>2, FS_EmptySet, Zenon DEF CountInv, WantedEdgesCounted
  <2> QED BY <1>5, <2>3 DEF MoreToDo
<1> QED BY <1>2, <1>6, <1>7 DEF StopStarting

(* Build returns success when MoreToDo says that nothing is left.          *)
LEMMA ReturnSuccess ==
  ASSUME TypeOK, PlacementInv, CountInv, ~MoreToDo, Return("success", "nil"),
         UNCHANGED <<want, running, failed>>
  PROVE  ResultInv'
<1>1. WantedCommands = {} /\ running = {} /\ failed = {}
  BY NothingLeft, Zenon
<1>2. result'.status = "success" /\ result'.error = "nil" /\ pc' = "done"
  BY Zenon DEF Return
<1>3. \A e \in Edges \ Phony : ~IsWanted(want', e)
  BY <1>1, Zenon DEF WantedCommands
<1> QED BY <1>1, <1>2, <1>3, Zenon
  DEF ResultInv, NeverStuck, SuccessIsComplete, Building

(* Build returns an error.                                                 *)
LEMMA ReturnError ==
  ASSUME NEW status, NEW error, Return(status, error), status # "success",
         error \notin {"nil", "stuck"}
  PROVE  ResultInv'
<1>1. result'.status = status /\ result'.error = error /\ pc' = "done"
  BY Zenon DEF Return
<1> QED BY <1>1, Zenon DEF ResultInv, NeverStuck, SuccessIsComplete

(* A step of a build that goes on.                                         *)
LEMMA ResultPending ==
  ASSUME CountInv, ResultInv, Building, Building', UNCHANGED result,
         pc' = "reap" => \/ running' # {}
                         \/ failuresAllowed' < FailuresAllowed
  PROVE  ResultInv'
<1>1. result.status = "none"
  BY Zenon DEF CountInv
<1> QED BY <1>1, Zenon DEF ResultInv, NeverStuck, SuccessIsComplete

(* Every step keeps the invariant of the result.                           *)
LEMMA NextResult ==
  /\ TypeOK /\ PlacementInv /\ CountInv /\ PoolInv /\ LoopInv
  /\ ProgressInv /\ SlotInv /\ ResultInv /\ [Next]_vars
  => ResultInv'
<1> SUFFICES ASSUME TypeOK, PlacementInv, CountInv, PoolInv, LoopInv,
                    ProgressInv, SlotInv, ResultInv, [Next]_vars
             PROVE  ResultInv'
  OBVIOUS
<1>0. failuresAllowed \in Nat /\ FailuresAllowed \in Nat \ {0}
  BY BuilderAssumption, TypeFacts, Zenon DEF BuilderAssumption
<1>1. CASE PrepareQueue \/ RecordCommand
  <2>1. Building /\ pc' = "loop" /\ UNCHANGED result
    BY <1>1, Zenon DEF PrepareQueue, RecordCommand, Building
  <2> QED BY <2>1, ResultPending, Zenon DEF Building
<1>2. CASE LoopHead
  <2>1. /\ Building /\ Building' /\ UNCHANGED <<result, failuresAllowed>>
        /\ pc' = "reap" => ~(failuresAllowed > 0)
    BY <1>2, Zenon DEF LoopHead, Building
  <2> QED BY <1>0, <2>1, ResultPending
<1>3. CASE LoopExit
  <2>1. /\ ~MoreToDo /\ Return("success", "nil")
        /\ UNCHANGED <<want, running, failed>>
    BY <1>3, Zenon DEF LoopExit, planVars
  <2> QED BY <2>1, ReturnSuccess, Zenon
<1>4. CASE StopStarting
  <2>1. /\ pc = "start" /\ UNCHANGED <<running, failed, failuresAllowed>>
        /\ \/ ~MoreToDo /\ Return("success", "nil")
           \/ pc' = "reap" /\ UNCHANGED result
    BY <1>4, Zenon DEF StopStarting
  <2>2. CASE ~MoreToDo /\ Return("success", "nil")
    <3>1. UNCHANGED want
      BY <1>4, Zenon DEF StopStarting, planVars, FindNoToken
    <3> QED BY <2>1, <2>2, <3>1, ReturnSuccess, Zenon
  <2>3. CASE pc' = "reap" /\ UNCHANGED result
    <3>1. running' # {} \/ failuresAllowed' < FailuresAllowed
      BY <1>0, <1>4, <2>1, <2>3, SomethingRuns DEF LoopInv
    <3> QED BY <2>1, <2>3, <3>1, ResultPending, Zenon DEF Building
  <2> QED BY <2>1, <2>2, <2>3, Zenon
<1>5. CASE NoProgress
  <2>1. pc = "reap" /\ pendingCommands = 0 /\ Building
    BY <1>5, Zenon DEF NoProgress, Building
  <2>2. running = {}
    BY <2>1, CardinalityOfEdges, FS_EmptySet, TypeFacts, Zenon DEF CountInv
  <2>3. failuresAllowed < FailuresAllowed
    BY <2>1, <2>2, Zenon DEF ResultInv
  <2>4. exitCode # "success"
    BY <1>0, <2>1, <2>3 DEF LoopInv
  <2>5. \E error \in {"subcommand failed", "cannot make progress"} :
          Return(exitCode, error)
    BY <1>5, <2>3, Zenon DEF NoProgress
  <2> QED BY <2>4, <2>5, ReturnError, Zenon
<1>6. ASSUME NEW e \in Edges, NEW s \in SlotsFor(e),
             StartEdge(e, s) \/ StartPhony(e, s)
      PROVE  ResultInv'
  <2>1. pc = "start" /\ UNCHANGED <<pc, result>>
    BY <1>6, Zenon DEF StartEdge, StartPhony, loopVars
  <2> QED BY <2>1, ResultPending, Zenon DEF Building
<1>7. ASSUME NEW e \in Edges, FinishCommand(e) \/ FinishFailed(e)
      PROVE  ResultInv'
  <2>1. pc = "reap" /\ pc' \in {"record", "loop"} /\ UNCHANGED result
    BY <1>7, Zenon DEF FinishCommand, FinishFailed
  <2> QED BY <2>1, ResultPending, Zenon DEF Building
<1>8. CASE FaultStep
  <2>1. \/ Return("failure", "start") \/ Return("failure", "finish")
        \/ Return("interrupted", "interrupted")
    BY <1>8, Zenon
    DEF FaultStep, StartFails, StatFails, RecordFails, Interrupted
  <2> QED BY <2>1, ReturnError, Zenon
<1>9. CASE OtherClient \/ UNCHANGED vars
  <2>1. UNCHANGED <<want, loopVars>>
    BY <1>9, Zenon DEF OtherClient, vars, planVars
  <2>2. UNCHANGED <<want, pc, running, failed, failuresAllowed, result>>
    BY <2>1, Zenon DEF loopVars
  <2> QED BY <2>2, Zenon
    DEF ResultInv, NeverStuck, SuccessIsComplete, Building, IsWanted
<1> QED
  BY <1>1, <1>2, <1>3, <1>4, <1>5, <1>6, <1>7, <1>8, <1>9, Zenon
  DEF Next, BuildStep, Returned

(* There is no result initially.                                           *)
LEMMA InitResult == Init => SlotInv /\ ResultInv
<1> SUFFICES ASSUME Init PROVE SlotInv /\ ResultInv
  OBVIOUS
<1>1. /\ hasImplicitSlot = TRUE /\ pc = "prepare"
      /\ result.status = "none" /\ result.error = "nil"
  BY Zenon DEF Init, JobserverInit, NoResult
<1> QED BY <1>1, Zenon
  DEF SlotInv, ResultInv, NeverStuck, SuccessIsComplete, Building

(* The invariant of the result holds.                                      *)
LEMMA ResultCorrect == Spec => []ResultInv
<1> DEFINE IInv == /\ TypeOK /\ PlacementInv /\ CountInv /\ PoolInv
                   /\ LoopInv /\ ProgressInv /\ SlotInv /\ ResultInv
<1>1. Init => IInv
  BY InitType, InitPlacement, InitCount, InitPools, InitLoop, InitProgress,
     InitResult, Zenon
<1>2. IInv /\ [Next]_vars => IInv'
  BY NextType, NextPlacement, NextCount, NextPools, NextLoop, NextProgress,
     NextSlot, NextResult, Zenon
<1>3. IInv => ResultInv
  OBVIOUS
<1> HIDE DEF IInv
<1> QED BY <1>1, <1>2, <1>3, PTL DEF Spec

(* Build never ends in the state it calls "stuck [this is a bug]", for     *)
(* every acyclic graph, set of pools, parallelism, load and jobserver.     *)
THEOREM BuildIsNeverStuck == Spec => []NeverStuck
<1>1. ResultInv => NeverStuck
  BY Zenon DEF ResultInv
<1> QED BY <1>1, ResultCorrect, PTL

(* Build reports success only when every wanted command has succeeded, and *)
(* exactly when it returns no error.                                       *)
THEOREM SuccessMeansBuilt == Spec => []SuccessIsComplete
<1>1. ResultInv => SuccessIsComplete
  BY Zenon DEF ResultInv
<1> QED BY <1>1, ResultCorrect, PTL
=============================================================================
