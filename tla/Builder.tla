------------------------------ MODULE Builder -------------------------------
(***************************************************************************)
(* Builder.Build of internal/build/build.go with the local command runner  *)
(* (RealCommandRunner of internal/build/command_runner.go): start as many  *)
(* commands as the runner has capacity for, wait for one to finish, start  *)
(* over.  The builder is one thread; the commands it started run and exit  *)
(* on their own, and other processes take and return jobserver tokens.     *)
(***************************************************************************)
EXTENDS Plan

CONSTANTS
  Parallelism,      \* Config.Parallelism (-j)
  FailuresAllowed,  \* Config.FailuresAllowed (-k)
  Loads,            \* what int(MaxLoadAverage - load) may be; {}: no -l
  Restat,           \* the edges with a restat binding
  Faults            \* which errors may happen: see the actions

ASSUME BuilderAssumption ==
  /\ Parallelism \in Nat \ {0}
  /\ FailuresAllowed \in Nat \ {0}
  /\ Loads \subseteq Int
  /\ Restat \subseteq Edges
  /\ Faults \subseteq {"command", "start", "stat", "record", "interrupt"}

VARIABLES
  pc,               \* where Build is
  capacity,         \* the local variable of that name
  pendingCommands,  \* the local variable of that name
  failuresAllowed,  \* the local variable of that name
  running,          \* the edges in RealCommandRunner.subprocToEdge
  exitCode,         \* Builder.exitCode
  result,           \* what Build returned, "none" before it does
  starts,           \* history: how often StartCommand was called per edge
  failed            \* history: the edges whose command failed

loopVars == <<pc, capacity, pendingCommands, failuresAllowed, running,
              exitCode, result, starts, failed>>

vars == <<planVars, jobserverVars, loopVars>>

(* Build's return value: an exit status and an error.                      *)
Statuses == {"success", "failure", "interrupted"}

Errors == {"nil", "subcommand failed", "cannot make progress", "stuck",
           "interrupted", "start", "finish"}

NoResult == [status |-> "none", error |-> "nil"]

Results == [status : Statuses, error : Errors] \cup {NoResult}

Return(status, error) ==
  /\ pc' = "done"
  /\ result' = [status |-> status, error |-> error]

Init ==
  /\ PlanInit
  /\ MoreToDo
  /\ JobserverInit
  /\ pc = "prepare"
  /\ capacity = 0
  /\ pendingCommands = 0
  /\ failuresAllowed = FailuresAllowed
  /\ running = {}
  /\ exitCode = "success"
  /\ result = NoResult
  /\ starts = [e \in Edges |-> 0]
  /\ failed = {}

-----------------------------------------------------------------------------
(* The command runner.                                                     *)

Unbounded == Cardinality(Edges) + 1

(* Mutant: CanRunMore is off by one.                                       *)
CanRunOneMore(n, idle) == {Parallelism - n + 1}

(* CanRunMore with n processes started and not yet reported; idle: none of *)
(* them is still in Set.running.  One value for every load average.        *)
CanRunMore(n, idle) ==
  LET free == IF UseJobserver THEN Unbounded ELSE Parallelism - n
      least(a, b) == IF a < b THEN a ELSE b
      limits == IF Loads = {} THEN {free} ELSE {least(free, l) : l \in Loads}
  IN  {IF l > 0 THEN l ELSE IF idle THEN 1 ELSE 0 : l \in limits}

(* RealCommandRunner.Abort, reached from Builder.Cleanup: the tokens of    *)
(* the edges that are still active go back and their processes are killed. *)
Abort(active, slot, c) ==
  /\ ReleaseSlots(c, active, slot)
  /\ running' = {}

-----------------------------------------------------------------------------
(* One action per step of Build.                                           *)

PrepareQueue ==
  /\ pc = "prepare"
  /\ ScheduleInitialEdges
  /\ pc' = "loop"
  /\ UNCHANGED <<capacity, pendingCommands, failuresAllowed, running, exitCode,
                 result, starts, failed>>

(* Mutant: the loop starts commands although the budget of failures is     *)
(* spent.                                                                  *)
KeepStarting ==
  /\ pc = "loop"
  /\ MoreToDo
  /\ pc' = "start"
  /\ capacity' \in CanRunMore(Cardinality(running), FALSE)
  /\ UNCHANGED <<planVars, jobserverVars, pendingCommands, failuresAllowed,
                 running, exitCode, result, starts, failed>>

(* The head of the main loop: commands that have exited may all have been  *)
(* swept into Set.finished already.                                        *)
LoopHead ==
  /\ pc = "loop"
  /\ MoreToDo
  /\ IF failuresAllowed > 0
     THEN /\ pc' = "start"
          /\ \E idle \in BOOLEAN : /\ running = {} => idle
                                   /\ capacity' \in CanRunMore(
                                        Cardinality(running), idle)
     ELSE /\ pc' = "reap"
          /\ UNCHANGED capacity
  /\ UNCHANGED <<planVars, jobserverVars, pendingCommands, failuresAllowed,
                 running, exitCode, result, starts, failed>>

LoopExit ==
  /\ pc = "loop"
  /\ ~MoreToDo
  /\ Return("success", "nil")
  /\ UNCHANGED <<planVars, jobserverVars, capacity, pendingCommands,
                 failuresAllowed, running, exitCode, starts, failed>>

(* FindWork yields a command and StartEdge starts it.                      *)
StartEdge(e, s) ==
  /\ pc = "start"
  /\ capacity > 0
  /\ e \notin Phony
  /\ \E c \in {AfterAcquire(s), Client} : FindWork(e, s, c) /\ SetClient(c)
  /\ ready' = Popped(e)
  /\ jobSlot' = [jobSlot EXCEPT ![e] = s]
  /\ running' = running \cup {e}
  /\ starts' = [starts EXCEPT ![e] = @ + 1]
  /\ pendingCommands' = pendingCommands + 1
  /\ \E n \in CanRunMore(Cardinality(running \cup {e}), FALSE) :
       capacity' = IF n < capacity - 1 THEN n ELSE capacity - 1
  /\ UNCHANGED <<want, outputsReady, dirty, currentUse, delayed, wantedEdges,
                 commandEdges, pc, failuresAllowed, exitCode, result, failed>>

(* FindWork yields a phony edge, which is finished on the spot.            *)
StartPhony(e, s) ==
  /\ pc = "start"
  /\ capacity > 0
  /\ e \in Phony
  /\ \E c \in {AfterAcquire(s), Client} :
       /\ FindWork(e, s, c)
       /\ EdgeSucceeded(e, {}, Popped(e), [jobSlot EXCEPT ![e] = s], c)
  /\ UNCHANGED <<dirty, loopVars>>

(* StartEdge fails: a directory or the response file cannot be written, or *)
(* the process cannot be created.  The edge is not active when Cleanup     *)
(* runs.                                                                   *)
StartFails(e, s) ==
  /\ "start" \in Faults
  /\ pc = "start"
  /\ capacity > 0
  /\ e \notin Phony
  /\ \E c \in {AfterAcquire(s), Client} :
       /\ FindWork(e, s, c)
       /\ Abort(running, jobSlot, c)
  /\ ready' = Popped(e)
  /\ jobSlot' = [jobSlot EXCEPT ![e] = s]
  /\ Return("failure", "start")
  /\ UNCHANGED <<want, outputsReady, dirty, currentUse, delayed, wantedEdges,
                 commandEdges, capacity, pendingCommands, failuresAllowed,
                 exitCode, starts, failed>>

(* The inner loop ends: no capacity, nothing ready, or no token.           *)
StopStarting ==
  /\ pc = "start"
  /\ \/ /\ capacity = 0 \/ \A e \in Edges : ready[e] = 0
        /\ UNCHANGED <<planVars, jobserverVars>>
     \/ /\ capacity > 0
        /\ FindNoToken
  /\ IF pendingCommands = 0 /\ ~MoreToDo
     THEN Return("success", "nil")
     ELSE pc' = "reap" /\ UNCHANGED result
  /\ UNCHANGED <<capacity, pendingCommands, failuresAllowed, running, exitCode,
                 starts, failed>>

(* Mutant: the budget is decremented below zero.                           *)
BudgetUnchecked == failuresAllowed - 1

(* The budget of failures after one more.                                  *)
BudgetAfterFailure == IF failuresAllowed > 0 THEN failuresAllowed - 1 ELSE 0

(* WaitForCommand reports a failed command, or ExtractDeps fails.          *)
FinishFailed(e) ==
  /\ "command" \in Faults
  /\ pc = "reap"
  /\ e \in running
  /\ EdgeFailed(e)
  /\ running' = running \ {e}
  /\ failed' = failed \cup {e}
  /\ pendingCommands' = pendingCommands - 1
  /\ failuresAllowed' = BudgetAfterFailure
  /\ exitCode' = "failure"
  /\ pc' = "loop"
  /\ UNCHANGED <<capacity, result, starts>>

(* WaitForCommand reports a successful command and FinishCommand hands it  *)
(* to the plan, having cleaned the outputs a restat rule left unchanged.   *)
FinishCommand(e) ==
  /\ pc = "reap"
  /\ e \in running
  /\ \E K \in SUBSET Outs[e], C \in SUBSET Edges :
       /\ K # {} => e \in Restat
       /\ CleanNode(K, C)
       /\ EdgeSucceeded(e, C, ready, jobSlot, Client)
  /\ running' = running \ {e}
  /\ pendingCommands' = pendingCommands - 1
  /\ pc' = "record"
  /\ UNCHANGED <<capacity, failuresAllowed, exitCode, result, starts, failed>>

(* ... then records it in the build log and the deps log.                  *)
RecordCommand ==
  /\ pc = "record"
  /\ pc' = "loop"
  /\ UNCHANGED <<planVars, jobserverVars, capacity, pendingCommands,
                 failuresAllowed, running, exitCode, result, starts, failed>>

(* FinishCommand fails: an output cannot be stat'ed, after CleanNode was   *)
(* called for some of the others and before the plan hears of the edge, or *)
(* a log cannot be written, after it.                                      *)
StatFails(e) ==
  /\ "stat" \in Faults
  /\ pc = "reap"
  /\ e \in running
  /\ \E K \in (SUBSET Outs[e]) \ {Outs[e]}, C \in SUBSET Edges :
       /\ K # {} => e \in Restat
       /\ CleanNode(K, C)
       /\ want' = WantAfterClean(C)
       /\ wantedEdges' = wantedEdges - Cardinality(C)
       /\ commandEdges' = commandEdges - Cardinality(C \ Phony)
  /\ Abort(running \ {e}, jobSlot, Client)
  /\ pendingCommands' = pendingCommands - 1
  /\ exitCode' = "failure"
  /\ Return("failure", "finish")
  /\ UNCHANGED <<outputsReady, ready, currentUse, delayed, jobSlot, capacity,
                 failuresAllowed, starts, failed>>

RecordFails ==
  /\ "record" \in Faults
  /\ pc = "record"
  /\ Abort(running, jobSlot, Client)
  /\ exitCode' = "failure"
  /\ Return("failure", "finish")
  /\ UNCHANGED <<planVars, capacity, pendingCommands, failuresAllowed, starts,
                 failed>>

(* WaitForCommand returns nil, or reports that the command of an edge in   *)
(* reported died of an interrupt; that edge is not active any more.        *)
Interrupted ==
  /\ "interrupt" \in Faults
  /\ pc = "reap"
  /\ pendingCommands > 0
  /\ \E reported \in {{}} \cup {{e} : e \in running} :
       Abort(running \ reported, jobSlot, Client)
  /\ Return("interrupted", "interrupted")
  /\ UNCHANGED <<planVars, capacity, pendingCommands, failuresAllowed,
                 exitCode, starts, failed>>

(* Mutant: Build does not return when it cannot make progress.             *)
LoopAgain ==
  /\ pc = "reap"
  /\ pendingCommands = 0
  /\ pc' = "loop"
  /\ UNCHANGED <<planVars, jobserverVars, capacity, pendingCommands,
                 failuresAllowed, running, exitCode, result, starts, failed>>

(* Nothing is pending and nothing could be started.                        *)
NoProgress ==
  /\ pc = "reap"
  /\ pendingCommands = 0
  /\ Return(exitCode, IF failuresAllowed = 0 THEN "subcommand failed"
                      ELSE IF failuresAllowed < FailuresAllowed
                           THEN "cannot make progress"
                           ELSE "stuck")
  /\ UNCHANGED <<planVars, jobserverVars, capacity, pendingCommands,
                 failuresAllowed, running, exitCode, starts, failed>>

Returned == pc = "done" /\ UNCHANGED vars

BuildStep ==
  \/ PrepareQueue \/ LoopHead \/ LoopExit \/ StopStarting \/ RecordCommand
  \/ NoProgress
  \/ \E e \in Edges : \/ \E s \in SlotsFor(e) : StartEdge(e, s) \/ StartPhony(e, s)
                      \/ FinishFailed(e) \/ FinishCommand(e)

(* Errors the environment may or may not inflict.                          *)
FaultStep ==
  \/ RecordFails \/ Interrupted
  \/ \E e \in Edges : \/ \E s \in SlotsFor(e) : StartFails(e, s)
                      \/ StatFails(e)

OtherClient == \E b \in Bytes : /\ OtherTakes(b) \/ OtherReturns(b)
                                /\ UNCHANGED <<planVars, loopVars>>

Next == BuildStep \/ FaultStep \/ OtherClient \/ Returned

Spec == Init /\ [][Next]_vars

(* Every step Build can take it eventually takes; in the state "reap" that *)
(* means that some command exits, as WaitForCommand polls for ever.        *)
FairSpec == Spec /\ WF_vars(BuildStep)

-----------------------------------------------------------------------------
(* Properties.                                                             *)

TypeOK ==
  /\ want \in [Edges -> Wants]
  /\ outputsReady \subseteq Edges
  /\ dirty \subseteq UNION {Outs[e] : e \in Edges}
  /\ ready \in [Edges -> Nat]
  /\ currentUse \in [Pools -> Int]
  /\ delayed \subseteq Edges
  /\ wantedEdges \in Int
  /\ commandEdges \in Int
  /\ jobSlot \in [Edges -> Slots]
  /\ hasImplicitSlot \in BOOLEAN
  /\ pipe \in [Bytes -> Int]
  /\ taken \in [Bytes -> Int]
  /\ pc \in {"prepare", "loop", "start", "reap", "record", "done"}
  /\ capacity \in Int
  /\ pendingCommands \in Int
  /\ failuresAllowed \in Nat
  /\ running \subseteq Edges
  /\ exitCode \in Statuses
  /\ result \in Results
  /\ starts \in [Edges -> Nat]
  /\ failed \subseteq Edges

(* Edges the plan has passed on and that have not succeeded: waiting for a *)
(* place in a pool, queued, running or failed.                             *)
Placed(e) == ready[e] > 0 \/ e \in delayed \cup running \cup failed

Building == pc # "done"

(* The edges of pool p that hold a place: queued as ready, or running.     *)
Occupying(p) == {e \in InPool(p) : ready[e] > 0 \/ e \in running}

(* A limited pool counts exactly its queued and running edges and never    *)
(* exceeds its depth (Pool.EdgeScheduled, EdgeFinished and                 *)
(* RetrieveReadyEdges), whatever finishes, fails or is cleaned.            *)
PoolsRespected ==
  Building => \A p \in Pools : Depth[p] # 0 =>
                /\ currentUse[p] = Cardinality(Occupying(p))
                /\ currentUse[p] <= Depth[p]

(* An edge waits in a pool only while the pool is full: no place is left   *)
(* unused by EdgeFinished, ScheduleWork or ScheduleInitialEdges.           *)
DelayedOnlyWhenFull ==
  Building => \A e \in delayed : currentUse[PoolOf[e]] >= Depth[PoolOf[e]]

(* No edge is queued twice, started twice, or queued after it was started, *)
(* although an edge of a limited pool keeps its want of "toStart" when     *)
(* ScheduleInitialEdges delays it.                                         *)
StartedOnce ==
  \A e \in Edges : /\ ready[e] + starts[e] <= 1
                   /\ e \in delayed => ready[e] + starts[e] = 0

(* Why an edge is not scheduled again: an edge that was placed is wanted   *)
(* and has had all its inputs ready since, so that neither NodeFinished    *)
(* nor CleanNode comes by it again through an edge that finishes only now. *)
PlacementInv ==
  /\ \A e \in Edges : want[e] # "none" => e \notin outputsReady
  /\ \A e \in Edges :
       Placed(e) => IsWanted(want, e) /\ AllInputsReady(e, outputsReady)
  /\ \A e \in running \cup failed : starts[e] > 0
  /\ running \cap failed = {}
  /\ Building => \A e \in Edges :
       starts[e] > 0 => e \in running \cup failed \cup outputsReady
  /\ pc = "prepare" => \A e \in Edges : ~Placed(e) /\ starts[e] = 0
  /\ StartedOnce

(* When a command runs, every edge that produces one of its inputs, order- *)
(* only inputs included, has finished: none is running, wanted or failed.  *)
InputsBuiltFirst ==
  \A e \in running : \A p \in Edges :
    Feeds(p, e) => p \in outputsReady \ (running \cup failed) /\ want[p] = "none"

(* Plan.wantedEdges is the number of edges that are still wanted (a failed *)
(* edge stays wanted), and commandEdges is zero only when no command is    *)
(* wanted any more, so MoreToDo never ends the build too early.            *)
WantedEdgesCounted ==
  /\ wantedEdges = Cardinality({e \in Edges : IsWanted(want, e)})
  /\ commandEdges >= Cardinality({e \in Edges \ Phony : IsWanted(want, e)})

(* Every command that runs is an edge of the plan (EdgeFinished panics     *)
(* when it is not) and is wanted, and pendingCommands counts them.         *)
RunningIsWanted ==
  Building => /\ \A e \in running : IsWanted(want, e)
              /\ pendingCommands = Cardinality(running)

(* Without a jobserver no more than Parallelism commands run at once, even *)
(* though CanRunMore grants one more when it believes that none runs.      *)
ParallelismRespected ==
  ~UseJobserver => Cardinality(running) <= Parallelism

(* Build never gets into the state it reports as "stuck [this is a bug]":  *)
(* as long as nothing failed, either a command is pending or an edge could *)
(* be started, with a jobserver too.                                       *)
NeverStuck == result.error # "stuck"

(* Build returns success only when no command failed, none is running and  *)
(* none is wanted any more; any other outcome has another status.          *)
SuccessIsComplete ==
  /\ result.status = "success" =>
       /\ failed = {} /\ running = {}
       /\ \A e \in Edges \ Phony : ~IsWanted(want, e)
  /\ result.status # "success" <=> result.error # "nil" \/ Building

(* Once the budget of failures is spent no further command is started      *)
(* (Build lets the pending ones finish), and a failed edge is never        *)
(* started, finished or forgotten afterwards.                              *)
FailuresStopBuild ==
  [][/\ failuresAllowed = 0 => starts' = starts
     /\ failed \subseteq failed'
     /\ failed' \cap (outputsReady' \cup running') = {}]_vars

(* Every byte read from the FIFO goes back and no other is written: for    *)
(* each value, the bytes in the FIFO, those other clients hold and those   *)
(* of the running commands are as many as the pool was created with.       *)
PipeTokensConserved ==
  \A b \in Bytes :
    pipe[b] + taken[b] + Cardinality({e \in running : jobSlot[e] = b})
      = IF b = TokenByte THEN Tokens ELSE 0

(* No token is lost or made up, and the implicit slot is free unless one   *)
(* running command holds it.  After Build has returned no command runs, so *)
(* every token FindWork took is back.                                      *)
TokensConserved ==
  /\ PipeTokensConserved
  /\ Cardinality({e \in running : jobSlot[e] = ImplicitSlot})
       = IF hasImplicitSlot THEN 0 ELSE 1

(* CleanNode un-wants an edge only "if all non-order-only inputs for this  *)
(* edge are now clean": an edge of the plan that needs no work has no      *)
(* dirty input.                                                            *)
UnwantedHasCleanInputs ==
  \A e \in Edges :
    want[e] = "nothing" => NonOrderOnlyInputs(e) \cap dirty = {}

(* Build implements the order of BuildOrder: the edges whose outputs are   *)
(* ready are built, and those in RealCommandRunner.subprocToEdge active.   *)
Order == INSTANCE BuildOrder WITH
  Producers <- [e \in Edges |-> {p \in Edges : Feeds(p, e)}],
  built <- outputsReady,
  ran <- {e \in Edges : starts[e] > 0},
  active <- running,
  broken <- failed,
  outcome <- result.status

ImplementsBuildOrder == Order!Spec

(* Build returns.                                                          *)
Termination == <>(pc = "done")

=============================================================================
