------------------------------ MODULE Runners ------------------------------
(***************************************************************************)
(* Builder.Build with the runner NewRealCommandRunner chose for it.  Build *)
(* starts commands while the runner has room, waits for results, and gives *)
(* up (Cleanup, which aborts the runner) on a nil or interrupted result,   *)
(* on a command that cannot be started and on a failed stat or log write.  *)
(***************************************************************************)
EXTENDS SubprocessSet, RemoteRunner

CONSTANT JobSlots        \* slots the jobserver lets this build hold at a time

ASSUME RunnerAssumption ==
    /\ IsFiniteSet(Edges)
    /\ Parallelism \in Nat \ {0}
    /\ ChanCap \in Nat
    /\ JobSlots \in Nat

vars == <<clientVars, procVars, setVars, remoteVars>>

Local == kind = "local"

Init ==
    /\ SubprocessInit
    /\ SetInit
    /\ RemoteInit

Pending == subprocToEdge \cup activeEdges

\* FindWork takes a token for every command, which EdgeFinished gives back.
TokenFree == jobserver => Cardinality(Pending) < JobSlots

\* Nothing new is started once the failure budget is spent.
StartCommand(e) ==
    /\ pc = "build"
    /\ ~cancelled
    /\ TokenFree
    /\ \/ Local /\ LocalStart(e) /\ UNCHANGED remoteVars
       \/ ~Local /\ RemoteStart(e) /\ UNCHANGED setVars
       \/ ~Local /\ RemoteStartFails(e) /\ UNCHANGED setVars

WaitForCommand ==
    \/ Local /\ LocalMain /\ UNCHANGED remoteVars
    \/ ~Local /\ RemoteMain /\ UNCHANGED setVars

\* A command could not be started, or its result not be recorded.
BuildFails ==
    /\ pc = "build"
    /\ Pending # {}
    /\ pc' = "giveup"
    /\ UNCHANGED <<config, reported, procVars, setVars, remoteVars>>

Abort ==
    /\ pc = "giveup"
    /\ pc' = "aborted"
    /\ UNCHANGED config
    /\ \/ Local /\ LocalAbort /\ UNCHANGED remoteVars
       \/ ~Local /\ RemoteAbort /\ UNCHANGED setVars

Return ==
    /\ pc = "build"
    /\ Pending = {}
    /\ pc' = "returned"
    /\ UNCHANGED <<config, reported, procVars, setVars, remoteVars>>

\* A process, a goroutine or a signal.
Background ==
    \/ \E e \in Edges: \/ SubprocessStep(e) /\ UNCHANGED <<clientVars, setVars,
                                                          remoteVars>>
                       \/ Local /\ Notify(e) /\ UNCHANGED remoteVars
                       \/ ~Local /\ RemoteGoroutine(e) /\ UNCHANGED setVars
    \/ Signal /\ UNCHANGED <<clientVars, setVars, remoteVars>>

Terminated ==
    /\ crashed \/ pc \in {"aborted", "returned"}
    /\ UNCHANGED vars

Next ==
    \/ ~crashed /\ \/ \E e \in Edges: StartCommand(e)
                   \/ WaitForCommand
                   \/ BuildFails
                   \/ Abort
                   \/ Return
                   \/ Background
    \/ Terminated

Spec == Init /\ [][Next]_vars

(***************************************************************************)
(* Commands end, goroutines are scheduled, the 25 ms timer and the ticker  *)
(* fire, and Build calls WaitForCommand again while results are pending.   *)
(* Nothing is assumed of signals, of failures or of remote calls beyond    *)
(* their returning.                                                        *)
(***************************************************************************)
FairSpec ==
    /\ Spec
    /\ WF_vars(~crashed /\ WaitForCommand)
    /\ WF_vars(~crashed /\ Abort)
    /\ \A e \in Edges:
          /\ WF_vars(/\ ~crashed
                     /\ SubprocessStep(e)
                     /\ UNCHANGED <<clientVars, setVars, remoteVars>>)
          /\ WF_vars(~crashed /\ Local /\ Notify(e) /\ UNCHANGED remoteVars)
          /\ WF_vars(/\ ~crashed
                     /\ ~Local
                     /\ RemoteGoroutine(e)
                     /\ UNCHANGED setVars)

-----------------------------------------------------------------------------
Started(e) == proc[e] # "none" \/ job[e] # "none"
Open == pc \notin {"giveup", "aborted"}
Completed(e) == IF Local THEN Done(e) ELSE job[e] \in {"send", "sent"}

\* Every runner keeps the promise of CommandRunner: a command is reported
\* at most once, only after it ended, and never after Build gave up
\* (WaitForCommand of the three runners).
AbstractState ==
    [e \in Edges |-> CASE e \in reported -> "reported"
                       [] e \notin reported /\ Completed(e) -> "ended"
                       [] Started(e) /\ ~Completed(e) -> "running"
                       [] OTHER -> "new"]

Runner == INSTANCE CommandRunner
          WITH state <- AbstractState,
               open <- Open
ImplementsCommandRunner == Runner!Spec

\* The variables of the runners have their types and the result channel
\* stays within its capacity.
TypeOK ==
    /\ kind \in {"local", "caching", "remote"} /\ jobserver \in BOOLEAN
    /\ pc \in {"build", "dowork", "select", "sweep", "swept", "wait",
               "giveup", "aborted", "returned"}
    /\ reported \subseteq Edges
    /\ proc \in [Edges -> {"none", "alive"} \cup Endings]
    /\ killed \subseteq Edges
    /\ waiter \in [Edges -> {"none", "waiting", "closed", "panicked"}]
    /\ interrupted \in BOOLEAN /\ crashed \in BOOLEAN
    /\ running \in Seq(Edges) /\ finished \in Seq(Edges)
    /\ wakeup \in BOOLEAN
    /\ notifier \in [Edges -> {"none", "blocked", "sent"}]
    /\ subprocToEdge \subseteq Edges /\ activeEdges \subseteq Edges
    /\ job \in [Edges -> {"none", "lookup", "spawn", "subprocess",
                          "uploadOutputs", "uploadInputs", "execute", "fetch",
                          "send", "sent"}]
    /\ status \in [Edges -> {"none", "success", "failure", "interrupted"}]
    /\ resultCh \in Seq(Edges) /\ Len(resultCh) <= ChanCap
    /\ cancelled \in BOOLEAN

\* DoWork never sleeps over an exit: while it blocks with nothing in the
\* wakeup channel, every process it could sweep still has a notifier about
\* to send (Set.Add, Set.DoWork).  The timer is not what reports an exit.
NoMissedWakeup ==
    (pc = "select" /\ ~wakeup) =>
        \A e \in Range(running): Done(e) => notifier[e] = "blocked"

\* The edges the runner calls active are exactly those that were started
\* and not reported, until Build gives up; Cleanup deletes the outputs of
\* these edges and ClearJobTokens returns their tokens (GetActiveEdges).
ActiveIsUnreported ==
    Open => Pending = {e \in Edges: Started(e)} \ reported

\* Without a jobserver at most Parallelism commands are started and not
\* collected, counting those that wait in a channel or a list (CanRunMore of
\* the runners).  With one CanRunMore sets no limit, and the tokens that FindWork
\* takes are the only one (TokensConserved of Builder).
OutstandingBounded == jobserver \/ Cardinality(Pending) <= Parallelism

\* Every command that was started is reported in the end, unless Build
\* gives up (WaitForCommand, the timer of DoWork and the ticker).  This
\* includes that the type assertion of a waiter goroutine brings the program
\* down only when Build has already given up.
EveryCommandReported ==
    \A e \in Edges: Started(e) ~> (e \in reported \/ pc \in {"giveup",
                                                             "aborted"})
=============================================================================
