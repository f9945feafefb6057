--------------------------- MODULE SubprocessSet ---------------------------
(***************************************************************************)
(* The local runner: RealCommandRunner on top of subprocess.Set.           *)
(* Builder.Build runs in one goroutine; per command there is the waiter of *)
(* Subprocess and a notifier that sends on the one-place wakeup channel.   *)
(* DoWork sweeps the processes that are done, blocks on the wakeup or a    *)
(* 25 ms timer, and sweeps again.                                          *)
(***************************************************************************)
EXTENDS Subprocess, Functions

VARIABLES running,      \* Set.running, in start order
          finished,     \* Set.finished, swept but not yet reported
          wakeup,       \* the wakeup channel holds its one element
          notifier,     \* notifier[e]: "none", "blocked" or "sent"
          subprocToEdge \* the edges of processes not yet reported

setVars == <<running, finished, wakeup, notifier, subprocToEdge>>

SetInit ==
    /\ running = <<>>
    /\ finished = <<>>
    /\ wakeup = FALSE
    /\ notifier = [e \in Edges |-> "none"]
    /\ subprocToEdge = {}

\* CanRunMore is positive.  A jobserver makes the capacity unlimited, and a load
\* average that is too high makes it zero unless nothing runs: Build then waits.
LocalCanRunMore ==
    \/ jobserver
    \/ Len(running) + Len(finished) < Parallelism
    \/ running = <<>>

\* Set.Add: the process, its place in running, its notifier.
LocalStart(e) ==
    /\ proc[e] = "none"
    /\ LocalCanRunMore
    /\ NewSubprocess(e)
    /\ running' = Append(running, e)
    /\ notifier' = [notifier EXCEPT ![e] = "blocked"]
    /\ subprocToEdge' = subprocToEdge \cup {e}
    /\ UNCHANGED <<clientVars, killed, interrupted, crashed, finished, wakeup>>

\* Mutant: the wakeup channel has no buffer, and DoWork may not have reached its
\* select statement yet.
NotifyUnbuffered(e) ==
    /\ notifier[e] = "blocked"
    /\ Done(e)
    /\ notifier' = [notifier EXCEPT ![e] = "sent"]
    /\ wakeup' \in {FALSE, pc = "select"}
    /\ UNCHANGED <<clientVars, procVars, running, finished, subprocToEdge>>

\* The notifier saw the done channel close; its send does not block.
Notify(e) ==
    /\ notifier[e] = "blocked"
    /\ Done(e)
    /\ notifier' = [notifier EXCEPT ![e] = "sent"]
    /\ wakeup' = TRUE
    /\ UNCHANGED <<clientVars, procVars, running, finished, subprocToEdge>>

\* The loop over the processes: the elements of s that are in D, in order.
Among(s, D) ==
    LET kept[i \in 0..Len(s)] ==
          IF i = 0 THEN <<>>
          ELSE IF s[i] \in D THEN Append(kept[i - 1], s[i])
          ELSE kept[i - 1]
    IN  kept[Len(s)]

\* Mutant: a sweep takes every process when one is done.
sweepAll ==
    /\ running' = IF \E e \in Range(running): Done(e) THEN <<>> ELSE running
    /\ finished' = IF running' = <<>> THEN finished \o running ELSE finished

\* Processes that are done move to finished in start order.
sweepDone ==
    LET done == {e \in Edges: Done(e)}
    IN  /\ running' = Among(running, Edges \ done)
        /\ finished' = finished \o Among(running, done)

\* DoWork up to its select statement.
DoWork ==
    /\ pc = "dowork"
    /\ \/ /\ interrupted
          /\ pc' = "giveup"
          /\ UNCHANGED <<running, finished>>
       \/ /\ ~interrupted
          /\ sweepDone
          /\ pc' = IF finished' # finished THEN "swept" ELSE "select"
    /\ UNCHANGED <<config, reported, procVars, wakeup, notifier, subprocToEdge>>

Woken ==
    /\ pc = "select"
    /\ wakeup
    /\ wakeup' = FALSE
    /\ pc' = "sweep"
    /\ UNCHANGED <<config, reported, procVars, running, finished, notifier,
                   subprocToEdge>>

Timeout ==
    /\ pc = "select"
    /\ pc' = IF interrupted THEN "giveup" ELSE "sweep"
    /\ UNCHANGED <<config, reported, procVars, setVars>>

Sweep ==
    /\ pc = "sweep"
    /\ sweepDone
    /\ pc' = "swept"
    /\ UNCHANGED <<config, reported, procVars, wakeup, notifier, subprocToEdge>>

\* Mutant: the edge of a reported process stays in the map.
NextFinishedKept ==
    /\ pc = "swept" /\ ~interrupted
    /\ finished # <<>>
    /\ pc' = "build"
    /\ reported' = reported \cup {Head(finished)}
    /\ finished' = Tail(finished)
    /\ UNCHANGED <<config, procVars, running, wakeup, notifier, subprocToEdge>>

\* DoWork's return value, then NextFinished and the loop of WaitForCommand.
\* A result that says "interrupted" makes Build give up like a nil result.
NextFinished ==
    /\ pc = "swept"
    /\ \/ /\ interrupted
          /\ pc' = "giveup"
          /\ UNCHANGED <<reported, finished, subprocToEdge>>
       \/ /\ ~interrupted
          /\ finished = <<>>
          /\ pc' = "dowork"
          /\ UNCHANGED <<reported, finished, subprocToEdge>>
       \/ /\ ~interrupted
          /\ finished # <<>>
          /\ LET e == Head(finished)
             IN  /\ pc' = IF Finish(e) = "interrupted" THEN "giveup" ELSE "build"
                 /\ reported' = reported \cup {e}
                 /\ subprocToEdge' = subprocToEdge \ {e}
          /\ finished' = Tail(finished)
    /\ UNCHANGED <<config, procVars, running, wakeup, notifier>>

\* Mutant: the runner waits only while a process runs.
WaitIfRunning ==
    /\ pc = "build"
    /\ running # <<>>
    /\ pc' = "dowork"
    /\ UNCHANGED <<config, reported, procVars, setVars>>

LocalWaitForCommand ==
    /\ pc = "build"
    /\ subprocToEdge # {}
    /\ pc' = "dowork"
    /\ UNCHANGED <<config, reported, procVars, setVars>>

\* Abort: the contexts of the running processes are cancelled; nobody waits
\* for the processes, and finished and subprocToEdge keep their contents.
LocalAbort ==
    /\ killed' = killed \cup Range(running)
    /\ running' = <<>>
    /\ UNCHANGED <<config, reported, proc, waiter, interrupted, crashed, finished,
                   wakeup, notifier, subprocToEdge>>

LocalMain == LocalWaitForCommand \/ DoWork \/ Woken \/ Timeout \/ Sweep
             \/ NextFinished
=============================================================================
