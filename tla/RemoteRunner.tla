---------------------------- MODULE RemoteRunner ----------------------------
(***************************************************************************)
(* The two remote runners.  Each command gets a goroutine that sends one   *)
(* result on a bounded channel.  The caching runner looks the action up,   *)
(* and on a miss or an error runs the command as a local process and       *)
(* uploads its outputs; the execution runner uploads the inputs, has the   *)
(* action executed and fetches the outputs.  All remote calls carry the    *)
(* runner's context, local processes do not.  A call that is in flight     *)
(* when the context is cancelled may still succeed.                        *)
(***************************************************************************)
EXTENDS Subprocess

CONSTANT ChanCap         \* capacity of resultCh

VARIABLES activeEdges,   \* running or not yet collected
          job,           \* job[e]: the step the edge's goroutine is at
          status,        \* status[e]: the result it sends
          resultCh,      \* sequence of edges
          cancelled      \* the runner's context is cancelled

remoteVars == <<activeEdges, job, status, resultCh, cancelled>>

RemoteInit ==
    /\ activeEdges = {}
    /\ job = [e \in Edges |-> "none"]
    /\ status = [e \in Edges |-> "none"]
    /\ resultCh = <<>>
    /\ cancelled = FALSE

\* Mutant: off by one.
RemoteCanRunOneMore ==
    /\ resultCh = <<>>
    /\ jobserver \/ Cardinality(activeEdges) <= Parallelism

\* CanRunMore is positive: never while a result waits to be collected, and with
\* a jobserver whatever the number of active edges.
RemoteCanRunMore ==
    /\ resultCh = <<>>
    /\ \/ jobserver
       \/ Cardinality(activeEdges) < Parallelism
       \/ activeEdges = {}

RemoteStart(e) ==
    /\ job[e] = "none"
    /\ RemoteCanRunMore
    /\ activeEdges' = activeEdges \cup {e}
    /\ job' = [job EXCEPT ![e] = "lookup"]
    /\ UNCHANGED <<clientVars, procVars, status, resultCh, cancelled>>

\* The action cannot be assembled: the edge is active but has no goroutine,
\* and Build cleans up.
RemoteStartFails(e) ==
    /\ job[e] = "none"
    /\ RemoteCanRunMore
    /\ activeEdges' = activeEdges \cup {e}
    /\ pc' = "giveup"
    /\ UNCHANGED <<config, reported, procVars, job, status, resultCh, cancelled>>

\* The goroutine goes on to its next step, or has its result.
Goto(e, step) ==
    /\ job' = [job EXCEPT ![e] = step]
    /\ UNCHANGED status

HasResult(e, s) ==
    /\ job' = [job EXCEPT ![e] = "send"]
    /\ status' = [status EXCEPT ![e] = s]

Lookup(e) ==
    /\ job[e] = "lookup"
    /\ \/ HasResult(e, "success")
       \/ kind = "caching" /\ Goto(e, "spawn")
       \/ kind = "remote" /\ Goto(e, "uploadInputs")
    /\ UNCHANGED <<clientVars, procVars, activeEdges, resultCh, cancelled>>

Spawn(e) ==
    /\ job[e] = "spawn"
    /\ \/ NewSubprocess(e) /\ Goto(e, "subprocess")
       \/ HasResult(e, "failure") /\ UNCHANGED <<proc, waiter>>
    /\ UNCHANGED <<clientVars, killed, interrupted, crashed, activeEdges,
                   resultCh, cancelled>>

Reap(e) ==
    /\ job[e] = "subprocess"
    /\ Done(e)
    /\ IF Finish(e) = "success" THEN Goto(e, "uploadOutputs")
                                ELSE HasResult(e, Finish(e))
    /\ UNCHANGED <<clientVars, procVars, activeEdges, resultCh, cancelled>>

UploadOutputs(e) ==
    /\ job[e] = "uploadOutputs"
    /\ HasResult(e, "success") \/ HasResult(e, "failure")
    /\ UNCHANGED <<clientVars, procVars, activeEdges, resultCh, cancelled>>

UploadInputs(e) ==
    /\ job[e] = "uploadInputs"
    /\ Goto(e, "execute") \/ HasResult(e, "failure")
    /\ UNCHANGED <<clientVars, procVars, activeEdges, resultCh, cancelled>>

Execute(e) ==
    /\ job[e] = "execute"
    /\ Goto(e, "fetch") \/ HasResult(e, "failure")
    /\ UNCHANGED <<clientVars, procVars, activeEdges, resultCh, cancelled>>

\* The exit code of the remote command is taken over as it is.
Fetch(e) ==
    /\ job[e] = "fetch"
    /\ \E s \in {"success", "failure", "interrupted"}: HasResult(e, s)
    /\ UNCHANGED <<clientVars, procVars, activeEdges, resultCh, cancelled>>

\* Mutant: a send that never blocks.
SendUnbounded(e) ==
    /\ job[e] = "send"
    /\ resultCh' = Append(resultCh, e)
    /\ job' = [job EXCEPT ![e] = "sent"]
    /\ UNCHANGED <<clientVars, procVars, activeEdges, status, cancelled>>

\* The send blocks while the channel is full.
Send(e) ==
    /\ job[e] = "send"
    /\ Len(resultCh) < ChanCap
    /\ resultCh' = Append(resultCh, e)
    /\ job' = [job EXCEPT ![e] = "sent"]
    /\ UNCHANGED <<clientVars, procVars, activeEdges, status, cancelled>>

RemoteWaitForCommand ==
    /\ pc = "build"
    /\ activeEdges # {}
    /\ pc' = "wait"
    /\ UNCHANGED <<config, reported, procVars, remoteVars>>

\* A result arrives.  The execution runner drops it when its context is
\* cancelled.  After a failure Build may find its budget spent, and Cancel.
Receive ==
    /\ pc = "wait"
    /\ resultCh # <<>>
    /\ resultCh' = Tail(resultCh)
    /\ LET e == Head(resultCh)
       IN  \/ /\ kind = "remote"
              /\ cancelled
              /\ pc' = "giveup"
              /\ UNCHANGED <<reported, activeEdges, cancelled>>
           \/ /\ kind = "remote" => ~cancelled
              /\ pc' = IF status[e] = "interrupted" THEN "giveup" ELSE "build"
              /\ reported' = reported \cup {e}
              /\ activeEdges' = activeEdges \ {e}
              /\ \/ UNCHANGED cancelled
                 \/ status[e] = "failure" /\ cancelled' = TRUE
    /\ UNCHANGED <<config, procVars, job, status>>

Tick ==
    /\ pc = "wait"
    /\ interrupted \/ (kind = "remote" /\ cancelled)
    /\ cancelled' = TRUE
    /\ pc' = "giveup"
    /\ UNCHANGED <<config, reported, procVars, activeEdges, job, status,
                   resultCh>>

\* Abort cancels the context and waits for nobody; the local processes of
\* the caching runner do not hear of it.
RemoteAbort ==
    /\ cancelled' = TRUE
    /\ UNCHANGED <<reported, procVars, activeEdges, job, status, resultCh>>

RemoteGoroutine(e) ==
    Lookup(e) \/ Spawn(e) \/ Reap(e) \/ UploadOutputs(e) \/ UploadInputs(e)
    \/ Execute(e) \/ Fetch(e) \/ Send(e)
RemoteMain == RemoteWaitForCommand \/ Receive \/ Tick
=============================================================================
