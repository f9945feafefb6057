----------------------------- MODULE RemoteExec -----------------------------
(***************************************************************************)
(* The executor client (internal/remote_exec): Start opens a stream for an *)
(* action, Wait reads it until the operation is done, and Recv reconnects  *)
(* with WaitExecution when the stream breaks and the operation has a name. *)
(* The server runs an action when it holds all its inputs.                 *)
(***************************************************************************)
EXTENDS Uploader

CONSTANT MaxReconnects   \* reconnections within one Recv

ASSUME ReconnectsAssumption == MaxReconnects \in Nat

VARIABLES
    op,           \* op[e]: the operation on the server
    entries,      \* the action cache: edges whose result it holds
    named,        \* named[e]: the client knows the name of the operation
    reconnects,   \* reconnects[e]: attempts of the current Recv
    panicked      \* the process has died of a nil dereference

execVars == <<op, entries, named, reconnects, panicked>>

ExecInit ==
    /\ op = [e \in Edges |-> "none"]
    /\ named = [e \in Edges |-> FALSE]
    /\ reconnects = [e \in Edges |-> 0]
    /\ panicked = FALSE

\* Execute is called, again if the stream cannot be opened.
Start(e) ==
    /\ step[e] = "start"
    /\ Goto(e, "recv")
    /\ op' = [op EXCEPT ![e] = "queued"]
    /\ NoFault
    /\ UNCHANGED <<kind, storeVars, batchVars, groupVars, entries, named,
                   reconnects, panicked>>

\* An error that says a precondition failed clears the local cache.
StartFails(e) ==
    /\ step[e] = "start"
    /\ Goto(e, "failure")
    /\ lastSeen' = {} \/ UNCHANGED lastSeen
    /\ Fault
    /\ UNCHANGED <<kind, cas, evicted, batchVars, groupVars, execVars>>

\* The server runs the action and stores its result, or lacks an input.
Run(e) ==
    /\ op[e] = "queued"
    /\ IF Range(Inputs[e]) \subseteq cas
       THEN \/ /\ op' = [op EXCEPT ![e] = "succeeded"]
               /\ cas' = cas \union Range(Outputs[e])
               /\ entries' = entries \union {e}
               /\ NoFault
            \/ /\ op' = [op EXCEPT ![e] = "failed"]
               /\ Fault
               /\ UNCHANGED <<cas, entries>>
       ELSE /\ op' = [op EXCEPT ![e] = "missing"]
            /\ NoFault
            /\ UNCHANGED <<cas, entries>>
    /\ UNCHANGED <<kind, step, evicted, lastSeen, batchVars, groupVars, named,
                   reconnects, panicked>>

\* Recv returns an operation that is not done: Wait calls it again.
RecvProgress(e) ==
    /\ step[e] = "recv"
    /\ op[e] = "queued"
    /\ named' = [named EXCEPT ![e] = TRUE]
    /\ reconnects' = [reconnects EXCEPT ![e] = 0]
    /\ NoFault
    /\ UNCHANGED <<kind, step, storeVars, batchVars, groupVars, op, entries,
                   panicked>>

\* Recv returns the operation.  The result of a command that failed lists
\* no outputs here: there is nothing to fetch.
RecvDone(e) ==
    /\ step[e] = "recv"
    /\ op[e] \in {"succeeded", "failed"}
    /\ Goto(e, IF op[e] = "succeeded" THEN "fetch" ELSE "failure")
    /\ NoFault
    /\ UNCHANGED <<kind, storeVars, batchVars, groupVars, execVars>>

\* A missing input is reported by the stream, which clears the local cache,
\* or in the response, which does not.
RecvMissing(e) ==
    /\ step[e] = "recv"
    /\ op[e] = "missing"
    /\ Goto(e, "failure")
    /\ lastSeen' = {} \/ UNCHANGED lastSeen
    /\ NoFault
    /\ UNCHANGED <<kind, cas, evicted, batchVars, groupVars, execVars>>

\* The stream breaks.  Without a name, or when WaitExecution fails, the edge
\* fails.  When all attempts of this Recv are used up it returns neither an
\* operation nor an error, and Wait dereferences nil.
RecvUnavailable(e) ==
    /\ step[e] = "recv"
    /\ \/ /\ named[e]
          /\ reconnects[e] < MaxReconnects
          /\ reconnects' = [reconnects EXCEPT ![e] = @ + 1]
          /\ UNCHANGED <<step, panicked>>
       \/ /\ named[e]
          /\ reconnects[e] = MaxReconnects
          /\ panicked' = TRUE
          /\ UNCHANGED <<step, reconnects>>
       \/ /\ Goto(e, "failure")
          /\ UNCHANGED <<reconnects, panicked>>
    /\ Fault
    /\ UNCHANGED <<kind, storeVars, batchVars, groupVars, op, entries, named>>

Executor(e) ==
    \/ Start(e) \/ StartFails(e)
    \/ RecvProgress(e) \/ RecvDone(e) \/ RecvMissing(e) \/ RecvUnavailable(e)
=============================================================================
