----------------------------- MODULE DepsStore -----------------------------
(***************************************************************************)
(* What the deps log promises, whatever happens to the process: a map from *)
(* outputs to what was last recorded for them.  A record that is being     *)
(* made is in the map in full or not at all.                               *)
(***************************************************************************)
CONSTANTS StoreOutputs, NoRequest, NoValue

VARIABLES store, request

StoreInit ==
    /\ store = [o \in StoreOutputs |-> NoValue]
    /\ request = NoRequest

\* RecordDeps is called.
Request == request = NoRequest /\ request' # NoRequest /\ UNCHANGED store

Commit ==
    /\ request # NoRequest
    /\ store' = [store EXCEPT ![request.out] = request.value]
    /\ request' \in {request, NoRequest}

\* RecordDeps returns, or the process ends.
Return == request # NoRequest /\ request' = NoRequest /\ UNCHANGED store

StoreSpec == StoreInit /\ [][Request \/ Commit \/ Return]_<<store, request>>
=============================================================================
