---------------------------- MODULE ActionCache ----------------------------
(***************************************************************************)
(* The remote action cache as the caching runner uses it.  An action is    *)
(* keyed by its command and the contents of those of its inputs that       *)
(* exist.  An entry is the full result, or a pointer: the paths to add to  *)
(* the static inputs for the key of the full result.                       *)
(***************************************************************************)
EXTENDS DependencyScan

VARIABLE actionCache

\* assembleCommand and assembleAction.
Action(e, inputs) ==
    [cmd |-> M.cmd[e],
     in |-> [f \in {i \in inputs: disk[i].m > 0} |-> disk[f].c]]

\* What a digest is taken of when assembleAction failed; no lookup uses it.
NilAction == [cmd |-> "nil", in |-> <<>>]

StaticInputs(e, ins) == Range(ins) \intersect ManifestNodes
DynamicInputs(ins) == Range(ins) \ ManifestNodes

\* sound is history: the contents the command read are known to be those in the
\* key.
Full(action, content) ==
    [key |-> action, kind |-> "full", content |-> content, paths |-> {}, sound |-> TRUE]
Pointer(action, paths) ==
    [key |-> action, kind |-> "pointer", content |-> Missing.c, paths |-> paths,
     sound |-> TRUE]

DownloadActionResult(action) == {r \in actionCache: r.key = action}

\* downloadCompletedEdge: the results a lookup that started with this action
\* ends with.  A pointer is followed once, with the contents the files have
\* now; what it leads to is not looked at again, and may be a pointer.
Hits(e, ins, action) ==
    LET first == DownloadActionResult(action)
        paths == UNION {r.paths: r \in first}
    IN  IF \E r \in first: r.kind = "pointer"
        THEN DownloadActionResult(Action(e, StaticInputs(e, ins) \union paths))
        ELSE first

\* Mutant: the full result is stored under the static inputs.
StaticResults(e, ins, depsNodes, content) ==
    <<Full(Action(e, StaticInputs(e, ins)), content)>>

\* uploadActionResult: the entries of the four cases, in the order they are
\* uploaded.  The inputs are hashed when the upload runs.
ActionResults(e, ins, depsNodes, content) ==
    LET static == StaticInputs(e, ins)
        dynamic == DynamicInputs(ins)
        deps == Range(depsNodes)
        all == static \union dynamic \union deps
    IN  CASE dynamic = {} /\ deps # {} ->
               <<Pointer(Action(e, static), static \union deps),
                 Full(Action(e, all), content)>>
          [] dynamic = {} /\ deps = {} -> <<Full(Action(e, static), content)>>
          [] dynamic # {} /\ deps = {} -> <<Pointer(Action(e, static), dynamic)>>
          [] dynamic # {} /\ deps # {} ->
               <<Pointer(Action(e, static), dynamic \union deps),
                 Full(Action(e, all), content)>>

\* UploadActionResult replaces the entry of its key.
UploadActionResult(r) ==
    {x \in actionCache: x.key # r.key} \union {r}
=============================================================================
