------------------------------ MODULE Transfer ------------------------------
(***************************************************************************)
(* The remote life of edges: look up the action, fetch what it produced;   *)
(* otherwise upload the inputs, have the action executed and fetch its     *)
(* outputs (RemoteCommandRunner), or run it here, upload the outputs and   *)
(* publish the result (RemoteCachingCommandRunner).  Any number of edges   *)
(* share the local cache and the server.                                   *)
(***************************************************************************)
EXTENDS RemoteExec

VARIABLES
    file,       \* file[o]: the download of output o, its temporary file
    fetches,    \* fetches[o]: failed attempts of GetBlob for o
    disk        \* disk[o]: what is at the path of output o

fileVars == <<file, fetches, disk>>

vars == <<kind, step, faults, storeVars, batchVars, groupVars, execVars,
          fileVars>>

OutputsOf(e) == Range(Outputs[e])
AllOutputs == UNION {OutputsOf(e): e \in Edges}

\* No two edges have an output in common.
ASSUME OutputsAssumption ==
    \A e, f \in Edges: e # f => OutputsOf(e) \intersect OutputsOf(f) = {}

\* The server may have results of earlier builds.
Init ==
    /\ kind \in {"remote", "caching"}
    /\ step = [e \in Edges |-> "lookup"]
    /\ entries \in SUBSET Edges
    /\ cas = UNION {OutputsOf(e): e \in entries}
    /\ UploaderInit
    /\ ExecInit
    /\ file = [o \in AllOutputs |-> "none"]
    /\ fetches = [o \in AllOutputs |-> 0]
    /\ disk = [o \in AllOutputs |-> "old"]

-----------------------------------------------------------------------------
(* The cache.                                                              *)

OnMiss == IF kind = "remote" THEN "upload" ELSE "run"

\* downloadCompletedEdge: an error is a miss.
Lookup(e) ==
    /\ step[e] = "lookup"
    /\ \/ e \in entries /\ Goto(e, "hit") /\ NoFault
       \/ e \notin entries /\ Goto(e, OnMiss) /\ NoFault
       \/ Goto(e, OnMiss) /\ Fault
    /\ UNCHANGED <<kind, storeVars, batchVars, groupVars, execVars, fileVars>>

\* The caching runner runs the command as a local process, which writes
\* over what a failed fetch left behind, if it succeeds.
RunLocally(e) ==
    /\ step[e] = "run"
    /\ \/ /\ Goto(e, "upload")
          /\ disk' = [o \in AllOutputs |-> IF o \in OutputsOf(e) THEN "whole"
                                           ELSE disk[o]]
          /\ NoFault
       \/ /\ Goto(e, "failure")
          /\ UNCHANGED disk
          /\ Fault
    /\ UNCHANGED <<kind, storeVars, batchVars, groupVars, execVars, file,
                   fetches>>

\* uploadActionResult, once the outputs are uploaded.  Only a pointer may be
\* published; an error does not change the result of the edge.
Publish(e) ==
    /\ step[e] = "publish"
    /\ Goto(e, "success")
    /\ entries' \in {entries, entries \union {e}}
    /\ NoFault
    /\ UNCHANGED <<kind, storeVars, batchVars, groupVars, op, named, reconnects,
                   panicked, fileVars>>

-----------------------------------------------------------------------------
(* fetchOutputsAndResult: one goroutine of an errgroup for each output.    *)

Fetches(e, o) == o \in OutputsOf(e) /\ step[e] \in {"hit", "fetch"}

FileBecomes(o, state) == file' = [file EXCEPT ![o] = state]

\* Mutant: the remote runner, too, writes to the path of the output.
WriteOutput(o, state) == disk' = [disk EXCEPT ![o] = state]

\* GetBlob writes to a temporary file (remote) or to the output (caching).
Write(o, state) ==
    disk' = IF kind = "remote" THEN disk ELSE [disk EXCEPT ![o] = state]

Create(e, o) ==
    /\ Fetches(e, o)
    /\ file[o] = "none"
    /\ \/ FileBecomes(o, "partial") /\ Write(o, "partial") /\ NoFault
       \/ FileBecomes(o, "failed") /\ UNCHANGED disk /\ Fault
    /\ UNCHANGED <<kind, step, storeVars, batchVars, groupVars, execVars,
                   fetches>>

\* The errgroup cancels its context at the first error.
FetchCancelled(e) == \E o \in OutputsOf(e): file[o] = "failed"

\* GetBlob reads the blob to its end and compares its digest; a blob that is
\* not there is final; any other error starts again at the beginning of the
\* file, until all attempts are used up.
GetBlob(e, o) ==
    /\ Fetches(e, o)
    /\ file[o] = "partial"
    /\ \/ /\ o \in cas
          /\ FileBecomes(o, "whole")
          /\ Write(o, "whole")
          /\ UNCHANGED fetches
          /\ NoFault
       \/ /\ fetches[o] < MaxRetries
          /\ fetches' = [fetches EXCEPT ![o] = @ + 1]
          /\ UNCHANGED <<file, disk>>
          /\ Fault
       \/ /\ \/ (o \notin cas \/ FetchCancelled(e)) /\ NoFault
             \/ fetches[o] = MaxRetries /\ Fault
          /\ FileBecomes(o, "failed")
          /\ UNCHANGED <<fetches, disk>>
    /\ UNCHANGED <<kind, step, storeVars, batchVars, groupVars, execVars>>

\* Close and Chmod, and for the remote runner Rename.
Rename(e, o) ==
    /\ Fetches(e, o)
    /\ file[o] = "whole"
    /\ \/ /\ FileBecomes(o, "done")
          /\ disk' = [disk EXCEPT ![o] = "whole"]
          /\ NoFault
       \/ FileBecomes(o, "failed") /\ UNCHANGED disk /\ Fault
    /\ UNCHANGED <<kind, step, storeVars, batchVars, groupVars, execVars,
                   fetches>>

\* The group returns when every goroutine has.  The fetch of a cached result
\* that fails is a miss.
FetchReturns(e) ==
    /\ step[e] \in {"hit", "fetch"}
    /\ \A o \in OutputsOf(e): file[o] \in {"done", "failed"}
    /\ Goto(e, IF ~FetchCancelled(e) THEN "success"
               ELSE IF step[e] = "hit" THEN OnMiss ELSE "failure")
    /\ file' = [o \in AllOutputs |-> IF o \in OutputsOf(e) THEN "none"
                                     ELSE file[o]]
    /\ fetches' = [o \in AllOutputs |-> IF o \in OutputsOf(e) THEN 0
                                        ELSE fetches[o]]
    /\ NoFault
    /\ UNCHANGED <<kind, storeVars, batchVars, groupVars, execVars, disk>>

Fetch(e) ==
    \/ FetchReturns(e)
    \/ \E o \in OutputsOf(e): Create(e, o) \/ GetBlob(e, o) \/ Rename(e, o)

-----------------------------------------------------------------------------

\* What the goroutines of edge e do.
Client(e) ==
    \/ Lookup(e) \/ RunLocally(e) \/ Publish(e) \/ Fetch(e)
    \/ /\ Upload(e) \/ UploadFails(e) \/ Wait(e) \/ WaitReturns(e)
       /\ UNCHANGED <<execVars, fileVars>>
    \/ \E t \in tasks:
         t.e = e /\ UploadTask(t) /\ UNCHANGED <<execVars, fileVars>>
    \/ Executor(e) /\ UNCHANGED fileVars

Server(e) == Run(e) /\ UNCHANGED fileVars

Environment ==
    \E b \in Blobs: (Evict(b) \/ Edit(b)) /\ UNCHANGED <<execVars, fileVars>>

Over == panicked \/ \A e \in Edges: step[e] \in {"success", "failure"}

Next ==
    /\ ~panicked
    /\ (\E e \in Edges: Client(e) \/ Server(e)) \/ Environment

Spec == Init /\ [][Next]_vars

\* Goroutines run and their calls return, one way or the other; the server
\* finishes the operations it accepted.
FairSpec ==
    /\ Spec
    /\ \A e \in Edges: /\ WF_vars(~panicked /\ Client(e))
                       /\ WF_vars(~panicked /\ Server(e))

-----------------------------------------------------------------------------
(* Properties.                                                             *)

Stored == cas \union evicted

\* What the client goes by is true of the server, but for what the server
\* has dropped since: what the local cache says is there (localcache), what
\* an uploader reported as uploaded before its action is executed or its
\* result published (Wait), and what a cached result names.  Two edges that
\* send the same blob, a batch of which some blobs are refused, a retry of
\* half-stored data and a file edited on the way could all break it.
ClaimedIsStored ==
    /\ lastSeen \subseteq Stored
    /\ \A e \in Edges: step[e] \in {"start", "recv", "fetch", "publish"} =>
         Range(ToUpload(e)) \subseteq Stored
    /\ \A e \in entries: OutputsOf(e) \subseteq Stored

\* The remote runner never leaves part of a file at the path of an output,
\* however downloads fail or are cancelled (fetchOutputsAndResult); and an
\* edge that succeeds has all its outputs on disk, also when the caching
\* runner first overwrote them in place with a fetch that failed.
OutputsAreWhole ==
    /\ kind = "remote" => \A o \in AllOutputs: disk[o] # "partial"
    /\ \A e \in Edges: step[e] \in {"publish", "success"} =>
         \A o \in OutputsOf(e): disk[o] = "whole"

\* The goroutine of every edge comes to a result, whatever the server
\* refuses and whichever calls fail: retries, cancelled groups and broken
\* streams end.  (Or the process dies in remote_exec.Wait.)
EveryEdgeAnswered == <>Over
=============================================================================
