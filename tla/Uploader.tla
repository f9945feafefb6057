------------------------------ MODULE Uploader ------------------------------
(***************************************************************************)
(* BatchCASUploader (internal/cachetools) with the process-wide record of  *)
(* blobs seen on the server (internal/localcache) and the server's store.  *)
(* Small blobs are read at once and sent in batches, large ones are        *)
(* streamed from their file.  Each batch and each stream is a goroutine of *)
(* an errgroup that asks which blobs are missing, sends those, and tries   *)
(* again when a call fails.  The server drops blobs when it likes.         *)
(***************************************************************************)
EXTENDS Integers, Sequences, FiniteSets, FiniteSetsExt, Functions

CONSTANTS
    Edges,
    Blobs,          \* contents, named by their digests
    Files,          \* the blobs that are read from files
    Size,           \* Size[b]: bytes to send
    BatchLimit,     \* BatchUploadLimitBytes
    Inputs,         \* Inputs[e]: flattened tree, command and action of e
    Outputs,        \* Outputs[e]: what the command of e produces
    Stdout,         \* Stdout[e]: what it prints
    MaxRetries,     \* remote_retries
    MaxFaults       \* bound: failing calls, evictions and edits together

ASSUME UploaderAssumption ==
    /\ Inputs \in [Edges -> Seq(Blobs)]
    /\ Outputs \in [Edges -> Seq(Blobs)]
    /\ Stdout \in [Edges -> Blobs]
    /\ Files \subseteq Blobs
    /\ Size \in [Blobs -> Nat]
    /\ BatchLimit \in Nat /\ MaxRetries \in Nat /\ MaxFaults \in Nat

VARIABLES
    kind,           \* which runner: "remote" or "caching"
    step,           \* step[e]: where the goroutine of edge e is
    faults,         \* how many faults there were
    cas,            \* blobs the server holds
    evicted,        \* history: blobs the server has dropped
    lastSeen,       \* localcache
    changed,        \* files edited since they were hashed
    pos,            \* pos[e]: how many blobs were handed to Upload
    uploads,        \* uploads[e]: blobs the uploader of e has taken
    unsent,         \* unsent[e]: the current batch
    corrupt,        \* corrupt[e]: batched blobs read after an edit
    tasks,          \* goroutines of the uploaders that have not returned
    egErr           \* egErr[e]: the errgroup of e has an error

storeVars == <<cas, evicted, lastSeen>>
batchVars == <<changed, pos, uploads, unsent, corrupt>>
groupVars == <<tasks, egErr>>

UploaderInit ==
    /\ lastSeen = {}
    /\ evicted = {}
    /\ faults = 0
    /\ changed = {}
    /\ pos = [e \in Edges |-> 0]
    /\ uploads = [e \in Edges |-> {}]
    /\ unsent = [e \in Edges |-> {}]
    /\ corrupt = [e \in Edges |-> {}]
    /\ tasks = {}
    /\ egErr = [e \in Edges |-> FALSE]

Fault == faults < MaxFaults /\ faults' = faults + 1
NoFault == UNCHANGED faults

Goto(e, s) == step' = [step EXCEPT ![e] = s]

\* What the runner uploads for e: the inputs before a remote execution, the
\* outputs and what was printed after a local one.
ToUpload(e) == IF kind = "remote" THEN Inputs[e]
               ELSE Append(Outputs[e], Stdout[e])

-----------------------------------------------------------------------------
(* The server and the user.                                                *)

Evict(b) ==
    /\ Fault
    /\ b \in cas
    /\ cas' = cas \ {b}
    /\ evicted' = evicted \union {b}
    /\ UNCHANGED <<kind, step, lastSeen, batchVars, groupVars>>

Edit(b) ==
    /\ kind = "remote"
    /\ b \in Files \ changed
    /\ \E e \in Edges: b \in Range(Inputs[e])
    /\ changed' = changed \union {b}
    /\ Fault
    /\ UNCHANGED <<kind, step, storeVars, pos, uploads, unsent, corrupt,
                   groupVars>>

-----------------------------------------------------------------------------
(* Upload and Wait, called by the goroutine of edge e.                     *)

Bytes(S) == MapThenSumSet(LAMBDA b: Size[b], S)

\* The goroutine of e that sends the blobs reqs: where it is, what the last
\* answer of the server said is there, and how often it tried again.
Task(e, at, reqs, there, tries) ==
    [e |-> e, at |-> at, reqs |-> reqs, there |-> there, tries |-> tries]

NewTask(e, S) == Task(e, "find", S, {}, 0)

\* A blob is read when it joins a batch, and when its stream is sent.  When
\* it does not fit, flushCurrentBatch starts a goroutine for the batch.
AddToBatch(e, b) ==
    LET full == Bytes(unsent[e]) + Size[b] > BatchLimit
    IN  /\ corrupt' = [corrupt EXCEPT ![e] = @ \union ({b} \intersect changed)]
        /\ unsent' = [unsent EXCEPT ![e] = IF full THEN {b} ELSE @ \union {b}]
        /\ tasks' = IF full THEN tasks \union {NewTask(e, unsent[e])} ELSE tasks

Stream(e, b) ==
    /\ tasks' = tasks \union {NewTask(e, {b})}
    /\ UNCHANGED <<unsent, corrupt>>

Upload(e) ==
    /\ step[e] = "upload"
    /\ pos[e] < Len(ToUpload(e))
    /\ pos' = [pos EXCEPT ![e] = @ + 1]
    /\ LET b == ToUpload(e)[pos[e] + 1]
       IN  \/ /\ b \in uploads[e]
              /\ UNCHANGED <<uploads, unsent, corrupt, tasks>>
           \/ /\ b \notin uploads[e]
              /\ uploads' = [uploads EXCEPT ![e] = @ \union {b}]
              /\ IF Size[b] > BatchLimit THEN Stream(e, b) ELSE AddToBatch(e, b)
    /\ NoFault
    /\ UNCHANGED <<kind, step, storeVars, changed, egErr>>

\* A file cannot be opened or read: the edge fails, and nobody waits for the
\* goroutines that were started.
UploadFails(e) ==
    /\ step[e] = "upload"
    /\ pos[e] < Len(ToUpload(e))
    /\ ToUpload(e)[pos[e] + 1] \in Files
    /\ Goto(e, "failure")
    /\ Fault
    /\ UNCHANGED <<kind, storeVars, batchVars, groupVars>>

\* Wait flushes what is left ...
Wait(e) ==
    /\ step[e] = "upload"
    /\ pos[e] = Len(ToUpload(e))
    /\ Goto(e, "wait")
    /\ unsent' = [unsent EXCEPT ![e] = {}]
    /\ tasks' = IF unsent[e] = {} THEN tasks
                ELSE tasks \union {NewTask(e, unsent[e])}
    /\ NoFault
    /\ UNCHANGED <<kind, storeVars, changed, pos, uploads, corrupt, egErr>>

\* ... and returns when every goroutine has: the first error, if any.
WaitReturns(e) ==
    /\ step[e] = "wait"
    /\ \A t \in tasks: t.e # e
    /\ Goto(e, IF egErr[e] THEN "failure"
               ELSE IF kind = "remote" THEN "start" ELSE "publish")
    /\ NoFault
    /\ UNCHANGED <<kind, storeVars, batchVars, groupVars>>

-----------------------------------------------------------------------------
(* The goroutine of one batch or one stream.                               *)

Streamed(t) == \E b \in t.reqs: Size[b] > BatchLimit

Becomes(t, at, reqs, there, tries) ==
    /\ tasks' = (tasks \ {t}) \union {Task(t.e, at, reqs, there, tries)}
    /\ UNCHANGED egErr

Succeeds(t) ==
    /\ tasks' = tasks \ {t}
    /\ UNCHANGED egErr

Fails(t) ==
    /\ tasks' = tasks \ {t}
    /\ egErr' = [egErr EXCEPT ![t.e] = TRUE]

\* Mutant: the attempts are not counted.
TryForEver(t) == Becomes(t, "find", t.reqs, {}, t.tries)

\* retry.Do tries again unless all attempts are used up.
TryAgain(t) ==
    IF t.tries < MaxRetries
    THEN Becomes(t, "find", t.reqs, {}, t.tries + 1)
    ELSE Fails(t)

\* findMissingBlobs: blobs seen within local_existence_cache_ttl are not
\* asked for; entries that are older are dropped.  The server answers, or
\* the call fails and everything is sent.
FindMissing(t) ==
    /\ t.at = "find"
    /\ \E recent \in SUBSET (t.reqs \intersect lastSeen):
         LET asked == t.reqs \ recent
         IN  /\ lastSeen' = lastSeen \ asked
             /\ \/ /\ asked = {}
                   /\ Succeeds(t)
                   /\ NoFault
                \/ /\ asked # {}
                   /\ Becomes(t, "found", asked \ cas, asked \intersect cas, t.tries)
                   /\ NoFault
                \/ /\ asked # {}
                   /\ Becomes(t, "send", t.reqs, {}, t.tries)
                   /\ Fault
    /\ UNCHANGED <<kind, step, cas, evicted, batchVars>>

\* The answer arrives: found blobs are remembered and not sent.
Found(t) ==
    /\ t.at = "found"
    /\ lastSeen' = lastSeen \union t.there
    /\ IF t.reqs = {} THEN Succeeds(t)
       ELSE Becomes(t, "send", t.reqs, {}, t.tries)
    /\ NoFault
    /\ UNCHANGED <<kind, step, cas, evicted, batchVars>>

\* The blobs whose data does not match their digest.
Mutated(t) ==
    t.reqs \intersect (IF Streamed(t) THEN changed ELSE corrupt[t.e])

\* BatchUpdateBlobs or ByteStream.Write on the server, which refuses data
\* that does not match its digest, and may refuse any blob.
Send(t) ==
    /\ t.at = "send"
    /\ \E ok \in SUBSET t.reqs:
         /\ ok \intersect Mutated(t) \subseteq cas
         /\ cas' = cas \union ok
         /\ Becomes(t, "reply", t.reqs, ok, t.tries)
         /\ IF t.reqs \subseteq ok \union Mutated(t) THEN NoFault ELSE Fault
    /\ UNCHANGED <<kind, step, evicted, lastSeen, batchVars>>

\* The call fails, whatever the server has stored by then.
SendFails(t) ==
    /\ t.at = "send"
    /\ \E ok \in SUBSET (t.reqs \ Mutated(t)): cas' = cas \union ok
    /\ TryAgain(t)
    /\ Fault
    /\ UNCHANGED <<kind, step, evicted, lastSeen, batchVars>>

\* Mutant: every blob of the reply is remembered, whatever its status.
RememberAll(t) ==
    /\ t.at = "reply"
    /\ lastSeen' = lastSeen \union t.reqs
    /\ IF t.reqs = t.there THEN Succeeds(t) ELSE Fails(t)
    /\ NoFault
    /\ UNCHANGED <<kind, step, cas, evicted, batchVars>>

\* The reply arrives.  The statuses of a batch are read up to the first
\* error, which ends the goroutine.  A stream is tried again, unless the
\* digest did not match and its file is seen to have been edited.
Reply(t) ==
    /\ t.at = "reply"
    /\ \/ /\ t.there = t.reqs
          /\ lastSeen' = lastSeen \union t.reqs
          /\ Succeeds(t)
       \/ /\ t.there # t.reqs
          /\ ~Streamed(t)
          /\ \E read \in SUBSET t.there: lastSeen' = lastSeen \union read
          /\ Fails(t)
       \/ /\ t.there # t.reqs
          /\ Streamed(t)
          /\ UNCHANGED lastSeen
          /\ TryAgain(t) \/ (Mutated(t) # {} /\ Fails(t))
    /\ NoFault
    /\ UNCHANGED <<kind, step, cas, evicted, batchVars>>

\* The first error of the group cancels the context of the others.
Cancelled(t) ==
    /\ egErr[t.e]
    /\ Fails(t)
    /\ NoFault
    /\ UNCHANGED <<kind, step, storeVars, batchVars>>

UploadTask(t) ==
    \/ FindMissing(t) \/ Found(t) \/ Send(t) \/ SendFails(t) \/ Reply(t)
    \/ Cancelled(t)
=============================================================================
