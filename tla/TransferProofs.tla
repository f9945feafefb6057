--------------------------- MODULE TransferProofs ---------------------------
(***************************************************************************)
(* What the client claims of the server's store, and what it leaves on     *)
(* disk, for every set of edges and blobs, every batch limit and any       *)
(* number of faults.                                                       *)
(***************************************************************************)
EXTENDS Transfer, TLAPS

Steps == {"lookup", "hit", "run", "upload", "wait", "start", "recv", "fetch",
          "publish", "success", "failure"}
Tasks == [e: Edges, reqs: SUBSET Blobs, at: {"find", "found", "send", "reply"},
          there: SUBSET Blobs, tries: Nat]

Types ==
    /\ kind \in {"remote", "caching"}
    /\ step \in [Edges -> Steps]
    /\ pos \in [Edges -> Nat]
    /\ uploads \in [Edges -> SUBSET Blobs]
    /\ unsent \in [Edges -> SUBSET Blobs]
    /\ tasks \in SUBSET Tasks
    /\ egErr \in [Edges -> BOOLEAN]
    /\ entries \in SUBSET Edges

\* The steps only one of the runners takes.
StepInv ==
    \A e \in Edges:
      /\ step[e] \in {"start", "recv", "fetch"} => kind = "remote"
      /\ step[e] \in {"run", "publish"} => kind = "caching"

\* A blob the uploader of e has taken has reached the server, or is still in
\* the batch or with a goroutine.
Pending(e, b) == b \in unsent[e] \/ \E t \in tasks: t.e = e /\ b \in t.reqs

UploadInv ==
    /\ \A t \in tasks: t.there \subseteq Stored
    /\ \A e \in Edges:
         /\ pos[e] <= Len(ToUpload(e))
         /\ \A i \in 1..pos[e]: ToUpload(e)[i] \in uploads[e]
         /\ step[e] = "wait" => unsent[e] = {} /\ pos[e] = Len(ToUpload(e))
         /\ ~egErr[e] => \A b \in uploads[e]: b \in Stored \/ Pending(e, b)

Inv == Types /\ StepInv /\ UploadInv /\ ClaimedIsStored

-----------------------------------------------------------------------------

\* What ToUpload gives the uploader is a sequence of blobs.
LEMMA ToUploadType ==
    ASSUME NEW e \in Edges
    PROVE  /\ ToUpload(e) \in Seq(Blobs)
           /\ Range(ToUpload(e)) = {ToUpload(e)[i]: i \in 1..Len(ToUpload(e))}
  <1>1. ToUpload(e) \in Seq(Blobs)
    BY UploaderAssumption DEF ToUpload
  <1> QED  BY <1>1 DEF Range

\* The history of the store only grows: no step of the server or the client
\* makes a claim false that was true.
LEMMA StoredGrows ==
    ASSUME Next
    PROVE  Stored \subseteq Stored'
  <1>1. ASSUME NEW e \in Edges, Client(e)
        PROVE  Stored \subseteq Stored'
    <2>1. CASE Lookup(e) \/ RunLocally(e) \/ Publish(e) \/ Fetch(e)
      BY <2>1, Zenon DEF Lookup, RunLocally, Publish, Fetch, FetchReturns, Create,
                  GetBlob, Rename, storeVars, Stored
    <2>2. CASE Upload(e) \/ UploadFails(e) \/ Wait(e) \/ WaitReturns(e)
      BY <2>2, Zenon DEF Upload, UploadFails, Wait, WaitReturns, storeVars, Stored
    <2>3. CASE \E t \in tasks: UploadTask(t)
      BY <2>3, Zenon DEF UploadTask, FindMissing, Found, Send, SendFails, Reply,
                  Cancelled, storeVars, Stored
    <2>4. CASE Executor(e)
      BY <2>4, Zenon DEF Executor, Start, StartFails, RecvProgress, RecvDone,
                  RecvMissing, RecvUnavailable, storeVars, Stored
    <2> QED  BY <1>1, <2>1, <2>2, <2>3, <2>4, Zenon DEF Client
  <1>2. ASSUME NEW e \in Edges, Server(e)
        PROVE  Stored \subseteq Stored'
    BY <1>2, Zenon DEF Server, Run, Stored
  <1>3. ASSUME Environment
        PROVE  Stored \subseteq Stored'
    BY <1>3, Zenon DEF Environment, Evict, Edit, storeVars, Stored
  <1> QED  BY <1>1, <1>2, <1>3, Zenon DEF Next

\* A step that leaves the uploaders alone preserves what is known of them.
LEMMA UploadersAlone ==
    ASSUME UploadInv, Stored \subseteq Stored',
           UNCHANGED <<kind, pos, uploads, unsent, tasks, egErr>>,
           \A e \in Edges: step'[e] = "wait" => step[e] = "wait"
    PROVE  UploadInv'
  <1>1. \A e \in Edges: ToUpload(e)' = ToUpload(e)
    BY Zenon DEF ToUpload
  <1>2. \A e \in Edges, b \in Blobs: Pending(e, b) <=> Pending(e, b)'
    BY Zenon DEF Pending
  <1> QED  BY <1>1, <1>2 DEF UploadInv, Pending

\* A claim about an edge stays true unless the edge enters a step that makes
\* a new claim.
LEMMA ClaimsStay ==
    ASSUME ClaimedIsStored, Stored \subseteq Stored', UNCHANGED kind,
           lastSeen' \subseteq Stored',
           \A e \in Edges: step'[e] \in {"start", "recv", "fetch", "publish"} =>
             \/ step[e] \in {"start", "recv", "fetch", "publish"}
             \/ Range(ToUpload(e)) \subseteq Stored',
           \A e \in entries': e \in entries \/ OutputsOf(e) \subseteq Stored'
    PROVE  ClaimedIsStored'
  <1>1. \A e: ToUpload(e)' = ToUpload(e) /\ OutputsOf(e)' = OutputsOf(e)
    BY Zenon DEF ToUpload, OutputsOf
  <1> QED  BY <1>1, Zenon DEF ClaimedIsStored

\* At the start nothing is claimed but the outputs of earlier results.
LEMMA InvInit == Init => Inv
  <1> SUFFICES ASSUME Init PROVE Inv
    OBVIOUS
  <1>1. Types
    BY Zenon DEF Init, UploaderInit, Types, Steps
  <1>2. StepInv
    BY Zenon DEF Init, StepInv
  <1>3. UploadInv
    BY ToUploadType DEF Init, UploaderInit, UploadInv
  <1>4. ClaimedIsStored
    BY Zenon DEF Init, UploaderInit, ClaimedIsStored, Stored
  <1> QED  BY <1>1, <1>2, <1>3, <1>4, Zenon DEF Inv

\* The steps around the uploads: lookup, local run, publication, downloads.
LEMMA InvCache ==
    ASSUME Inv, NEW e \in Edges, Stored \subseteq Stored',
           Lookup(e) \/ RunLocally(e) \/ Publish(e) \/ Fetch(e)
    PROVE  Inv'
  <1> USE DEF Inv
  <1>1. CASE Lookup(e)
    <2>1. Types' /\ StepInv'
      BY <1>1, Zenon DEF Lookup, Types, StepInv, Steps, Goto, OnMiss, batchVars, groupVars,
                  execVars
    <2>2. UploadInv'
      BY <1>1, UploadersAlone, Zenon DEF Lookup, Types, Goto, OnMiss, batchVars, groupVars
    <2>3. ClaimedIsStored'
      BY <1>1, ClaimsStay, Zenon DEF Lookup, Types, Goto, OnMiss, storeVars, execVars,
                              ClaimedIsStored
    <2> QED  BY <2>1, <2>2, <2>3, Zenon
  <1>2. CASE RunLocally(e)
    <2>1. Types' /\ StepInv'
      BY <1>2, Zenon DEF RunLocally, Types, StepInv, Steps, Goto, batchVars, groupVars,
                  execVars
    <2>2. UploadInv'
      BY <1>2, UploadersAlone, Zenon DEF RunLocally, Types, Goto, batchVars, groupVars
    <2>3. ClaimedIsStored'
      BY <1>2, ClaimsStay, Zenon DEF RunLocally, Types, Goto, storeVars, execVars,
                              ClaimedIsStored
    <2> QED  BY <2>1, <2>2, <2>3, Zenon
  <1>3. CASE Publish(e)
    <2>1. Types' /\ StepInv'
      BY <1>3, Zenon DEF Publish, Types, StepInv, Steps, Goto, batchVars, groupVars
    <2>2. UploadInv'
      BY <1>3, UploadersAlone, Zenon DEF Publish, Types, Goto, batchVars, groupVars
    <2>3. OutputsOf(e) \subseteq Stored'
      <3>1. ToUpload(e) = Append(Outputs[e], Stdout[e])
        BY <1>3, Zenon DEF Publish, StepInv, ToUpload
      <3>2. OutputsOf(e) \subseteq Range(ToUpload(e))
        <4>1. Outputs[e] \in Seq(Blobs) /\ Stdout[e] \in Blobs
          BY UploaderAssumption, Zenon
        <4>2. /\ DOMAIN ToUpload(e) = 1..(Len(Outputs[e]) + 1)
              /\ \A i \in 1..Len(Outputs[e]): ToUpload(e)[i] = Outputs[e][i]
          BY <3>1, <4>1
        <4>3. DOMAIN Outputs[e] = 1..Len(Outputs[e]) /\ Len(Outputs[e]) \in Nat
          BY <4>1
        <4> QED  BY <4>2, <4>3 DEF OutputsOf, Range
      <3> QED  BY <1>3, <3>2, Zenon DEF Publish, ClaimedIsStored
    <2>4. ClaimedIsStored'
      BY <1>3, <2>3, ClaimsStay, Zenon DEF Publish, Types, Goto, storeVars, ClaimedIsStored
    <2> QED  BY <2>1, <2>2, <2>4, Zenon
  <1>4. CASE Fetch(e)
    <2>1. /\ step[e] \in {"hit", "fetch"}
          /\ step' = step \/ Goto(e, "success") \/ Goto(e, "failure")
             \/ (step[e] = "hit" /\ Goto(e, OnMiss))
          /\ UNCHANGED <<kind, storeVars, batchVars, groupVars, execVars>>
      BY <1>4, Zenon DEF Fetch, FetchReturns, Create, GetBlob, Rename, Fetches, Goto
    <2>2. Types' /\ StepInv'
      BY <2>1, Zenon DEF Types, StepInv, Steps, Goto, OnMiss, batchVars, groupVars, execVars
    <2>3. UploadInv'
      BY <2>1, UploadersAlone, Zenon DEF Types, Goto, OnMiss, batchVars, groupVars
    <2>4. ClaimedIsStored'
      BY <2>1, ClaimsStay, Zenon DEF Types, Goto, OnMiss, storeVars, execVars,
                              ClaimedIsStored
    <2> QED  BY <2>2, <2>3, <2>4, Zenon
  <1> QED  BY <1>1, <1>2, <1>3, <1>4, Zenon

\* Execution and what happens outside the client.
LEMMA InvExecutor ==
    ASSUME Inv, NEW e \in Edges, Stored \subseteq Stored', Executor(e)
    PROVE  Inv'
  <1> USE DEF Inv
  <1>1. /\ step[e] \in {"start", "recv"}
        /\ step' = step \/ Goto(e, "recv") \/ Goto(e, "fetch") \/ Goto(e, "failure")
        /\ lastSeen' = lastSeen \/ lastSeen' = {}
        /\ UNCHANGED <<kind, cas, evicted, batchVars, groupVars, entries>>
    BY Zenon DEF Executor, Start, StartFails, RecvProgress, RecvDone, RecvMissing,
           RecvUnavailable, Goto, storeVars, execVars
  <1>2. Types' /\ StepInv'
    BY <1>1, Zenon DEF Types, StepInv, Steps, Goto, batchVars, groupVars
  <1>3. UploadInv'
    BY <1>1, UploadersAlone, Zenon DEF Types, Goto, batchVars, groupVars
  <1>4. ClaimedIsStored'
    BY <1>1, ClaimsStay, Zenon DEF Types, Goto, ClaimedIsStored
  <1> QED  BY <1>2, <1>3, <1>4, Zenon

\* The server runs actions and drops blobs, the user edits files: what was
\* ever stored stays so.
LEMMA InvServer ==
    ASSUME Inv, Stored \subseteq Stored',
           (\E e \in Edges: Server(e)) \/ Environment
    PROVE  Inv'
  <1> USE DEF Inv
  <1>1. /\ UNCHANGED <<kind, step, lastSeen, pos, uploads, unsent, groupVars>>
        /\ \A f \in entries': f \in entries \/ (f \in Edges /\ OutputsOf(f) \subseteq Stored')
    BY Zenon DEF Server, Run, Environment, Evict, Edit, OutputsOf, Stored, storeVars,
           batchVars, execVars
  <1>2. Types' /\ StepInv'
    BY <1>1, Zenon DEF Types, StepInv, Steps, groupVars
  <1>3. UploadInv'
    BY <1>1, UploadersAlone, Zenon DEF groupVars
  <1>4. ClaimedIsStored'
    BY <1>1, ClaimsStay, Zenon DEF ClaimedIsStored
  <1> QED  BY <1>2, <1>3, <1>4, Zenon

\* The calls of the goroutine of edge e.
LEMMA InvUpload ==
    ASSUME Inv, NEW e \in Edges, Stored \subseteq Stored', Upload(e),
           UNCHANGED execVars
    PROVE  Inv'
  <1> USE DEF Inv
  <1>1. PICK b \in Blobs: /\ b = ToUpload(e)[pos[e] + 1]
                          /\ pos[e] + 1 \in 1..Len(ToUpload(e))
    BY ToUploadType DEF Upload, Types
  <1>2. /\ pos' = [pos EXCEPT ![e] = @ + 1]
        /\ UNCHANGED <<kind, step, cas, evicted, lastSeen, egErr, entries>>
        /\ \/ b \in uploads[e] /\ UNCHANGED <<uploads, unsent, tasks>>
           \/ /\ uploads' = [uploads EXCEPT ![e] = @ \union {b}]
              /\ Stream(e, b) \/ AddToBatch(e, b)
    BY <1>1, Zenon DEF Upload, storeVars, execVars
  <1>3. /\ pos' = [pos EXCEPT ![e] = @ + 1]
        /\ UNCHANGED <<kind, step, cas, evicted, lastSeen, egErr, entries>>
        /\ b \in uploads'[e]
        /\ uploads' = uploads \/ uploads' = [uploads EXCEPT ![e] = @ \union {b}]
    BY <1>1, <1>2, Zenon DEF Types
  <1>4. /\ unsent' \in [Edges -> SUBSET Blobs]
        /\ \A f \in Edges: f # e => unsent'[f] = unsent[f]
        /\ tasks' = tasks \/ tasks' = tasks \union {NewTask(e, unsent[e])}
           \/ tasks' = tasks \union {NewTask(e, {b})}
        /\ \A c \in unsent[e] : c \in unsent'[e] \/ NewTask(e, unsent[e]) \in tasks'
        /\ b \in uploads[e] \/ b \in unsent'[e] \/ NewTask(e, {b}) \in tasks'
    <2>1. CASE UNCHANGED <<unsent, tasks>> /\ b \in uploads[e]
      BY <2>1, Zenon DEF Types
    <2>2. CASE Stream(e, b)
      BY <2>2, Zenon DEF Stream, Types
    <2>3. CASE AddToBatch(e, b)
      <3>1. \/ /\ unsent' = [unsent EXCEPT ![e] = {b}]
               /\ tasks' = tasks \union {NewTask(e, unsent[e])}
            \/ /\ unsent' = [unsent EXCEPT ![e] = @ \union {b}]
               /\ tasks' = tasks
        BY <2>3, Zenon DEF AddToBatch
      <3>2. unsent' \in [Edges -> SUBSET Blobs]
        BY <1>1, <3>1 DEF Types
      <3>3. /\ \A f \in Edges: f # e => unsent'[f] = unsent[f]
            /\ b \in unsent'[e]
        BY <3>1, Zenon DEF Types
      <3>4. unsent'[e] = unsent[e] \union {b} \/ NewTask(e, unsent[e]) \in tasks'
        BY <3>1, Zenon DEF Types
      <3> QED  BY <3>1, <3>2, <3>3, <3>4, Zenon
    <2> QED  BY <1>2, <2>1, <2>2, <2>3, Zenon
  <1>5. /\ NewTask(e, unsent[e]) \in Tasks /\ NewTask(e, {b}) \in Tasks
        /\ \A S: /\ NewTask(e, S).e = e /\ NewTask(e, S).reqs = S
                 /\ NewTask(e, S).there = {}
    BY <1>1, Zenon DEF NewTask, Task, Tasks, Types
  <1>6. Types' /\ StepInv'
    <2>1. tasks' \in SUBSET Tasks
      BY <1>4, <1>5, Zenon DEF Types
    <2>2. pos' \in [Edges -> Nat] /\ uploads' \in [Edges -> SUBSET Blobs]
      BY <1>3 DEF Types
    <2> QED  BY <1>3, <1>4, <2>1, <2>2, Zenon DEF Types, StepInv
  <1>7. \A f \in Edges: ToUpload(f)' = ToUpload(f)
    BY <1>3, Zenon DEF ToUpload
  <1>8. \A f \in Edges, c \in Blobs: Pending(f, c) => Pending(f, c)'
    BY <1>4, <1>5, Zenon DEF Pending
  <1>9. b \in uploads[e] \/ Pending(e, b)'
    BY <1>4, <1>5 DEF Pending
  <1>10. \A f \in Edges: \A i \in 1..pos'[f]: ToUpload(f)'[i] \in uploads'[f]
    <2> SUFFICES ASSUME NEW f \in Edges, NEW i \in 1..pos'[f]
                 PROVE  ToUpload(f)[i] \in uploads'[f]
      BY <1>7, Zenon
    <2>1. CASE f = e /\ i = pos[e] + 1
      BY <1>1, <1>3, <2>1, Zenon
    <2>2. CASE ~(f = e /\ i = pos[e] + 1)
      <3>1. i \in 1..pos[f]
        BY <1>3, <2>2 DEF Types
      <3> QED  BY <1>3, <3>1, Zenon DEF UploadInv, Types
    <2> QED  BY <2>1, <2>2, Zenon
  <1>11. \A f \in Edges: ~egErr'[f] =>
           \A c \in uploads'[f]: c \in Stored' \/ Pending(f, c)'
    <2> SUFFICES ASSUME NEW f \in Edges, ~egErr[f], NEW c \in uploads'[f]
                 PROVE  c \in Stored' \/ Pending(f, c)'
      BY <1>3, Zenon
    <2>1. c \in uploads[f] \/ (f = e /\ c = b)
      BY <1>3 DEF Types
    <2>2. CASE c \in uploads[f]
      <3>1. c \in Blobs /\ (c \in Stored \/ Pending(f, c))
        BY <2>2, Zenon DEF UploadInv, Types
      <3> QED  BY <3>1, <1>8, Zenon
    <2>3. CASE f = e /\ c = b /\ c \notin uploads[f]
      BY <2>3, <1>9, Zenon
    <2> QED  BY <2>1, <2>2, <2>3, Zenon
  <1>12. \A t \in tasks': t.there \subseteq Stored'
    BY <1>4, <1>5 DEF UploadInv
  <1>13. \A f \in Edges: /\ pos'[f] <= Len(ToUpload(f)')
                         /\ step'[f] # "wait" \/ f # e
    BY <1>1, <1>3, <1>7 DEF UploadInv, Upload, Types
  <1>14. \A f \in Edges: step'[f] = "wait" =>
            unsent'[f] = {} /\ pos'[f] = Len(ToUpload(f)')
    BY <1>3, <1>4, <1>7, <1>13, Zenon DEF UploadInv, Types
  <1>15. UploadInv'
    BY <1>10, <1>11, <1>12, <1>13, <1>14, Zenon DEF UploadInv
  <1>16. ClaimedIsStored'
    BY <1>3, ClaimsStay, Zenon DEF ClaimedIsStored
  <1> QED  BY <1>6, <1>15, <1>16, Zenon

\* Wait hands the rest of the batch to a goroutine: no blob is forgotten.
LEMMA InvWait ==
    ASSUME Inv, NEW e \in Edges, Stored \subseteq Stored', Wait(e),
           UNCHANGED execVars
    PROVE  Inv'
  <1> USE DEF Inv
  <1>1. /\ NewTask(e, unsent[e]) \in Tasks
        /\ NewTask(e, unsent[e]).e = e
        /\ NewTask(e, unsent[e]).reqs = unsent[e]
        /\ NewTask(e, unsent[e]).there = {}
    BY Zenon DEF NewTask, Task, Tasks, Types
  <1>2. /\ step[e] = "upload" /\ pos[e] = Len(ToUpload(e))
        /\ step' = [step EXCEPT ![e] = "wait"]
        /\ unsent' = [unsent EXCEPT ![e] = {}]
        /\ tasks' = tasks \/ tasks' = tasks \union {NewTask(e, unsent[e])}
        /\ unsent[e] = {} \/ NewTask(e, unsent[e]) \in tasks'
        /\ UNCHANGED <<kind, lastSeen, pos, uploads, egErr, entries>>
    BY Zenon DEF Wait, Goto, storeVars, execVars
  <1>3. Types' /\ StepInv'
    BY <1>1, <1>2, Zenon DEF Types, StepInv, Steps
  <1>4. \A f \in Edges: ToUpload(f)' = ToUpload(f)
    BY <1>2, Zenon DEF ToUpload
  <1>5. \A f \in Edges, c \in Blobs: Pending(f, c) => Pending(f, c)'
    BY <1>1, <1>2, Zenon DEF Pending, Types
  <1>6. \A t \in tasks': t.there \subseteq Stored'
    BY <1>1, <1>2, Zenon DEF UploadInv
  <1>7. \A f \in Edges: ~egErr'[f] =>
           \A c \in uploads'[f]: c \in Stored' \/ Pending(f, c)'
    BY <1>2, <1>5, Zenon DEF UploadInv, Types
  <1>8. UploadInv'
    BY <1>2, <1>4, <1>6, <1>7, Zenon DEF UploadInv, Types
  <1>9. ClaimedIsStored'
    BY <1>2, ClaimsStay, Zenon DEF ClaimedIsStored, Types
  <1> QED  BY <1>3, <1>8, <1>9, Zenon

\* When Wait returns without an error nothing is pending any more: every
\* blob has reached the server.
LEMMA InvWaitReturns ==
    ASSUME Inv, NEW e \in Edges, Stored \subseteq Stored',
           UploadFails(e) \/ WaitReturns(e), UNCHANGED execVars
    PROVE  Inv'
  <1> USE DEF Inv
  <1>1. /\ step[e] \in {"upload", "wait"}
        /\ \/ Goto(e, "failure")
           \/ /\ step[e] = "wait" /\ ~egErr[e] /\ \A t \in tasks: t.e # e
              /\ Goto(e, IF kind = "remote" THEN "start" ELSE "publish")
        /\ UNCHANGED <<kind, lastSeen, pos, uploads, unsent, tasks, egErr, entries>>
    BY Zenon DEF UploadFails, WaitReturns, storeVars, batchVars, groupVars, execVars, Types
  <1>2. Types' /\ StepInv'
    BY <1>1, Zenon DEF Types, StepInv, Steps, Goto
  <1>3. UploadInv'
    BY <1>1, UploadersAlone, Zenon DEF Types, Goto
  <1>4. Goto(e, "failure") \/ Range(ToUpload(e)) \subseteq Stored
    BY <1>1, ToUploadType DEF UploadInv, Pending, Types
  <1>5. ClaimedIsStored'
    BY <1>1, <1>4, ClaimsStay, Zenon DEF ClaimedIsStored, Types, Goto
  <1> QED  BY <1>2, <1>3, <1>5, Zenon

\* A goroutine gives up its blobs only when they have reached the server,
\* or with an error.
LEMMA TaskStep ==
    ASSUME Inv, NEW t \in tasks, Stored \subseteq Stored', UploadTask(t)
    PROVE  /\ UNCHANGED <<kind, step, pos, uploads, unsent>>
           /\ lastSeen' \subseteq Stored'
           /\ tasks' \in SUBSET Tasks
           /\ \A u \in tasks': u.there \subseteq Stored'
           /\ \A u \in tasks: u # t => u \in tasks'
           /\ egErr' = egErr \/ egErr' = [egErr EXCEPT ![t.e] = TRUE]
           /\ \/ egErr'[t.e]
              \/ \A b \in t.reqs: b \in Stored' \/ \E u \in tasks': u.e = t.e /\ b \in u.reqs
  <1>1. /\ t.e \in Edges /\ t.reqs \subseteq Blobs /\ t.there \subseteq Stored
        /\ t.tries \in Nat /\ lastSeen \subseteq Stored
        /\ egErr \in [Edges -> BOOLEAN] /\ tasks \subseteq Tasks
        /\ \A u \in tasks: u.there \subseteq Stored
    BY Zenon DEF Inv, Types, Tasks, UploadInv, ClaimedIsStored
  <1>2. ASSUME NEW at \in {"find", "found", "send", "reply"}, NEW reqs \in SUBSET Blobs,
               NEW there \in SUBSET Blobs, NEW tries \in Nat
        PROVE  /\ Task(t.e, at, reqs, there, tries) \in Tasks
               /\ Task(t.e, at, reqs, there, tries).e = t.e
               /\ Task(t.e, at, reqs, there, tries).reqs = reqs
               /\ Task(t.e, at, reqs, there, tries).there = there
    BY <1>1, Zenon DEF Task, Tasks
  <1>3. Fails(t) => /\ tasks' = tasks \ {t}
                    /\ egErr' = [egErr EXCEPT ![t.e] = TRUE] /\ egErr'[t.e]
    BY <1>1, Zenon DEF Fails
  <1>4. ASSUME NEW at \in {"find", "found", "send", "reply"}, NEW reqs \in SUBSET Blobs,
               NEW there \in SUBSET Blobs, NEW tries \in Nat,
               Becomes(t, at, reqs, there, tries), there \subseteq Stored',
               t.reqs \subseteq reqs \union Stored'
        PROVE  /\ tasks' \in SUBSET Tasks
               /\ \A u \in tasks': u.there \subseteq Stored'
               /\ \A u \in tasks: u # t => u \in tasks'
               /\ egErr' = egErr
               /\ \A b \in t.reqs: b \in Stored' \/ \E u \in tasks': u.e = t.e /\ b \in u.reqs
    BY <1>1, <1>2, <1>4 DEF Becomes
  <1>5. ASSUME NEW at \in {"find", "found", "send", "reply"}, NEW tries \in Nat,
               Becomes(t, at, t.reqs, {}, tries)
        PROVE  /\ tasks' \in SUBSET Tasks
               /\ \A u \in tasks': u.there \subseteq Stored'
               /\ \A u \in tasks: u # t => u \in tasks'
               /\ egErr' = egErr
               /\ \A b \in t.reqs: b \in Stored' \/ \E u \in tasks': u.e = t.e /\ b \in u.reqs
    <2>1. {} \in SUBSET Blobs /\ {} \subseteq Stored' /\ t.reqs \in SUBSET Blobs
          /\ t.reqs \subseteq t.reqs \union Stored'
      BY <1>1, Zenon
    <2> QED  BY <1>4, <1>5, <2>1, Zenon
  <1>6. TryAgain(t) => \/ Fails(t)
                       \/ Becomes(t, "find", t.reqs, {}, t.tries + 1)
    BY Zenon DEF TryAgain
  <1>7. CASE FindMissing(t)
    <2>1. PICK recent \in SUBSET (t.reqs \intersect lastSeen):
            /\ lastSeen' = lastSeen \ (t.reqs \ recent)
            /\ \/ t.reqs \ recent = {} /\ Succeeds(t)
               \/ Becomes(t, "found", (t.reqs \ recent) \ cas,
                          (t.reqs \ recent) \intersect cas, t.tries)
               \/ Becomes(t, "send", t.reqs, {}, t.tries)
      BY <1>7, Zenon DEF FindMissing
    <2>2. UNCHANGED <<kind, step, pos, uploads, unsent, cas, evicted>>
      BY <1>7, Zenon DEF FindMissing, batchVars
    <2>3. CASE t.reqs \ recent = {} /\ Succeeds(t)
      BY <1>1, <2>1, <2>2, <2>3, Zenon DEF Succeeds
    <2>4. CASE Becomes(t, "found", (t.reqs \ recent) \ cas,
                       (t.reqs \ recent) \intersect cas, t.tries)
      <3>1. /\ (t.reqs \ recent) \intersect cas \subseteq Stored'
            /\ t.reqs \subseteq ((t.reqs \ recent) \ cas) \union Stored'
        BY <1>1, <2>1, <2>2, Zenon DEF Stored
      <3>2. lastSeen' \subseteq lastSeen
        BY <2>1, Zenon
      <3>3. /\ (t.reqs \ recent) \ cas \in SUBSET Blobs
            /\ (t.reqs \ recent) \intersect cas \in SUBSET Blobs
            /\ "found" \in {"find", "found", "send", "reply"}
        BY <1>1, Zenon
      <3>4. /\ tasks' \in SUBSET Tasks
            /\ \A u \in tasks': u.there \subseteq Stored'
            /\ \A u \in tasks: u # t => u \in tasks'
            /\ egErr' = egErr
            /\ \A b \in t.reqs: b \in Stored' \/ \E u \in tasks': u.e = t.e /\ b \in u.reqs
        BY <1>1, <1>4, <2>4, <3>1, <3>3, Zenon
      <3> QED  BY <1>1, <2>2, <3>2, <3>4, Zenon
    <2>5. CASE Becomes(t, "send", t.reqs, {}, t.tries)
      BY <1>1, <1>5, <2>1, <2>2, <2>5, Zenon
    <2> QED  BY <2>1, <2>3, <2>4, <2>5, Zenon
  <1>8. CASE Found(t)
    <2>1. /\ UNCHANGED <<kind, step, pos, uploads, unsent, cas, evicted>>
          /\ lastSeen' = lastSeen \union t.there
          /\ \/ t.reqs = {} /\ Succeeds(t)
             \/ Becomes(t, "send", t.reqs, {}, t.tries)
      BY <1>8, Zenon DEF Found, batchVars
    <2>2. CASE t.reqs = {} /\ Succeeds(t)
      BY <1>1, <2>1, <2>2, Zenon DEF Succeeds
    <2>3. CASE Becomes(t, "send", t.reqs, {}, t.tries)
      BY <1>1, <1>5, <2>1, <2>3, Zenon
    <2> QED  BY <2>1, <2>2, <2>3, Zenon
  <1>9. CASE Send(t)
    <2>1. PICK ok \in SUBSET t.reqs:
            cas' = cas \union ok /\ Becomes(t, "reply", t.reqs, ok, t.tries)
      BY <1>9, Zenon DEF Send
    <2>2. UNCHANGED <<kind, step, pos, uploads, unsent, lastSeen>>
      BY <1>9, Zenon DEF Send, batchVars
    <2>3. ok \subseteq Stored'
      BY <2>1, Zenon DEF Stored
    <2> QED  BY <1>1, <1>4, <2>1, <2>2, <2>3, Zenon
  <1>10. CASE SendFails(t)
    <2>1. /\ UNCHANGED <<kind, step, pos, uploads, unsent, lastSeen>>
          /\ TryAgain(t)
      BY <1>10, Zenon DEF SendFails, batchVars
    <2>2. CASE Fails(t)
      BY <1>1, <1>3, <2>1, <2>2, Zenon
    <2>3. CASE Becomes(t, "find", t.reqs, {}, t.tries + 1)
      BY <1>1, <1>5, <2>1, <2>3
    <2> QED  BY <1>6, <2>1, <2>2, <2>3, Zenon
  <1>11. CASE Reply(t)
    <2>1. /\ UNCHANGED <<kind, step, pos, uploads, unsent>>
          /\ \/ t.there = t.reqs /\ lastSeen' = lastSeen \union t.reqs /\ Succeeds(t)
             \/ lastSeen' \subseteq lastSeen \union t.there /\ (TryAgain(t) \/ Fails(t))
      BY <1>11, Zenon DEF Reply, batchVars
    <2>2. CASE t.there = t.reqs /\ lastSeen' = lastSeen \union t.reqs /\ Succeeds(t)
      BY <1>1, <2>1, <2>2, Zenon DEF Succeeds
    <2>3. CASE lastSeen' \subseteq lastSeen \union t.there /\ Fails(t)
      BY <1>1, <1>3, <2>1, <2>3, Zenon
    <2>4. CASE /\ lastSeen' \subseteq lastSeen \union t.there
               /\ Becomes(t, "find", t.reqs, {}, t.tries + 1)
      BY <1>1, <1>5, <2>1, <2>4
    <2> QED  BY <1>6, <2>1, <2>2, <2>3, <2>4, Zenon
  <1>12. CASE Cancelled(t)
    <2>1. UNCHANGED <<kind, step, pos, uploads, unsent, lastSeen>> /\ Fails(t)
      BY <1>12, Zenon DEF Cancelled, batchVars, storeVars
    <2> QED  BY <1>1, <1>3, <2>1, Zenon
  <1> QED  BY <1>7, <1>8, <1>9, <1>10, <1>11, <1>12, Zenon DEF UploadTask

\* Every step of a goroutine of an uploader preserves the invariant.
LEMMA InvTask ==
    ASSUME Inv, NEW t \in tasks, Stored \subseteq Stored', UploadTask(t),
           UNCHANGED execVars
    PROVE  Inv'
  <1> USE DEF Inv
  <1>1. /\ UNCHANGED <<kind, step, pos, uploads, unsent, entries>>
        /\ lastSeen' \subseteq Stored'
        /\ tasks' \in SUBSET Tasks
        /\ \A u \in tasks': u.there \subseteq Stored'
        /\ egErr' = egErr \/ egErr' = [egErr EXCEPT ![t.e] = TRUE]
    BY TaskStep, Zenon DEF execVars
  <1>2. t.e \in Edges
    BY Zenon DEF Types, Tasks
  <1>3. Types' /\ StepInv'
    BY <1>1, <1>2, Zenon DEF Types, StepInv
  <1>4. \A f \in Edges: ToUpload(f)' = ToUpload(f)
    BY <1>1, Zenon DEF ToUpload
  <1>5. ASSUME NEW f \in Edges, ~egErr'[f], NEW b \in uploads'[f]
        PROVE  b \in Stored' \/ Pending(f, b)'
    <2>1. ~egErr[f]
      BY <1>1, <1>2, <1>5, Zenon DEF Types
    <2>2. b \in Stored \/ Pending(f, b)
      BY <1>1, <1>5, <2>1, Zenon DEF UploadInv
    <2>3. CASE b \in Stored \/ b \in unsent[f]
      BY <1>1, <2>3, Zenon DEF Pending
    <2>4. CASE \E u \in tasks: u.e = f /\ b \in u.reqs
      <3>1. PICK u \in tasks: u.e = f /\ b \in u.reqs
        BY <2>4, Zenon
      <3>2. CASE u # t
        BY <3>1, <3>2, TaskStep, Zenon DEF Pending
      <3>3. CASE u = t
        BY <1>5, <3>1, <3>3, TaskStep, Zenon DEF Pending
      <3> QED  BY <3>2, <3>3, Zenon
    <2> QED  BY <2>2, <2>3, <2>4, Zenon DEF Pending
  <1>6. UploadInv'
    BY <1>1, <1>4, <1>5, Zenon DEF UploadInv
  <1>7. ClaimedIsStored'
    BY <1>1, ClaimsStay, Zenon DEF ClaimedIsStored
  <1> QED  BY <1>3, <1>6, <1>7, Zenon

\* The invariant is inductive.
LEMMA InvNext == Inv /\ [Next]_vars => Inv'
  <1>1. ASSUME Inv, Next PROVE Inv'
    <2>1. Stored \subseteq Stored'
      BY <1>1, StoredGrows, Zenon
    <2>2. ASSUME NEW e \in Edges, Client(e) PROVE Inv'
      BY <1>1, <2>1, <2>2, InvCache, InvUpload, InvWait, InvWaitReturns, InvTask,
         InvExecutor, Zenon DEF Client
    <2> QED  BY <1>1, <2>1, <2>2, InvServer, Zenon DEF Next
  <1>2. ASSUME Inv, UNCHANGED vars PROVE Inv'
    <2>1. UNCHANGED <<kind, step, cas, evicted, lastSeen, pos, uploads, unsent,
                      tasks, egErr, entries>>
      BY <1>2, Zenon DEF vars, storeVars, batchVars, groupVars, execVars
    <2>2. Types' /\ StepInv'
      BY <1>2, <2>1, Zenon DEF Inv, Types, StepInv
    <2>3. UploadInv'
      BY <1>2, <2>1, UploadersAlone, Zenon DEF Inv, Stored
    <2>4. ClaimedIsStored'
      BY <1>2, <2>1, ClaimsStay, Zenon DEF Inv, ClaimedIsStored, Stored
    <2> QED  BY <2>2, <2>3, <2>4, Zenon DEF Inv
  <1> QED  BY <1>1, <1>2, Zenon

\* For any edges, blobs and batch limit, and however calls fail and blobs
\* are dropped: what the local cache says is on the server, what an uploader
\* reported as uploaded and what a published result names has been there.
THEOREM ClaimedIsStoredTheorem == Spec => []ClaimedIsStored
  <1>1. Inv => ClaimedIsStored
    BY Zenon DEF Inv
  <1> QED  BY <1>1, InvInit, InvNext, PTL DEF Spec

-----------------------------------------------------------------------------
(* What is on disk.                                                        *)

\* The outputs of e were fetched or made: no download of e is running.
Made(e) == \/ step[e] \in {"publish", "success"}
           \/ kind = "caching" /\ step[e] \in {"upload", "wait"}

DiskInv ==
    /\ file \in [AllOutputs -> {"none", "partial", "whole", "done", "failed"}]
    /\ disk \in [AllOutputs -> {"old", "partial", "whole"}]
    /\ kind = "remote" => \A o \in AllOutputs: disk[o] # "partial"
    /\ \A o \in AllOutputs: file[o] = "done" => disk[o] = "whole"
    /\ \A e \in Edges: Made(e) => \A o \in OutputsOf(e): disk[o] = "whole"

\* At the start no edge has succeeded and no download is under way.
LEMMA DiskInit == Init => DiskInv
  BY Zenon DEF Init, DiskInv, Made

\* A step that touches no file must not pass an edge off as made.
LEMMA FilesAlone ==
    ASSUME DiskInv, UNCHANGED <<kind, file, disk>>,
           \A e \in Edges: Made(e)' => Made(e)
    PROVE  DiskInv'
  BY Zenon DEF DiskInv

\* A step of one download: no other edge has that output.
LEMMA DownloadStep ==
    ASSUME Inv, DiskInv, NEW e \in Edges, NEW o \in OutputsOf(e),
           Create(e, o) \/ GetBlob(e, o) \/ Rename(e, o)
    PROVE  DiskInv'
  <1>1. o \in AllOutputs
    BY Zenon DEF AllOutputs
  <1>2. /\ step[e] \in {"hit", "fetch"}
        /\ UNCHANGED <<kind, step>>
        /\ \E s \in {"partial", "whole", "done", "failed"}:
             /\ file' = [file EXCEPT ![o] = s] \/ file' = file
             /\ \/ disk' = disk /\ (s = "done" => file' = file)
                \/ disk' = [disk EXCEPT ![o] = "partial"] /\ kind # "remote" /\ s = "partial"
                   /\ file' = [file EXCEPT ![o] = s]
                \/ disk' = [disk EXCEPT ![o] = "whole"]
    BY Zenon DEF Create, GetBlob, Rename, Fetches, FileBecomes, Write
  <1>3. /\ file' \in [AllOutputs -> {"none", "partial", "whole", "done", "failed"}]
        /\ disk' \in [AllOutputs -> {"old", "partial", "whole"}]
        /\ kind' = "remote" => \A q \in AllOutputs: disk'[q] # "partial"
        /\ \A q \in AllOutputs: file'[q] = "done" => disk'[q] = "whole"
        /\ \A q \in AllOutputs: q # o => disk'[q] = disk[q]
    BY <1>1, <1>2 DEF DiskInv
  <1>4. ASSUME NEW f \in Edges, Made(f)' PROVE \A q \in OutputsOf(f): disk'[q] = "whole"
    <2>1. Made(f) /\ f # e
      BY <1>2, <1>4, Zenon DEF Made
    <2>2. o \notin OutputsOf(f) /\ OutputsOf(f) \subseteq AllOutputs
      BY <2>1, OutputsAssumption, Zenon DEF AllOutputs
    <2> QED  BY <1>3, <2>1, <2>2, Zenon DEF DiskInv
  <1> QED  BY <1>3, <1>4, Zenon DEF DiskInv, AllOutputs, OutputsOf

\* The steps of an edge's goroutines: lookup, local run, download, return.
LEMMA DiskClient ==
    ASSUME Inv, DiskInv, NEW e \in Edges, Client(e)
    PROVE  DiskInv'
  <1> USE DEF Inv
  <1>1. CASE Lookup(e) \/ Publish(e)
    BY <1>1, FilesAlone, Zenon DEF Lookup, Publish, Goto, OnMiss, Types, Made, fileVars
  <1>2. CASE RunLocally(e)
    <2>1. CASE UNCHANGED disk /\ Goto(e, "failure")
      BY <1>2, <2>1, FilesAlone, Zenon DEF RunLocally, Goto, Types, Made
    <2>2. CASE /\ Goto(e, "upload")
               /\ disk' = [o \in AllOutputs |-> IF o \in OutputsOf(e) THEN "whole"
                                                ELSE disk[o]]
      <3>1. /\ UNCHANGED <<kind, file>>
            /\ disk' \in [AllOutputs -> {"old", "partial", "whole"}]
            /\ \A o \in AllOutputs: disk'[o] = disk[o] \/ disk'[o] = "whole"
            /\ \A o \in AllOutputs \intersect OutputsOf(e): disk'[o] = "whole"
        BY <1>2, <2>2, Zenon DEF RunLocally, DiskInv
      <3>2. \A f \in Edges: Made(f)' => Made(f) \/ f = e
        BY <1>2, <2>2, Zenon DEF RunLocally, Goto, Types, Made
      <3>3. \A f \in Edges: OutputsOf(f) \subseteq AllOutputs
        BY Zenon DEF AllOutputs
      <3> QED  BY <3>1, <3>2, <3>3, Zenon DEF DiskInv, AllOutputs, OutputsOf
    <2> QED  BY <1>2, <2>1, <2>2, Zenon DEF RunLocally
  <1>3. CASE \E o \in OutputsOf(e): Create(e, o) \/ GetBlob(e, o) \/ Rename(e, o)
    BY <1>3, DownloadStep, Zenon
  <1>4. CASE FetchReturns(e)
    <2>1. /\ UNCHANGED <<kind, disk>>
          /\ file' \in [AllOutputs -> {"none", "partial", "whole", "done", "failed"}]
          /\ \A o \in AllOutputs: file'[o] = "done" => file[o] = "done"
      BY <1>4, Zenon DEF FetchReturns, DiskInv
    <2>2. \A f \in Edges: OutputsOf(f) \subseteq AllOutputs
      BY Zenon DEF AllOutputs
    <2>3. CASE FetchCancelled(e)
      <3>1. \A f \in Edges: Made(f)' => Made(f)
        BY <1>4, <2>3, Zenon DEF FetchReturns, Goto, OnMiss, Types, StepInv, Made
      <3> QED  BY <2>1, <3>1, Zenon DEF DiskInv
    <2>4. CASE ~FetchCancelled(e)
      <3>1. \A f \in Edges: Made(f)' => Made(f) \/ f = e
        BY <1>4, <2>4, Zenon DEF FetchReturns, Goto, Types, Made
      <3>2. \A o \in OutputsOf(e): disk[o] = "whole"
        BY <1>4, <2>2, <2>4, Zenon DEF FetchReturns, FetchCancelled, DiskInv
      <3> QED  BY <2>1, <3>1, <3>2, Zenon DEF DiskInv, AllOutputs, OutputsOf
    <2> QED  BY <2>3, <2>4, Zenon
  <1>5. CASE /\ Upload(e) \/ UploadFails(e) \/ Wait(e) \/ WaitReturns(e)
             /\ UNCHANGED fileVars
    BY <1>5, FilesAlone, Zenon DEF Upload, UploadFails, Wait, WaitReturns, Goto, Types, Made,
                            fileVars
  <1>6. CASE \E t \in tasks: UploadTask(t) /\ UNCHANGED fileVars
    <2>1. UNCHANGED <<kind, step, file, disk>>
      BY <1>6, Zenon DEF UploadTask, FindMissing, Found, Send, SendFails, Reply, Cancelled,
                  fileVars
    <2> QED  BY <2>1, FilesAlone, Zenon DEF Made
  <1>7. CASE Executor(e) /\ UNCHANGED fileVars
    BY <1>7, FilesAlone, Zenon DEF Executor, Start, StartFails, RecvProgress, RecvDone,
       RecvMissing, RecvUnavailable, Goto, Types, StepInv, Made, fileVars
  <1> QED  BY <1>1, <1>2, <1>3, <1>4, <1>5, <1>6, <1>7, Zenon DEF Client, Fetch

\* What is known of the files is inductive, relative to the runner's steps.
LEMMA DiskNext == Inv /\ DiskInv /\ [Next]_vars => DiskInv'
  <1> SUFFICES ASSUME Inv, DiskInv, [Next]_vars PROVE DiskInv'
    OBVIOUS
  <1>1. CASE \E e \in Edges: Client(e)
    BY <1>1, DiskClient, Zenon
  <1>2. CASE \/ (\E e \in Edges: Server(e)) \/ Environment
             \/ UNCHANGED vars
    <2>1. UNCHANGED <<kind, step, file, disk>>
      BY <1>2, Zenon DEF Server, Run, Environment, Evict, Edit, fileVars, vars
    <2> QED  BY <2>1, FilesAlone, Zenon DEF Made
  <1> QED  BY <1>1, <1>2, Zenon DEF Next

\* However downloads fail, are retried and are cancelled: the remote runner
\* never leaves part of a file at the path of an output, and an edge of
\* either runner that succeeds has all its outputs on disk.
THEOREM OutputsAreWholeTheorem == Spec => []OutputsAreWhole
  <1>1. DiskInv => OutputsAreWhole
    BY Zenon DEF DiskInv, OutputsAreWhole, Made
  <1> QED  BY <1>1, InvInit, InvNext, DiskInit, DiskNext, PTL DEF Spec
=============================================================================
