-------------------------- MODULE PublisherProofs --------------------------
(***************************************************************************)
(* What the build event stream delivers, for every number of retries,      *)
(* events and chunks of console output.  The inductive invariant Inv has   *)
(* four parts: types, the retry policy, the order of what is published,    *)
(* and what each connection has carried.  NotifyInv, inductive under Inv,  *)
(* is about the notify channel.                                            *)
(***************************************************************************)
EXTENDS Publisher, TLAPS

Events == {"event", "console", "logs", "finished", "finish"}
Tools == {"build", "unhook stdout", "unhook stderr", "writeBuildLogEvent",
          "FinishedEvent", "Finish", "wait", "exit", "exit, not published"}
Sub == [at: {"none", "snapshot", "sending", "select", "parked", "closed"},
        i: Nat, buffer: Nat, cancelled: BOOLEAN]

Records == [SequenceNumber: Nat, Event: Events]

Types ==
    /\ items \in Seq(Events)
    /\ sub \in [Subscriptions -> Sub]
    /\ received \in [Subscriptions -> Seq(Records)]
    /\ attempt \in Nat
    /\ loop \in {"next", "dial", "events", "send", "stopped"}
    /\ errCh \in {"open", "error", "closed"}
    /\ tool \in Tools
    /\ copying \in [Streams -> BOOLEAN]
    /\ chunk \in [Streams -> BOOLEAN]

\* The attempts made are those the policy has counted.
PolicyInv ==
    /\ policy \in [isReset: BOOLEAN, currentAttempt: Nat, delayed: {policy.delayed}]
    /\ policy.isReset => attempt = 0 /\ loop = "next" /\ policy.currentAttempt = 0
    /\ ~policy.isReset => attempt = policy.currentAttempt + 1
    /\ policy.currentAttempt <= MaxRetries
    /\ errCh # "open" => loop = "stopped"
    /\ GivesUpAfterAllRetries

\* A chunk is on its way only while its stream is hooked, and the last events
\* come only after both streams were unhooked.
OrderInv ==
    /\ \A s \in Streams: chunk[s] => copying[s]
    /\ copying["stdout"] => tool \in {"build", "unhook stdout"}
    /\ copying["stderr"] => tool \in {"build", "unhook stdout", "unhook stderr"}
    /\ \A k \in DOMAIN items:
          /\ items[k] = "finished" => tool \in {"Finish", "wait", "exit", "exit, not published"}
          /\ items[k] = "finish" => /\ tool \in {"wait", "exit", "exit, not published"}
                                    /\ k = Len(items)
    /\ FinishIsLast

\* A subscription, and the connection of the current attempt.
SubInv(a) ==
    /\ sub[a].i <= Len(items)
    /\ sub[a].buffer <= Len(items)
    /\ sub[a].at = "sending" => sub[a].i < sub[a].buffer
    /\ sub[a].at = "closed" /\ ~sub[a].cancelled =>
          sub[a].i > 0 /\ items[sub[a].i] = "finish"
    /\ Len(received[a]) <= Len(items)
    /\ a > attempt => received[a] = <<>>

DeliveryInv ==
    /\ \A a \in Subscriptions: SubInv(a)
    /\ loop = "dial" => received[attempt] = <<>>
    /\ loop \in {"events", "send"} => ~sub[attempt].cancelled
    /\ loop = "events" => Len(received[attempt]) = sub[attempt].i
    /\ loop = "send" => sub[attempt].i = Len(received[attempt]) + 1
    /\ errCh = "closed" => /\ Len(items) > 0 /\ items[Len(items)] = "finish"
                           /\ Len(received[attempt]) = Len(items)
    /\ tool = "exit" => errCh = "closed"
    /\ EachConnectionFromTheStart

Inv == Types /\ PolicyInv /\ OrderInv /\ DeliveryInv

\* Only the current subscription is not cancelled.  Unless its notification was
\* stolen, what it has not seen yet is announced by notify.
NotifyInv ==
    /\ \A a \in Subscriptions: sub[a].at # "none" /\ ~sub[a].cancelled =>
          a = attempt /\ loop \in {"events", "send"}
    /\ ~stolen => \A a \in Subscriptions: ~sub[a].cancelled =>
          /\ sub[a].at \in {"sending", "select"} => notify \/ sub[a].buffer = Len(items)
          /\ sub[a].at = "select" => sub[a].i = sub[a].buffer
          /\ sub[a].at = "parked" => sub[a].i = Len(items)

-----------------------------------------------------------------------------
\* Every attempt has its subscription (Retry.Next allows MaxRetries retries).
LEMMA AttemptKnown ==
    ASSUME Types, PolicyInv, loop # "next"
    PROVE  attempt \in Subscriptions
<1>1. ~policy.isReset /\ attempt = policy.currentAttempt + 1
  BY Zenon DEF PolicyInv
<1>2. policy.currentAttempt \in Nat /\ policy.currentAttempt <= MaxRetries
  BY Zenon DEF PolicyInv
<1>. QED
  BY <1>1, <1>2, SubscriptionsAssumption, RetryAssumption DEF RetryAssumption

\* EventBuffer.Add appends the event and wakes at most one parked goroutine.
LEMMA AddFacts ==
    ASSUME Types, NEW ev \in Events, Add(ev)
    PROVE  /\ items' = Append(items, ev)
           /\ items' \in Seq(Events)
           /\ Len(items') = Len(items) + 1
           /\ items'[Len(items) + 1] = ev
           /\ \A k \in 1..Len(items): items'[k] = items[k]
           /\ sub' \in [Subscriptions -> Sub]
           /\ \A a \in Subscriptions:
                 /\ sub'[a].i = sub[a].i
                 /\ sub'[a].buffer = sub[a].buffer
                 /\ sub'[a].cancelled = sub[a].cancelled
                 /\ sub'[a].at \in {sub[a].at, "snapshot"}
<1>1. items' = Append(items, ev) /\ items \in Seq(Events)
  BY Zenon DEF Add, Types
<1>2. sub \in [Subscriptions -> Sub]
  BY Zenon DEF Types
<1>3. CASE Parked = {}
  <2>1. sub' = sub
    BY <1>3, Zenon DEF Add
  <2>. QED
    BY <1>1, <1>2, <2>1
<1>4. CASE Parked # {}
  <2>1. PICK a \in Parked: sub' = [sub EXCEPT ![a].at = "snapshot"]
    BY <1>4, Zenon DEF Add
  <2>2. a \in Subscriptions
    BY Zenon DEF Parked
  <2>3. sub' \in [Subscriptions -> Sub]
    BY <1>2, <2>1, <2>2, Zenon DEF Sub
  <2>4. \A b \in Subscriptions:
           /\ sub'[b].i = sub[b].i
           /\ sub'[b].buffer = sub[b].buffer
           /\ sub'[b].at \in {sub[b].at, "snapshot"}
    BY <1>2, <2>1, <2>2, Zenon DEF Sub
  <2>5. \A b \in Subscriptions: sub'[b].cancelled = sub[b].cancelled
    BY <1>2, <2>1, <2>2, Zenon DEF Sub
  <2>. QED
    BY <1>1, <2>3, <2>4, <2>5
<1>. QED
  BY <1>3, <1>4, Zenon

\* The invariant holds before the first attempt.
LEMMA InitInv == Init => Inv
<1>. SUFFICES ASSUME Init PROVE Inv
  OBVIOUS
<1>. USE DEF Init, BufferInit
<1>1. Types
  BY DEF Types, NoSub, Sub, Tools, Events, Streams
<1>2. PolicyInv
  BY RetryAssumption DEF PolicyInv, NewRetry, GivesUpAfterAllRetries, RetryAssumption
<1>3. OrderInv
  BY DEF OrderInv, FinishIsLast, Streams
<1>4. DeliveryInv
  BY <1>1 DEF DeliveryInv, SubInv, EachConnectionFromTheStart, NoSub, Types
<1>. QED
  BY <1>1, <1>2, <1>3, <1>4, Zenon DEF Inv

-----------------------------------------------------------------------------
\* The steps that publish an event: which event, and where the main goroutine
\* is before and after it.
Publishes(ev) ==
    /\ Add(ev)
    /\ UNCHANGED <<loopVars, copying>>
    /\ \/ ev = "event" /\ tool = "build" /\ UNCHANGED <<tool, chunk>>
       \/ /\ ev = "console" /\ UNCHANGED tool
          /\ \E s \in Streams: chunk[s] /\ chunk' = [chunk EXCEPT ![s] = FALSE]
       \/ /\ ev = "logs" /\ tool = "writeBuildLogEvent" /\ tool' = "FinishedEvent"
          /\ UNCHANGED chunk
       \/ /\ ev = "finished" /\ tool = "FinishedEvent" /\ tool' = "Finish"
          /\ UNCHANGED chunk
       \/ ev = "finish" /\ tool = "Finish" /\ tool' = "wait" /\ UNCHANGED chunk

\* The steps that touch neither the buffer nor the loop.
Quiet ==
    /\ UNCHANGED <<bufferVars, loopVars>>
    /\ \/ UNCHANGED <<tool, chunk, copying>>
       \/ /\ UNCHANGED <<tool, copying>>
          /\ \E s \in Streams: copying[s] /\ chunk' = [chunk EXCEPT ![s] = TRUE]
       \/ /\ UNCHANGED <<tool, chunk>>
          /\ \E s \in Streams: ~chunk[s] /\ copying' = [copying EXCEPT ![s] = FALSE]
       \/ /\ UNCHANGED <<chunk, copying>>
          /\ \/ tool = "build" /\ tool' = "unhook stdout"
             \/ tool = "unhook stdout" /\ ~copying["stdout"] /\ tool' = "unhook stderr"
             \/ /\ tool = "unhook stderr" /\ ~copying["stderr"]
                /\ tool' = "writeBuildLogEvent"
             \/ tool = "writeBuildLogEvent" /\ tool' = "FinishedEvent"
             \/ tool = "wait" /\ errCh # "open" /\ errCh # "error" /\ tool' = "exit"
             \/ tool = "wait" /\ tool' = "exit, not published"

\* Every step is one of the loop's, of a subscription's goroutine, a
\* publication or a quiet one.
LEMMA StepKinds ==
    ASSUME [Next]_vars
    PROVE  \/ Loop /\ UNCHANGED <<items, tool, chunk, copying>>
           \/ \E a \in Subscriptions:
                 Subscriber(a) /\ UNCHANGED <<items, loopVars, tool, chunk, copying>>
           \/ \E ev \in Events: Publishes(ev)
           \/ Quiet
<1>. USE DEF vars, ioVars, loopVars
<1>1. CASE Stopped \/ UNCHANGED vars
  BY <1>1, Zenon DEF Stopped, Quiet
<1>2. CASE Loop
  BY <1>2, Zenon DEF Loop, NextAttempt, Dial, ReceiveEvent, Send, CloseSend, bufferVars
<1>3. CASE Publish
  BY <1>3, Zenon DEF Publish, Publishes, Events
<1>4. CASE Finalize
  <2>1. CASE FinalizeTool \/ WaitStdout \/ WaitStderr
    BY <2>1, Zenon DEF FinalizeTool, WaitStdout, WaitStderr, Quiet
  <2>2. CASE writeBuildLogEvent
    BY <2>2, Zenon DEF writeBuildLogEvent, Quiet, Publishes, Events
  <2>3. CASE PublishFinished \/ Finish
    BY <2>3, Zenon DEF PublishFinished, Finish, Publishes, Events
  <2>4. CASE FinishReturns
    BY <2>4, Zenon DEF FinishReturns, Quiet
  <2>. QED
    BY <1>4, <2>1, <2>2, <2>3, <2>4, Zenon DEF Finalize
<1>5. CASE ConsoleStart \/ ConsoleExit
  BY <1>5, Zenon DEF ConsoleStart, ConsoleExit, Quiet
<1>6. ASSUME NEW s \in Streams, Write(s) \/ Copier(s)
      PROVE  Quiet \/ \E ev \in Events: Publishes(ev)
  <2>1. CASE Write(s)
    BY <2>1, Zenon DEF Write, Quiet
  <2>2. CASE Copy(s)
    BY <2>2, Zenon DEF Copy, Quiet
  <2>3. CASE PublishConsole(s)
    BY <2>3, Zenon DEF PublishConsole, Publishes, Events
  <2>4. CASE CopyEnds(s)
    BY <2>4, Zenon DEF CopyEnds, Quiet
  <2>. QED
    BY <1>6, <2>1, <2>2, <2>3, <2>4, Zenon DEF Copier
<1>7. ASSUME NEW a \in Subscriptions, Goroutine(a)
      PROVE  Subscriber(a) /\ UNCHANGED <<items, loopVars, tool, chunk, copying>>
  BY <1>7, Zenon DEF Goroutine, Subscriber, Snapshot, SendCancelled, Select, ParkedCancelled
<1>. QED
  BY <1>1, <1>2, <1>3, <1>4, <1>5, <1>6, <1>7, Zenon DEF Next

-----------------------------------------------------------------------------
\* The retry policy: only the loop's own steps count attempts.
LEMMA PolicyStep ==
    ASSUME Types, PolicyInv, [Next]_vars
    PROVE  PolicyInv'
<1>1. CASE NextAttempt
  <2>. USE SubscriptionsAssumption, RetryAssumption DEF RetryAssumption
  <2>1. maxAttempts = MaxRetries /\ maxTime = 0
    BY DEF maxAttempts, maxTime
  <2>2. /\ loop = "next" /\ attempt \in Nat /\ errCh = "open"
        /\ policy.currentAttempt \in Nat /\ policy.currentAttempt <= MaxRetries
    BY <1>1, Zenon DEF NextAttempt, Types, PolicyInv
  <2>3. CASE MayRetry(policy)
    <3>1. /\ policy' = NextDelay(policy) /\ loop' = "dial"
          /\ attempt' = attempt + 1 /\ errCh' = errCh
      BY <1>1, <2>3, Zenon DEF NextAttempt
    <3>2. CASE policy.isReset
      <4>1. policy' = [policy EXCEPT !.isReset = FALSE]
        BY <3>1, <3>2, Zenon DEF NextDelay
      <4>2. attempt = 0 /\ policy.currentAttempt = 0
        BY <3>2, Zenon DEF PolicyInv
      <4>3. /\ policy' \in [isReset: BOOLEAN, currentAttempt: Nat,
                            delayed: {policy'.delayed}]
            /\ policy'.currentAttempt = policy.currentAttempt
        BY <4>1, Zenon DEF PolicyInv
      <4>4. ~policy'.isReset
        BY <4>1, Zenon DEF PolicyInv
      <4>. QED
        BY <2>2, <3>1, <4>2, <4>3, <4>4, Zenon DEF PolicyInv, GivesUpAfterAllRetries
    <3>3. CASE ~policy.isReset
      <4>1. policy.currentAttempt < MaxRetries
        BY <2>1, <2>3, <3>3, Zenon DEF MayRetry
      <4>2. PICK d: policy' = [policy EXCEPT !.currentAttempt = @ + 1, !.delayed = d]
        BY <3>1, <3>3, Zenon DEF NextDelay
      <4>3. attempt = policy.currentAttempt + 1
        BY <3>3, Zenon DEF PolicyInv
      <4>4. /\ policy' \in [isReset: BOOLEAN, currentAttempt: Nat,
                            delayed: {policy'.delayed}]
            /\ policy'.currentAttempt = policy.currentAttempt + 1
        <5>1. policy' = [isReset |-> policy.isReset,
                         currentAttempt |-> policy.currentAttempt + 1, delayed |-> d]
          BY <4>2, Zenon DEF PolicyInv
        <5>2. policy.isReset \in BOOLEAN
          BY Zenon DEF PolicyInv
        <5>. QED
          BY <2>2, <5>1, <5>2
      <4>5. ~policy'.isReset
        <5>1. policy'.isReset = policy.isReset
          BY <4>2, Zenon DEF PolicyInv
        <5>. QED
          BY <3>3, <5>1, Zenon
      <4>. QED
        BY <2>2, <3>1, <4>1, <4>3, <4>4, <4>5 DEF PolicyInv, GivesUpAfterAllRetries
    <3>. QED
      BY <3>2, <3>3, Zenon
  <2>4. CASE ~MayRetry(policy)
    <3>1. ~policy.isReset /\ policy.currentAttempt >= MaxRetries
      BY <2>1, <2>2, <2>4 DEF MayRetry
    <3>2. errCh' = "error" /\ loop' = "stopped" /\ UNCHANGED <<policy, attempt>>
      BY <1>1, <2>4, Zenon DEF NextAttempt
    <3>3. attempt = MaxRetries + 1
      BY <2>2, <3>1 DEF PolicyInv
    <3>. QED
      BY <3>1, <3>2, <3>3, Zenon DEF PolicyInv, GivesUpAfterAllRetries
  <2>. QED
    BY <2>3, <2>4, Zenon
<1>2. CASE Dial \/ ReceiveEvent \/ Send \/ CloseSend
  <2>1. /\ UNCHANGED <<policy, attempt>> /\ loop \notin {"next", "stopped"}
        /\ errCh' = errCh \/ (errCh' = "closed" /\ loop' = "stopped")
    BY <1>2, Zenon DEF Dial, ReceiveEvent, Send, CloseSend, FailAttempt
  <2>2. errCh = "open"
    BY <2>1, Zenon DEF PolicyInv
  <2>3. ~policy.isReset
    BY <2>1, Zenon DEF PolicyInv
  <2>. QED
    BY <2>1, <2>2, <2>3, Zenon DEF PolicyInv, GivesUpAfterAllRetries
<1>3. CASE UNCHANGED loopVars
  BY <1>3, Zenon DEF loopVars, PolicyInv, GivesUpAfterAllRetries
<1>. QED
  BY StepKinds, <1>1, <1>2, <1>3, Zenon DEF Loop, Publishes, Quiet

\* Nothing is published once the finish event is in the buffer.
LEMMA PublishFacts ==
    ASSUME Types, OrderInv, NEW ev \in Events, Publishes(ev)
    PROVE  /\ ev = "console" => tool \in {"build", "unhook stdout", "unhook stderr"}
           /\ tool \notin {"wait", "exit", "exit, not published"}
           /\ tool' # "exit"
           /\ \A k \in 1..Len(items): items[k] # "finish"
<1>. USE DEF Types, Streams
<1>1. ev = "console" => tool \in {"build", "unhook stdout", "unhook stderr"}
  BY Zenon DEF Publishes, OrderInv
<1>2. tool \notin {"wait", "exit", "exit, not published"} /\ tool' # "exit"
  BY <1>1, Zenon DEF Publishes
<1>3. \A k \in 1..Len(items):
         items[k] = "finish" => tool \in {"wait", "exit", "exit, not published"}
  <2>1. DOMAIN items = 1..Len(items)
    OBVIOUS
  <2>. QED
    BY <2>1, Zenon DEF OrderInv
<1>. QED
  BY <1>1, <1>2, <1>3, Zenon

\* The order of what is published: cleanupIO unhooks both streams first.
LEMMA OrderStep ==
    ASSUME Types, OrderInv, [Next]_vars
    PROVE  OrderInv'
<1>. USE DEF Types, Streams
<1>1. CASE UNCHANGED <<items, tool, chunk, copying>>
  BY <1>1, Zenon DEF OrderInv, FinishIsLast
<1>2. CASE Quiet
  <2>1. items' = items
    BY <1>2, Zenon DEF Quiet, bufferVars
  <2>2. \A s \in Streams: chunk'[s] => copying'[s]
    BY <1>2, Zenon DEF Quiet, OrderInv
  <2>3. /\ copying'["stdout"] => tool' \in {"build", "unhook stdout"}
        /\ copying'["stderr"] => tool' \in {"build", "unhook stdout", "unhook stderr"}
    BY <1>2, Zenon DEF Quiet, OrderInv
  <2>4. \A k \in DOMAIN items:
          /\ items[k] = "finished" => tool' \in {"Finish", "wait", "exit", "exit, not published"}
          /\ items[k] = "finish" => /\ tool' \in {"wait", "exit", "exit, not published"}
                                    /\ k = Len(items)
    BY <1>2, Zenon DEF Quiet, OrderInv
  <2>. QED
    BY <2>1, <2>2, <2>3, <2>4, Zenon DEF OrderInv, FinishIsLast
<1>3. ASSUME NEW ev \in Events, Publishes(ev)
      PROVE  OrderInv'
  <2>1. Add(ev) /\ copying' = copying
    BY <1>3, Zenon DEF Publishes
  <2>2. /\ items' \in Seq(Events) /\ Len(items') = Len(items) + 1
        /\ items'[Len(items) + 1] = ev
        /\ \A k \in 1..Len(items): items'[k] = items[k]
    BY <2>1, AddFacts, Zenon
  <2>3. \A s \in Streams: chunk'[s] => copying'[s]
    BY <1>3, <2>1, Zenon DEF Publishes, OrderInv
  <2>4. /\ copying["stdout"] => tool' \in {"build", "unhook stdout"}
        /\ copying["stderr"] => tool' \in {"build", "unhook stdout", "unhook stderr"}
    BY <1>3, Zenon DEF Publishes, OrderInv
  <2>d. DOMAIN items = 1..Len(items) /\ DOMAIN items' = 1..(Len(items) + 1)
        /\ Len(items) \in Nat
    BY <2>2
  <2>t. ev = "console" => tool \in {"build", "unhook stdout", "unhook stderr"}
    BY <1>3, PublishFacts, Zenon
  <2>w. tool \notin {"wait", "exit", "exit, not published"}
    BY <1>3, PublishFacts, Zenon
  <2>i. \A k \in 1..Len(items):
          items[k] = "finished" => tool \in {"Finish", "wait", "exit", "exit, not published"}
    BY <2>d, Zenon DEF OrderInv
  <2>5. \A k \in 1..Len(items): items[k] # "finish"
    BY <1>3, PublishFacts, Zenon
  <2>6. ev \in {"event", "console"} => tool # "Finish"
    BY <1>3, <2>t, Zenon DEF Publishes
  <2>7. tool = "Finish" => tool' = "wait"
    BY <1>3, <2>t, Zenon DEF Publishes
  <2>8. /\ ev = "finished" => tool' = "Finish"
        /\ ev = "finish" => tool' = "wait"
    BY <1>3, Zenon DEF Publishes
  <2>9. \A k \in DOMAIN items':
          /\ items'[k] = "finished" => tool' \in {"Finish", "wait", "exit", "exit, not published"}
          /\ items'[k] = "finish" => /\ tool' \in {"wait", "exit", "exit, not published"}
                                     /\ k = Len(items')
    <3>1. ASSUME NEW k \in 1..Len(items)
          PROVE  /\ items'[k] = "finished" => tool' = "wait"
                 /\ items'[k] # "finish"
      BY <2>2, <2>i, <2>w, <2>5, <2>7, Zenon
    <3>2. \A k \in DOMAIN items': k \in 1..Len(items) \/ k = Len(items) + 1
      BY <2>d
    <3>. QED
      BY <2>2, <2>8, <3>1, <3>2, Zenon
  <2>10. ASSUME NEW i \in 1..(Len(items) + 1), NEW j \in 1..(Len(items) + 1),
                items'[i] \in {"finished", "finish"}, items'[j] \in {"event", "console"}
         PROVE  j < i
    <3>1. CASE i = Len(items) + 1
      BY <2>2, <2>d, <2>10, <3>1
    <3>2. CASE i # Len(items) + 1 /\ j = Len(items) + 1
      <4>1. i \in 1..Len(items)
        BY <2>d, <3>2
      <4>2. items[i] = "finished" /\ ev \in {"event", "console"}
        BY <2>2, <2>5, <2>10, <3>2, <4>1, Zenon
      <4>. QED
        BY <2>i, <2>w, <2>6, <4>1, <4>2, Zenon
    <3>3. CASE i # Len(items) + 1 /\ j # Len(items) + 1
      <4>1. i \in 1..Len(items) /\ j \in 1..Len(items)
        BY <2>d, <3>3
      <4>2. items'[i] = items[i] /\ items'[j] = items[j]
        BY <2>2, <4>1, Zenon
      <4>. QED
        BY <2>d, <2>10, <4>1, <4>2, Zenon DEF OrderInv, FinishIsLast
    <3>. QED
      BY <3>1, <3>2, <3>3, Zenon
  <2>. QED
    BY <2>1, <2>3, <2>4, <2>d, <2>9, <2>10, Zenon DEF OrderInv, FinishIsLast
<1>. QED
  BY StepKinds, <1>1, <1>2, <1>3, Zenon

-----------------------------------------------------------------------------
\* What a subscription's goroutine may do to the subscriptions by itself.
LEMMA SubscriberFacts ==
    ASSUME Types, NEW a \in Subscriptions, Subscriber(a)
    PROVE  /\ sub' \in [Subscriptions -> Sub]
           /\ \A b \in Subscriptions:
                 /\ sub'[b].i = sub[b].i
                 /\ sub'[b].cancelled = sub[b].cancelled
                 /\ sub'[b].buffer \in {sub[b].buffer, Len(items)}
                 /\ sub'[b].at = "sending" =>
                       \/ sub[b].at = "sending" /\ sub'[b].buffer = sub[b].buffer
                       \/ sub[b].i < sub'[b].buffer
                 /\ sub'[b].at = "closed" => sub[b].at = "closed" \/ sub[b].cancelled
<1>1. sub \in [Subscriptions -> Sub] /\ Len(items) \in Nat
  BY DEF Types
<1>2. CASE Snapshot(a)
  <2>. DEFINE s == [sub[a] EXCEPT !.buffer = Len(items),
                                  !.at = IF sub[a].i < Len(items) THEN "sending"
                                         ELSE "select"]
  <2>1. sub' = [sub EXCEPT ![a] = s]
    BY <1>1, <1>2, Zenon DEF Snapshot, Sub
  <2>2. s \in Sub /\ s.i = sub[a].i /\ s.buffer = Len(items)
    BY <1>1, Zenon DEF Sub
  <2>3. s.cancelled = sub[a].cancelled
    BY <1>1, Zenon DEF Sub
  <2>4. s.at = "sending" => sub[a].i < Len(items)
    BY <1>1, Zenon DEF Sub
  <2>5. s.at # "closed"
    BY <1>1, Zenon DEF Sub
  <2>. HIDE DEF s
  <2>. QED
    BY <1>1, <2>1, <2>2, <2>3, <2>4, <2>5, Zenon
<1>3. ASSUME NEW at \in {"snapshot", "parked", "closed"}, sub' = [sub EXCEPT ![a].at = at],
             at = "closed" => sub[a].cancelled
      PROVE  /\ sub' \in [Subscriptions -> Sub]
             /\ \A b \in Subscriptions:
                   /\ sub'[b].i = sub[b].i
                   /\ sub'[b].cancelled = sub[b].cancelled
                   /\ sub'[b].buffer = sub[b].buffer
                   /\ sub'[b].at = "sending" => sub[b].at = "sending"
                   /\ sub'[b].at = "closed" => sub[b].at = "closed" \/ sub[b].cancelled
  <2>. DEFINE s == [sub[a] EXCEPT !.at = at]
  <2>1. sub' = [sub EXCEPT ![a] = s]
    BY <1>1, <1>3, Zenon
  <2>2. s \in Sub /\ s.i = sub[a].i /\ s.buffer = sub[a].buffer /\ s.at = at
    BY <1>1, Zenon DEF Sub
  <2>3. s.cancelled = sub[a].cancelled
    BY <1>1, Zenon DEF Sub
  <2>. HIDE DEF s
  <2>. QED
    BY <1>1, <1>3, <2>1, <2>2, <2>3, Zenon
<1>4. CASE SendCancelled(a) \/ Select(a) \/ ParkedCancelled(a)
  <2>1. \E at \in {"snapshot", "parked", "closed"}:
           sub' = [sub EXCEPT ![a].at = at] /\ (at = "closed" => sub[a].cancelled)
    BY <1>4, Zenon DEF SendCancelled, Select, ParkedCancelled
  <2>. QED
    BY <1>3, <2>1, Zenon
<1>. QED
  BY <1>2, <1>4, Zenon DEF Subscriber

\* What the loop does to its subscription and to its connection.
LEMMA LoopFacts ==
    ASSUME Types, PolicyInv, Loop
    PROVE  /\ items' = items
           /\ \/ /\ UNCHANGED <<sub, received>>
                 /\ \/ loop = "dial" /\ loop' = "next" /\ UNCHANGED <<attempt, errCh>>
                    \/ NextAttempt
              \/ /\ attempt \in Subscriptions /\ attempt' = attempt
                 /\ \/ Dial /\ sub' = [sub EXCEPT ![attempt] = [NoSub EXCEPT !.at = "snapshot"]]
                       /\ loop' = "events"
                    \/ ReceiveEvent \/ Send \/ CloseSend
<1>1. CASE NextAttempt
  BY <1>1, Zenon DEF NextAttempt, bufferVars
<1>2. CASE Dial \/ ReceiveEvent \/ Send \/ CloseSend
  <2>1. attempt \in Subscriptions
    BY <1>2, AttemptKnown, Zenon DEF Dial, ReceiveEvent, Send, CloseSend
  <2>. QED
    BY <1>2, <2>1, Zenon DEF Dial, ReceiveEvent, Send, CloseSend
<1>. QED
  BY <1>1, <1>2, Zenon DEF Loop

\* The goroutine after a send: it closes the channel only behind the finish event.
LEMMA AfterSendFacts ==
    ASSUME NEW s \in Sub
    PROVE  /\ AfterSend(s) \in Sub
           /\ AfterSend(s).i = s.i + 1
           /\ AfterSend(s).buffer = s.buffer
           /\ AfterSend(s).cancelled = s.cancelled
           /\ AfterSend(s).at = "sending" => s.i + 1 < s.buffer
           /\ AfterSend(s).at = "closed" => items[s.i + 1] = "finish"
           /\ AfterSend(s).at = "select" => ~(s.i + 1 < s.buffer)
           /\ AfterSend(s).at \in {"closed", "sending", "select"}
<1>. DEFINE fin == items[s.i + 1] = "finish"
            at == CASE fin -> "closed"
                    [] ~fin /\ s.i + 1 < s.buffer -> "sending"
                    [] OTHER -> "select"
<1>1. /\ at \in {"closed", "sending", "select"}
      /\ at = "sending" => s.i + 1 < s.buffer
      /\ at = "closed" => fin
      /\ at = "select" => ~(s.i + 1 < s.buffer)
  <2>1. CASE fin
    BY <2>1, Zenon
  <2>2. CASE ~fin /\ s.i + 1 < s.buffer
    BY <2>2, Zenon
  <2>3. CASE ~fin /\ ~(s.i + 1 < s.buffer)
    BY <2>3, Zenon
  <2>. QED
    BY <2>1, <2>2, <2>3, Zenon
<1>2. AfterSend(s) = [s EXCEPT !.at = at, !.i = s.i + 1]
  BY Zenon DEF AfterSend
<1>. HIDE DEF at
<1>3. s.i + 1 \in Nat
  BY DEF Sub
<1>. QED
  BY <1>1, <1>2, <1>3, Zenon DEF Sub

\* The types.
LEMMA TypesStep ==
    ASSUME Types, PolicyInv, DeliveryInv, [Next]_vars
    PROVE  Types'
<1>1. CASE Loop /\ UNCHANGED <<items, tool, chunk, copying>>
  <2>1. /\ loop' \in {"next", "dial", "events", "send", "stopped"}
        /\ errCh' \in {"open", "error", "closed"} /\ attempt' \in Nat
    BY <1>1 DEF Types, Loop, NextAttempt, Dial, ReceiveEvent, Send, CloseSend, FailAttempt
  <2>2. CASE UNCHANGED <<sub, received>>
    BY <1>1, <2>1, <2>2, Zenon DEF Types
  <2>3. ASSUME attempt \in Subscriptions,
               sub' = [sub EXCEPT ![attempt] = [NoSub EXCEPT !.at = "snapshot"]],
               received' = received
        PROVE  Types'
    <3>1. [NoSub EXCEPT !.at = "snapshot"] \in Sub
      BY Zenon DEF NoSub, Sub
    <3>2. sub' \in [Subscriptions -> Sub]
      BY <2>3, <3>1, Zenon DEF Types
    <3>. QED
      BY <1>1, <2>1, <2>3, <3>2, Zenon DEF Types
  <2>4. ASSUME attempt \in Subscriptions, ReceiveEvent
        PROVE  Types'
    <3>1. AfterSend(sub[attempt]) \in Sub
      <4>1. sub[attempt] \in Sub
        BY <2>4, Zenon DEF Types
      <4>. QED
        BY <4>1, AfterSendFacts, Zenon
    <3>2. sub' \in [Subscriptions -> Sub] /\ received' = received
      BY <2>4, <3>1, Zenon DEF Types, ReceiveEvent
    <3>. QED
      BY <1>1, <2>1, <3>2, Zenon DEF Types
  <2>5. ASSUME attempt \in Subscriptions, sub' = [sub EXCEPT ![attempt].cancelled = TRUE],
               received' = received
        PROVE  Types'
    <3>1. sub' \in [Subscriptions -> Sub]
      BY <2>5, Zenon DEF Types, Sub
    <3>. QED
      BY <1>1, <2>1, <2>5, <3>1, Zenon DEF Types
  <2>6. ASSUME attempt \in Subscriptions, Send, sub' = sub
        PROVE  Types'
    <3>1. CASE received' = received
      BY <1>1, <2>1, <2>6, <3>1, Zenon DEF Types
    <3>2. CASE received' # received
      <4>. DEFINE k == sub[attempt].i
                  r == [SequenceNumber |-> k, Event |-> items[k]]
      <4>1. received' = [received EXCEPT ![attempt] = Append(@, r)] /\ loop = "send"
        BY <2>6, <3>2, Zenon DEF Send, FailAttempt
      <4>2. k \in 1..Len(items)
        BY <2>6, <4>1 DEF DeliveryInv, SubInv, Types, Sub
      <4>3. r \in Records
        BY <4>2 DEF Types, Records
      <4>. HIDE DEF r
      <4>4. received' \in [Subscriptions -> Seq(Records)]
        <5>. DEFINE q == Append(received[attempt], r)
        <5>1. q \in Seq(Records)
          BY <2>6, <4>3 DEF Types
        <5>2. received' = [received EXCEPT ![attempt] = q]
          BY <4>1, Zenon
        <5>. HIDE DEF q
        <5>. QED
          BY <5>1, <5>2, Zenon DEF Types
      <4>. QED
        BY <1>1, <2>1, <2>6, <4>4, Zenon DEF Types
    <3>. QED
      BY <3>1, <3>2, Zenon
  <2>7. Send => sub' = sub \/ (sub' = [sub EXCEPT ![attempt].cancelled = TRUE]
                               /\ received' = received)
    BY Zenon DEF Send, FailAttempt
  <2>8. CloseSend => sub' = [sub EXCEPT ![attempt].cancelled = TRUE]
                     /\ received' = received
    BY Zenon DEF CloseSend, FailAttempt
  <2>9. Dial => received' = received
    BY Zenon DEF Dial
  <2>. QED
    BY <1>1, LoopFacts, <2>2, <2>3, <2>4, <2>5, <2>6, <2>7, <2>8, <2>9, Zenon
<1>2. ASSUME NEW a \in Subscriptions, Subscriber(a),
             UNCHANGED <<items, loopVars, tool, chunk, copying>>
      PROVE  Types'
  BY <1>2, SubscriberFacts, Zenon DEF Types, loopVars
<1>3. ASSUME NEW ev \in Events, Publishes(ev)
      PROVE  Types'
  <2>1. items' \in Seq(Events) /\ sub' \in [Subscriptions -> Sub]
    BY <1>3, AddFacts, Zenon DEF Publishes
  <2>2. tool' \in Tools /\ copying' = copying /\ chunk' \in [Streams -> BOOLEAN]
    BY <1>3, Zenon DEF Publishes, Types, Tools
  <2>. QED
    BY <1>3, <2>1, <2>2, Zenon DEF Types, Publishes, loopVars
<1>4. CASE Quiet
  <2>1. copying' \in [Streams -> BOOLEAN] /\ chunk' \in [Streams -> BOOLEAN]
    BY <1>4, Zenon DEF Quiet, Types
  <2>2. tool' \in Tools
    BY <1>4, Zenon DEF Quiet, Types, Tools
  <2>. QED
    BY <1>4, <2>1, <2>2, Zenon DEF Quiet, Types, bufferVars, loopVars
<1>. QED
  BY StepKinds, <1>1, <1>2, <1>3, <1>4, Zenon

-----------------------------------------------------------------------------
\* Delivery while the loop works: a connection carries the buffer in order, and
\* run returns nil only when it carried the finish event.
LEMMA LoopDelivery ==
    ASSUME Inv, Loop, UNCHANGED <<items, tool>>, PolicyInv'
    PROVE  DeliveryInv'
<1>. USE DEF Inv
<1>0. /\ sub \in [Subscriptions -> Sub] /\ items \in Seq(Events) /\ attempt \in Nat
      /\ Len(items) \in Nat /\ DOMAIN items = 1..Len(items)
      /\ \A a \in Subscriptions: sub[a] \in Sub /\ sub[a].i \in Nat /\ a \in Nat
  BY SubscriptionsAssumption, RetryAssumption DEF Types, Sub, RetryAssumption
<1>r. \A a \in Subscriptions: received[a] \in Seq(Records)
                              /\ Len(received[a]) \in Nat
  BY DEF Types
<1>o. loop # "stopped" => errCh = "open" /\ tool # "exit"
  BY Zenon DEF PolicyInv, DeliveryInv
<1>n. loop # "stopped"
  BY Zenon DEF Loop, NextAttempt, Dial, ReceiveEvent, Send, CloseSend
<1>1. CASE UNCHANGED <<sub, received>> /\ loop = "dial" /\ loop' = "next"
           /\ UNCHANGED <<attempt, errCh>>
  BY <1>1, <1>o, Zenon DEF DeliveryInv, SubInv, EachConnectionFromTheStart
<1>2. CASE NextAttempt
  <2>1. /\ UNCHANGED <<sub, received>> /\ errCh' # "closed"
        /\ \/ loop' = "dial" /\ attempt' = attempt + 1
           \/ loop' = "stopped" /\ attempt' = attempt
    BY <1>2, <1>n, <1>o, Zenon DEF NextAttempt, bufferVars
  <2>2. loop' = "dial" => attempt' \in Subscriptions
    BY SubscriptionsAssumption, RetryAssumption DEF PolicyInv, RetryAssumption
  <2>3. \A a \in Subscriptions: SubInv(a)'
    BY <1>0, <2>1 DEF DeliveryInv, SubInv
  <2>4. loop' = "dial" => received'[attempt'] = <<>>
    BY <1>0, <2>1, <2>2 DEF DeliveryInv, SubInv
  <2>. QED
    BY <2>1, <2>3, <2>4, <1>o, <1>n, Zenon DEF DeliveryInv, EachConnectionFromTheStart
<1>3. ASSUME attempt \in Subscriptions, attempt' = attempt, Dial, loop' = "events",
             sub' = [sub EXCEPT ![attempt] = [NoSub EXCEPT !.at = "snapshot"]]
      PROVE  DeliveryInv'
  <2>. DEFINE s == [NoSub EXCEPT !.at = "snapshot"]
  <2>1. s.i = 0 /\ s.buffer = 0 /\ s.at = "snapshot" /\ ~s.cancelled
    BY Zenon DEF NoSub
  <2>2. sub' = [sub EXCEPT ![attempt] = s] /\ received' = received /\ errCh' = errCh
        /\ received[attempt] = <<>>
    BY <1>3, Zenon DEF Dial, DeliveryInv
  <2>. HIDE DEF s
  <2>3. sub'[attempt] = s /\ \A a \in Subscriptions \ {attempt}: sub'[a] = sub[a]
    BY <1>0, <1>3, <2>2, Zenon
  <2>4. \A a \in Subscriptions: SubInv(a)'
    <3>0. Len(received[attempt]) = 0
      BY <2>2
    <3>1. \A a \in {attempt}: SubInv(a)'
      <4>1. /\ sub'[attempt].i = 0 /\ sub'[attempt].buffer = 0
            /\ sub'[attempt].at = "snapshot"
        BY <2>1, <2>3, Zenon
      <4>2. Len(received'[attempt]) = 0 /\ ~(attempt > attempt')
        BY <1>0, <1>3, <2>2, <3>0
      <4>. QED
        BY <1>0, <4>1, <4>2 DEF SubInv
    <3>2. \A a \in Subscriptions \ {attempt}: SubInv(a)'
      BY <1>3, <2>2, <2>3, Zenon DEF DeliveryInv, SubInv
    <3>. QED
      BY <3>1, <3>2, Zenon
  <2>. QED
    BY <1>3, <1>n, <1>o, <2>1, <2>2, <2>3, <2>4, Zenon DEF DeliveryInv, EachConnectionFromTheStart
<1>4. ASSUME attempt \in Subscriptions, ReceiveEvent
      PROVE  DeliveryInv'
  <2>. DEFINE s == AfterSend(sub[attempt])
  <2>1. /\ sub' = [sub EXCEPT ![attempt] = s] /\ UNCHANGED <<attempt, received, errCh>>
        /\ loop = "events" /\ loop' = "send" /\ sub[attempt].at = "sending"
    BY <1>4, Zenon DEF ReceiveEvent
  <2>2. /\ s.i = sub[attempt].i + 1 /\ s.buffer = sub[attempt].buffer
        /\ s.cancelled = sub[attempt].cancelled
        /\ s.at = "sending" => sub[attempt].i + 1 < s.buffer
        /\ s.at = "closed" => items[s.i] = "finish"
    BY <1>0, <1>4, AfterSendFacts, Zenon
  <2>. HIDE DEF s
  <2>3. sub'[attempt] = s /\ \A a \in Subscriptions \ {attempt}: sub'[a] = sub[a]
    BY <1>0, <1>4, <2>1, Zenon
  <2>4. sub[attempt].i < sub[attempt].buffer /\ sub[attempt].buffer <= Len(items)
        /\ sub[attempt].buffer \in Nat
    BY <1>0, <1>4, <2>1, Zenon DEF DeliveryInv, SubInv, Sub
  <2>5. \A a \in {attempt}: SubInv(a)'
    BY <1>0, <1>r, <1>4, <2>1, <2>2, <2>3, <2>4 DEF DeliveryInv, SubInv
  <2>6. \A a \in Subscriptions \ {attempt}: SubInv(a)'
    BY <1>4, <2>1, <2>3, Zenon DEF DeliveryInv, SubInv
  <2>7. ~sub'[attempt].cancelled
    BY <2>1, <2>2, <2>3, Zenon DEF DeliveryInv
  <2>8. sub'[attempt].i = Len(received[attempt]) + 1
    BY <2>1, <2>2, <2>3, Zenon DEF DeliveryInv
  <2>. QED
    BY <1>n, <1>o, <2>1, <2>5, <2>6, <2>7, <2>8, Zenon DEF DeliveryInv, EachConnectionFromTheStart
<1>5. ASSUME attempt \in Subscriptions, attempt' = attempt, received' = received,
             sub' = [sub EXCEPT ![attempt].cancelled = TRUE],
             loop' \notin {"dial", "events", "send"},
             errCh' = "closed" => /\ Len(items) > 0 /\ items[Len(items)] = "finish"
                                  /\ Len(received[attempt]) = Len(items)
      PROVE  DeliveryInv'
  <2>. DEFINE s == [sub[attempt] EXCEPT !.cancelled = TRUE]
  <2>1. sub' = [sub EXCEPT ![attempt] = s]
    BY <1>0, <1>5, Zenon
  <2>2. s.i = sub[attempt].i /\ s.buffer = sub[attempt].buffer /\ s.at = sub[attempt].at
    BY <1>0, <1>5, Zenon DEF Sub
  <2>3. s.cancelled
    BY <1>0, <1>5, Zenon DEF Sub
  <2>. HIDE DEF s
  <2>4. sub'[attempt] = s /\ \A a \in Subscriptions \ {attempt}: sub'[a] = sub[a]
    BY <1>0, <1>5, <2>1, Zenon
  <2>5. \A a \in {attempt}: SubInv(a)'
    BY <1>5, <2>2, <2>3, <2>4 DEF DeliveryInv, SubInv
  <2>6. \A a \in Subscriptions \ {attempt}: SubInv(a)'
    BY <1>5, <2>4, Zenon DEF DeliveryInv, SubInv
  <2>. QED
    BY <1>5, <1>n, <1>o, <2>5, <2>6, Zenon DEF DeliveryInv, EachConnectionFromTheStart
<1>6. ASSUME attempt \in Subscriptions, CloseSend
      PROVE  DeliveryInv'
  <2>1. /\ attempt' = attempt /\ received' = received /\ loop = "events"
        /\ sub' = [sub EXCEPT ![attempt].cancelled = TRUE]
        /\ loop' \notin {"dial", "events", "send"} /\ sub[attempt].at = "closed"
    BY <1>6, Zenon DEF CloseSend, FailAttempt
  <2>2. /\ sub[attempt].i \in 1..Len(items) /\ items[sub[attempt].i] = "finish"
        /\ Len(received[attempt]) = sub[attempt].i
    BY <1>0, <1>6, <2>1 DEF DeliveryInv, SubInv
  <2>3. sub[attempt].i = Len(items)
    BY <1>0, <2>2, Zenon DEF OrderInv
  <2>. QED
    BY <1>0, <1>5, <1>6, <2>1, <2>2, <2>3
<1>7. ASSUME attempt \in Subscriptions, Send
      PROVE  DeliveryInv'
  <2>1. CASE FailAttempt
    <3>1. attempt' = attempt /\ errCh' # "closed"
      BY <1>7, <1>n, <1>o, <2>1, Zenon DEF Send, FailAttempt
    <3>. QED
      BY <1>5, <1>7, <2>1, <3>1, Zenon DEF FailAttempt
  <2>2. CASE ~FailAttempt
    <3>. DEFINE k == sub[attempt].i
                r == [SequenceNumber |-> k, Event |-> items[k]]
                q == Append(received[attempt], r)
    <3>1. /\ received' = [received EXCEPT ![attempt] = q]
          /\ loop = "send" /\ loop' = "events" /\ UNCHANGED <<sub, errCh, attempt>>
      BY <1>7, <2>2, Zenon DEF Send
    <3>2. k = Len(received[attempt]) + 1 /\ k <= Len(items)
      BY <1>7, <3>1, Zenon DEF DeliveryInv, SubInv
    <3>3. r \in Records
      BY <1>0, <1>r, <1>7, <3>2 DEF Records
    <3>r. r.SequenceNumber = k /\ r.Event = items[k]
          /\ r = [SequenceNumber |-> k, Event |-> items[k]]
      OBVIOUS
    <3>. HIDE DEF r
    <3>4. Len(q) = k /\ q[k] = r /\ DOMAIN q = 1..k
          /\ \A j \in 1..(k - 1): q[j] = received[attempt][j]
      BY <1>r, <1>7, <3>2, <3>3
    <3>. HIDE DEF q
    <3>5. received'[attempt] = q
          /\ \A a \in Subscriptions \ {attempt}: received'[a] = received[a]
      BY <1>7, <3>1, Zenon DEF Types
    <3>6. \A a \in Subscriptions: SubInv(a)'
      <4>1. \A a \in {attempt}: SubInv(a)'
        BY <1>0, <1>7, <3>1, <3>2, <3>4, <3>5 DEF DeliveryInv, SubInv
      <4>2. \A a \in Subscriptions \ {attempt}: SubInv(a)'
        BY <1>7, <3>1, <3>5, Zenon DEF DeliveryInv, SubInv
      <4>. QED
        BY <4>1, <4>2, Zenon
    <3>7. EachConnectionFromTheStart'
      <4>1. \A j \in DOMAIN received[attempt]:
               received[attempt][j] = [SequenceNumber |-> j, Event |-> items[j]]
        BY <1>7, Zenon DEF DeliveryInv, EachConnectionFromTheStart
      <4>2. DOMAIN received[attempt] = 1..(k - 1)
        BY <1>r, <1>7, <3>2
      <4>3. \A j \in 1..k: j \in 1..(k - 1) \/ j = k
        BY <1>0, <1>7
      <4>4. \A j \in DOMAIN q: q[j] = [SequenceNumber |-> j, Event |-> items[j]]
        BY <3>r, <3>4, <4>1, <4>2, <4>3, Zenon
      <4>. QED
        BY <3>5, <4>4, Zenon DEF DeliveryInv, EachConnectionFromTheStart
    <3>. QED
      BY <1>n, <1>o, <3>1, <3>2, <3>4, <3>5, <3>6, <3>7, Zenon DEF DeliveryInv
  <2>. QED
    BY <2>1, <2>2, Zenon
<1>. QED
  BY LoopFacts, <1>1, <1>2, <1>3, <1>4, <1>6, <1>7, Zenon

\* Delivery under every step.
LEMMA DeliveryStep ==
    ASSUME Inv, [Next]_vars, PolicyInv'
    PROVE  DeliveryInv'
<1>. USE DEF Inv
<1>0. /\ Len(items) \in Nat /\ items \in Seq(Events)
      /\ \A a \in Subscriptions: sub[a].i \in Nat /\ sub[a].buffer \in Nat
  BY DEF Types, Sub
<1>1. CASE Loop /\ UNCHANGED <<items, tool, chunk, copying>>
  BY <1>1, LoopDelivery, Zenon
<1>2. ASSUME NEW a \in Subscriptions, Subscriber(a),
             UNCHANGED <<items, loopVars, tool, chunk, copying>>
      PROVE  DeliveryInv'
  <2>1. \A b \in Subscriptions:
           /\ sub'[b].i = sub[b].i
           /\ sub'[b].cancelled = sub[b].cancelled
           /\ sub'[b].buffer \in {sub[b].buffer, Len(items)}
           /\ sub'[b].at = "sending" =>
                 \/ sub[b].at = "sending" /\ sub'[b].buffer = sub[b].buffer
                 \/ sub[b].i < sub'[b].buffer
           /\ sub'[b].at = "closed" => sub[b].at = "closed" \/ sub[b].cancelled
    BY <1>2, SubscriberFacts, Zenon
  <2>2. items' = items /\ UNCHANGED <<loop, attempt, received, errCh, tool>>
    BY <1>2, Zenon DEF loopVars
  <2>3. \A b \in Subscriptions: SubInv(b)'
    BY <1>0, <2>1, <2>2 DEF DeliveryInv, SubInv
  <2>4. loop \in {"events", "send"} => attempt \in Subscriptions
    BY AttemptKnown, Zenon
  <2>. QED
    BY <2>1, <2>2, <2>3, <2>4, Zenon DEF DeliveryInv, EachConnectionFromTheStart
<1>3. ASSUME NEW ev \in Events, Publishes(ev)
      PROVE  DeliveryInv'
  <2>1. /\ Len(items') = Len(items) + 1
        /\ \A k \in 1..Len(items): items'[k] = items[k]
        /\ \A a \in Subscriptions:
              /\ sub'[a].i = sub[a].i
              /\ sub'[a].buffer = sub[a].buffer
              /\ sub'[a].cancelled = sub[a].cancelled
              /\ sub'[a].at \in {sub[a].at, "snapshot"}
    BY <1>3, AddFacts, Zenon DEF Publishes
  <2>2. UNCHANGED <<loop, attempt, received, errCh>>
    BY <1>3, Zenon DEF Publishes, loopVars
  <2>3. tool' # "exit" /\ \A k \in 1..Len(items): items[k] # "finish"
    BY <1>3, PublishFacts, Zenon
  <2>4. errCh # "closed"
    BY <1>0, <2>3 DEF DeliveryInv
  <2>5. \A a \in Subscriptions: Len(received[a]) \in Nat
                                /\ DOMAIN received[a] = 1..Len(received[a])
    BY DEF Types
  <2>6. \A a \in Subscriptions: SubInv(a)'
    BY <1>0, <2>1, <2>2, <2>5 DEF DeliveryInv, SubInv
  <2>7. EachConnectionFromTheStart'
    <3>1. ASSUME NEW a \in Subscriptions, NEW k \in DOMAIN received[a]
          PROVE  items'[k] = items[k]
      BY <1>0, <2>1, <2>5 DEF DeliveryInv, SubInv
    <3>. QED
      BY <2>2, <3>1, Zenon DEF DeliveryInv, EachConnectionFromTheStart
  <2>8. loop \in {"events", "send"} => attempt \in Subscriptions
    BY AttemptKnown, Zenon
  <2>. QED
    BY <2>1, <2>2, <2>3, <2>4, <2>6, <2>7, <2>8, Zenon DEF DeliveryInv
<1>4. CASE Quiet
  <2>1. UNCHANGED <<items, sub, loop, attempt, received, errCh>>
    BY <1>4, Zenon DEF Quiet, bufferVars, loopVars
  <2>2. tool' = "exit" => errCh = "closed"
    BY <1>4, Zenon DEF Quiet, Types, DeliveryInv
  <2>. QED
    BY <2>1, <2>2, Zenon DEF DeliveryInv, SubInv, EachConnectionFromTheStart
<1>. QED
  BY StepKinds, <1>1, <1>2, <1>3, <1>4, Zenon

-----------------------------------------------------------------------------
\* Notifications: Add leaves one behind for a goroutine that is not parked.
LEMMA NotifyStep ==
    ASSUME Inv, NotifyInv, [Next]_vars
    PROVE  NotifyInv'
<1>. USE DEF Inv
<1>0. /\ Len(items) \in Nat /\ sub \in [Subscriptions -> Sub]
      /\ \A a \in Subscriptions: sub[a] \in Sub /\ sub[a].i \in Nat /\ sub[a].buffer \in Nat
      /\ \A a \in Subscriptions: /\ sub[a].i <= Len(items) /\ sub[a].buffer <= Len(items)
                                 /\ sub[a].at = "sending" => sub[a].i < sub[a].buffer
  BY DEF Types, Sub, DeliveryInv, SubInv
<1>1. CASE Loop /\ UNCHANGED <<items, tool, chunk, copying>>
  <2>1. UNCHANGED <<items, notify, stolen>>
    BY <1>1, Zenon DEF Loop, NextAttempt, Dial, ReceiveEvent, Send, CloseSend, bufferVars
  <2>2. CASE sub' = sub /\ loop \in {"next", "dial"}
    BY <2>1, <2>2, Zenon DEF NotifyInv
  <2>3. CASE sub' = sub /\ loop = "send" /\ loop' = "events" /\ attempt' = attempt
    BY <2>1, <2>3, Zenon DEF NotifyInv
  <2>4. ASSUME attempt \in Subscriptions, attempt' = attempt, loop = "dial", loop' = "events",
               sub' = [sub EXCEPT ![attempt] = [NoSub EXCEPT !.at = "snapshot"]]
        PROVE  NotifyInv'
    <3>1. sub'[attempt].at = "snapshot" /\ \A a \in Subscriptions \ {attempt}: sub'[a] = sub[a]
      BY <1>0, <2>4, Zenon DEF NoSub
    <3>2. \A a \in Subscriptions \ {attempt}: sub[a].at # "none" => sub[a].cancelled
      BY <2>4, Zenon DEF NotifyInv
    <3>. QED
      BY <2>1, <2>4, <3>1, <3>2, Zenon DEF NotifyInv
  <2>5. ASSUME attempt \in Subscriptions, ReceiveEvent
        PROVE  NotifyInv'
    <3>. DEFINE s == AfterSend(sub[attempt])
    <3>1. /\ sub' = [sub EXCEPT ![attempt] = s] /\ attempt' = attempt
          /\ loop = "events" /\ loop' = "send" /\ sub[attempt].at = "sending"
      BY <2>5, Zenon DEF ReceiveEvent
    <3>2. /\ s.i = sub[attempt].i + 1 /\ s.buffer = sub[attempt].buffer
          /\ s.cancelled = sub[attempt].cancelled
          /\ s.at = "select" => ~(sub[attempt].i + 1 < s.buffer)
          /\ s.at \in {"closed", "sending", "select"}
      BY <1>0, <2>5, AfterSendFacts, Zenon
    <3>. HIDE DEF s
    <3>3. sub'[attempt] = s /\ \A a \in Subscriptions \ {attempt}: sub'[a] = sub[a]
      BY <1>0, <2>5, <3>1, Zenon
    <3>4. s.at = "select" => s.i = s.buffer
      BY <1>0, <2>5, <3>1, <3>2
    <3>5. ~stolen /\ ~s.cancelled => notify \/ s.buffer = Len(items)
      BY <2>5, <3>1, <3>2, Zenon DEF NotifyInv
    <3>. QED
      BY <2>1, <3>1, <3>2, <3>3, <3>4, <3>5, Zenon DEF NotifyInv
  <2>6. ASSUME attempt \in Subscriptions, attempt' = attempt, loop \in {"events", "send"},
               sub' = [sub EXCEPT ![attempt].cancelled = TRUE]
        PROVE  NotifyInv'
    <3>1. \A a \in Subscriptions \ {attempt}: sub'[a] = sub[a]
      BY <1>0, <2>6, Zenon
    <3>2. sub'[attempt].cancelled
      BY <1>0, <2>6, Zenon DEF Sub
    <3>3. \A a \in Subscriptions \ {attempt}: sub[a].at # "none" => sub[a].cancelled
      BY Zenon DEF NotifyInv
    <3>. QED
      BY <2>1, <2>6, <3>1, <3>2, <3>3, Zenon DEF NotifyInv
  <2>7. /\ NextAttempt => loop = "next"
        /\ Dial => loop = "dial"
        /\ Send \/ CloseSend => /\ loop \in {"events", "send"}
                                /\ \/ sub' = [sub EXCEPT ![attempt].cancelled = TRUE]
                                   \/ sub' = sub /\ loop = "send" /\ loop' = "events"
    BY Zenon DEF NextAttempt, Dial, Send, CloseSend, FailAttempt
  <2>. QED
    BY <1>1, LoopFacts, <2>2, <2>3, <2>4, <2>5, <2>6, <2>7, Zenon
<1>2. ASSUME NEW a \in Subscriptions, Subscriber(a),
             UNCHANGED <<items, loopVars, tool, chunk, copying>>
      PROVE  NotifyInv'
  <2>1. UNCHANGED <<items, loop, attempt>>
    BY <1>2, Zenon DEF loopVars
  <2>2. \A b \in Subscriptions: sub'[b].i = sub[b].i /\ sub'[b].cancelled = sub[b].cancelled
    BY <1>2, SubscriberFacts, Zenon
  <2>3. \A b \in Subscriptions \ {a}: sub'[b] = sub[b]
    BY <1>0, <1>2, Zenon DEF Subscriber, Snapshot, SendCancelled, Select, ParkedCancelled
  <2>4. sub[a].at # "none"
    BY <1>2, Zenon DEF Subscriber, Snapshot, SendCancelled, Select, ParkedCancelled
  <2>5. \A b \in Subscriptions: sub'[b].at # "none" /\ ~sub'[b].cancelled =>
           b = attempt' /\ loop' \in {"events", "send"}
    BY <1>2, <2>1, <2>2, <2>3, <2>4, Zenon DEF NotifyInv
  <2>6. CASE Snapshot(a)
    <3>1. /\ notify' = notify /\ stolen' = stolen
          /\ sub'[a].buffer = Len(items)
          /\ sub'[a].at = IF sub[a].i < Len(items) THEN "sending" ELSE "select"
      BY <1>0, <1>2, <2>6, Zenon DEF Snapshot, Sub
    <3>2. sub'[a].at = "select" => sub[a].i = Len(items)
      BY <1>0, <1>2, <3>1
    <3>3. sub'[a].at # "parked"
      BY <3>1, Zenon
    <3>. QED
      BY <1>2, <2>1, <2>2, <2>3, <2>5, <3>1, <3>2, <3>3, Zenon DEF NotifyInv
  <2>7. CASE sub[a].cancelled /\ UNCHANGED <<notify, stolen>>
    <3>1. sub'[a].cancelled
      BY <1>2, <2>2, <2>7, Zenon
    <3>. QED
      BY <2>1, <2>2, <2>3, <2>5, <2>7, <3>1, Zenon DEF NotifyInv
  <2>8. CASE /\ notify' = FALSE /\ stolen' = (stolen \/ sub[a].cancelled)
             /\ sub' = [sub EXCEPT ![a].at = "snapshot"]
    <3>1. sub'[a].at = "snapshot"
      BY <1>0, <1>2, <2>8, Zenon DEF Sub
    <3>2. CASE sub[a].cancelled
      BY <2>5, <2>8, <3>2, Zenon DEF NotifyInv
    <3>3. CASE ~sub[a].cancelled
      <4>1. a = attempt
        BY <1>2, <2>4, <3>3, Zenon DEF NotifyInv
      <4>2. \A b \in Subscriptions \ {a}: sub[b].at = "none" \/ sub[b].cancelled
        BY <4>1, Zenon DEF NotifyInv
      <4>3. \A b \in Subscriptions: \/ sub'[b].at \in {"none", "snapshot"}
                                    \/ sub'[b].cancelled
        BY <2>3, <3>1, <4>2, Zenon
      <4>. QED
        BY <2>5, <4>3, Zenon DEF NotifyInv
    <3>. QED
      BY <3>2, <3>3, Zenon
  <2>9. CASE /\ ~notify /\ ~sub[a].cancelled /\ sub[a].at = "select"
             /\ UNCHANGED <<notify, stolen>>
             /\ sub' = [sub EXCEPT ![a].at = "parked"]
    <3>1. sub'[a].at = "parked"
      BY <1>0, <1>2, <2>9, Zenon DEF Sub
    <3>2. ~stolen => sub[a].i = Len(items)
      BY <1>2, <2>9, Zenon DEF NotifyInv
    <3>. QED
      BY <1>2, <2>1, <2>2, <2>3, <2>5, <2>9, <3>1, <3>2, Zenon DEF NotifyInv
  <2>. QED
    BY <1>2, <2>6, <2>7, <2>8, <2>9, Zenon
       DEF Subscriber, SendCancelled, Select, ParkedCancelled
<1>3. ASSUME NEW ev \in Events, Publishes(ev)
      PROVE  NotifyInv'
  <2>1. /\ Len(items') = Len(items) + 1
        /\ \A a \in Subscriptions:
              /\ sub'[a].i = sub[a].i
              /\ sub'[a].buffer = sub[a].buffer
              /\ sub'[a].cancelled = sub[a].cancelled
    BY <1>3, AddFacts, Zenon DEF Publishes
  <2>2. UNCHANGED <<loop, attempt, stolen>>
    BY <1>3, Zenon DEF Publishes, Add, loopVars
  <2>3. CASE Parked = {}
    <3>1. notify' = TRUE /\ sub' = sub
      BY <1>3, <2>3, Zenon DEF Publishes, Add
    <3>2. \A a \in Subscriptions: sub[a].at = "parked" => sub[a].cancelled
      BY <2>3, Zenon DEF Parked
    <3>. QED
      BY <2>1, <2>2, <3>1, <3>2, Zenon DEF NotifyInv
  <2>4. CASE Parked # {}
    <3>1. PICK p \in Parked: sub' = [sub EXCEPT ![p].at = "snapshot"]
      BY <1>3, <2>4, Zenon DEF Publishes, Add
    <3>2. p \in Subscriptions /\ sub[p].at = "parked" /\ ~sub[p].cancelled
      BY <3>1, Zenon DEF Parked
    <3>3. p = attempt /\ loop \in {"events", "send"}
      BY <3>2, Zenon DEF NotifyInv
    <3>4. \A a \in Subscriptions \ {p}: sub'[a] = sub[a]
      BY <1>0, <3>1, Zenon
    <3>5. \A a \in Subscriptions \ {p}: sub[a].at = "none" \/ sub[a].cancelled
      BY <3>3, Zenon DEF NotifyInv
    <3>6. sub'[p].at = "snapshot"
      BY <1>0, <3>1, <3>2, Zenon DEF Sub
    <3>. QED
      BY <2>2, <3>3, <3>4, <3>5, <3>6, Zenon DEF NotifyInv
  <2>. QED
    BY <2>3, <2>4, Zenon
<1>4. CASE Quiet
  BY <1>4, Zenon DEF Quiet, NotifyInv, bufferVars, loopVars
<1>. QED
  BY StepKinds, <1>1, <1>2, <1>3, <1>4, Zenon

-----------------------------------------------------------------------------
\* The invariant of the event stream, for every number of retries, events and
\* chunks of console output.
THEOREM StreamInvariant == Spec => []Inv
<1>1. Inv /\ [Next]_vars => Inv'
  <2>. SUFFICES ASSUME Inv, [Next]_vars PROVE Inv'
    OBVIOUS
  <2>1. PolicyInv'
    BY PolicyStep, Zenon DEF Inv
  <2>. QED
    BY <2>1, TypesStep, OrderStep, DeliveryStep, Zenon DEF Inv
<1>. QED
  BY InitInv, <1>1, PTL DEF Spec

\* EventBuffer.Subscribe: a goroutine that sleeps has sent everything, unless the
\* goroutine of a cancelled subscription took the notification meant for it.
THEOREM NotificationsArrive == Spec => []NoLostNotification
<1>1. Init => NotifyInv
  BY DEF Init, BufferInit, NoSub, NotifyInv
<1>2. Inv /\ NotifyInv /\ [Next]_vars => NotifyInv'
  BY NotifyStep, Zenon
<1>3. NotifyInv => NoLostNotification
  BY Zenon DEF NotifyInv, NoLostNotification, Parked
<1>. QED
  BY StreamInvariant, <1>1, <1>2, <1>3, PTL DEF Spec

\* Publisher.run: whatever connections broke before, each one carries the
\* buffer from its first event on, in order and numbered without a gap.
THEOREM ConnectionsFromTheStart == Spec => []EachConnectionFromTheStart
<1>1. Inv => EachConnectionFromTheStart
  BY Zenon DEF Inv, DeliveryInv
<1>. QED
  BY StreamInvariant, <1>1, PTL

\* cleanupIO before FinishedEvent before Publisher.Finish: no console output is
\* published behind the events that end the stream.
THEOREM ConsoleBeforeFinish == Spec => []FinishIsLast
<1>1. Inv => FinishIsLast
  BY Zenon DEF Inv, OrderInv
<1>. QED
  BY StreamInvariant, <1>1, PTL

\* Publisher.Finish returns nil only when a single connection carried every
\* event that was ever published.
THEOREM SuccessIsWhole == Spec => []SuccessMeansAllReceived
<1>1. Inv => SuccessMeansAllReceived
  BY Zenon DEF Inv, DeliveryInv, SuccessMeansAllReceived
<1>. QED
  BY StreamInvariant, <1>1, PTL

\* Retry.Next in the Publisher's loop: the last error is sent only after the
\* first attempt and all the retries.
THEOREM AllRetriesUsed == Spec => []GivesUpAfterAllRetries
<1>1. Inv => GivesUpAfterAllRetries
  BY Zenon DEF Inv, PolicyInv
<1>. QED
  BY StreamInvariant, <1>1, PTL
=============================================================================
