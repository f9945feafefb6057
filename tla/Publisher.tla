----------------------------- MODULE Publisher -----------------------------
(***************************************************************************)
(* The build event stream: the Publisher's background loop, which attempts *)
(* to stream the whole EventBuffer and retries from its first event after  *)
(* an error, and the status printer's side of it: the main goroutine that  *)
(* publishes the build's events, the goroutines that copy the hooked       *)
(* stdout and stderr into console events, and FinalizeTool.                *)
(***************************************************************************)
EXTENDS EventBuffer, Retry, FiniteSets

CONSTANTS MaxEvents,     \* bound: events the main goroutine publishes
          MaxChunks      \* bound: chunks written to the hooked stdout and stderr

\* The stream is retried a number of times, not until some time has passed
\* (numStreamRetries); there is one subscription per attempt.
ASSUME SubscriptionsAssumption ==
    /\ MaxRetries > 0
    /\ Subscriptions = 1..(MaxRetries + 1)

Streams == {"stdout", "stderr"}

VARIABLES loop,          \* Start's goroutine: where it is inside run
          policy,        \* its retry.Retry
          attempt,       \* the current subscription
          received,      \* received[a]: what the server got on connection a
          errCh,         \* "open", "error" sent, or "closed"
          tool,          \* the main goroutine
          pipe,          \* pipe[s]: chunks in the os.Pipe of stream s
          chunk,         \* chunk[s]: a chunk read and not yet published
          copying,       \* copying[s]: the goroutines of wrap still run
          child,         \* a console command that inherited stdout's pipe runs
          written        \* chunks written so far

loopVars == <<loop, policy, attempt, received, errCh>>
ioVars == <<pipe, chunk, copying, child, written>>
vars == <<bufferVars, loopVars, tool, ioVars>>

Init ==
    /\ BufferInit
    /\ loop = "next" /\ policy = NewRetry /\ attempt = 0 /\ errCh = "open"
    /\ received = [a \in Subscriptions |-> <<>>]
    /\ tool = "build"
    /\ pipe = [s \in Streams |-> 0]
    /\ chunk = [s \in Streams |-> FALSE]
    /\ copying = [s \in Streams |-> TRUE]
    /\ child = FALSE /\ written = 0

\* r.Next(): another attempt after the backoff, or the last error is sent and
\* the channel closed.
NextAttempt ==
    /\ loop = "next"
    /\ IF MayRetry(policy)
       THEN /\ policy' = NextDelay(policy)
            /\ loop' = "dial"
            /\ attempt' = attempt + 1
            /\ UNCHANGED errCh
       ELSE /\ errCh' = "error"
            /\ loop' = "stopped"
            /\ UNCHANGED <<policy, attempt>>
    /\ UNCHANGED <<bufferVars, received, tool, ioVars>>

\* Mutant: a new attempt goes on where the last one stopped.
DialAndResume ==
    /\ loop = "dial"
    /\ \/ loop' = "next" /\ UNCHANGED sub
       \/ /\ loop' = "events"
          /\ sub' = [sub EXCEPT ![attempt] =
                       [NoSub EXCEPT !.at = "snapshot",
                                     !.i = IF attempt > 1 THEN sub[attempt - 1].i ELSE 0]]
    /\ UNCHANGED <<items, notify, stolen, policy, attempt, received, errCh, tool,
                   ioVars>>

\* Dialling and opening the stream fails, or the attempt subscribes.
Dial ==
    /\ loop = "dial"
    /\ \/ loop' = "next" /\ UNCHANGED sub
       \/ /\ loop' = "events"
          /\ sub' = [sub EXCEPT ![attempt] = [NoSub EXCEPT !.at = "snapshot"]]
    /\ UNCHANGED <<items, notify, stolen, policy, attempt, received, errCh, tool,
                   ioVars>>

\* The unbuffered events channel: the subscription's send meets the loop's
\* receive.  The event is then with run, as the one before stream.Send.
ReceiveEvent ==
    /\ loop = "events"
    /\ sub[attempt].at = "sending"
    /\ sub' = [sub EXCEPT ![attempt] = AfterSend(@)]
    /\ loop' = "send"
    /\ UNCHANGED <<items, notify, stolen, policy, attempt, received, errCh, tool,
                   ioVars>>

\* What run does when it fails: the deferred cancel, then the next attempt.
FailAttempt ==
    /\ loop' = "next"
    /\ sub' = [sub EXCEPT ![attempt].cancelled = TRUE]
    /\ UNCHANGED <<received, errCh>>

\* stream.Send: the server receives the event (with its sequence number), or
\* the call fails.  The event may be lost with the connection.
Send ==
    /\ loop = "send"
    /\ \/ /\ received' = [received EXCEPT ![attempt] =
                            Append(@, [SequenceNumber |-> sub[attempt].i,
                                       Event |-> items[sub[attempt].i]])]
          /\ loop' = "events"
          /\ UNCHANGED <<sub, errCh>>
       \/ FailAttempt
    /\ UNCHANGED <<items, notify, stolen, policy, attempt, tool, ioVars>>

\* The events channel is closed: CloseSend, then the error of the acks or nil.
CloseSend ==
    /\ loop = "events"
    /\ sub[attempt].at = "closed"
    /\ \/ /\ loop' = "stopped"
          /\ errCh' = "closed"
          /\ sub' = [sub EXCEPT ![attempt].cancelled = TRUE]
          /\ UNCHANGED received
       \/ FailAttempt
    /\ UNCHANGED <<items, notify, stolen, policy, attempt, tool, ioVars>>

Loop == NextAttempt \/ Dial \/ ReceiveEvent \/ Send \/ CloseSend

\* The main goroutine before FinalizeTool: events of InitializeTool, of the
\* edges and of BuildFinished.
Publish ==
    /\ tool = "build"
    /\ Cardinality({i \in DOMAIN items: items[i] = "event"}) < MaxEvents
    /\ Add("event")
    /\ UNCHANGED <<loopVars, tool, ioVars>>

\* The stream whose pipe cleanupIO is waiting for, and those already unhooked.
Unhooked(s) == IF s = "stdout" THEN tool # "build"
               ELSE tool \notin {"build", "unhook stdout"}

\* A goroutine of the program (the Publisher's own messages included) writes to
\* a stream that is hooked, or a console command to its stdout.
Write(s) ==
    /\ ~Unhooked(s) \/ (s = "stdout" /\ child)
    /\ written < MaxChunks
    /\ written' = written + 1
    /\ pipe' = [pipe EXCEPT ![s] = @ + 1]
    /\ UNCHANGED <<bufferVars, loopVars, tool, chunk, copying, child>>

\* A console command gets the write end of stdout's pipe as its stdout and
\* stderr; it may outlive the build when the build was interrupted.
ConsoleStart ==
    /\ tool = "build" /\ ~child
    /\ child' = TRUE
    /\ UNCHANGED <<bufferVars, loopVars, tool, pipe, chunk, copying, written>>

ConsoleExit ==
    /\ child
    /\ child' = FALSE
    /\ UNCHANGED <<bufferVars, loopVars, tool, pipe, chunk, copying, written>>

\* wrap's first goroutine: io.Copy hands a chunk to the reader of the io.Pipe.
Copy(s) ==
    /\ copying[s] /\ ~chunk[s] /\ pipe[s] > 0
    /\ pipe' = [pipe EXCEPT ![s] = @ - 1]
    /\ chunk' = [chunk EXCEPT ![s] = TRUE]
    /\ UNCHANGED <<bufferVars, loopVars, tool, copying, child, written>>

\* wrap's second goroutine publishes the chunk.
PublishConsole(s) ==
    /\ chunk[s]
    /\ chunk' = [chunk EXCEPT ![s] = FALSE]
    /\ Add("console")
    /\ UNCHANGED <<loopVars, tool, pipe, copying, child, written>>

\* The read end sees end of file once every write end is closed.
CopyEnds(s) ==
    /\ copying[s] /\ ~chunk[s] /\ pipe[s] = 0
    /\ Unhooked(s) /\ (s = "stdout" => ~child)
    /\ copying' = [copying EXCEPT ![s] = FALSE]
    /\ UNCHANGED <<bufferVars, loopVars, tool, pipe, chunk, child, written>>

\* FinalizeTool up to wg.Wait of the first unhook.
FinalizeTool ==
    /\ tool = "build"
    /\ tool' = "unhook stdout"
    /\ UNCHANGED <<bufferVars, loopVars, ioVars>>

WaitStdout ==
    /\ tool = "unhook stdout" /\ ~copying["stdout"]
    /\ tool' = "unhook stderr"
    /\ UNCHANGED <<bufferVars, loopVars, ioVars>>

\* Mutant: cleanupIO does not wait for the copying goroutines of stderr.
StderrNotAwaited ==
    /\ tool = "unhook stderr"
    /\ tool' = "writeBuildLogEvent"
    /\ UNCHANGED <<bufferVars, loopVars, ioVars>>

WaitStderr ==
    /\ tool = "unhook stderr" /\ ~copying["stderr"]
    /\ tool' = "writeBuildLogEvent"
    /\ UNCHANGED <<bufferVars, loopVars, ioVars>>

\* writeBuildLogEvent publishes nothing when an upload fails.
writeBuildLogEvent ==
    /\ tool = "writeBuildLogEvent"
    /\ tool' = "FinishedEvent"
    /\ Add("logs") \/ UNCHANGED bufferVars
    /\ UNCHANGED <<loopVars, ioVars>>

PublishFinished ==
    /\ tool = "FinishedEvent"
    /\ tool' = "Finish"
    /\ Add("finished")
    /\ UNCHANGED <<loopVars, ioVars>>

\* Publisher.Finish: add the stream's last event, then wait on errCh.
Finish ==
    /\ tool = "Finish"
    /\ tool' = "wait"
    /\ Add("finish")
    /\ UNCHANGED <<loopVars, ioVars>>

FinishReturns ==
    /\ tool = "wait"
    /\ errCh # "open"
    /\ tool' = IF errCh = "error" THEN "exit, not published" ELSE "exit"
    /\ UNCHANGED <<bufferVars, loopVars, ioVars>>

\* os.Exit.
Exited == tool \in {"exit", "exit, not published"}

\* Finish waits on errCh for good: run waits for an event, its subscription
\* sleeps with events left to send, and no notification is there to wake it,
\* because a cancelled subscription took it.
Hung ==
    /\ tool = "wait" /\ loop = "events"
    /\ sub[attempt].at = "parked" /\ sub[attempt].i < Len(items)
    /\ ~notify /\ stolen
Stopped == (Exited \/ Hung) /\ UNCHANGED vars

Finalize ==
    FinalizeTool \/ WaitStdout \/ WaitStderr \/ writeBuildLogEvent
    \/ PublishFinished \/ Finish \/ FinishReturns

Copier(s) == Copy(s) \/ PublishConsole(s) \/ CopyEnds(s)

Goroutine(a) ==
    ~Exited /\ Subscriber(a) /\ UNCHANGED <<loopVars, tool, ioVars>>

Next ==
    \/ Stopped
    \/ /\ ~Exited
       /\ Loop \/ Publish \/ Finalize \/ ConsoleStart \/ ConsoleExit
    \/ /\ ~Exited
       /\ \E s \in Streams: Write(s) \/ Copier(s)
    \/ \E a \in Subscriptions: Goroutine(a)

Spec == Init /\ [][Next]_vars

\* The goroutines are scheduled, every call to the server returns with success
\* or an error, and console commands exit; nobody owes the stream a success.
FairSpec ==
    /\ Spec
    /\ WF_vars(~Exited /\ Loop)
    /\ WF_vars(Finalize)
    /\ WF_vars(~Exited /\ ConsoleExit)
    /\ \A s \in Streams: WF_vars(~Exited /\ Copier(s))
    /\ \A a \in Subscriptions: WF_vars(Goroutine(a))

----------------------------------------------------------------------------
\* The variables have their types; no subscription is ahead of the buffer
\* (Subscribe) and the policy never counts more attempts than allowed (Next).
TypeOK ==
    /\ items \in Seq({"event", "console", "logs", "finished", "finish"})
    /\ notify \in BOOLEAN /\ stolen \in BOOLEAN
    /\ sub \in [Subscriptions ->
                [at: {"none", "snapshot", "sending", "select", "parked", "closed"},
                 i: 0..Len(items), buffer: 0..Len(items), cancelled: BOOLEAN]]
    /\ loop \in {"next", "dial", "events", "send", "stopped"}
    /\ policy \in [isReset: BOOLEAN, currentAttempt: 0..MaxRetries, delayed: Nat]
    /\ attempt \in 0..Cardinality(Subscriptions)
    /\ errCh \in {"open", "error", "closed"}
    /\ copying \in [Streams -> BOOLEAN] /\ chunk \in [Streams -> BOOLEAN]
    /\ pipe \in [Streams -> 0..MaxChunks] /\ written \in 0..MaxChunks

\* Whatever connections broke before, each connection's server sees the buffer
\* from its first event on, in order, numbered from one without a gap.
EachConnectionFromTheStart ==
    \A a \in Subscriptions: \A k \in DOMAIN received[a]:
        received[a][k] = [SequenceNumber |-> k, Event |-> items[k]]

\* Finish returns nil only if one connection carried every event that was
\* ever published, the stream's finish event included.
SuccessMeansAllReceived ==
    tool = "exit" => Len(received[attempt]) = Len(items)

\* No console output is published behind the event that ends the stream or
\* behind the build's exit code: cleanupIO waits for the copying goroutines,
\* even for those of a console command that outlived the build.
FinishIsLast ==
    \A i, j \in DOMAIN items:
        items[i] \in {"finished", "finish"} /\ items[j] \in {"event", "console"}
        => j < i

\* A subscription that sleeps has sent everything, unless a cancelled one was
\* faster to take the notification (the mutex does not cover notify).
NoLostNotification ==
    \A a \in Parked: stolen \/ sub[a].i = Len(items)

\* The stream is given up only after the retries the policy allows.
GivesUpAfterAllRetries ==
    errCh = "error" => attempt = MaxRetries + 1

\* Once FinalizeTool was called the program exits, whether the server takes the
\* events or refuses every attempt, or it ends in the one state where Finish
\* waits for good: the subscription of a broken connection, cancelled and not
\* yet gone, took the notification of the last events and left the current one
\* asleep (Subscribe, Publisher.Finish).
FinalizeToolReturns == tool # "build" ~> (Exited \/ Hung)

\* Once FinalizeTool was called the program exits.  It would if, as Subscribe
\* says, it were safe to subscribe again once cancel was called.
FinalizeToolExits == tool # "build" ~> Exited
=============================================================================
