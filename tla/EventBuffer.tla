---------------------------- MODULE EventBuffer ----------------------------
(***************************************************************************)
(* EventBuffer: the list of build events, the one-place notify channel and *)
(* the goroutine of each subscription.  A select statement with several    *)
(* ready cases picks any of them; a goroutine parked in a select is taken  *)
(* by the first case that becomes ready, and a send on notify goes to a    *)
(* parked receiver directly.                                               *)
(***************************************************************************)
EXTENDS Naturals, Sequences

CONSTANTS Subscriptions   \* the attempts to stream, numbered from 1

VARIABLES items,      \* EventBuffer.items: "event", and "finish" at the end
          notify,     \* the notify channel holds its one element
          sub,        \* sub[a]: the goroutine of subscription a
          stolen      \* history: a cancelled subscription took a notification

bufferVars == <<items, notify, sub, stolen>>

NoSub == [at |-> "none", i |-> 0, buffer |-> 0, cancelled |-> FALSE]

BufferInit ==
    /\ items = <<>>
    /\ notify = FALSE
    /\ sub = [a \in Subscriptions |-> NoSub]
    /\ stolen = FALSE

Parked == {a \in Subscriptions: sub[a].at = "parked" /\ ~sub[a].cancelled}

\* Mutant: notify has no buffer, so a goroutine that is not parked misses it.
AddUnbuffered(event) ==
    /\ items' = Append(items, event)
    /\ IF Parked = {} THEN UNCHANGED sub
       ELSE \E a \in Parked: sub' = [sub EXCEPT ![a].at = "snapshot"]
    /\ UNCHANGED <<notify, stolen>>

\* Add, under the mutex: append, then notify without blocking.
Add(event) ==
    /\ items' = Append(items, event)
    /\ IF Parked = {}
       THEN notify' = TRUE /\ UNCHANGED sub
       ELSE /\ \E a \in Parked: sub' = [sub EXCEPT ![a].at = "snapshot"]
            /\ UNCHANGED notify
    /\ UNCHANGED stolen

\* The top of the goroutine's loop: take the slice under the mutex.
Snapshot(a) ==
    /\ sub[a].at = "snapshot"
    /\ sub' = [sub EXCEPT ![a].buffer = Len(items),
                          ![a].at = IF sub[a].i < Len(items) THEN "sending"
                                    ELSE "select"]
    /\ UNCHANGED <<items, notify, stolen>>

\* Mutants: the channel is closed with the buffer's last event, or the index is
\* not checked against the buffer.
CloseAfterSend(s) ==
    [s EXCEPT !.at = IF s.i + 1 < s.buffer THEN "sending" ELSE "closed", !.i = s.i + 1]
SendUnchecked(s) ==
    [s EXCEPT !.at = IF items[s.i + 1] = "finish" THEN "closed" ELSE "snapshot",
              !.i = s.i + 2]

\* The goroutine after event i + 1 was received from the events channel.
AfterSend(s) ==
    LET at == CASE items[s.i + 1] = "finish" -> "closed"
                [] items[s.i + 1] # "finish" /\ s.i + 1 < s.buffer -> "sending"
                [] OTHER -> "select"
    IN  [s EXCEPT !.at = at, !.i = s.i + 1]

\* Nobody receives any more: only the cancel case is ready.
SendCancelled(a) ==
    /\ sub[a].at = "sending"
    /\ sub[a].cancelled
    /\ sub' = [sub EXCEPT ![a].at = "closed"]
    /\ UNCHANGED <<items, notify, stolen>>

\* The second select, reached: a ready case is taken, or the goroutine parks.
Select(a) ==
    /\ sub[a].at = "select"
    /\ \/ /\ sub[a].cancelled
          /\ sub' = [sub EXCEPT ![a].at = "closed"]
          /\ UNCHANGED <<notify, stolen>>
       \/ /\ notify
          /\ notify' = FALSE
          /\ sub' = [sub EXCEPT ![a].at = "snapshot"]
          /\ stolen' = (stolen \/ sub[a].cancelled)
       \/ /\ ~notify /\ ~sub[a].cancelled
          /\ sub' = [sub EXCEPT ![a].at = "parked"]
          /\ UNCHANGED <<notify, stolen>>
    /\ UNCHANGED items

ParkedCancelled(a) ==
    /\ sub[a].at = "parked"
    /\ sub[a].cancelled
    /\ sub' = [sub EXCEPT ![a].at = "closed"]
    /\ UNCHANGED <<items, notify, stolen>>

Subscriber(a) ==
    Snapshot(a) \/ SendCancelled(a) \/ Select(a) \/ ParkedCancelled(a)
=============================================================================
