----------------------------- MODULE Jobserver ------------------------------
(***************************************************************************)
(* The GNU jobserver client of internal/jobserver: one implicit slot that  *)
(* belongs to the process, and a FIFO of one-byte tokens shared with the   *)
(* other clients of the same pool.  The order of the bytes in the FIFO is  *)
(* abstracted: it is a bag.                                                *)
(***************************************************************************)
EXTENDS Integers, FiniteSets

CONSTANTS
  UseJobserver,  \* Builder.jobserver is not nil
  Tokens,        \* how many tokens the pool was created with
  TokenByte      \* the byte every token of the pool carries ('+' for make)

ASSUME JobserverAssumption ==
  /\ UseJobserver \in BOOLEAN
  /\ Tokens \in Nat
  /\ TokenByte \in 1..255

VARIABLES
  hasImplicitSlot,  \* unixClient.hasImplicitSlot
  pipe,             \* how many bytes of each value the FIFO holds
  taken             \* how many of each the other clients hold

jobserverVars == <<hasImplicitSlot, pipe, taken>>

(* Type Slot: a negative value is invalid, 256 is the implicit slot, and   *)
(* the other values are bytes read from the FIFO.  An Edge that never had  *)
(* its slot set has Go's zero value.                                       *)
InvalidSlot == -1
ZeroSlot == 0
ImplicitSlot == 256

(* The bytes that occur: the pool's own, and the one Release would write   *)
(* for a zero slot.                                                        *)
Bytes == {ZeroSlot, TokenByte}

Slots == Bytes \cup {InvalidSlot, ImplicitSlot}

Valid(s) == s >= 0

JobserverInit ==
  /\ hasImplicitSlot = TRUE
  /\ pipe = [b \in Bytes |-> IF b = TokenByte THEN Tokens ELSE 0]
  /\ taken = [b \in Bytes |-> 0]

(* The state of the client, as TryAcquire and Release change it in turn.   *)
Client == [implicit |-> hasImplicitSlot, pipe |-> pipe]

SetClient(c) ==
  /\ hasImplicitSlot' = c.implicit
  /\ pipe' = c.pipe
  /\ taken' = taken

(* The slots unixClient.TryAcquire can return.                             *)
TryAcquire ==
  IF hasImplicitSlot THEN {ImplicitSlot}
  ELSE IF \E b \in Bytes : pipe[b] > 0 THEN {b \in Bytes : pipe[b] > 0}
  ELSE {InvalidSlot}

AfterAcquire(s) ==
  [implicit |-> hasImplicitSlot /\ s # ImplicitSlot,
   pipe |-> [b \in Bytes |-> IF b = s THEN pipe[b] - 1 ELSE pipe[b]]]

(* Mutant: Release forgets to give the implicit slot back.                 *)
ReleaseExplicitOnly(c, S, slot) ==
  [implicit |-> c.implicit,
   pipe |-> [b \in Bytes |->
               c.pipe[b] + Cardinality({e \in S : slot[e] = b})]]

(* unixClient.Release, called by client c once for each e in S with        *)
(* slot[e].                                                                *)
AfterRelease(c, S, slot) ==
  [implicit |-> c.implicit \/ \E e \in S : slot[e] = ImplicitSlot,
   pipe |-> [b \in Bytes |->
               c.pipe[b] + Cardinality({e \in S : slot[e] = b})]]

(* Another client of the pool takes a token, or gives one back.            *)
OtherTakes(b) ==
  /\ UseJobserver
  /\ pipe[b] > 0
  /\ pipe' = [pipe EXCEPT ![b] = @ - 1]
  /\ taken' = [taken EXCEPT ![b] = @ + 1]
  /\ UNCHANGED hasImplicitSlot

OtherReturns(b) ==
  /\ UseJobserver
  /\ taken[b] > 0
  /\ pipe' = [pipe EXCEPT ![b] = @ + 1]
  /\ taken' = [taken EXCEPT ![b] = @ - 1]
  /\ UNCHANGED hasImplicitSlot

=============================================================================
