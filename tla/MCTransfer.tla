----------------------------- MODULE MCTransfer -----------------------------
(***************************************************************************)
(* Two edges for TLC.  They share the header h.  The inputs of e1 fit into *)
(* one batch; big is streamed; the outputs of e1 need two batches when the *)
(* caching runner uploads them.  e2 only checks: it has no output.         *)
(***************************************************************************)
EXTENDS Transfer

MCSize == [h |-> 1, a |-> 1, big |-> 3, o1 |-> 1, o2 |-> 2, ok |-> 1]

MCBlobs == DOMAIN MCSize

MCInputs == [e1 |-> <<"h", "a">>, e2 |-> <<"h", "big", "h">>]

MCOutputs == [e1 |-> <<"o1", "o2">>, e2 |-> << >>]

MCStdout == [e1 |-> "ok", e2 |-> "ok"]
=============================================================================
