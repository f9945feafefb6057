----------------------------- MODULE MCRunners -----------------------------
(* Three commands, one at a time, or two at a time with a jobserver. *)
EXTENDS Runners
=============================================================================
