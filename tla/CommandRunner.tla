--------------------------- MODULE CommandRunner ---------------------------
(***************************************************************************)
(* What Builder.Build relies on in a command runner, whichever one it got: *)
(* every command that was started is reported at most once and only after  *)
(* it has come to an end, and nothing is reported once the runner has      *)
(* answered that the build is over (a nil result, followed by Abort).      *)
(***************************************************************************)
CONSTANT Edges

VARIABLES state,    \* state[e]: "new", "running", "ended" or "reported"
          open      \* FALSE once the build has been given up

Init ==
    /\ state = [e \in Edges |-> "new"]
    /\ open = TRUE

StartCommand(e) ==
    /\ open
    /\ state[e] = "new"
    /\ state' = [state EXCEPT ![e] = "running"]
    /\ UNCHANGED open

End(e) ==
    /\ state[e] = "running"
    /\ state' = [state EXCEPT ![e] = "ended"]
    /\ UNCHANGED open

\* A result that says "interrupted" is the last one.
Report(e) ==
    /\ open
    /\ state[e] = "ended"
    /\ state' = [state EXCEPT ![e] = "reported"]
    /\ open' \in BOOLEAN

GiveUp ==
    /\ open
    /\ open' = FALSE
    /\ UNCHANGED state

Next ==
    \/ \E e \in Edges: StartCommand(e) \/ End(e) \/ Report(e)
    \/ GiveUp

Spec == Init /\ [][Next]_<<state, open>>
=============================================================================
