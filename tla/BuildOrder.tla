----------------------------- MODULE BuildOrder -----------------------------
(***************************************************************************)
(* What a build promises, without plan, pools, queues or a command runner: *)
(* every edge runs at most once and only after everything it depends on is *)
(* built, an edge that failed is never built nor run again, and nothing    *)
(* happens once the outcome is known, which is success only if nothing is  *)
(* running and nothing failed.                                             *)
(***************************************************************************)
EXTENDS Naturals

CONSTANTS
  Edges,     \* build statements
  Producers  \* Producers[e]: the edges whose outputs e reads

VARIABLES
  built,    \* edges that are up to date
  ran,      \* edges whose command was started
  active,   \* edges whose command is running
  broken,   \* edges whose command failed
  outcome   \* "none" until the build is over

vars == <<built, ran, active, broken, outcome>>

Init ==
  /\ built \in SUBSET Edges
  /\ ran = {}
  /\ active = {}
  /\ broken = {}
  /\ outcome = "none"

(* A command starts when its inputs are built.                             *)
Run(e) ==
  /\ outcome = "none"
  /\ e \notin built \cup ran
  /\ Producers[e] \subseteq built
  /\ ran' = ran \cup {e}
  /\ active' = active \cup {e}
  /\ UNCHANGED <<built, broken, outcome>>

(* A command succeeds, or a phony edge is reached, and edges that need no  *)
(* work become up to date with it; a is the command, if there is one.      *)
Complete(a, S) ==
  /\ outcome = "none"
  /\ a \subseteq active
  /\ S \cap ran = a
  /\ S \cap built = {}
  /\ \A e \in S : Producers[e] \subseteq built \cup S
  /\ built' = built \cup S
  /\ active' = active \ a
  /\ UNCHANGED <<ran, broken, outcome>>

Break(e) ==
  /\ outcome = "none"
  /\ e \in active
  /\ active' = active \ {e}
  /\ broken' = broken \cup {e}
  /\ UNCHANGED <<built, ran, outcome>>

(* The build ends; commands that still run are killed.                     *)
Stop(o) ==
  /\ outcome = "none"
  /\ o = "success" => active = {} /\ broken = {}
  /\ outcome' = o
  /\ active' = {}
  /\ UNCHANGED <<built, ran, broken>>

Next ==
  \/ \E e \in Edges : Run(e) \/ Break(e)
  \/ \E S \in SUBSET Edges : \E a \in {{}} \cup {{e} : e \in S} : Complete(a, S)
  \/ \E o \in {"success", "failure", "interrupted"} : Stop(o)

Spec == Init /\ [][Next]_vars

=============================================================================
