----------------------------- MODULE Subprocess -----------------------------
(***************************************************************************)
(* One operating-system process per command, the goroutine that waits for  *)
(* it, and the program-wide interrupt flag                                 *)
(* (internal/subprocess/subprocess.go).  The client side of a runner, the  *)
(* position of Builder.Build in its loop, is declared here as well because *)
(* every runner moves it.                                                  *)
(***************************************************************************)
EXTENDS Naturals, Sequences, FiniteSets

CONSTANTS Edges,         \* the commands of the build
          Parallelism    \* config.Parallelism

VARIABLES kind,          \* the runner the build got: "local", "caching", "remote"
          jobserver,     \* the build takes its job slots from a jobserver
          pc,            \* where the goroutine of Builder.Build is
          reported,      \* edges whose result WaitForCommand returned
          proc,          \* proc[e]: the process, with how it ended
          killed,        \* edges whose context was cancelled
          waiter,        \* waiter[e]: the goroutine in cmd.Wait
          interrupted,   \* a signal was received
          crashed        \* a goroutine panicked, the program is gone

config == <<kind, jobserver>>
clientVars == <<config, pc, reported>>
procVars == <<proc, killed, waiter, interrupted, crashed>>

\* "signalled": by SIGINT, SIGTERM or SIGHUP, or by an exit with status 130, the
\* value of ExitInterrupted; every other unsuccessful end is "failed".
Endings == {"ok", "failed", "signalled", "killed"}

SubprocessInit ==
    /\ kind \in {"local", "caching", "remote"}
    /\ jobserver \in BOOLEAN
    /\ pc = "build"
    /\ reported = {}
    /\ proc = [e \in Edges |-> "none"]
    /\ killed = {}
    /\ waiter = [e \in Edges |-> "none"]
    /\ interrupted = FALSE
    /\ crashed = FALSE

Ended(e) == proc[e] \in Endings

\* The done channel is closed.
Done(e) == waiter[e] = "closed"

\* cmd.Start, and the goroutine that calls cmd.Wait.
NewSubprocess(e) ==
    /\ proc' = [proc EXCEPT ![e] = "alive"]
    /\ waiter' = [waiter EXCEPT ![e] = "waiting"]

\* The command exits by itself, or by a signal it received.
Exit(e) ==
    /\ proc[e] = "alive"
    /\ \E how \in Endings \ {"killed"}: proc' = [proc EXCEPT ![e] = how]
    /\ UNCHANGED <<killed, waiter, interrupted, crashed>>

\* The kill that exec.CommandContext sends once the context is cancelled.
KillArrives(e) ==
    /\ proc[e] = "alive"
    /\ e \in killed
    /\ proc' = [proc EXCEPT ![e] = "killed"]
    /\ UNCHANGED <<killed, waiter, interrupted, crashed>>

\* cmd.Wait returned nil or an ExitError; close(done).
WaitReturns(e) ==
    /\ waiter[e] = "waiting"
    /\ Ended(e)
    /\ waiter' = [waiter EXCEPT ![e] = "closed"]
    /\ UNCHANGED <<proc, killed, interrupted, crashed>>

\* The kill reached a process that had exited with success and was not
\* reaped yet: cmd.Wait returns the context's error, which is no ExitError,
\* and the type assertion panics.
WaitPanics(e) ==
    /\ waiter[e] = "waiting"
    /\ e \in killed
    /\ proc[e] = "ok"
    /\ waiter' = [waiter EXCEPT ![e] = "panicked"]
    /\ crashed' = TRUE
    /\ UNCHANGED <<proc, killed, interrupted>>

\* The status WaitForCommand reads off the exit error.
Finish(e) ==
    CASE proc[e] = "ok" -> "success"
      [] proc[e] = "signalled" -> "interrupted"
      [] OTHER -> "failure"

\* handleSignals.
Signal ==
    /\ ~interrupted
    /\ interrupted' = TRUE
    /\ UNCHANGED <<proc, killed, waiter, crashed>>

SubprocessStep(e) ==
    Exit(e) \/ KillArrives(e) \/ WaitReturns(e) \/ WaitPanics(e)
=============================================================================
