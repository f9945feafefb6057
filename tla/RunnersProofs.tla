--------------------------- MODULE RunnersProofs ---------------------------
(***************************************************************************)
(* What the command runners promise, for any number of commands and any    *)
(* limits: the invariants of Runners and that each of the three runners    *)
(* implements CommandRunner.  The state of a runner Build did not choose   *)
(* stays as it was initially, so the inductive invariant has one part for  *)
(* the local runner and one for the two remote ones.                       *)
(***************************************************************************)
EXTENDS Runners, Recursion, FiniteSetTheorems, TLAPS

\* The processes of Set: the running and the finished ones are the ones of
\* subprocToEdge, each in one place; these were started and not reported.
\* Whatever left running is done, and a process nobody has waited for still
\* has its notifier.
SetInv ==
    /\ pc # "wait"
    /\ activeEdges = {} /\ job = [e \in Edges |-> "none"] /\ ~cancelled
    /\ IsInjective(running) /\ IsInjective(finished)
    /\ Range(running) \cap Range(finished) = {}
    /\ pc # "aborted" => Range(running) \cup Range(finished) = subprocToEdge
    /\ subprocToEdge = {e \in Edges: proc[e] # "none"} \ reported
    /\ \A e \in Range(finished) \cup reported: Done(e)
    /\ \A e \in Edges: proc[e] = "none" <=> waiter[e] = "none"
    /\ \A e \in Edges: waiter[e] = "waiting" => notifier[e] = "blocked"
    /\ NoMissedWakeup

\* Without a jobserver no command is started beyond the limit: finished never
\* holds the limit while Build may start one, so the exception CanRunMore makes
\* when nothing runs does not exceed it.
SetBound ==
    /\ pc # "aborted" =>
         /\ Cardinality(subprocToEdge) <= Len(running) + Len(finished)
         /\ Len(running) + Len(finished) <= Parallelism
    /\ pc \in {"build", "dowork", "select"} => Len(finished) < Parallelism
    /\ Cardinality(subprocToEdge) <= Parallelism

\* The jobs of a remote runner: a result in the channel is the only one of
\* its edge and not reported; the active edges are the ones with a job that
\* was not reported, until Build gives up.
JobInv ==
    /\ pc \in {"build", "wait", "giveup", "aborted", "returned"}
    /\ running = <<>> /\ subprocToEdge = {}
    /\ \A e \in Edges: proc[e] # "none" => job[e] # "none"
    /\ Open => activeEdges = {e \in Edges: job[e] # "none"} \ reported
    /\ \A e \in Range(resultCh) \cup reported: job[e] = "sent"
    /\ Range(resultCh) \cap reported = {}
    /\ IsInjective(resultCh)
    /\ jobserver \/ Cardinality(activeEdges) <= Parallelism

RunnersInv ==
    /\ TypeOK
    /\ Local => SetInv /\ (jobserver \/ SetBound)
    /\ ~Local => JobInv

-----------------------------------------------------------------------------
\* Appending to a queue or a channel: what it then holds, and that it holds
\* nothing twice when the element is new.
LEMMA AppendFacts ==
  ASSUME NEW s \in Seq(Edges), NEW e \in Edges
  PROVE  /\ Append(s, e) \in Seq(Edges)
         /\ Len(Append(s, e)) = Len(s) + 1
         /\ Range(Append(s, e)) = Range(s) \cup {e}
         /\ IsInjective(s) /\ e \notin Range(s) => IsInjective(Append(s, e))
<1>1. /\ Append(s, e) \in Seq(Edges)
      /\ Len(Append(s, e)) = Len(s) + 1
      /\ DOMAIN s = 1..Len(s) /\ Len(s) \in Nat
      /\ DOMAIN Append(s, e) = 1..(Len(s) + 1)
      /\ \A i \in 1..Len(s) : Append(s, e)[i] = s[i]
      /\ Append(s, e)[Len(s) + 1] = e
  OBVIOUS
<1>2. Range(Append(s, e)) = Range(s) \cup {e}
  BY <1>1 DEF Range
<1>3. IsInjective(s) /\ e \notin Range(s) => IsInjective(Append(s, e))
  BY <1>1 DEF Range, IsInjective
<1> QED BY <1>1, <1>2, <1>3, Zenon

\* Taking the first element off a queue or a channel.
LEMMA TailFacts ==
  ASSUME NEW s \in Seq(Edges), s # <<>>
  PROVE  /\ Head(s) \in Edges /\ Head(s) \in Range(s)
         /\ Tail(s) \in Seq(Edges)
         /\ Len(s) > 0 /\ Len(Tail(s)) = Len(s) - 1
         /\ Range(s) = Range(Tail(s)) \cup {Head(s)}
         /\ IsInjective(s) => /\ IsInjective(Tail(s))
                              /\ Head(s) \notin Range(Tail(s))
<1>1. /\ Tail(s) \in Seq(Edges)
      /\ Len(s) \in Nat /\ Len(s) > 0 /\ Len(Tail(s)) = Len(s) - 1
      /\ DOMAIN s = 1..Len(s) /\ DOMAIN Tail(s) = 1..(Len(s) - 1)
      /\ \A i \in 1..(Len(s) - 1) : Tail(s)[i] = s[i + 1]
      /\ Head(s) = s[1] /\ Head(s) \in Edges
  OBVIOUS
<1>2. Range(s) = Range(Tail(s)) \cup {Head(s)}
  <2>1. ASSUME NEW i \in 1..Len(s)
        PROVE  s[i] \in Range(Tail(s)) \cup {Head(s)}
    <3>1. CASE i = 1
      BY <1>1, <3>1, Zenon
    <3>2. CASE i # 1
      <4>1. i - 1 \in 1..(Len(s) - 1) /\ s[i] = Tail(s)[i - 1]
        BY <1>1, <3>2
      <4> QED BY <1>1, <4>1, Zenon DEF Range
    <3> QED BY <3>1, <3>2, Zenon
  <2>2. Range(Tail(s)) \subseteq Range(s) /\ Head(s) \in Range(s)
    BY <1>1 DEF Range
  <2> QED BY <1>1, <2>1, <2>2 DEF Range
<1>3. IsInjective(s) => IsInjective(Tail(s)) /\ Head(s) \notin Range(Tail(s))
  BY <1>1 DEF Range, IsInjective
<1> QED BY <1>1, <1>2, <1>3, Zenon

\* Appending the swept processes to finished.
LEMMA ConcatFacts ==
  ASSUME NEW s \in Seq(Edges), NEW t \in Seq(Edges)
  PROVE  /\ s \o t \in Seq(Edges)
         /\ Len(s \o t) = Len(s) + Len(t)
         /\ Range(s \o t) = Range(s) \cup Range(t)
         /\ /\ IsInjective(s) /\ IsInjective(t)
            /\ Range(s) \cap Range(t) = {}
            => IsInjective(s \o t)
<1>1. /\ s \o t \in Seq(Edges)
      /\ Len(s) \in Nat /\ Len(t) \in Nat /\ Len(s \o t) = Len(s) + Len(t)
      /\ DOMAIN s = 1..Len(s) /\ DOMAIN t = 1..Len(t)
      /\ DOMAIN (s \o t) = 1..(Len(s) + Len(t))
      /\ \A i \in 1..Len(s) : (s \o t)[i] = s[i]
      /\ \A i \in (Len(s) + 1)..(Len(s) + Len(t)) :
            (s \o t)[i] = t[i - Len(s)]
  OBVIOUS
<1>2. Range(s \o t) = Range(s) \cup Range(t)
  <2>1. ASSUME NEW i \in 1..(Len(s) + Len(t))
        PROVE  (s \o t)[i] \in Range(s) \cup Range(t)
    BY <1>1 DEF Range
  <2>2. ASSUME NEW i \in 1..Len(t)
        PROVE  t[i] \in Range(s \o t)
    <3>1. i + Len(s) \in 1..(Len(s) + Len(t)) /\ (s \o t)[i + Len(s)] = t[i]
      BY <1>1
    <3> QED BY <1>1, <3>1, Zenon DEF Range
  <2>3. Range(s) \subseteq Range(s \o t)
    BY <1>1 DEF Range
  <2> QED BY <1>1, <2>1, <2>2, <2>3 DEF Range
<1>3. ASSUME IsInjective(s), IsInjective(t), Range(s) \cap Range(t) = {}
      PROVE  IsInjective(s \o t)
  <2>1. ASSUME NEW i \in 1..Len(s), NEW j \in (Len(s) + 1)..(Len(s) + Len(t))
        PROVE  (s \o t)[i] # (s \o t)[j]
    <3>1. s[i] \in Range(s) /\ j - Len(s) \in 1..Len(t)
      BY <1>1 DEF Range
    <3>2. t[j - Len(s)] \in Range(t)
      BY <1>1, <3>1, Zenon DEF Range
    <3> QED BY <1>1, <1>3, <3>1, <3>2, Zenon
  <2>2. ASSUME NEW i \in 1..Len(s), NEW j \in 1..Len(s),
               (s \o t)[i] = (s \o t)[j]
        PROVE  i = j
    BY <1>1, <1>3, <2>2, Zenon DEF IsInjective
  <2>3. ASSUME NEW i \in (Len(s) + 1)..(Len(s) + Len(t)),
               NEW j \in (Len(s) + 1)..(Len(s) + Len(t)),
               (s \o t)[i] = (s \o t)[j]
        PROVE  i = j
    <3>1. i - Len(s) \in 1..Len(t) /\ j - Len(s) \in 1..Len(t)
      BY <1>1
    <3> QED BY <1>1, <1>3, <2>3, <3>1 DEF IsInjective
  <2>4. \A i \in 1..(Len(s) + Len(t)) :
           i \in 1..Len(s) \/ i \in (Len(s) + 1)..(Len(s) + Len(t))
    BY <1>1
  <2> QED BY <1>1, <2>1, <2>2, <2>3, <2>4, Zenon DEF IsInjective
<1> QED BY <1>1, <1>2, <1>3, Zenon

\* The loop of Among as a function of the number of elements it has seen.
LEMMA AmongLoop ==
  ASSUME NEW s \in Seq(Edges), NEW D
  PROVE  \E f : /\ f \in [0..Len(s) -> Seq(Edges)]
                /\ f[0] = <<>>
                /\ \A i \in 1..Len(s) :
                      f[i] = IF s[i] \in D THEN Append(f[i - 1], s[i])
                                           ELSE f[i - 1]
                /\ Among(s, D) = f[Len(s)]
<1> DEFINE Step == [i \in 1..Len(s) |-> [q \in Seq(Edges) |->
                      IF s[i] \in D THEN Append(q, s[i]) ELSE q]]
           Loop(f) == f = [i \in 0..Len(s) |->
                             IF i = 0 THEN <<>>
                             ELSE IF s[i] \in D THEN Append(f[i - 1], s[i])
                             ELSE f[i - 1]]
           kept == CHOOSE f : Loop(f)
<1>1. /\ Len(s) \in Nat /\ <<>> \in Seq(Edges)
      /\ \A i \in 1..Len(s) : s[i] \in Edges
  OBVIOUS
<1>2. Step \in [1..Len(s) -> [Seq(Edges) -> Seq(Edges)]]
  OBVIOUS
<1>3. \E f : Follows(f, Len(s), Seq(Edges), <<>>, Step)
  <2> HIDE DEF Step
  <2> QED BY <1>1, <1>2, RecursionExists, Zenon
<1>4. PICK f : /\ f \in [0..Len(s) -> Seq(Edges)]
               /\ f[0] = <<>>
               /\ \A i \in 1..Len(s) : f[i] = Step[i][f[i - 1]]
  BY <1>3, Zenon DEF Follows
<1>5. ASSUME NEW i \in 1..Len(s)
      PROVE  /\ i - 1 \in 0..Len(s)
             /\ f[i] = IF s[i] \in D THEN Append(f[i - 1], s[i]) ELSE f[i - 1]
  <2>1. i - 1 \in 0..Len(s)
    BY <1>1
  <2>2. f[i - 1] \in Seq(Edges)
    BY <1>4, <2>1, Zenon
  <2> QED BY <1>4, <2>1, <2>2, Zenon
<1> HIDE DEF Step
<1>6. Loop(f)
  <2>1. \A i \in 0..Len(s) : i = 0 \/ i \in 1..Len(s)
    BY <1>1
  <2>2. \A i \in 0..Len(s) :
           f[i] = IF i = 0 THEN <<>>
                  ELSE IF s[i] \in D THEN Append(f[i - 1], s[i])
                  ELSE f[i - 1]
    BY <1>4, <1>5, <2>1, Zenon
  <2> QED BY <1>4, <2>2, Zenon
<1>7. Loop(kept)
  BY <1>6, Zenon
<1>8. Among(s, D) = kept[Len(s)]
  BY Zenon DEF Among
<1> HIDE DEF kept
<1>9. /\ kept[0] = <<>>
      /\ \A i \in 1..Len(s) :
            kept[i] = IF s[i] \in D THEN Append(kept[i - 1], s[i])
                                    ELSE kept[i - 1]
  <2>1. \A i \in 0..Len(s) :
           kept[i] = IF i = 0 THEN <<>>
                     ELSE IF s[i] \in D THEN Append(kept[i - 1], s[i])
                     ELSE kept[i - 1]
    BY <1>7, Zenon
  <2> HIDE DEF Loop
  <2> QED BY <1>1, <2>1
<1>10. \A i \in 0..Len(s) : kept[i] = f[i]
  <2> DEFINE S == {n \in Nat : n <= Len(s) => kept[n] = f[n]}
  <2>1. 0 \in S
    BY <1>4, <1>9, Zenon
  <2>2. ASSUME NEW n \in Nat, n \in S
        PROVE  n + 1 \in S
    <3>1. n + 1 <= Len(s) => n + 1 \in 1..Len(s) /\ (n + 1) - 1 = n
      BY <1>1
    <3>2. n + 1 <= Len(s) => kept[n] = f[n]
      BY <1>1, <2>2
    <3>3. n + 1 <= Len(s) => kept[n + 1] = f[n + 1]
      BY <1>5, <1>9, <3>1, <3>2, Zenon
    <3> QED BY <3>3
  <2> HIDE DEF S
  <2>3. Nat \subseteq S
    BY <2>1, <2>2, SetInduction, Zenon
  <2> QED BY <1>1, <2>3 DEF S
<1> QED BY <1>1, <1>4, <1>5, <1>8, <1>10

\* A sweep keeps exactly the elements it is asked for, each once.
LEMMA AmongFacts ==
  ASSUME NEW s \in Seq(Edges), NEW D
  PROVE  /\ Among(s, D) \in Seq(Edges)
         /\ Range(Among(s, D)) = Range(s) \cap D
         /\ IsInjective(s) => IsInjective(Among(s, D))
<1> DEFINE Seen(n) == {e \in Edges : \E i \in 1..n : s[i] = e}
<1>1. PICK f : /\ f \in [0..Len(s) -> Seq(Edges)]
               /\ f[0] = <<>>
               /\ \A i \in 1..Len(s) :
                     f[i] = IF s[i] \in D THEN Append(f[i - 1], s[i])
                                          ELSE f[i - 1]
               /\ Among(s, D) = f[Len(s)]
  BY AmongLoop, Zenon
<1> DEFINE S == {n \in Nat : n <= Len(s) =>
                   /\ Range(f[n]) = Seen(n) \cap D
                   /\ IsInjective(s) => IsInjective(f[n])}
<1>2. Len(s) \in Nat
  OBVIOUS
<1>3. 0 \in S
  <2>1. Seen(0) = {} /\ Range(<<>>) = {} /\ IsInjective(<<>>)
    BY DEF Range, IsInjective
  <2> QED BY <1>1, <2>1, Zenon
<1>4. ASSUME NEW n \in Nat, n \in S
      PROVE  n + 1 \in S
  <2> SUFFICES ASSUME n + 1 <= Len(s)
               PROVE  /\ Range(f[n + 1]) = Seen(n + 1) \cap D
                      /\ IsInjective(s) => IsInjective(f[n + 1])
    OBVIOUS
  <2>1. /\ n \in 0..Len(s) /\ n + 1 \in 1..Len(s) /\ (n + 1) - 1 = n
        /\ n <= Len(s)
    BY <1>2
  <2>2. /\ f[n] \in Seq(Edges) /\ s[n + 1] \in Edges
        /\ f[n + 1] = IF s[n + 1] \in D THEN Append(f[n], s[n + 1]) ELSE f[n]
    BY <1>1, <2>1
  <2>3. /\ Range(f[n]) = Seen(n) \cap D
        /\ IsInjective(s) => IsInjective(f[n])
    BY <1>4, <2>1, Zenon
  <2>4. Seen(n + 1) = Seen(n) \cup {s[n + 1]}
    <3>1. \A i \in 1..(n + 1) : i \in 1..n \/ i = n + 1
      OBVIOUS
    <3>2. 1..n \subseteq 1..(n + 1) /\ n + 1 \in 1..(n + 1)
      OBVIOUS
    <3> QED BY <2>2, <3>1, <3>2, Zenon
  <2>5. IsInjective(s) => s[n + 1] \notin Seen(n)
    <3>1. \A i \in 1..n : i \in DOMAIN s /\ i # n + 1
      BY <1>2, <2>1
    <3>2. n + 1 \in DOMAIN s
      BY <1>2, <2>1
    <3> QED BY <3>1, <3>2, Zenon DEF IsInjective
  <2> HIDE DEF Seen
  <2>6. CASE s[n + 1] \in D
    <3>1. /\ Range(f[n + 1]) = Range(f[n]) \cup {s[n + 1]}
          /\ IsInjective(f[n]) /\ s[n + 1] \notin Range(f[n])
             => IsInjective(f[n + 1])
      BY <2>2, <2>6, AppendFacts, Zenon
    <3> QED BY <2>3, <2>4, <2>5, <2>6, <3>1, Zenon
  <2>7. CASE s[n + 1] \notin D
    BY <2>2, <2>3, <2>4, <2>7, Zenon
  <2> QED BY <2>6, <2>7, Zenon
<1>5. Len(s) \in S
  <2> HIDE DEF S
  <2> QED BY <1>2, <1>3, <1>4, SetInduction, Zenon
<1>6. Seen(Len(s)) = Range(s)
  BY DEF Range
<1> QED BY <1>1, <1>2, <1>5, <1>6

\* A sweep loses nothing and doubles nothing: the two parts are as long as
\* the whole.
LEMMA AmongLengths ==
  ASSUME NEW s \in Seq(Edges), NEW D
  PROVE  Len(Among(s, D)) + Len(Among(s, Edges \ D)) = Len(s)
<1>1. PICK f : /\ f \in [0..Len(s) -> Seq(Edges)]
               /\ f[0] = <<>>
               /\ \A i \in 1..Len(s) :
                     f[i] = IF s[i] \in D THEN Append(f[i - 1], s[i])
                                          ELSE f[i - 1]
               /\ Among(s, D) = f[Len(s)]
  BY AmongLoop, Zenon
<1>2. PICK g : /\ g \in [0..Len(s) -> Seq(Edges)]
               /\ g[0] = <<>>
               /\ \A i \in 1..Len(s) :
                     g[i] = IF s[i] \in Edges \ D THEN Append(g[i - 1], s[i])
                                                  ELSE g[i - 1]
               /\ Among(s, Edges \ D) = g[Len(s)]
  BY AmongLoop, Zenon
<1> DEFINE Whole(n) == Len(f[n]) + Len(g[n]) = n
           S == {n \in Nat : n <= Len(s) => Whole(n)}
<1>3. Len(s) \in Nat
  OBVIOUS
<1>4. 0 \in S
  BY <1>1, <1>2
<1>5. ASSUME NEW n \in Nat, n \in S
      PROVE  n + 1 \in S
  <2> SUFFICES ASSUME n + 1 <= Len(s)
               PROVE  Whole(n + 1)
    <3> HIDE DEF Whole
    <3> QED OBVIOUS
  <2>1. /\ n \in 0..Len(s) /\ n + 1 \in 1..Len(s) /\ (n + 1) - 1 = n
        /\ n <= Len(s)
    BY <1>3
  <2>2. /\ f[n] \in Seq(Edges) /\ g[n] \in Seq(Edges) /\ s[n + 1] \in Edges
        /\ f[n + 1] = IF s[n + 1] \in D THEN Append(f[n], s[n + 1]) ELSE f[n]
        /\ g[n + 1] = IF s[n + 1] \in D THEN g[n] ELSE Append(g[n], s[n + 1])
    BY <1>1, <1>2, <2>1
  <2>3. Len(f[n]) + Len(g[n]) = n
    BY <1>5, <2>1, Zenon
  <2>4. /\ Len(f[n]) \in Nat /\ Len(g[n]) \in Nat
        /\ Len(Append(f[n], s[n + 1])) = Len(f[n]) + 1
        /\ Len(Append(g[n], s[n + 1])) = Len(g[n]) + 1
    BY <2>2, AppendFacts
  <2>5. \/ f[n + 1] = f[n] /\ g[n + 1] = Append(g[n], s[n + 1])
        \/ f[n + 1] = Append(f[n], s[n + 1]) /\ g[n + 1] = g[n]
    BY <2>2, Zenon
  <2> DEFINE a == Len(f[n])
             b == Len(g[n])
  <2>6. /\ a \in Nat /\ b \in Nat /\ a + b = n
        /\ \/ Whole(n + 1) <=> a + (b + 1) = n + 1
           \/ Whole(n + 1) <=> (a + 1) + b = n + 1
    BY <2>3, <2>4, <2>5, Zenon
  <2> HIDE DEF a, b, Whole
  <2> QED BY <2>6
<1>6. Len(s) \in S
  <2> HIDE DEF S
  <2> QED BY <1>3, <1>4, <1>5, SetInduction, Zenon
<1> QED BY <1>1, <1>2, <1>3, <1>6

-----------------------------------------------------------------------------
\* The steps of a job between its start and its result.
JobSteps == {"lookup", "spawn", "subprocess", "uploadOutputs",
             "uploadInputs", "execute", "fetch"}

\* What the steps of a job's goroutine before its send have in common: the
\* job goes on or has its result, and at most a process is started.
JobStep(e) ==
    /\ job[e] \in JobSteps
    /\ \E step \in JobSteps \cup {"send"}: job' = [job EXCEPT ![e] = step]
    /\ \/ UNCHANGED status
       \/ \E s \in {"success", "failure", "interrupted"}:
             status' = [status EXCEPT ![e] = s]
    /\ NewSubprocess(e) \/ UNCHANGED <<proc, waiter>>
    /\ UNCHANGED <<clientVars, killed, interrupted, crashed, activeEdges,
                   resultCh, cancelled>>

\* A goroutine of a remote runner takes such a step or sends its result.
LEMMA GoroutineFacts ==
  ASSUME NEW e \in Edges, RemoteGoroutine(e)
  PROVE  Send(e) \/ JobStep(e)
<1>1. ASSUME NEW step \in JobSteps, job[e] \in JobSteps, Goto(e, step),
             NewSubprocess(e) \/ UNCHANGED <<proc, waiter>>,
             UNCHANGED <<clientVars, killed, interrupted, crashed, activeEdges,
                         resultCh, cancelled>>
      PROVE  JobStep(e)
  BY <1>1, Zenon DEF Goto, JobStep
<1>2. ASSUME NEW s \in {"success", "failure", "interrupted"},
             job[e] \in JobSteps, HasResult(e, s), UNCHANGED <<proc, waiter>>,
             UNCHANGED <<clientVars, killed, interrupted, crashed, activeEdges,
                         resultCh, cancelled>>
      PROVE  JobStep(e)
  BY <1>2, Zenon DEF HasResult, JobStep
<1>3. CASE Lookup(e)
  BY <1>1, <1>2, <1>3, Zenon DEF Lookup, JobSteps, procVars
<1>4. CASE Spawn(e)
  BY <1>1, <1>2, <1>4, Zenon DEF Spawn, JobSteps
<1>5. CASE Reap(e)
  <2>1. Finish(e) \in {"success", "failure", "interrupted"}
    BY Zenon DEF Finish
  <2> QED BY <1>1, <1>2, <1>5, <2>1, Zenon DEF Reap, JobSteps, procVars
<1>6. CASE UploadOutputs(e)
  BY <1>2, <1>6, Zenon DEF UploadOutputs, JobSteps, procVars
<1>7. CASE UploadInputs(e)
  BY <1>1, <1>2, <1>7, Zenon DEF UploadInputs, JobSteps, procVars
<1>8. CASE Execute(e)
  BY <1>1, <1>2, <1>8, Zenon DEF Execute, JobSteps, procVars
<1>9. CASE Fetch(e)
  BY <1>2, <1>9, Zenon DEF Fetch, JobSteps, procVars
<1> QED BY <1>3, <1>4, <1>5, <1>6, <1>7, <1>8, <1>9, Zenon DEF RemoteGoroutine

\* Every step of a runner keeps the types; sweeping and sending are the
\* steps that build sequences.
LEMMA NextType ==
  ASSUME TypeOK, [Next]_vars
  PROVE  TypeOK'
<1> USE DEF clientVars, config, procVars, setVars, remoteVars
<1>1. ASSUME NEW e \in Edges, StartCommand(e)
      PROVE  TypeOK'
  <2>1. CASE LocalStart(e) /\ UNCHANGED remoteVars
    <3>1. Append(running, e) \in Seq(Edges)
      BY AppendFacts, Zenon DEF TypeOK
    <3> QED BY <2>1, <3>1 DEF TypeOK, LocalStart, NewSubprocess
  <2>2. CASE RemoteStart(e) /\ UNCHANGED setVars
    BY <2>2 DEF TypeOK, RemoteStart
  <2>3. CASE RemoteStartFails(e) /\ UNCHANGED setVars
    BY <2>3, Zenon DEF TypeOK, RemoteStartFails
  <2> QED BY <1>1, <2>1, <2>2, <2>3, Zenon DEF StartCommand
<1>2. ASSUME sweepDone
      PROVE  running' \in Seq(Edges) /\ finished' \in Seq(Edges)
  <2>1. running \in Seq(Edges) /\ finished \in Seq(Edges)
    BY Zenon DEF TypeOK
  <2> QED BY <1>2, <2>1, AmongFacts, ConcatFacts, Zenon DEF sweepDone
<1>3. CASE LocalMain /\ UNCHANGED remoteVars
  <2>1. CASE LocalWaitForCommand
    BY <1>3, <2>1, Zenon DEF TypeOK, LocalWaitForCommand
  <2>2. CASE DoWork
    BY <1>2, <1>3, <2>2, Zenon DEF TypeOK, DoWork
  <2>3. CASE Woken
    BY <1>3, <2>3, Zenon DEF TypeOK, Woken
  <2>4. CASE Timeout
    BY <1>3, <2>4, Zenon DEF TypeOK, Timeout
  <2>5. CASE Sweep
    BY <1>2, <1>3, <2>5, Zenon DEF TypeOK, Sweep
  <2>6. CASE NextFinished
    <3>1. finished # <<>> =>
            Head(finished) \in Edges /\ Tail(finished) \in Seq(Edges)
      BY TailFacts, Zenon DEF TypeOK
    <3> QED BY <1>3, <2>6, <3>1, Zenon DEF TypeOK, NextFinished
  <2> QED BY <1>3, <2>1, <2>2, <2>3, <2>4, <2>5, <2>6, Zenon DEF LocalMain
<1>4. CASE RemoteMain /\ UNCHANGED setVars
  <2>1. CASE RemoteWaitForCommand
    BY <1>4, <2>1, Zenon DEF TypeOK, RemoteWaitForCommand
  <2>2. CASE Receive
    <3>1. /\ Head(resultCh) \in Edges /\ Tail(resultCh) \in Seq(Edges)
          /\ Len(Tail(resultCh)) <= ChanCap
      BY <2>2, RunnerAssumption, TailFacts DEF TypeOK, Receive
    <3> QED BY <1>4, <2>2, <3>1, Zenon DEF TypeOK, Receive
  <2>3. CASE Tick
    BY <1>4, <2>3, Zenon DEF TypeOK, Tick
  <2> QED BY <1>4, <2>1, <2>2, <2>3, Zenon DEF RemoteMain
<1>5. CASE BuildFails \/ Return
  BY <1>5, Zenon DEF TypeOK, BuildFails, Return
<1>6. CASE Abort
  <2>1. Range(running) \subseteq Edges /\ <<>> \in Seq(Edges)
    BY DEF TypeOK, Range
  <2> QED BY <1>6, <2>1, Zenon DEF TypeOK, Abort, LocalAbort, RemoteAbort
<1>7. ASSUME NEW e \in Edges, SubprocessStep(e),
             UNCHANGED <<clientVars, setVars, remoteVars>>
      PROVE  TypeOK'
  <2>1. CASE Exit(e)
    BY <1>7, <2>1 DEF TypeOK, Exit, Endings
  <2>2. CASE KillArrives(e)
    BY <1>7, <2>2 DEF TypeOK, KillArrives, Endings
  <2>3. CASE WaitReturns(e)
    BY <1>7, <2>3, Zenon DEF TypeOK, WaitReturns
  <2>4. CASE WaitPanics(e)
    BY <1>7, <2>4, Zenon DEF TypeOK, WaitPanics
  <2> QED BY <1>7, <2>1, <2>2, <2>3, <2>4, Zenon DEF SubprocessStep
<1>8. ASSUME NEW e \in Edges, Notify(e), UNCHANGED remoteVars
      PROVE  TypeOK'
  BY <1>8, Zenon DEF TypeOK, Notify
<1>9. ASSUME NEW e \in Edges, RemoteGoroutine(e), UNCHANGED setVars
      PROVE  TypeOK'
  <2>1. CASE Send(e)
    <3>1. Append(resultCh, e) \in Seq(Edges) /\ Len(Append(resultCh, e)) <= ChanCap
      BY <2>1, RunnerAssumption, AppendFacts DEF TypeOK, Send
    <3> QED BY <1>9, <2>1, <3>1, Zenon DEF TypeOK, Send
  <2>2. CASE JobStep(e)
    <3>1. /\ job' \in [Edges -> JobSteps \cup {"none", "send", "sent"}]
          /\ status' \in [Edges -> {"none", "success", "failure", "interrupted"}]
          /\ proc' \in [Edges -> {"none", "alive"} \cup Endings]
          /\ waiter' \in [Edges -> {"none", "waiting", "closed", "panicked"}]
      BY <2>2 DEF TypeOK, JobStep, JobSteps, NewSubprocess
    <3> QED BY <1>9, <2>2, <3>1 DEF TypeOK, JobStep, JobSteps
  <2> QED BY <1>9, <2>1, <2>2, GoroutineFacts, Zenon
<1>10. CASE Signal /\ UNCHANGED <<clientVars, setVars, remoteVars>>
  BY <1>10, Zenon DEF TypeOK, Signal
<1>11. CASE UNCHANGED vars
  BY <1>11 DEF TypeOK, vars
<1> QED
  BY <1>1, <1>3, <1>4, <1>5, <1>6, <1>7, <1>8, <1>9, <1>10, <1>11, Zenon
  DEF Next, WaitForCommand, Background, Terminated

-----------------------------------------------------------------------------
\* A sweep moves the processes that are done, and those only, from running
\* to finished.
LEMMA SweepFacts ==
  ASSUME TypeOK, sweepDone, IsInjective(running), IsInjective(finished),
         Range(running) \cap Range(finished) = {}
  PROVE  /\ IsInjective(running') /\ IsInjective(finished')
         /\ Range(running') = {e \in Range(running) : ~Done(e)}
         /\ Range(finished') = Range(finished)
                               \cup {e \in Range(running) : Done(e)}
         /\ Len(running') + Len(finished') = Len(running) + Len(finished)
         /\ finished' = finished => Range(running') = Range(running)
<1> DEFINE done == {e \in Edges : Done(e)}
           stay == Among(running, Edges \ done)
           move == Among(running, done)
<1>1. running' = stay /\ finished' = finished \o move
  BY Zenon DEF sweepDone
<1>2. running \in Seq(Edges) /\ finished \in Seq(Edges)
  BY Zenon DEF TypeOK
<1>3. Range(running) \subseteq Edges
  BY <1>2 DEF Range
<1>4. /\ stay \in Seq(Edges) /\ Range(stay) = Range(running) \cap (Edges \ done)
      /\ move \in Seq(Edges) /\ Range(move) = Range(running) \cap done
      /\ IsInjective(stay) /\ IsInjective(move)
  BY <1>2, AmongFacts, Zenon
<1>5. Len(move) + Len(stay) = Len(running)
  BY <1>2, AmongLengths, Zenon
<1> HIDE DEF stay, move
<1>6. /\ Len(finished \o move) = Len(finished) + Len(move)
      /\ Range(finished \o move) = Range(finished) \cup Range(move)
      /\ IsInjective(finished \o move)
  BY <1>2, <1>4, ConcatFacts, Zenon
<1>7. Len(running') + Len(finished') = Len(running) + Len(finished)
  <2>1. Len(move) \in Nat /\ Len(stay) \in Nat /\ Len(finished) \in Nat
    BY <1>2, <1>4
  <2> DEFINE m == Len(move)
             n == Len(stay)
             k == Len(finished)
  <2>2. /\ m \in Nat /\ n \in Nat /\ k \in Nat
        /\ Len(running') = n /\ Len(finished') = k + m /\ Len(running) = m + n
    BY <1>1, <1>5, <1>6, <2>1, Zenon
  <2>3. n + (k + m) = (m + n) + k
    <3> HIDE DEF m, n, k
    <3> QED BY <2>2
  <2> QED BY <2>2, <2>3, Zenon
<1>8. finished' = finished => Range(running') = Range(running)
  <2>1. finished \o move = finished => Range(move) \subseteq Range(finished)
    BY <1>6, Zenon
  <2> QED BY <1>1, <1>3, <1>4, <2>1, Zenon
<1> QED BY <1>1, <1>3, <1>4, <1>6, <1>7, <1>8, Zenon

\* The steps the local runner's build can take, with what they change.
LocalStep ==
    \/ \E e \in Edges: \/ pc = "build" /\ LocalStart(e)
                       \/ SubprocessStep(e) /\ UNCHANGED <<clientVars, setVars>>
                       \/ Notify(e)
    \/ LocalMain \/ BuildFails \/ Return
    \/ pc = "giveup" /\ pc' = "aborted" /\ LocalAbort
    \/ Signal /\ UNCHANGED <<clientVars, setVars>>
    \/ UNCHANGED <<clientVars, procVars, setVars>>

\* They are the only ones, and they leave the remote runners alone.
LEMMA LocalSteps ==
  ASSUME Local, [Next]_vars
  PROVE  LocalStep /\ Local' /\ UNCHANGED remoteVars
<1>1. CASE \E e \in Edges : StartCommand(e)
  BY <1>1, Zenon DEF StartCommand, LocalStep, LocalStart, Local, clientVars, config
<1>2. CASE WaitForCommand
  BY <1>2, Zenon DEF WaitForCommand, LocalStep, LocalMain, LocalWaitForCommand, DoWork,
              Woken, Timeout, Sweep, NextFinished, Local, config
<1>3. CASE BuildFails \/ Return
  BY <1>3, Zenon DEF BuildFails, Return, LocalStep, Local, config
<1>4. CASE Abort
  BY <1>4, Zenon DEF Abort, LocalAbort, LocalStep, Local, config
<1>5. CASE Background
  BY <1>5, Zenon DEF Background, LocalStep, Local, Notify, clientVars, config
<1>6. CASE Terminated \/ UNCHANGED vars
  BY <1>6, Zenon DEF Terminated, vars, LocalStep, Local, clientVars, config
<1> QED BY <1>1, <1>2, <1>3, <1>4, <1>5, <1>6, Zenon DEF Next

\* Every step of the local runner keeps its invariant.  Starting needs that
\* the command is in no list yet, reporting that it is in one place only,
\* and a process that ends while DoWork sleeps needs its notifier.
LEMMA NextSetInv ==
  ASSUME TypeOK, TypeOK', SetInv, LocalStep, UNCHANGED remoteVars
  PROVE  SetInv'
<1> USE DEF clientVars, config, procVars, setVars, remoteVars
<1>1. /\ running \in Seq(Edges) /\ finished \in Seq(Edges)
      /\ proc \in [Edges -> {"none", "alive"} \cup Endings]
      /\ waiter \in [Edges -> {"none", "waiting", "closed", "panicked"}]
      /\ notifier \in [Edges -> {"none", "blocked", "sent"}]
      /\ Range(running) \subseteq Edges /\ Range(finished) \subseteq Edges
      /\ reported \subseteq Edges
  BY DEF TypeOK, Range
<1>2. ASSUME NEW e \in Edges, pc = "build", LocalStart(e)
      PROVE  SetInv'
  <2>1. /\ e \notin subprocToEdge /\ e \notin reported
        /\ Range(running) \cup Range(finished) = subprocToEdge
    BY <1>1, <1>2, Zenon DEF SetInv, LocalStart, Done
  <2>2. /\ Range(running') = Range(running) \cup {e} /\ IsInjective(running')
        /\ finished' = finished /\ reported' = reported /\ pc' = "build"
    BY <1>1, <1>2, <2>1, AppendFacts, Zenon DEF LocalStart, SetInv
  <2>3. /\ proc' = [proc EXCEPT ![e] = "alive"]
        /\ waiter' = [waiter EXCEPT ![e] = "waiting"]
        /\ notifier' = [notifier EXCEPT ![e] = "blocked"]
        /\ subprocToEdge' = subprocToEdge \cup {e}
    BY <1>2, Zenon DEF LocalStart, NewSubprocess
  <2>4. subprocToEdge' = {f \in Edges : proc'[f] # "none"} \ reported'
    BY <1>1, <2>1, <2>2, <2>3 DEF SetInv
  <2>5. /\ \A f \in Range(finished) \cup reported : waiter'[f] = "closed"
        /\ \A f \in Edges : proc'[f] = "none" <=> waiter'[f] = "none"
        /\ \A f \in Edges : waiter'[f] = "waiting" => notifier'[f] = "blocked"
    BY <1>1, <2>1, <2>3, Zenon DEF SetInv, Done
  <2> QED BY <2>1, <2>2, <2>3, <2>4, <2>5 DEF SetInv, NoMissedWakeup, Done
<1>3. ASSUME sweepDone, pc # "aborted", pc' \notin {"wait", "aborted"},
             UNCHANGED <<reported, procVars, notifier, subprocToEdge>>
      PROVE  SetInv'
  <2>1. /\ IsInjective(running') /\ IsInjective(finished')
        /\ Range(running') = {e \in Range(running) : ~Done(e)}
        /\ Range(finished') = Range(finished)
                              \cup {e \in Range(running) : Done(e)}
    BY <1>3, SweepFacts, Zenon DEF SetInv
  <2>2. \A e : Done(e)' <=> Done(e)
    BY <1>3, Zenon DEF Done
  <2>3. NoMissedWakeup'
    BY <2>1, <2>2, Zenon DEF NoMissedWakeup
  <2> QED BY <1>3, <2>1, <2>2, <2>3, Zenon DEF SetInv
<1>4. ASSUME pc' \notin {"wait", "aborted", "select"},
             pc # "aborted",
             UNCHANGED <<reported, proc, waiter, running, finished, notifier,
                         subprocToEdge>>
      PROVE  SetInv'
  BY <1>4, Zenon DEF SetInv, NoMissedWakeup, Done
<1>5. CASE LocalMain
  <2>1. CASE DoWork
    <3>1. CASE interrupted
      BY <1>4, <2>1, <3>1, Zenon DEF DoWork
    <3>2. CASE ~interrupted
      BY <1>3, <2>1, <3>2, Zenon DEF DoWork
    <3> QED BY <3>1, <3>2, Zenon
  <2>2. CASE Sweep
    BY <1>3, <2>2, Zenon DEF Sweep
  <2>3. CASE LocalWaitForCommand \/ Woken \/ Timeout
    BY <1>4, <2>3, Zenon DEF LocalWaitForCommand, Woken, Timeout
  <2>4. CASE NextFinished
    <3>1. CASE finished = <<>> \/ interrupted
      BY <1>4, <2>4, <3>1, Zenon DEF NextFinished
    <3>2. CASE finished # <<>> /\ ~interrupted
      <4> DEFINE e == Head(finished)
      <4>1. /\ pc' \in {"giveup", "build"} /\ pc = "swept"
            /\ reported' = reported \cup {e}
            /\ subprocToEdge' = subprocToEdge \ {e}
            /\ finished' = Tail(finished)
            /\ UNCHANGED <<procVars, running, notifier>>
        BY <2>4, <3>2, Zenon DEF NextFinished
      <4>2. /\ e \in Range(finished)
            /\ Range(finished) = Range(finished') \cup {e}
            /\ e \notin Range(finished') /\ IsInjective(finished')
        BY <1>1, <3>2, <4>1, TailFacts, Zenon DEF SetInv
      <4> HIDE DEF e
      <4>3. Range(running') \cup Range(finished') = subprocToEdge'
        BY <4>1, <4>2 DEF SetInv
      <4>4. subprocToEdge' = {f \in Edges : proc'[f] # "none"} \ reported'
        BY <4>1, Zenon DEF SetInv
      <4>5. \A f \in Range(finished') \cup reported' : waiter'[f] = "closed"
        BY <4>1, <4>2, Zenon DEF SetInv, Done
      <4> QED
        BY <4>1, <4>2, <4>3, <4>4, <4>5, Zenon DEF SetInv, NoMissedWakeup, Done
    <3> QED BY <3>1, <3>2, Zenon
  <2> QED BY <1>5, <2>1, <2>2, <2>3, <2>4, Zenon DEF LocalMain
<1>6. CASE BuildFails \/ Return
  BY <1>4, <1>6, Zenon DEF BuildFails, Return
<1>7. CASE pc = "giveup" /\ pc' = "aborted" /\ LocalAbort
  <2>1. IsInjective(<<>>) /\ Range(<<>>) = {}
    BY DEF IsInjective, Range
  <2> QED BY <1>7, <2>1, Zenon DEF LocalAbort, SetInv, NoMissedWakeup, Done
<1>8. ASSUME NEW e \in Edges, SubprocessStep(e), UNCHANGED <<clientVars, setVars>>
      PROVE  SetInv'
  <2>1. CASE Exit(e) \/ KillArrives(e)
    <3>1. /\ UNCHANGED waiter
          /\ \A f \in Edges : proc'[f] = "none" <=> proc[f] = "none"
      BY <1>1, <2>1, Zenon DEF Exit, KillArrives, Endings
    <3> QED BY <1>8, <3>1, Zenon DEF SetInv, NoMissedWakeup, Done
  <2>2. CASE WaitReturns(e) \/ WaitPanics(e)
    <3>1. /\ UNCHANGED proc /\ waiter[e] = "waiting"
          /\ \E v \in {"closed", "panicked"} : waiter' = [waiter EXCEPT ![e] = v]
      BY <2>2, Zenon DEF WaitReturns, WaitPanics
    <3>2. /\ \A f \in Edges : waiter'[f] = "none" <=> waiter[f] = "none"
          /\ \A f \in Edges : waiter'[f] = "waiting" => waiter[f] = "waiting"
          /\ \A f \in Edges : waiter[f] = "closed" => waiter'[f] = "closed"
          /\ \A f \in Edges : f # e => waiter'[f] = waiter[f]
      BY <1>1, <3>1, Zenon
    <3>3. NoMissedWakeup'
      BY <1>1, <1>8, <3>1, <3>2, Zenon DEF SetInv, NoMissedWakeup, Done
    <3> QED BY <1>1, <1>8, <3>1, <3>2, <3>3, Zenon DEF SetInv, Done
  <2> QED BY <1>8, <2>1, <2>2, Zenon DEF SubprocessStep
<1>9. ASSUME NEW e \in Edges, Notify(e)
      PROVE  SetInv'
  <2>1. \A f \in Edges : waiter'[f] = "waiting" => notifier'[f] = "blocked"
    BY <1>1, <1>9, Zenon DEF Notify, SetInv, Done
  <2> QED BY <1>9, <2>1, Zenon DEF Notify, SetInv, NoMissedWakeup, Done
<1>10. CASE Signal /\ UNCHANGED <<clientVars, setVars>>
  BY <1>10, Zenon DEF Signal, SetInv, NoMissedWakeup, Done
<1>11. CASE UNCHANGED <<clientVars, procVars, setVars>>
  BY <1>11, Zenon DEF SetInv, NoMissedWakeup, Done
<1> QED
  BY <1>2, <1>5, <1>6, <1>7, <1>8, <1>9, <1>10, <1>11, Zenon DEF LocalStep

\* Adding and removing an edge changes the size of a set of edges by one.
LEMMA SizeFacts ==
  ASSUME NEW S \in SUBSET Edges, NEW e \in Edges
  PROVE  /\ Cardinality(S) \in Nat
         /\ S \cup {e} \in SUBSET Edges /\ S \ {e} \in SUBSET Edges
         /\ Cardinality(S \cup {e}) \in Nat /\ Cardinality(S \ {e}) \in Nat
         /\ Cardinality(S \cup {e}) <= Cardinality(S) + 1
         /\ Cardinality(S \ {e}) <= Cardinality(S)
         /\ e \in S => Cardinality(S \ {e}) = Cardinality(S) - 1
<1>1. IsFiniteSet(S)
  BY RunnerAssumption, FS_Subset, Zenon
<1>2. /\ IsFiniteSet(S \cup {e})
      /\ \/ Cardinality(S \cup {e}) = Cardinality(S)
         \/ Cardinality(S \cup {e}) = Cardinality(S) + 1
  BY <1>1, FS_AddElement, Zenon
<1>3. /\ IsFiniteSet(S \ {e})
      /\ Cardinality(S \ {e}) = IF e \in S THEN Cardinality(S) - 1
                                           ELSE Cardinality(S)
  BY <1>1, FS_RemoveElement, Zenon
<1>4. /\ Cardinality(S) \in Nat
      /\ Cardinality(S \cup {e}) \in Nat /\ Cardinality(S \ {e}) \in Nat
  BY <1>1, <1>2, <1>3, FS_CardinalityType, Zenon
<1> QED BY <1>2, <1>3, <1>4

\* Every step of the local runner keeps the bound.  A command starts below
\* the limit, and a sweep that lets the two lists reach it is followed by a
\* report before Build may start another one.
LEMMA NextSetBound ==
  ASSUME TypeOK, SetInv, SetBound, LocalStep, ~jobserver
  PROVE  SetBound'
<1> USE DEF clientVars, config, procVars, setVars
<1> DEFINE r == Len(running)
           k == Len(finished)
           c == Cardinality(subprocToEdge)
<1>1. /\ running \in Seq(Edges) /\ finished \in Seq(Edges)
      /\ subprocToEdge \in SUBSET Edges /\ Parallelism \in Nat \ {0}
      /\ r \in Nat /\ k \in Nat
  BY RunnerAssumption DEF TypeOK
<1>2. c \in Nat
  BY <1>1, RunnerAssumption, FS_Subset, FS_CardinalityType, Zenon
<1>3. ASSUME NEW e \in Edges, pc = "build", LocalStart(e)
      PROVE  SetBound'
  <2>1. /\ Len(running') = r + 1 /\ Len(finished') = k
        /\ Cardinality(subprocToEdge') <= c + 1
        /\ Cardinality(subprocToEdge') \in Nat
        /\ pc' = "build"
    BY <1>1, <1>3, AppendFacts, SizeFacts, Zenon DEF LocalStart
  <2>2. k < Parallelism /\ c <= r + k /\ (r + k < Parallelism \/ r = 0)
    BY <1>3, Zenon DEF LocalStart, LocalCanRunMore, SetBound
  <2> HIDE DEF r, k, c
  <2> QED BY <1>1, <1>2, <2>1, <2>2 DEF SetBound
<1>4. ASSUME sweepDone, UNCHANGED subprocToEdge, pc # "aborted",
             pc' = "select" => finished' = finished /\ k < Parallelism,
             pc' \in {"select", "swept"}
      PROVE  SetBound'
  <2>1. Len(running') + Len(finished') = Len(running) + Len(finished)
    BY <1>4, SweepFacts, Zenon DEF SetInv
  <2> QED BY <1>4, <2>1, Zenon DEF SetBound
<1>5. ASSUME UNCHANGED <<running, finished, subprocToEdge>>,
             pc # "aborted",
             pc' \in {"build", "dowork", "select"} => k < Parallelism
      PROVE  SetBound'
  BY <1>5, Zenon DEF SetBound
<1>6. CASE LocalMain
  <2>1. CASE DoWork
    <3>1. k < Parallelism
      BY <2>1, Zenon DEF DoWork, SetBound
    <3>2. CASE interrupted
      BY <1>5, <2>1, <3>1, <3>2, Zenon DEF DoWork
    <3>3. CASE ~interrupted
      BY <1>4, <2>1, <3>1, <3>3, Zenon DEF DoWork
    <3> QED BY <3>2, <3>3, Zenon
  <2>2. CASE Sweep
    BY <1>4, <2>2, Zenon DEF Sweep
  <2>3. CASE LocalWaitForCommand \/ Woken \/ Timeout
    BY <1>5, <2>3, Zenon DEF LocalWaitForCommand, Woken, Timeout, SetBound
  <2>4. CASE NextFinished
    <3>1. CASE finished = <<>> \/ interrupted
      <4>1. finished = <<>> => k < Parallelism
        BY <1>1
      <4> QED BY <1>5, <2>4, <3>1, <4>1, Zenon DEF NextFinished
    <3>2. CASE finished # <<>> /\ ~interrupted
      <4> DEFINE e == Head(finished)
      <4>1. /\ pc' \in {"giveup", "build"} /\ pc = "swept"
            /\ subprocToEdge' = subprocToEdge \ {e}
            /\ finished' = Tail(finished)
            /\ running' = running
        BY <2>4, <3>2, Zenon DEF NextFinished
      <4>2. e \in Edges /\ e \in subprocToEdge /\ Len(finished') = k - 1 /\ k > 0
        BY <1>1, <3>2, <4>1, TailFacts, Zenon DEF SetInv
      <4>3. Cardinality(subprocToEdge') = c - 1
        BY <1>1, <4>1, <4>2, SizeFacts, Zenon
      <4>4. c <= r + k /\ r + k <= Parallelism
        BY <4>1, Zenon DEF SetBound
      <4>5. Len(running') = r
        BY <4>1, Zenon
      <4> HIDE DEF r, k, c, e
      <4> QED BY <1>1, <1>2, <4>1, <4>2, <4>3, <4>4, <4>5 DEF SetBound
    <3> QED BY <3>1, <3>2, Zenon
  <2> QED BY <1>6, <2>1, <2>2, <2>3, <2>4, Zenon DEF LocalMain
<1>7. CASE BuildFails \/ Return
  BY <1>5, <1>7, Zenon DEF BuildFails, Return
<1>8. CASE pc = "giveup" /\ pc' = "aborted" /\ LocalAbort
  BY <1>8, Zenon DEF LocalAbort, SetBound
<1>9. ASSUME UNCHANGED <<pc, running, finished, subprocToEdge>>
      PROVE  SetBound'
  BY <1>9, Zenon DEF SetBound
<1> QED
  BY <1>3, <1>6, <1>7, <1>8, <1>9, Zenon DEF LocalStep, Notify

-----------------------------------------------------------------------------
\* The steps a build with a remote runner can take, with what they change.
RemoteStep ==
    \/ \E e \in Edges: \/ pc = "build" /\ RemoteStart(e)
                       \/ pc = "build" /\ RemoteStartFails(e)
                       \/ SubprocessStep(e) /\ UNCHANGED <<clientVars, remoteVars>>
                       \/ RemoteGoroutine(e)
    \/ RemoteMain \/ BuildFails \/ Return
    \/ pc = "giveup" /\ pc' = "aborted" /\ RemoteAbort /\ UNCHANGED config
    \/ Signal /\ UNCHANGED <<clientVars, remoteVars>>
    \/ UNCHANGED <<clientVars, procVars, remoteVars>>

\* They are the only ones, and they leave the process set alone.
LEMMA RemoteSteps ==
  ASSUME ~Local, [Next]_vars
  PROVE  RemoteStep /\ ~Local' /\ UNCHANGED setVars
<1>1. CASE \E e \in Edges : StartCommand(e)
  BY <1>1, Zenon DEF StartCommand, RemoteStep, RemoteStart, RemoteStartFails, Local,
              clientVars, config
<1>2. CASE WaitForCommand
  BY <1>2, Zenon DEF WaitForCommand, RemoteStep, RemoteMain, RemoteWaitForCommand,
              Receive, Tick, Local, config
<1>3. CASE BuildFails \/ Return
  BY <1>3, Zenon DEF BuildFails, Return, RemoteStep, Local, config
<1>4. CASE Abort
  BY <1>4, Zenon DEF Abort, RemoteAbort, RemoteStep, Local, config
<1>5. CASE Background
  <2>1. ASSUME NEW e \in Edges, RemoteGoroutine(e)
        PROVE  kind' = kind
    BY <2>1, GoroutineFacts, Zenon DEF JobStep, Send, clientVars, config
  <2> QED BY <1>5, <2>1, Zenon DEF Background, RemoteStep, Local, clientVars, config
<1>6. CASE Terminated \/ UNCHANGED vars
  BY <1>6, Zenon DEF Terminated, vars, RemoteStep, Local, clientVars, config
<1> QED BY <1>1, <1>2, <1>3, <1>4, <1>5, <1>6, Zenon DEF Next

\* Every step of a remote runner keeps its invariant.  A job sends one
\* result, and the edge leaves the active ones when that is received.
LEMMA NextJobInv ==
  ASSUME TypeOK, JobInv, RemoteStep, UNCHANGED setVars
  PROVE  JobInv'
<1> USE DEF clientVars, config, procVars, setVars, remoteVars
<1>1. /\ resultCh \in Seq(Edges) /\ Range(resultCh) \subseteq Edges
      /\ activeEdges \in SUBSET Edges /\ reported \subseteq Edges
      /\ proc \in [Edges -> {"none", "alive"} \cup Endings]
      /\ job \in [Edges -> JobSteps \cup {"none", "send", "sent"}]
      /\ Parallelism \in Nat \ {0}
  BY RunnerAssumption DEF TypeOK, JobSteps, Range
<1>2. Cardinality(activeEdges) \in Nat
  BY <1>1, RunnerAssumption, FS_Subset, FS_CardinalityType, Zenon
<1>3. ASSUME NEW e \in Edges, pc = "build",
             RemoteStart(e) \/ RemoteStartFails(e)
      PROVE  JobInv'
  <2>1. /\ job[e] = "none" /\ activeEdges' = activeEdges \cup {e}
        /\ UNCHANGED <<proc, resultCh, reported>>
        /\ \/ pc' = "giveup" /\ job' = job
           \/ pc' = "build" /\ job' = [job EXCEPT ![e] = "lookup"]
        /\ UNCHANGED jobserver
        /\ jobserver \/ Cardinality(activeEdges) < Parallelism \/ activeEdges = {}
    BY <1>3, Zenon DEF RemoteStart, RemoteStartFails, RemoteCanRunMore
  <2>2. ASSUME ~jobserver PROVE Cardinality(activeEdges') <= Parallelism
    <3>1. Cardinality(activeEdges) < Parallelism
      <4>1. activeEdges = {} => Cardinality(activeEdges) = 0
        BY FS_EmptySet, Zenon
      <4> QED BY <1>1, <2>1, <2>2, <4>1
    <3>2. /\ Cardinality(activeEdges') <= Cardinality(activeEdges) + 1
          /\ Cardinality(activeEdges') \in Nat
      BY <1>1, <2>1, SizeFacts, Zenon
    <3> QED BY <1>1, <1>2, <3>1, <3>2
  <2>3. e \notin reported /\ e \notin Range(resultCh)
    BY <2>1, Zenon DEF JobInv
  <2>4. Open' => activeEdges' = {f \in Edges : job'[f] # "none"} \ reported'
    BY <1>1, <1>3, <2>1, <2>3 DEF JobInv, Open
  <2>5. /\ \A f \in Edges : proc'[f] # "none" => job'[f] # "none"
        /\ \A f \in Range(resultCh') \cup reported' : job'[f] = "sent"
    BY <1>1, <2>1, <2>3, Zenon DEF JobInv
  <2> QED BY <2>1, <2>2, <2>4, <2>5, Zenon DEF JobInv
<1>4. ASSUME NEW e \in Edges, SubprocessStep(e), UNCHANGED <<clientVars, remoteVars>>
      PROVE  JobInv'
  <2>1. \A f \in Edges : proc'[f] = "none" <=> proc[f] = "none"
    BY <1>1, <1>4, Zenon DEF SubprocessStep, Exit, KillArrives, WaitReturns, WaitPanics,
                      Endings
  <2> QED BY <1>4, <2>1, Zenon DEF JobInv, Open
<1>5. ASSUME NEW e \in Edges, JobStep(e)
      PROVE  JobInv'
  <2>1. PICK step \in JobSteps \cup {"send"} : job' = [job EXCEPT ![e] = step]
    BY <1>5, Zenon DEF JobStep
  <2>2. /\ \A f \in Edges : job'[f] = "none" <=> job[f] = "none"
        /\ \A f \in Edges : job[f] = "sent" => job'[f] = "sent"
        /\ job[e] # "none"
    BY <1>1, <1>5, <2>1, Zenon DEF JobStep, JobSteps
  <2>3. \A f \in Edges : f # e => proc'[f] = proc[f]
    BY <1>1, <1>5, Zenon DEF JobStep, NewSubprocess
  <2> QED BY <1>1, <1>5, <2>2, <2>3, Zenon DEF JobInv, JobStep, Open
<1>6. ASSUME NEW e \in Edges, Send(e)
      PROVE  JobInv'
  <2>1. /\ job' = [job EXCEPT ![e] = "sent"] /\ job[e] = "send"
        /\ UNCHANGED <<clientVars, proc, activeEdges>>
        /\ resultCh' = Append(resultCh, e)
    BY <1>6, Zenon DEF Send
  <2>2. e \notin Range(resultCh) /\ e \notin reported
    BY <2>1, Zenon DEF JobInv
  <2>3. Range(resultCh') = Range(resultCh) \cup {e} /\ IsInjective(resultCh')
    BY <1>1, <2>1, <2>2, AppendFacts, Zenon DEF JobInv
  <2>4. /\ \A f \in Edges : job'[f] = "none" <=> job[f] = "none"
        /\ \A f \in Edges : job[f] = "sent" => job'[f] = "sent"
        /\ job'[e] = "sent"
    BY <1>1, <2>1, Zenon
  <2> QED BY <1>1, <2>1, <2>2, <2>3, <2>4, Zenon DEF JobInv, Open
<1>7. ASSUME pc' \in {"build", "wait", "giveup", "aborted", "returned"},
             Open' => Open,
             UNCHANGED <<jobserver, reported, proc, activeEdges, job, resultCh>>
      PROVE  JobInv'
  BY <1>7, Zenon DEF JobInv
<1>8. CASE RemoteMain
  <2>1. CASE RemoteWaitForCommand \/ Tick
    BY <1>7, <2>1, Zenon DEF RemoteWaitForCommand, Tick, Open
  <2>2. CASE Receive
    <3> DEFINE e == Head(resultCh)
    <3>1. /\ resultCh # <<>> /\ resultCh' = Tail(resultCh)
          /\ UNCHANGED <<jobserver, proc, job>> /\ pc = "wait"
          /\ \/ pc' = "giveup" /\ UNCHANGED <<reported, activeEdges>>
             \/ /\ pc' \in {"giveup", "build"}
                /\ reported' = reported \cup {e}
                /\ activeEdges' = activeEdges \ {e}
      BY <2>2, Zenon DEF Receive
    <3>2. /\ e \in Edges /\ e \in Range(resultCh)
          /\ Range(resultCh) = Range(resultCh') \cup {e}
          /\ e \notin Range(resultCh') /\ IsInjective(resultCh')
      BY <1>1, <3>1, TailFacts, Zenon DEF JobInv
    <3> HIDE DEF e
    <3>3. ASSUME ~jobserver PROVE Cardinality(activeEdges') <= Parallelism
      <4>1. /\ Cardinality(activeEdges \ {e}) <= Cardinality(activeEdges)
            /\ Cardinality(activeEdges \ {e}) \in Nat
        BY <1>1, <3>2, SizeFacts, Zenon
      <4>2. Cardinality(activeEdges) <= Parallelism
        BY <3>3, Zenon DEF JobInv
      <4>3. activeEdges' = activeEdges \/ activeEdges' = activeEdges \ {e}
        BY <3>1, Zenon
      <4>4. Cardinality(activeEdges \ {e}) <= Parallelism
        BY <1>1, <1>2, <4>1, <4>2
      <4> QED BY <4>2, <4>3, <4>4, Zenon
    <3> QED BY <3>1, <3>2, <3>3, Zenon DEF JobInv, Open
  <2> QED BY <1>8, <2>1, <2>2, Zenon DEF RemoteMain
<1>9. CASE BuildFails \/ Return
  BY <1>7, <1>9, Zenon DEF BuildFails, Return, Open
<1>10. CASE pc = "giveup" /\ pc' = "aborted" /\ RemoteAbort /\ UNCHANGED config
  BY <1>7, <1>10, Zenon DEF RemoteAbort, Open
<1>11. CASE \/ Signal /\ UNCHANGED <<clientVars, remoteVars>>
            \/ UNCHANGED <<clientVars, procVars, remoteVars>>
  BY <1>11, Zenon DEF Signal, JobInv, Open
<1> QED
  BY <1>3, <1>4, <1>5, <1>6, <1>8, <1>9, <1>10, <1>11, GoroutineFacts, Zenon
  DEF RemoteStep

-----------------------------------------------------------------------------
\* A build begins with nothing started, whichever runner it got.
LEMMA InitRunners == Init => RunnersInv
<1> SUFFICES ASSUME Init PROVE RunnersInv
  OBVIOUS
<1> USE DEF Init, SubprocessInit, SetInit, RemoteInit
<1>1. /\ Len(<<>>) = 0 /\ Range(<<>>) = {} /\ IsInjective(<<>>)
      /\ Cardinality({}) = 0 /\ <<>> \in Seq(Edges)
  BY FS_EmptySet DEF Range, IsInjective
<1>2. TypeOK
  <2>1. resultCh \in Seq(Edges) /\ Len(resultCh) <= ChanCap
    BY RunnerAssumption
  <2> QED BY <2>1, Zenon DEF TypeOK
<1>3. SetInv
  BY <1>1, Zenon DEF SetInv, NoMissedWakeup, Done
<1>4. SetBound
  <2> DEFINE r == Len(running)
             k == Len(finished)
             c == Cardinality(subprocToEdge)
  <2>1. r = 0 /\ k = 0 /\ c = 0
    BY <1>1, Zenon
  <2> HIDE DEF r, k, c
  <2>2. c <= r + k /\ r + k <= Parallelism /\ k < Parallelism /\ c <= Parallelism
    BY <2>1, RunnerAssumption
  <2> QED BY <2>2, Zenon DEF SetBound, r, k, c
<1>5. JobInv
  BY <1>1, RunnerAssumption DEF JobInv
<1> QED BY <1>2, <1>3, <1>4, <1>5, Zenon DEF RunnersInv

\* A build keeps the runner it got and its source of job slots.
LEMMA SameConfig == [Next]_vars => kind' = kind /\ jobserver' = jobserver
<1> SUFFICES ASSUME [Next]_vars PROVE UNCHANGED config
  BY Zenon DEF config
<1> USE DEF clientVars
<1>1. CASE \E e \in Edges : StartCommand(e)
  BY <1>1, Zenon DEF StartCommand, LocalStart, RemoteStart, RemoteStartFails
<1>2. CASE WaitForCommand
  BY <1>2, Zenon DEF WaitForCommand, LocalMain, LocalWaitForCommand, DoWork, Woken,
                     Timeout, Sweep, NextFinished, RemoteMain, RemoteWaitForCommand,
                     Receive, Tick
<1>3. CASE BuildFails \/ Return \/ Abort
  BY <1>3, Zenon DEF BuildFails, Return, Abort
<1>4. CASE Background
  <2>1. ASSUME NEW e \in Edges, RemoteGoroutine(e)
        PROVE  UNCHANGED config
    BY <2>1, GoroutineFacts, Zenon DEF JobStep, Send
  <2> QED BY <1>4, <2>1, Zenon DEF Background, Notify
<1>5. CASE Terminated \/ UNCHANGED vars
  BY <1>5, Zenon DEF Terminated, vars
<1> QED BY <1>1, <1>2, <1>3, <1>4, <1>5, Zenon DEF Next

\* The invariant is inductive: what the local runner's part says is kept by
\* the steps of a build with the local runner, the remote part by the others.
LEMMA NextRunners == RunnersInv /\ [Next]_vars => RunnersInv'
<1> SUFFICES ASSUME RunnersInv, [Next]_vars PROVE RunnersInv'
  OBVIOUS
<1>1. TypeOK /\ TypeOK'
  BY NextType, Zenon DEF RunnersInv
<1>2. CASE Local
  <2>1. SetInv /\ LocalStep /\ Local' /\ UNCHANGED remoteVars
    BY <1>2, LocalSteps, Zenon DEF RunnersInv
  <2>2. jobserver' \/ SetBound'
    <3>1. jobserver' = jobserver
      BY SameConfig, Zenon
    <3>2. jobserver \/ SetBound
      BY <1>2, Zenon DEF RunnersInv
    <3> QED BY <1>1, <2>1, <3>1, <3>2, NextSetBound, Zenon
  <2> QED BY <1>1, <2>1, <2>2, NextSetInv, Zenon DEF RunnersInv
<1>3. CASE ~Local
  <2>1. JobInv /\ RemoteStep /\ ~Local' /\ UNCHANGED setVars
    BY <1>3, RemoteSteps, Zenon DEF RunnersInv
  <2> QED BY <1>1, <2>1, NextJobInv, Zenon DEF RunnersInv
<1> QED BY <1>2, <1>3, Zenon

\* The invariants of the three runners hold throughout every build.
THEOREM RunnersCorrect == Spec => []RunnersInv
BY InitRunners, NextRunners, PTL DEF Spec

\* The variables keep their types, and the result channel its capacity, for
\* any number of commands.
THEOREM RunnersTypeCorrect == Spec => []TypeOK
<1>1. RunnersInv => TypeOK
  BY Zenon DEF RunnersInv
<1> QED BY <1>1, RunnersCorrect, PTL

\* DoWork never sleeps over the exit of a process, however many run.
THEOREM NoWakeupMissed == Spec => []NoMissedWakeup
<1>1. RunnersInv => NoMissedWakeup
  BY Zenon DEF RunnersInv, SetInv, JobInv, NoMissedWakeup
<1> QED BY <1>1, RunnersCorrect, PTL

\* Until Build gives up, the active edges of its runner are the commands
\* that were started and not reported.
THEOREM ActiveEdgesCorrect == Spec => []ActiveIsUnreported
<1>1. RunnersInv => ActiveIsUnreported
  BY Zenon DEF RunnersInv, SetInv, JobInv, ActiveIsUnreported, Pending, Started, Open
<1> QED BY <1>1, RunnersCorrect, PTL

\* Without a jobserver no runner has more than Parallelism commands outstanding,
\* for any number of commands and any limit.
THEOREM OutstandingWithinLimit == Spec => []OutstandingBounded
<1>1. RunnersInv => OutstandingBounded
  <2> SUFFICES ASSUME RunnersInv, ~jobserver PROVE OutstandingBounded
    BY Zenon DEF OutstandingBounded
  <2>1. CASE Local
    <3>1. Pending = subprocToEdge /\ Cardinality(subprocToEdge) <= Parallelism
      BY <2>1, Zenon DEF RunnersInv, SetInv, SetBound, Pending
    <3> QED BY <3>1, Zenon DEF OutstandingBounded
  <2>2. CASE ~Local
    <3>1. Pending = activeEdges /\ Cardinality(activeEdges) <= Parallelism
      BY <2>2, Zenon DEF RunnersInv, JobInv, Pending
    <3> QED BY <3>1, Zenon DEF OutstandingBounded
  <2> QED BY <2>1, <2>2, Zenon
<1> QED BY <1>1, RunnersCorrect, PTL

-----------------------------------------------------------------------------
\* What CommandRunner sees of the commands.
StateSeen ==
    /\ AbstractState \in [Edges -> {"new", "running", "ended", "reported"}]
    /\ \A e \in Edges : AbstractState[e] =
          IF e \in reported THEN "reported"
          ELSE IF Completed(e) THEN "ended"
          ELSE IF Started(e) THEN "running" ELSE "new"

\* The cases of AbstractState exclude one another: a command is reported
\* after it completed.
LEMMA StateFacts == RunnersInv => StateSeen
<1> SUFFICES ASSUME RunnersInv, NEW e \in Edges
             PROVE  AbstractState[e] = IF e \in reported THEN "reported"
                                       ELSE IF Completed(e) THEN "ended"
                                       ELSE IF Started(e) THEN "running"
                                       ELSE "new"
  BY Zenon DEF AbstractState, StateSeen
<1>1. e \in reported => Completed(e)
  BY Zenon DEF RunnersInv, SetInv, JobInv, Completed
<1> QED BY <1>1, Zenon DEF AbstractState

\* The step leaves what CommandRunner sees of e alone.
Same(e) ==
    /\ e \in reported' <=> e \in reported
    /\ Completed(e)' <=> Completed(e)
    /\ Started(e)' <=> Started(e)

\* What CommandRunner sees changes with the commands the step concerns only.
LEMMA StateStep ==
  ASSUME RunnersInv, RunnersInv'
  PROVE  /\ StateSeen /\ StateSeen'
         /\ (\A f \in Edges : Same(f)) => AbstractState' = AbstractState
         /\ \A e \in Edges :
              (\A f \in Edges : f # e => Same(f)) =>
              AbstractState' = [AbstractState EXCEPT ![e] = AbstractState'[e]]
<1>1. StateSeen
  BY StateFacts, Zenon
<1>2. StateSeen'
  BY StateFacts, PTL
<1>3. \A f \in Edges : Same(f) => AbstractState'[f] = AbstractState[f]
  BY <1>1, <1>2, Zenon DEF Same, StateSeen
<1> QED BY <1>1, <1>2, <1>3 DEF StateSeen

\* The four ways in which a step of a runner is one of CommandRunner: nothing
\* happens to a command (but Build may give up), a command is started, it
\* ends, it is reported.
LEMMA ImplementingSteps ==
  ASSUME RunnersInv, RunnersInv'
  PROVE  /\ (\A f \in Edges : Same(f)) /\ (Open' => Open)
            => [Runner!Next]_<<AbstractState, Open>>
         /\ \A e \in Edges :
              /\ \A f \in Edges : f # e => Same(f)
              /\ \/ /\ Open /\ Open' /\ ~Started(e) /\ ~Completed(e)
                    /\ Started(e)' /\ ~Completed(e)'
                    /\ e \notin reported /\ reported' = reported
                 \/ /\ Open' = Open /\ Started(e) /\ ~Completed(e)
                    /\ Completed(e)'
                    /\ e \notin reported /\ reported' = reported
                 \/ /\ Open /\ Completed(e) /\ e \notin reported
                    /\ e \in reported'
              => Runner!Next
<1>1. /\ StateSeen /\ StateSeen'
      /\ (\A f \in Edges : Same(f)) => AbstractState' = AbstractState
      /\ \A e \in Edges :
           (\A f \in Edges : f # e => Same(f)) =>
           AbstractState' = [AbstractState EXCEPT ![e] = AbstractState'[e]]
  BY StateStep, Zenon
<1>2. Open \in BOOLEAN /\ Open' \in BOOLEAN
  BY Zenon DEF Open
<1>3. ASSUME \A f \in Edges : Same(f), Open' => Open
      PROVE  [Runner!Next]_<<AbstractState, Open>>
  BY <1>1, <1>2, <1>3, Zenon DEF Runner!Next, Runner!GiveUp
<1>4. ASSUME NEW e \in Edges, \A f \in Edges : f # e => Same(f)
      PROVE  AbstractState' = [AbstractState EXCEPT ![e] = AbstractState'[e]]
  BY <1>1, <1>4, Zenon
<1>5. ASSUME NEW e \in Edges, \A f \in Edges : f # e => Same(f),
             Open, Open', ~Started(e), ~Completed(e), Started(e)', ~Completed(e)',
             e \notin reported, reported' = reported
      PROVE  Runner!Next
  <2>1. AbstractState[e] = "new" /\ AbstractState'[e] = "running"
    BY <1>1, <1>5, Zenon DEF StateSeen
  <2> QED BY <1>2, <1>4, <1>5, <2>1, Zenon DEF Runner!Next, Runner!StartCommand
<1>6. ASSUME NEW e \in Edges, \A f \in Edges : f # e => Same(f),
             Open' = Open, Started(e), ~Completed(e), Completed(e)',
             e \notin reported, reported' = reported
      PROVE  Runner!Next
  <2>1. AbstractState[e] = "running" /\ AbstractState'[e] = "ended"
    BY <1>1, <1>6, Zenon DEF StateSeen
  <2> QED BY <1>4, <1>6, <2>1, Zenon DEF Runner!Next, Runner!End
<1>7. ASSUME NEW e \in Edges, \A f \in Edges : f # e => Same(f),
             Open, Completed(e), e \notin reported, e \in reported'
      PROVE  Runner!Next
  <2>1. AbstractState[e] = "ended" /\ AbstractState'[e] = "reported"
    BY <1>1, <1>7, Zenon DEF StateSeen
  <2> QED BY <1>2, <1>4, <1>7, <2>1, Zenon DEF Runner!Next, Runner!Report
<1> QED BY <1>3, <1>5, <1>6, <1>7, Zenon

\* A step of a build with the local runner is a step of CommandRunner: the
\* command ends for it when the waiter closes the done channel.
LEMMA LocalImplements ==
  ASSUME RunnersInv, RunnersInv', Local, Local', LocalStep, UNCHANGED remoteVars
  PROVE  [Runner!Next]_<<AbstractState, Open>>
<1> USE DEF clientVars, config, procVars, setVars, remoteVars
<1>1. ASSUME NEW e \in Edges, proc'[e] = "none" <=> proc[e] = "none",
             waiter'[e] = "closed" <=> waiter[e] = "closed",
             e \in reported' <=> e \in reported
      PROVE  Same(e)
  BY <1>1, Zenon DEF Same, Completed, Started, Done
<1>2. /\ proc \in [Edges -> {"none", "alive"} \cup Endings]
      /\ waiter \in [Edges -> {"none", "waiting", "closed", "panicked"}]
      /\ finished \in Seq(Edges) /\ SetInv
      /\ \A e \in Edges : job[e] = "none"
  <2>1. TypeOK /\ SetInv
    BY Zenon DEF RunnersInv
  <2>2. \A e \in Edges : job[e] = "none"
    BY <2>1, Zenon DEF SetInv
  <2> QED BY <2>1, <2>2, Zenon DEF TypeOK
<1>3. ASSUME UNCHANGED <<proc, waiter, reported>>, Open' => Open
      PROVE  [Runner!Next]_<<AbstractState, Open>>
  <2>1. \A f \in Edges : Same(f)
    BY <1>1, <1>3, Zenon
  <2> QED BY <1>3, <2>1, ImplementingSteps, Zenon
<1>4. ASSUME NEW e \in Edges, pc = "build", LocalStart(e)
      PROVE  Runner!Next
  <2>1. /\ proc[e] = "none" /\ UNCHANGED <<clientVars>>
        /\ proc' = [proc EXCEPT ![e] = "alive"]
        /\ waiter' = [waiter EXCEPT ![e] = "waiting"]
    BY <1>4, Zenon DEF LocalStart, NewSubprocess
  <2>2. \A f \in Edges : f # e => Same(f)
    BY <1>1, <1>2, <2>1, Zenon
  <2>3. /\ ~Started(e) /\ ~Completed(e) /\ Started(e)' /\ ~Completed(e)'
        /\ e \notin reported
    BY <1>2, <2>1, Zenon DEF SetInv, Started, Completed, Done
  <2>4. Open /\ Open'
    BY <1>4, <2>1, Zenon DEF Open
  <2> QED BY <2>1, <2>2, <2>3, <2>4, ImplementingSteps, Zenon
<1>5. CASE NextFinished
  <2>1. CASE finished = <<>> \/ interrupted
    BY <1>3, <1>5, <2>1, Zenon DEF NextFinished, Open
  <2>2. CASE finished # <<>> /\ ~interrupted
    <3> DEFINE e == Head(finished)
    <3>1. /\ pc = "swept" /\ reported' = reported \cup {e}
          /\ UNCHANGED <<proc, waiter>>
      BY <1>5, <2>2, Zenon DEF NextFinished
    <3>2. e \in Edges /\ e \in Range(finished)
      BY <1>2, <2>2, TailFacts, Zenon
    <3> HIDE DEF e
    <3>3. /\ Completed(e) /\ e \notin reported /\ e \in reported'
      BY <1>2, <3>1, <3>2, Zenon DEF SetInv, Completed, Done
    <3>4. \A f \in Edges : f # e => Same(f)
      BY <1>1, <3>1, Zenon
    <3>5. Open
      BY <3>1, Zenon DEF Open
    <3> QED BY <3>2, <3>3, <3>4, <3>5, ImplementingSteps, Zenon
  <2> QED BY <2>1, <2>2, Zenon
<1>6. CASE LocalWaitForCommand \/ DoWork \/ Woken \/ Timeout \/ Sweep
  BY <1>3, <1>6, Zenon DEF LocalWaitForCommand, DoWork, Woken, Timeout, Sweep, Open
<1>7. CASE BuildFails \/ Return
  BY <1>3, <1>7, Zenon DEF BuildFails, Return, Open
<1>8. CASE pc = "giveup" /\ pc' = "aborted" /\ LocalAbort
  BY <1>3, <1>8, Zenon DEF LocalAbort, Open
<1>9. ASSUME NEW e \in Edges, SubprocessStep(e), UNCHANGED <<clientVars, setVars>>
      PROVE  [Runner!Next]_<<AbstractState, Open>>
  <2>1. Open' = Open
    BY <1>9, Zenon DEF Open
  <2>2. CASE WaitReturns(e)
    <3>1. /\ waiter[e] = "waiting" /\ proc[e] # "none" /\ UNCHANGED <<proc, reported>>
          /\ waiter' = [waiter EXCEPT ![e] = "closed"]
      BY <1>2, <1>9, <2>2, Zenon DEF WaitReturns, SetInv
    <3>2. \A f \in Edges : f # e => Same(f)
      BY <1>1, <1>2, <3>1, Zenon
    <3>3. /\ Started(e) /\ ~Completed(e) /\ Completed(e)' /\ e \notin reported
      BY <1>2, <3>1, Zenon DEF SetInv, Started, Completed, Done
    <3> QED BY <2>1, <3>1, <3>2, <3>3, ImplementingSteps, Zenon
  <2>3. CASE Exit(e) \/ KillArrives(e) \/ WaitPanics(e)
    <3>1. \A f \in Edges : /\ proc'[f] = "none" <=> proc[f] = "none"
                           /\ waiter'[f] = "closed" <=> waiter[f] = "closed"
      BY <1>2, <2>3, Zenon DEF Exit, KillArrives, WaitPanics, Endings
    <3>2. \A f \in Edges : Same(f)
      BY <1>1, <1>9, <3>1, Zenon
    <3> QED BY <2>1, <3>2, ImplementingSteps, Zenon
  <2> QED BY <1>9, <2>2, <2>3, Zenon DEF SubprocessStep
<1>10. ASSUME NEW e \in Edges, Notify(e)
      PROVE  [Runner!Next]_<<AbstractState, Open>>
  BY <1>3, <1>10, Zenon DEF Notify, Open
<1>11. CASE \/ Signal /\ UNCHANGED <<clientVars, setVars>>
            \/ UNCHANGED <<clientVars, procVars, setVars>>
  BY <1>3, <1>11, Zenon DEF Signal, Open
<1> QED
  BY <1>4, <1>5, <1>6, <1>7, <1>8, <1>9, <1>10, <1>11, Zenon DEF LocalStep, LocalMain

\* A step of a build with a remote runner is a step of CommandRunner: the
\* command ends for it when its goroutine has the result to send.
LEMMA RemoteImplements ==
  ASSUME RunnersInv, RunnersInv', ~Local, ~Local', RemoteStep, UNCHANGED setVars
  PROVE  [Runner!Next]_<<AbstractState, Open>>
<1> USE DEF clientVars, config, procVars, remoteVars
<1>1. /\ job \in [Edges -> JobSteps \cup {"none", "send", "sent"}]
      /\ resultCh \in Seq(Edges) /\ JobInv /\ JobInv'
      /\ \A e \in Edges : Started(e) <=> job[e] # "none"
      /\ \A e \in Edges : Started(e)' <=> job'[e] # "none"
  BY Zenon DEF RunnersInv, TypeOK, JobSteps, JobInv, Started
<1>2. ASSUME NEW e \in Edges, job'[e] = job[e], e \in reported' <=> e \in reported
      PROVE  Same(e)
  BY <1>1, <1>2, Zenon DEF Same, Completed
<1>3. ASSUME UNCHANGED <<job, reported>>, Open' => Open
      PROVE  [Runner!Next]_<<AbstractState, Open>>
  <2>1. \A f \in Edges : Same(f)
    BY <1>2, <1>3, Zenon
  <2> QED BY <1>3, <2>1, ImplementingSteps, Zenon
<1>4. ASSUME NEW e \in Edges, pc = "build", RemoteStart(e)
      PROVE  Runner!Next
  <2>1. /\ job[e] = "none" /\ UNCHANGED clientVars
        /\ job' = [job EXCEPT ![e] = "lookup"]
    BY <1>4, Zenon DEF RemoteStart
  <2>2. \A f \in Edges : f # e => Same(f)
    BY <1>1, <1>2, <2>1, Zenon
  <2>3. /\ ~Started(e) /\ ~Completed(e) /\ Started(e)' /\ ~Completed(e)'
        /\ e \notin reported
    BY <1>1, <2>1, Zenon DEF JobInv, Completed
  <2>4. Open /\ Open'
    BY <1>4, <2>1, Zenon DEF Open
  <2> QED BY <2>1, <2>2, <2>3, <2>4, ImplementingSteps, Zenon
<1>5. ASSUME NEW e \in Edges, JobStep(e) \/ Send(e)
      PROVE  [Runner!Next]_<<AbstractState, Open>>
  <2>1. UNCHANGED clientVars /\ Open' = Open
    BY <1>5, Zenon DEF JobStep, Send, Open
  <2>2. PICK step \in JobSteps \cup {"send", "sent"} :
          /\ job' = [job EXCEPT ![e] = step]
          /\ \/ job[e] \in JobSteps /\ step # "sent"
             \/ job[e] = "send" /\ step = "sent"
    BY <1>5, Zenon DEF JobStep, Send, JobSteps
  <2>3. \A f \in Edges : f # e => Same(f)
    BY <1>1, <1>2, <2>1, <2>2, Zenon
  <2>4. CASE job[e] \in JobSteps /\ step = "send"
    <3>1. /\ Started(e) /\ ~Completed(e) /\ Completed(e)' /\ e \notin reported
      BY <1>1, <2>2, <2>4, Zenon DEF JobInv, Completed, JobSteps
    <3> QED BY <2>1, <2>3, <3>1, ImplementingSteps, Zenon
  <2>5. CASE ~(job[e] \in JobSteps /\ step = "send")
    <3>1. Same(e)
      BY <1>1, <2>1, <2>2, <2>5, Zenon DEF Same, Completed, JobSteps
    <3> QED BY <2>1, <2>3, <3>1, ImplementingSteps, Zenon
  <2> QED BY <2>4, <2>5, Zenon
<1>6. CASE Receive
  <2> DEFINE e == Head(resultCh)
  <2>1. /\ resultCh # <<>> /\ UNCHANGED job /\ pc = "wait"
        /\ \/ UNCHANGED reported /\ ~Open'
           \/ reported' = reported \cup {e}
    BY <1>6, Zenon DEF Receive, Open
  <2>2. e \in Edges /\ e \in Range(resultCh)
    BY <1>1, <2>1, TailFacts, Zenon
  <2> HIDE DEF e
  <2>3. CASE UNCHANGED reported /\ ~Open'
    BY <1>3, <2>1, <2>3, Zenon
  <2>4. CASE reported' = reported \cup {e}
    <3>1. /\ Completed(e) /\ e \notin reported /\ e \in reported'
      BY <1>1, <2>2, <2>4, Zenon DEF JobInv, Completed
    <3>2. \A f \in Edges : f # e => Same(f)
      BY <1>2, <2>1, <2>4, Zenon
    <3>3. Open
      BY <2>1, Zenon DEF Open
    <3> QED BY <2>2, <3>1, <3>2, <3>3, ImplementingSteps, Zenon
  <2> QED BY <2>1, <2>3, <2>4, Zenon
<1>7. CASE \/ \E e \in Edges : pc = "build" /\ RemoteStartFails(e)
           \/ RemoteWaitForCommand \/ Tick \/ BuildFails \/ Return
           \/ pc = "giveup" /\ pc' = "aborted" /\ RemoteAbort /\ UNCHANGED config
  BY <1>3, <1>7, Zenon DEF RemoteStartFails, RemoteWaitForCommand, Tick, BuildFails,
                    Return, RemoteAbort, Open
<1>8. CASE \/ \E e \in Edges : SubprocessStep(e) /\ UNCHANGED <<clientVars, remoteVars>>
           \/ Signal /\ UNCHANGED <<clientVars, remoteVars>>
           \/ UNCHANGED <<clientVars, procVars, remoteVars>>
  BY <1>3, <1>8, Zenon DEF Open
<1> QED
  BY <1>4, <1>5, <1>6, <1>7, <1>8, GoroutineFacts, Zenon DEF RemoteStep, RemoteMain

\* Every runner implements CommandRunner, for any commands and limits: a
\* command is reported at most once, after it ended, and never after Build
\* gave up.
THEOREM RunnersImplementCommandRunner == Spec => ImplementsCommandRunner
<1>1. Init => Runner!Init
  <2> SUFFICES ASSUME Init PROVE Runner!Init
    OBVIOUS
  <2>1. StateSeen
    BY InitRunners, StateFacts, Zenon
  <2>2. \A e \in Edges : AbstractState[e] = "new"
    BY <2>1, Zenon DEF Init, SubprocessInit, RemoteInit, StateSeen, Completed, Started,
                Done
  <2>3. Open = TRUE
    BY Zenon DEF Init, SubprocessInit, Open
  <2> QED BY <2>1, <2>2, <2>3, Zenon DEF Runner!Init, StateSeen
<1>2. RunnersInv /\ RunnersInv' /\ [Next]_vars
      => [Runner!Next]_<<AbstractState, Open>>
  BY LocalSteps, LocalImplements, RemoteSteps, RemoteImplements, Zenon
<1> QED
  BY <1>1, <1>2, RunnersCorrect, PTL DEF Spec, ImplementsCommandRunner, Runner!Spec
=============================================================================
