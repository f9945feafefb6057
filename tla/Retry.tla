------------------------------- MODULE Retry -------------------------------
(***************************************************************************)
(* The retry policy (internal/retry/retry.go) as a value: how many         *)
(* attempts were made and how long was slept.  Time is counted in units of *)
(* 100 ms.  With MaxRetries = 0 the policy stops after MaxTotalDelay.      *)
(***************************************************************************)
EXTENDS Naturals

CONSTANTS MaxRetries, InitialBackoff, MaxBackoff, Multiplier

RetryAssumption ==
    /\ MaxRetries \in Nat
    /\ InitialBackoff \in Nat \ {0} /\ MaxBackoff \in Nat /\ Multiplier \in Nat

ASSUME RetryAssumption

\* The backoff after attempt number n, counted from zero.
delay(n) ==
    LET backoff == InitialBackoff * Multiplier ^ n
    IN  IF backoff > MaxBackoff THEN MaxBackoff ELSE backoff

maxAttempts ==
    IF MaxRetries = 0 /\ ~(Multiplier > 1 /\ MaxBackoff > InitialBackoff)
    THEN 1 ELSE MaxRetries

\* The number of backoffs until MaxBackoff is reached, and their sum.
tries ==
    1 + CHOOSE n \in 0..MaxBackoff:
          /\ InitialBackoff * Multiplier ^ n >= MaxBackoff
          /\ \A m \in 0..(n - 1): InitialBackoff * Multiplier ^ m < MaxBackoff
maxTime ==
    LET total[n \in 0..tries] == IF n = 0 THEN 0 ELSE total[n - 1] + delay(n - 1)
    IN  IF maxAttempts = 0 THEN total[tries] ELSE 0

NewRetry == [isReset |-> TRUE, currentAttempt |-> 0, delayed |-> 0]

\* Mutant: one attempt too few.
MayRetryOneLess(r) ==
    \/ r.isReset
    \/ maxAttempts > 0 => r.currentAttempt + 1 < maxAttempts

\* NextDelay: may another attempt be made, and the policy after it.
MayRetry(r) ==
    \/ r.isReset
    \/ /\ maxAttempts > 0 => r.currentAttempt < maxAttempts
       /\ maxTime > 0 => r.delayed < maxTime

NextDelay(r) ==
    IF r.isReset THEN [r EXCEPT !.isReset = FALSE]
    ELSE [r EXCEPT !.currentAttempt = @ + 1,
                   !.delayed = @ + delay(r.currentAttempt)]
=============================================================================
