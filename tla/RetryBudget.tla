----------------------------- MODULE RetryBudget -----------------------------
(***************************************************************************)
(* The Retry Budget of a Delivery: the exponential back-off curve of        *)
(* internal/delivery/backoff.go and the two questions the entity answers    *)
(* with it in internal/delivery/delivery.go, NextRetryAt and CanRetry.      *)
(*                                                                          *)
(* A time.Duration is a signed machine integer.  Its width matters, since   *)
(* the curve doubles without an upper bound, so every product wraps at      *)
(* Width bits.  Instants are measured from original_scheduled_time, the     *)
(* only origin the code ever uses: NextRetryAt is the distance of the next  *)
(* retry from it and the budget is the distance Window.                     *)
(***************************************************************************)
EXTENDS Integers

CONSTANTS
  Base,        \* ExponentialBackoff.Base (2 minutes by default)
  MinDelay,    \* ExponentialBackoff.Min, the floor (5 minutes by default)
  Window,      \* Delivery.retryWindow (24 hours by default)
  Width        \* bits of a time.Duration (64 in the code)

ASSUME BudgetAssumption ==
  /\ Base \in Nat \ {0}
  /\ MinDelay \in Nat \ {0}
  /\ Window \in Nat \ {0}       \* windowOrDefault replaces anything else
  /\ Width \in Nat \ {0, 1}

-----------------------------------------------------------------------------
(* math.Pow(2, n) for the n whose result a float64 holds exactly.          *)
Pow2[n \in Nat] == IF n = 0 THEN 1 ELSE 2 * Pow2[n - 1]

(* What a Width-bit two's complement register keeps of x.                  *)
Wrapped(x) == ((x + Pow2[Width - 1]) % Pow2[Width]) - Pow2[Width - 1]

(* ExponentialBackoff.Delay: the product is truncated to the register      *)
(* first and compared with the floor afterwards, so an overflow into the   *)
(* negative range comes out as the floor.                                  *)
Delay(attempts) ==
  LET delay == Wrapped(Base * Pow2[attempts])
  IN  IF delay < MinDelay THEN MinDelay ELSE delay

(* Delivery.NextRetryAt, from original_scheduled_time.                     *)
NextRetryAt(attempts) == Delay(attempts)

(* Delivery.CanRetry: the next retry still falls inside the window.  No    *)
(* clock is read.                                                          *)
CanRetry(attempts) == NextRetryAt(attempts) < Window

=============================================================================
