------------------------------ MODULE RetryDelay ------------------------------
(***************************************************************************)
(* How long a queued retry waits (computeRetryDelay of packages/autopilot/ *)
(* src/retry-queue.ts), in seconds.  growth is the power of two that the   *)
(* attempt asks for, retryAfter what the server asked for (0 if nothing),  *)
(* cap maxRetryBackoffMs, percent the jitter and draw a random number,     *)
(* both in hundredths.                                                     *)
(***************************************************************************)
EXTENDS Integers

BaseDelay == 10

LongBackoffMultiplier == 4

(* Math.pow(2, n)                                                          *)
Growth[n \in Nat] == IF n = 0 THEN 1 ELSE 2 * Growth[n - 1]

Lesser(a, b) == IF a < b THEN a ELSE b

Greater(a, b) == IF a > b THEN a ELSE b

Backoff(growth, tier, cap) ==
    Lesser(BaseDelay * growth * (IF tier = "long" THEN LongBackoffMultiplier ELSE 1), cap)

(* Never less than the server asked for, up to the cap.                    *)
Honored(delay, retryAfter, cap) ==
    IF retryAfter > delay THEN Lesser(retryAfter, cap) ELSE delay

Jittered(delay, percent, draw) ==
    LET delta == (delay * percent) \div 100
    IN  delay - delta + (2 * delta * draw) \div 100

(* Fault: the jitter may fall below what the server asked for.             *)
DelayUnfloored(growth, tier, retryAfter, cap, percent, draw) ==
    LET delay == Honored(Backoff(growth, tier, cap), retryAfter, cap)
    IN  IF percent = 0 THEN delay ELSE Lesser(Jittered(delay, percent, draw), cap)

ComputeRetryDelay(growth, tier, retryAfter, cap, percent, draw) ==
    LET delay == Honored(Backoff(growth, tier, cap), retryAfter, cap)
    IN  IF percent = 0 THEN delay
        ELSE Lesser(Greater(Jittered(delay, percent, draw), retryAfter), cap)

-----------------------------------------------------------------------------
(* Whatever the attempt, the tier, the jitter and the draw, a retry waits  *)
(* no longer than maxRetryBackoffMs and, up to that, no less than the      *)
(* server's Retry-After.                                                   *)
DelayInBounds(growth, tier, retryAfter, cap, percent, draw) ==
    LET delay == ComputeRetryDelay(growth, tier, retryAfter, cap, percent, draw)
    IN  Lesser(retryAfter, cap) <= delay /\ delay <= cap
=============================================================================
