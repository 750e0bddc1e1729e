------------------------------- MODULE Limiter -------------------------------
(***************************************************************************)
(* The directional token bucket (internal/forward/limiter.go), with whole  *)
(* tokens and clock ticks.  The injected clock may step back; Allow clamps *)
(* it to the bucket's own time.                                            *)
(***************************************************************************)
EXTENDS Integers

CONSTANTS RateBPS, BurstBytes, MaxClock

(* NewLimiter: a zero rate has no bucket, and a zero burst becomes the     *)
(* rate.                                                                   *)
ASSUME LimiterAssumption ==
    RateBPS \in Nat \ {0} /\ BurstBytes \in Nat \ {0} /\ MaxClock \in Nat

VARIABLES bucket,  \* direction -> tokens, at
          clock,   \* what l.now() answers
          peak,    \* the latest time it ever answered
          passed   \* bytes let through in each direction

limiterVars == <<bucket, clock, peak, passed>>

FlowDirections == {"ingress", "egress"}
Capped(t) == IF t > BurstBytes THEN BurstBytes ELSE t

RefillUnclamped(b) == [tokens |-> Capped(b.tokens + (IF clock > b.at THEN clock - b.at ELSE 0) * RateBPS),
                       at |-> clock]

(* The refill of Allow: never for a negative interval, so *)
(* that the bucket's time does not go back.                                *)
Refill(b) ==
    LET now == IF clock < b.at THEN b.at ELSE clock
    IN  [tokens |-> Capped(b.tokens + (now - b.at) * RateBPS), at |-> now]

(* Allow: the refill is kept, and the tokens go only when all n are there. *)
Allow(d, n) ==
    LET b == Refill(bucket[d])
        granted == n <= b.tokens
    IN  /\ bucket' = [bucket EXCEPT ![d] = IF granted THEN [b EXCEPT !.tokens = @ - n] ELSE b]
        /\ passed' = [passed EXCEPT ![d] = IF granted THEN @ + n ELSE @]
        /\ UNCHANGED <<clock, peak>>

(* WaitDuration: what the elapsed time adds is not capped here, and the    *)
(* quotient is truncated to the resolution of the clock.                   *)
WaitDuration(d, n) ==
    LET now == IF clock < bucket[d].at THEN bucket[d].at ELSE clock
        available == bucket[d].tokens + (now - bucket[d].at) * RateBPS
    IN  IF available >= n THEN 0 ELSE (n - available) \div RateBPS

LimiterTick ==
    /\ clock < MaxClock
    /\ clock' = clock + 1 /\ peak' = IF clock + 1 > peak THEN clock + 1 ELSE peak
    /\ UNCHANGED <<bucket, passed>>

ClockStepsBack ==
    /\ clock > 0
    /\ clock' = clock - 1
    /\ UNCHANGED <<bucket, peak, passed>>

LimiterInit ==
    /\ clock = 0 /\ peak = 0
    /\ bucket = [d \in FlowDirections |-> [tokens |-> BurstBytes, at |-> 0]]
    /\ passed = [d \in FlowDirections |-> 0]

LimiterNext ==
    \/ \E d \in FlowDirections, n \in 1..(BurstBytes + 1) : Allow(d, n)
    \/ LimiterTick \/ ClockStepsBack

LimiterSpec == LimiterInit /\ [][LimiterNext]_limiterVars
------------------------------------------------------------------------------
(* The buckets are never overdrawn or overfull, and no bucket is ahead of  *)
(* the latest time that the clock answered.                                *)
LimiterTypeOK ==
    /\ clock \in 0..peak /\ peak \in 0..MaxClock
    /\ bucket \in [FlowDirections -> [tokens : 0..BurstBytes, at : 0..peak]]
    /\ passed \in [FlowDirections -> Nat]

(* What passed and what is left came from the burst or from the refill up  *)
(* to the bucket's own time: a clock that steps back buys nothing.         *)
TokensAreEarned ==
    \A d \in FlowDirections :
        passed[d] + bucket[d].tokens <= BurstBytes + RateBPS * bucket[d].at

(* The configured rate holds over every prefix of every run: no order of   *)
(* calls, refusals and clock steps lets more than the burst and the refill *)
(* of the elapsed time through in a direction.                             *)
RateHolds == \A d \in FlowDirections : passed[d] <= BurstBytes + RateBPS * peak

(* A caller that sleeps for WaitDuration and asks for a request within the *)
(* burst is refused at most once more, for the truncated tick, and could   *)
(* not have been served a tick earlier.                                    *)
WaitIsExact ==
    \A d \in FlowDirections, n \in 1..BurstBytes :
        LET b == Refill(bucket[d])
            w == WaitDuration(d, n)
        IN  /\ Capped(b.tokens + (w + 1) * RateBPS) >= n
            /\ w > 0 => Capped(b.tokens + (w - 1) * RateBPS) < n

(* The limiter neither lets too much through nor keeps a caller waiting    *)
(* longer than it says, though its clock steps back (Allow, WaitDuration). *)
LimiterInv == LimiterTypeOK /\ TokensAreEarned /\ RateHolds /\ WaitIsExact
==============================================================================
