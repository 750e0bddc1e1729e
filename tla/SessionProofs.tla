---------------------------- MODULE SessionProofs ----------------------------
(***************************************************************************)
(* Proofs about the parts that work inside an open Forward: the TCP data   *)
(* plane, its rate limiter and the renewal loop of its mapping.  They      *)
(* share no variable; each invariant is inductive by itself.               *)
(*                                                                         *)
(* Limiter: a token is earned before it is spent (TokensAreEarned bounds   *)
(* grants and tokens together), from which the rate follows.               *)
(*                                                                         *)
(* Renewal: attempts are paced by what is left of the lease (Paced), so    *)
(* that a loss is only reported when the lease can no longer be saved.     *)
(*                                                                         *)
(* TcpForward: the budget is exact because the connections that hold a     *)
(* charge are known in every state (ChargedConns) and a step of a session  *)
(* moves that session alone; what the sockets of a session may be follows  *)
(* from its stage (SocketsFit), and a close proceeds in one order          *)
(* (CloseInOrder), so that nothing is left when it completes.              *)
(***************************************************************************)
EXTENDS TcpForward, Limiter, Renewal, FiniteSetTheorems, TLAPS

USE Zenon

(* What the refill needs of products: they distribute and are monotone.     *)
LEMMA Products ==
  ASSUME NEW r \in Nat, NEW a \in Nat, NEW b \in Nat
  PROVE  /\ r * a \in Nat
         /\ a <= b => (b - a) * r \in Nat /\ r * b = r * a + (b - a) * r /\ r * a <= r * b
BY SMT

(* A truncated quotient is the largest multiple that does not exceed.       *)
LEMMA Quotient ==
  ASSUME NEW a \in Nat, NEW r \in Nat \ {0}
  PROVE  /\ a \div r \in Nat
         /\ (a \div r) * r <= a
         /\ a < ((a \div r) + 1) * r
         /\ a \div r > 0 => ((a \div r) - 1) * r < a /\ ((a \div r) - 1) * r \in Nat
BY SMT

(* A refill stays within the burst and the clock, and adds no more tokens   *)
(* than the time it moves the bucket by is worth.                           *)
LEMMA RefillEarns ==
  ASSUME LimiterTypeOK, NEW d \in FlowDirections
  PROVE  LET b == Refill(bucket[d])
         IN  /\ b \in [tokens : 0..BurstBytes, at : 0..peak]
             /\ b.tokens + RateBPS * bucket[d].at <= bucket[d].tokens + RateBPS * b.at
<1> DEFINE o == bucket[d]
           now == IF clock < o.at THEN o.at ELSE clock
           t == Capped(o.tokens + (now - o.at) * RateBPS)
<1>1. o \in [tokens : 0..BurstBytes, at : 0..peak]
  BY DEF LimiterTypeOK
<1>2. o.tokens \in 0..BurstBytes /\ o.at \in 0..peak
  BY <1>1
<1>3. /\ clock \in Nat /\ peak \in Nat /\ clock <= peak /\ BurstBytes \in Nat /\ RateBPS \in Nat
      /\ o.tokens \in Nat /\ o.at \in Nat /\ o.tokens <= BurstBytes /\ o.at <= peak
  BY SMT, <1>2, LimiterAssumption DEF LimiterTypeOK
<1> HIDE DEF o
<1>4. now \in Nat /\ o.at <= now /\ now <= peak
  BY SMT, <1>3
<1> HIDE DEF now
<1>5. (now - o.at) * RateBPS \in Nat /\ RateBPS * now = RateBPS * o.at + (now - o.at) * RateBPS
  BY <1>3, <1>4, Products
<1>6. RateBPS * now \in Nat /\ RateBPS * o.at \in Nat
  BY <1>3, <1>4, Products
<1>7. t \in 0..BurstBytes /\ t <= o.tokens + (now - o.at) * RateBPS
  BY SMT, <1>3, <1>5 DEF Capped
<1>8. t + RateBPS * o.at <= o.tokens + RateBPS * now
  BY SMT, <1>3, <1>5, <1>6, <1>7
<1>9. now \in 0..peak
  BY SMT, <1>3, <1>4
<1>10. Refill(o) = [tokens |-> t, at |-> now]
  BY DEF Refill, now
<1> HIDE DEF t
<1>11. Refill(o) \in [tokens : 0..BurstBytes, at : 0..peak] /\ Refill(o).tokens = t /\ Refill(o).at = now
  <2> DEFINE r == [tokens |-> t, at |-> now]
  <2>1. r \in [tokens : 0..BurstBytes, at : 0..peak] /\ r.tokens = t /\ r.at = now
    BY <1>7, <1>9
  <2> HIDE DEF r
  <2> QED
    BY <1>10, <2>1 DEF r
<1> QED
  BY <1>8, <1>11 DEF o

(* The rate follows from the tokens: the bucket is not ahead of the clock. *)
LEMMA EarnedIsRate ==
  ASSUME LimiterTypeOK, TokensAreEarned
  PROVE  RateHolds
<1> SUFFICES ASSUME NEW d \in FlowDirections
             PROVE  passed[d] <= BurstBytes + RateBPS * peak
  BY DEF RateHolds
<1>1. bucket[d].tokens \in 0..BurstBytes /\ bucket[d].at \in 0..peak /\ passed[d] \in Nat
  BY DEF LimiterTypeOK
<1>2. peak \in Nat /\ BurstBytes \in Nat /\ RateBPS \in Nat /\ bucket[d].at \in Nat /\ bucket[d].at <= peak
      /\ bucket[d].tokens \in Nat
  BY SMT, <1>1, LimiterAssumption DEF LimiterTypeOK
<1>3. RateBPS * bucket[d].at <= RateBPS * peak /\ RateBPS * bucket[d].at \in Nat /\ RateBPS * peak \in Nat
  BY <1>2, Products
<1>4. passed[d] + bucket[d].tokens <= BurstBytes + RateBPS * bucket[d].at
  BY DEF TokensAreEarned
<1> QED
  BY SMT, <1>1, <1>2, <1>3, <1>4

(* WaitDuration is right to the tick in every state of the bucket.          *)
LEMMA WaitFollows ==
  ASSUME LimiterTypeOK
  PROVE  WaitIsExact
<1> SUFFICES ASSUME NEW d \in FlowDirections, NEW n \in 1..BurstBytes
             PROVE  LET b == Refill(bucket[d])
                        w == WaitDuration(d, n)
                    IN  /\ Capped(b.tokens + (w + 1) * RateBPS) >= n
                        /\ w > 0 => Capped(b.tokens + (w - 1) * RateBPS) < n
  BY DEF WaitIsExact
<1> DEFINE o == bucket[d]
           now == IF clock < o.at THEN o.at ELSE clock
           available == o.tokens + (now - o.at) * RateBPS
           w == WaitDuration(d, n)
<1>1. o.tokens \in 0..BurstBytes /\ o.at \in 0..peak
  BY DEF LimiterTypeOK
<1>2. /\ clock \in Nat /\ BurstBytes \in Nat /\ RateBPS \in Nat \ {0} /\ n \in Nat /\ n <= BurstBytes
      /\ o.tokens \in Nat /\ o.at \in Nat
  BY SMT, <1>1, LimiterAssumption DEF LimiterTypeOK
<1>3. Refill(o).tokens = Capped(available)
  BY DEF Refill
<1>4. w = IF available >= n THEN 0 ELSE (n - available) \div RateBPS
  BY DEF WaitDuration
<1> HIDE DEF o, w
<1>5. now \in Nat /\ o.at <= now
  BY SMT, <1>2
<1> HIDE DEF now
<1>6. available \in Nat
  BY SMT, <1>2, <1>5, Products
<1> HIDE DEF available
<1>7. CASE available >= n
  <2>1. w = 0 /\ Refill(o).tokens \in Nat /\ Refill(o).tokens >= n
    BY SMT, <1>2, <1>3, <1>4, <1>6, <1>7 DEF Capped
  <2>2. Capped(Refill(o).tokens + (w + 1) * RateBPS) >= n
    BY SMT, <1>2, <2>1 DEF Capped
  <2> QED
    BY SMT, <2>1, <2>2 DEF o, w
<1>8. CASE ~(available >= n)
  <2>1. n - available \in Nat /\ w = (n - available) \div RateBPS /\ Refill(o).tokens = available
    BY SMT, <1>2, <1>3, <1>4, <1>6, <1>8 DEF Capped
  <2>2. /\ w \in Nat /\ n - available < (w + 1) * RateBPS
        /\ w > 0 => (w - 1) * RateBPS < n - available /\ (w - 1) * RateBPS \in Nat
    BY <1>2, <2>1, Quotient
  <2>3. (w + 1) * RateBPS \in Nat
    BY SMT, <1>2, <2>2
  <2>4. Capped(available + (w + 1) * RateBPS) >= n
    BY SMT, <1>2, <1>6, <2>2, <2>3 DEF Capped
  <2>5. w > 0 => Capped(available + (w - 1) * RateBPS) < n
    BY SMT, <1>2, <1>6, <2>2 DEF Capped
  <2> QED
    BY <2>1, <2>4, <2>5 DEF o, w
<1> QED
  BY <1>7, <1>8

(* A request consumes what it passes, and a refusal passes nothing.         *)
LEMMA AllowStep ==
  ASSUME LimiterInv, NEW d \in FlowDirections, NEW n \in 1..(BurstBytes + 1), Allow(d, n)
  PROVE  LimiterTypeOK' /\ TokensAreEarned'
<1> DEFINE b == Refill(bucket[d])
           granted == n <= b.tokens
           r == IF granted THEN [b EXCEPT !.tokens = @ - n] ELSE b
           p == IF granted THEN passed[d] + n ELSE passed[d]
<1>1. LimiterTypeOK /\ TokensAreEarned
  BY DEF LimiterInv
<1>2. /\ bucket' = [bucket EXCEPT ![d] = r] /\ passed' = [passed EXCEPT ![d] = p]
      /\ UNCHANGED <<clock, peak>>
  BY DEF Allow
<1>3. /\ b \in [tokens : 0..BurstBytes, at : 0..peak]
      /\ b.tokens + RateBPS * bucket[d].at <= bucket[d].tokens + RateBPS * b.at
  BY <1>1, RefillEarns
<1> HIDE DEF b
<1>4. b.tokens \in 0..BurstBytes /\ b.at \in 0..peak
  BY <1>3
<1>5. /\ passed[d] \in Nat /\ bucket[d].tokens \in 0..BurstBytes /\ bucket[d].at \in 0..peak
      /\ passed[d] + bucket[d].tokens <= BurstBytes + RateBPS * bucket[d].at
  BY <1>1 DEF LimiterTypeOK, TokensAreEarned
<1>6. /\ BurstBytes \in Nat /\ RateBPS \in Nat /\ peak \in Nat /\ n \in Nat /\ n >= 1
      /\ b.tokens \in Nat /\ b.at \in Nat /\ bucket[d].tokens \in Nat /\ bucket[d].at \in Nat
  BY SMT, <1>1, <1>4, <1>5, LimiterAssumption DEF LimiterTypeOK
<1>7. RateBPS * b.at \in Nat /\ RateBPS * bucket[d].at \in Nat
  BY <1>6, Products
<1>8. r \in [tokens : 0..BurstBytes, at : 0..peak] /\ r.at = b.at /\ p \in Nat /\ p + r.tokens = passed[d] + b.tokens
  <2>1. CASE granted
    <3>1. b.tokens - n \in 0..BurstBytes /\ p \in Nat /\ p + (b.tokens - n) = passed[d] + b.tokens
      BY SMT, <1>4, <1>5, <1>6, <2>1
    <3>2. r = [b EXCEPT !.tokens = b.tokens - n]
      BY <2>1
    <3>3. r \in [tokens : 0..BurstBytes, at : 0..peak] /\ r.at = b.at /\ r.tokens = b.tokens - n
      BY <1>3, <3>1, <3>2
    <3> QED
      BY <3>1, <3>3
  <2>2. CASE ~granted
    BY <1>3, <1>5, <2>2
  <2> QED
    BY <2>1, <2>2
<1> HIDE DEF r, p, granted
<1>9. p + r.tokens <= BurstBytes + RateBPS * r.at
  BY SMT, <1>3, <1>5, <1>6, <1>7, <1>8
<1>10. LimiterTypeOK'
  BY <1>1, <1>2, <1>8 DEF LimiterTypeOK
<1>11. TokensAreEarned'
  <2> SUFFICES ASSUME NEW e \in FlowDirections
               PROVE  passed'[e] + bucket'[e].tokens <= BurstBytes + RateBPS * bucket'[e].at
    BY DEF TokensAreEarned
  <2>1. CASE e = d
    <3>1. passed'[e] = p /\ bucket'[e] = r
      BY <1>1, <1>2, <2>1 DEF LimiterTypeOK
    <3> QED
      BY <1>9, <3>1
  <2>2. CASE e # d
    <3>1. passed'[e] = passed[e] /\ bucket'[e] = bucket[e]
      BY <1>1, <1>2, <2>2 DEF LimiterTypeOK
    <3> QED
      BY <1>1, <3>1 DEF TokensAreEarned
  <2> QED
    BY <2>1, <2>2
<1> QED
  BY <1>10, <1>11

(* The clock moves, forward or back, and no bucket with it.                 *)
LEMMA ClockStep ==
  ASSUME LimiterInv, LimiterTick \/ ClockStepsBack
  PROVE  LimiterTypeOK' /\ TokensAreEarned'
<1>1. LimiterTypeOK /\ TokensAreEarned /\ bucket' = bucket /\ passed' = passed
  BY DEF LimiterInv, LimiterTick, ClockStepsBack
<1>2. clock' \in 0..peak' /\ peak' \in 0..MaxClock /\ 0..peak \subseteq 0..peak'
  BY SMT, <1>1, LimiterAssumption DEF LimiterTypeOK, LimiterTick, ClockStepsBack
<1>3. [tokens : 0..BurstBytes, at : 0..peak] \subseteq [tokens : 0..BurstBytes, at : 0..peak']
  BY <1>2
<1>4. LimiterTypeOK'
  BY <1>1, <1>2, <1>3 DEF LimiterTypeOK
<1> QED
  BY <1>1, <1>4 DEF TokensAreEarned

(* For every rate, burst and clock, a direction never passes more than its  *)
(* burst and the refill of the elapsed time, and WaitDuration is right to   *)
(* the tick.                                                                *)
THEOREM LimiterSafe == LimiterSpec => []LimiterInv
<1>1. LimiterTypeOK /\ TokensAreEarned => LimiterInv
  BY EarnedIsRate, WaitFollows DEF LimiterInv
<1>2. LimiterInit => LimiterInv
  <2> SUFFICES ASSUME LimiterInit PROVE LimiterTypeOK /\ TokensAreEarned
    BY <1>1
  <2>1. 0 \in 0..0 /\ 0 \in 0..MaxClock /\ BurstBytes \in 0..BurstBytes /\ 0 \in Nat
        /\ 0 + BurstBytes <= BurstBytes + RateBPS * 0
    BY SMT, LimiterAssumption
  <2> QED
    BY <2>1 DEF LimiterInit, LimiterTypeOK, TokensAreEarned
<1>3. LimiterInv /\ [LimiterNext]_limiterVars => LimiterInv'
  <2>0. (LimiterTypeOK /\ TokensAreEarned => LimiterInv)'
    BY <1>1, PTL
  <2> SUFFICES ASSUME LimiterInv, [LimiterNext]_limiterVars PROVE LimiterTypeOK' /\ TokensAreEarned'
    BY <2>0
  <2>1. CASE LimiterNext
    BY <2>1, AllowStep, ClockStep DEF LimiterNext
  <2>2. CASE UNCHANGED limiterVars
    BY <2>2 DEF limiterVars, LimiterInv, LimiterTypeOK, TokensAreEarned
  <2> QED
    BY <2>1, <2>2
<1> QED
  BY <1>2, <1>3, PTL DEF LimiterSpec
------------------------------------------------------------------------------
(* The fractions of a lease that pace its renewal.                          *)
LEMMA Fractions ==
  /\ Lease \in Nat /\ 10 <= Lease /\ Lease < NoLease /\ NoLease \in Nat
  /\ Interval \in Nat /\ 5 <= Interval /\ 2 * Interval <= Lease /\ Lease <= 2 * Interval + 1
  /\ Margin \in Nat /\ 1 <= Margin /\ Margin <= Interval
  /\ Jitters = 0..Margin /\ Lateness = 2 * Margin + 2 * CallBudget
  /\ CallBudget \in Nat /\ Pause \in Nat
BY SMT, RenewAssumption DEF NoLease, Interval, Margin, Jitters, Lateness

(* An event that may follow the last one may be appended.                   *)
LEMMA AppendChain ==
  ASSUME NEW before, NEW q \in Seq(Events), NEW e \in Events,
         Chained(before, q), Follows(LastOf(before, q), e)
  PROVE  /\ Append(q, e) \in Seq(Events) /\ Chained(before, Append(q, e))
         /\ LastOf(before, Append(q, e)) = e
<1> DEFINE a == Append(q, e)
<1>1. /\ a \in Seq(Events) /\ Len(q) \in Nat /\ Len(a) = Len(q) + 1 /\ a # <<>> /\ a[Len(a)] = e
      /\ \A k \in 1..Len(q) : a[k] = q[k]
      /\ q = <<>> <=> Len(q) = 0
  BY SMT
<1> HIDE DEF a
<1>2. LastOf(before, a) = e
  BY <1>1 DEF LastOf
<1>3. CASE q = <<>>
  <2>1. Follows(before, e)
    BY <1>3 DEF LastOf
  <2>2. Len(a) = 1 /\ a[1] = e /\ 1..(Len(a) - 1) = {}
    BY SMT, <1>1, <1>3
  <2>3. Chained(before, a)
    BY <2>1, <2>2 DEF Chained
  <2> QED
    BY <1>1, <1>2, <2>3 DEF a
<1>4. CASE q # <<>>
  <2>1. Follows(q[Len(q)], e) /\ Follows(before, q[1])
    BY <1>4 DEF LastOf, Chained
  <2>2. a[1] = q[1] /\ a[Len(q)] = q[Len(q)]
    BY SMT, <1>1, <1>4
  <2>3. ASSUME NEW k \in 1..(Len(a) - 1) PROVE Follows(a[k], a[k + 1])
    <3>1. CASE k = Len(q)
      <4>1. a[k] = q[Len(q)] /\ a[k + 1] = e
        BY <1>1, <2>2, <3>1
      <4> QED
        BY <2>1, <4>1
    <3>2. CASE k # Len(q)
      <4>1. k \in 1..(Len(q) - 1) /\ k \in 1..Len(q) /\ k + 1 \in 1..Len(q)
        BY SMT, <1>1, <3>2
      <4>2. a[k] = q[k] /\ a[k + 1] = q[k + 1] /\ Follows(q[k], q[k + 1])
        BY <1>1, <4>1 DEF Chained
      <4> QED
        BY <4>2
    <3> QED
      BY <3>1, <3>2
  <2>4. Chained(before, a)
    BY <2>1, <2>2, <2>3 DEF Chained
  <2> QED
    BY <1>1, <1>2, <2>4 DEF a
<1> QED
  BY <1>3, <1>4

(* The dispatcher takes the oldest event, and the chain goes on after it.   *)
LEMMA TailChain ==
  ASSUME NEW before, NEW q \in Seq(Events), q # <<>>, Chained(before, q)
  PROVE  /\ Head(q) \in Events /\ Tail(q) \in Seq(Events)
         /\ Follows(before, Head(q)) /\ Chained(Head(q), Tail(q))
         /\ LastOf(Head(q), Tail(q)) = LastOf(before, q)
<1> DEFINE t == Tail(q)
<1>1. /\ Head(q) = q[1] /\ Head(q) \in Events /\ t \in Seq(Events)
      /\ Len(q) \in Nat /\ 1 <= Len(q) /\ Len(t) = Len(q) - 1 /\ Len(t) \in Nat
      /\ \A k \in 1..Len(t) : t[k] = q[k + 1]
      /\ t = <<>> <=> Len(t) = 0
  <2>1. Len(q) \in Nat /\ 1 <= Len(q)
    BY SMT
  <2>2. Head(q) = q[1] /\ Head(q) \in Events
    BY SMT, <2>1
  <2>3. t \in Seq(Events)
    BY SMT
  <2>4. Len(t) = Len(q) - 1 /\ Len(t) \in Nat
    BY SMT, <2>1
  <2>5. \A k \in 1..Len(t) : t[k] = q[k + 1]
    BY SMT, <2>1
  <2>6. t = <<>> <=> Len(t) = 0
    <3>1. \A x \in Seq(Events) : x = <<>> <=> Len(x) = 0
      BY SMT
    <3> QED
      BY <2>3, <3>1
  <2> QED
    BY <2>1, <2>2, <2>3, <2>4, <2>5, <2>6
<1> HIDE DEF t
<1>2. Follows(before, q[1])
  BY DEF Chained
<1>3. CASE t = <<>>
  <2>0. Len(t) = 0
    BY <1>1, <1>3
  <2>1. Len(q) = 1 /\ 1..(Len(t) - 1) = {}
    <3>1. 1..(0 - 1) = {}
      BY SMT
    <3>2. \A n \in Nat : 0 = n - 1 => n = 1
      BY SMT
    <3> QED
      BY <1>1, <2>0, <3>1, <3>2
  <2> QED
    BY <1>1, <1>2, <1>3, <2>1 DEF LastOf, Chained, t
<1>4. CASE t # <<>>
  <2>1. Len(t) # 0 /\ t[1] = q[2] /\ t[Len(t)] = q[Len(q)] /\ 1 \in 1..(Len(q) - 1) /\ 1 + 1 = 2
    BY SMT, <1>1, <1>4
  <2>2. Follows(q[1], q[2])
    BY <2>1 DEF Chained
  <2>3. ASSUME NEW k \in 1..(Len(t) - 1) PROVE Follows(t[k], t[k + 1])
    <3>1. /\ k + 1 \in 1..(Len(q) - 1) /\ t[k] = q[k + 1] /\ t[k + 1] = q[(k + 1) + 1]
      BY SMT, <1>1
    <3> QED
      BY <3>1 DEF Chained
  <2>4. Chained(Head(q), t)
    BY <1>1, <2>1, <2>2, <2>3 DEF Chained
  <2>5. LastOf(Head(q), t) = LastOf(before, q)
    BY <1>4, <2>1 DEF LastOf
  <2> QED
    BY <1>1, <1>2, <2>4, <2>5 DEF t
<1> QED
  BY <1>3, <1>4

(* The part of the invariant about the events, and the part about time.     *)
Told == EventsFollowLadder /\ LadderIsPublished
Paced == RenewalsArePaced /\ DegradedHasNoLease

(* The late report follows from the pacing.                                 *)
LEMMA PacedIsReported ==
  ASSUME RenewTypeOK, RenewalsArePaced
  PROVE  ExpiryIsReported
<1>1. NoLease >= -Lateness /\ Lateness \in Nat
  BY SMT, Fractions
<1>2. CASE renewer = "wait"
  BY SMT, <1>1, <1>2, Fractions DEF RenewTypeOK, RenewalsArePaced, ExpiryIsReported, Slack
<1>3. CASE renewer = "call"
  BY SMT, <1>1, <1>3, Fractions DEF RenewTypeOK, RenewalsArePaced, ExpiryIsReported
<1> QED
  BY <1>2, <1>3 DEF RenewTypeOK, ExpiryIsReported

LEMMA RenewWhole == (RenewTypeOK /\ Told /\ Paced => RenewInv)'
<1>1. RenewTypeOK /\ Told /\ Paced => RenewInv
  BY PacedIsReported DEF RenewInv, Told, Paced
<1> QED
  BY <1>1, PTL

(* A step that publishes nothing and delivers nothing.                      *)
LEMMA NothingTold ==
  ASSUME Told, UNCHANGED <<queue, seen, callback, lostFired, degraded>>
  PROVE  Told'
BY DEF Told, EventsFollowLadder, LadderIsPublished, Delivered, Published

(* A step outside the timers and the exchange.                              *)
LEMMA NothingPaced ==
  ASSUME Paced, UNCHANGED <<deadline, timer, spent, slept, renewer, failed, degraded>>
  PROVE  Paced'
BY DEF Paced, RenewalsArePaced, DegradedHasNoLease, Slack

(* Once the loop is over only the ladder counts.                            *)
LEMMA ExitPaced ==
  ASSUME RenewTypeOK, Paced, renewer' = "exited", UNCHANGED <<deadline, degraded>>,
         deadline # NoLease => failed' <= 1
  PROVE  Paced'
BY DEF Paced, RenewalsArePaced, DegradedHasNoLease

(* LOST follows every event but LOST, and ends the loop.                    *)
LEMMA LoseTold ==
  ASSUME NEW pending \in Seq(Events), Chained(Delivered, pending),
         LastOf(Delivered, pending) # "lost",
         callback # Silence => Follows(seen, callback),
         Lose(pending), UNCHANGED <<seen, callback>>
  PROVE  Told' /\ queue' \in Seq(Events) /\ lostFired' = TRUE /\ renewer' = "exited" /\ timer' = 0
<1>1. Follows(LastOf(Delivered, pending), "lost") /\ "lost" \in Events
  BY DEF Follows, Events
<1>2. queue' = Append(pending, "lost") /\ lostFired' = TRUE /\ renewer' = "exited" /\ timer' = 0
      /\ Delivered' = Delivered
  BY DEF Lose, Exit, Delivered
<1>3. Append(pending, "lost") \in Seq(Events) /\ Chained(Delivered, Append(pending, "lost"))
  BY <1>1, AppendChain
<1> QED
  BY <1>2, <1>3 DEF Told, EventsFollowLadder, LadderIsPublished

(* What a renewal that goes on may count on.                                *)
LEMMA RenewFacts ==
  ASSUME RenewInv, renewer \in {"wait", "call"}
  PROVE  /\ RenewTypeOK /\ Told /\ Paced /\ lostFired = FALSE /\ releaser # "returned"
         /\ queue \in Seq(Events) /\ Chained(Delivered, queue)
         /\ (callback # Silence => Follows(seen, callback))
         /\ Published = LastOf(Delivered, queue)
         /\ Published # "lost" /\ (degraded <=> Published = "degraded")
         /\ Published \in Events \cup {Silence}
<1>1. RenewTypeOK /\ Told /\ Paced
  BY DEF RenewInv, Told, Paced
<1>2. lostFired = FALSE /\ releaser # "returned" /\ queue \in Seq(Events)
  BY <1>1 DEF RenewTypeOK
<1>3. Published \in Events \cup {Silence}
  <2>1. Delivered \in Events \cup {Silence}
    BY <1>1 DEF RenewTypeOK, Delivered
  <2>2. queue # <<>> => queue[Len(queue)] \in Events
    BY SMT, <1>2
  <2> QED
    BY <2>1, <2>2 DEF Published, LastOf
<1> QED
  BY <1>1, <1>2, <1>3 DEF Told, EventsFollowLadder, LadderIsPublished, Published


(* The timer fires: an exchange begins, or the margin is crossed and the    *)
(* mapping is lost.                                                         *)
LEMMA FireStep ==
  ASSUME RenewInv, Fire
  PROVE  RenewInv'
<1>1. /\ RenewTypeOK /\ Told /\ Paced /\ queue \in Seq(Events) /\ Chained(Delivered, queue)
      /\ (callback # Silence => Follows(seen, callback)) /\ LastOf(Delivered, queue) # "lost"
      /\ renewer = "wait" /\ timer = 0 /\ releaser # "returned"
  BY RenewFacts DEF Fire
<1>2. /\ spent' = 0
      /\ UNCHANGED <<grant, endpoint, rebooted, deadline, slept, stop, failed, degraded, degradedFired,
                     seen, callback, releaser>>
  BY DEF Fire, gatewayVars, deliveryVars
<1>2a. 0 \in 0..CallBudget
  BY SMT, Fractions
<1>3. CASE WithinExpiryMargin
  <2>1. Lose(queue) /\ UNCHANGED <<seen, callback>>
    BY <1>2, <1>3 DEF Fire
  <2>2. Told' /\ queue' \in Seq(Events) /\ lostFired' = TRUE /\ renewer' = "exited" /\ timer' = 0
    BY <1>1, <2>1, LoseTold
  <2>3. deadline # NoLease => failed' <= 1
    BY <1>1, <1>2 DEF Paced, RenewalsArePaced
  <2>4. Paced'
    BY <1>1, <1>2, <2>2, <2>3, ExitPaced
  <2>5. RenewTypeOK'
    BY SMT, <1>1, <1>2, <1>2a, <2>2 DEF RenewTypeOK
  <2> QED
    BY <2>2, <2>4, <2>5, RenewWhole
<1>4. CASE ~WithinExpiryMargin
  <2>1. renewer' = "call" /\ UNCHANGED <<timer, lostFired, queue>>
    BY <1>4 DEF Fire
  <2>2. Told'
    BY <1>1, <1>2, <2>1, NothingTold
  <2>3. RenewTypeOK'
    BY SMT, <1>1, <1>2, <1>2a, <2>1 DEF RenewTypeOK
  <2>4. Paced'
    <3>1. deadline > Margin
      BY SMT, <1>1, <1>4, Fractions DEF WithinExpiryMargin, RenewTypeOK
    <3>2. RenewalsArePaced'
      BY SMT, <1>1, <1>2, <2>1, <3>1, Fractions DEF Paced, RenewalsArePaced, Slack, RenewTypeOK
    <3> QED
      BY <1>1, <1>2, <3>2 DEF Paced, DegradedHasNoLease
  <2> QED
    BY <2>2, <2>3, <2>4, RenewWhole
<1> QED
  BY <1>3, <1>4

(* The loop rearms its timer after an exchange that did not extend the      *)
(* lease: what follows falls into the margin.                               *)
LEMMA RearmPaced ==
  ASSUME RenewTypeOK, Paced, renewer = "call", Rearm, deadline' = deadline,
         slept' = slept \/ (deadline = NoLease /\ slept' \in BOOLEAN),
         failed' \in 0..3, deadline # NoLease => failed' <= 1,
         degraded' => deadline = NoLease
  PROVE  Paced' /\ timer' \in 0..(Interval + Margin)
<1>1. PICK j \in Jitters : timer' = Interval + j
  BY DEF Rearm
<1>2. renewer' = "wait"
  BY DEF Rearm
<1>3. timer' \in 0..(Interval + Margin)
  BY SMT, <1>1, Fractions
<1>4. RenewalsArePaced'
  BY SMT, <1>1, <1>2, Fractions DEF Paced, RenewalsArePaced, Slack, RenewTypeOK
<1> QED
  BY <1>3, <1>4 DEF Paced, DegradedHasNoLease

(* An exchange fails: the third failure in a row degrades, and the margin   *)
(* decides whether the mapping is lost.                                     *)
LEMMA FailStep ==
  ASSUME RenewInv, RenewFails
  PROVE  RenewInv'
<1> DEFINE pending == IF Degrades THEN Append(queue, "degraded") ELSE queue
<1>1. /\ RenewTypeOK /\ Told /\ Paced /\ queue \in Seq(Events) /\ Chained(Delivered, queue)
      /\ (callback # Silence => Follows(seen, callback))
      /\ LastOf(Delivered, queue) # "lost" /\ LastOf(Delivered, queue) \in Events \cup {Silence}
      /\ (degraded <=> LastOf(Delivered, queue) = "degraded")
      /\ renewer = "call" /\ releaser # "returned" /\ lostFired = FALSE
  BY RenewFacts DEF RenewFails
<1>2. /\ failed' = (IF failed < 3 THEN failed + 1 ELSE failed)
      /\ degraded' = (degraded \/ Degrades) /\ degradedFired' = (degradedFired \/ Degrades)
      /\ grant' \in {grant, Lease}
      /\ UNCHANGED <<endpoint, rebooted, deadline, spent, slept, stop, seen, callback, releaser>>
      /\ IF WithinExpiryMargin
         THEN Lose(pending)
         ELSE Rearm /\ queue' = pending /\ UNCHANGED lostFired
  BY DEF RenewFails, deliveryVars
<1>3. /\ failed' \in 0..3 /\ (deadline # NoLease => failed' <= 1 /\ ~Degrades)
      /\ grant' \in 0..Lease \cup {NoLease}
  BY SMT, <1>1, <1>2, Fractions DEF Paced, RenewalsArePaced, RenewTypeOK, Degrades
<1>4. degraded' \in BOOLEAN /\ degradedFired' = degraded' /\ (degraded' => deadline = NoLease)
  BY <1>1, <1>2, <1>3 DEF RenewTypeOK, Degrades, Paced, DegradedHasNoLease
<1>5. /\ pending \in Seq(Events) /\ Chained(Delivered, pending)
      /\ LastOf(Delivered, pending) # "lost"
      /\ (degraded' <=> LastOf(Delivered, pending) = "degraded")
  <2>1. CASE Degrades
    <3>1. ~degraded
      BY <1>1, <2>1 DEF Degrades, RenewTypeOK
    <3>2. LastOf(Delivered, queue) \in {Silence, "recovered"}
      BY <1>1, <3>1 DEF Events
    <3>3. Follows(LastOf(Delivered, queue), "degraded") /\ "degraded" \in Events
      BY <3>2 DEF Follows, Events
    <3>4. /\ Append(queue, "degraded") \in Seq(Events) /\ Chained(Delivered, Append(queue, "degraded"))
          /\ LastOf(Delivered, Append(queue, "degraded")) = "degraded"
      BY SMT, <1>1, <3>3, AppendChain
    <3> QED
      BY <1>2, <2>1, <3>4
  <2>2. CASE ~Degrades
    BY <1>1, <1>2, <2>2
  <2> QED
    BY <2>1, <2>2
<1> HIDE DEF pending
<1>6. CASE WithinExpiryMargin
  <2>1. Lose(pending) /\ UNCHANGED <<seen, callback>>
    BY <1>2, <1>6
  <2>2. Told' /\ queue' \in Seq(Events) /\ lostFired' = TRUE /\ renewer' = "exited" /\ timer' = 0
    BY <1>1, <1>5, <2>1, LoseTold
  <2>3. Paced'
    BY <1>2, <1>3, <1>4, <2>2 DEF Paced, RenewalsArePaced, DegradedHasNoLease
  <2>4. 0 \in 0..(Interval + Lease \div 10)
    BY SMT, Fractions DEF Margin
  <2>5. RenewTypeOK'
    BY <1>1, <1>2, <1>3, <1>4, <2>2, <2>4 DEF RenewTypeOK
  <2> QED
    BY <2>2, <2>3, <2>5, RenewWhole
<1>7. CASE ~WithinExpiryMargin
  <2>1. Rearm /\ queue' = pending /\ lostFired' = lostFired /\ renewer' = "wait"
    BY <1>2, <1>7 DEF Rearm
  <2>2. Paced' /\ timer' \in 0..(Interval + Lease \div 10)
    BY <1>1, <1>2, <1>3, <1>4, <2>1, RearmPaced DEF Margin
  <2>3. Told'
    BY <1>1, <1>2, <1>5, <2>1 DEF Told, EventsFollowLadder, LadderIsPublished, Published, Delivered
  <2>4. RenewTypeOK'
    BY <1>1, <1>2, <1>3, <1>4, <1>5, <2>1, <2>2 DEF RenewTypeOK
  <2> QED
    BY <2>2, <2>3, <2>4, RenewWhole
<1> QED
  BY <1>6, <1>7


(* An exchange succeeds: a lost epoch or endpoint ends the loop, and        *)
(* otherwise the lease, if there is one, starts anew.                       *)
LEMMA AnswerStep ==
  ASSUME RenewInv, NEW lifetime \in {Lease, NoLease}, RenewAnswered(lifetime)
  PROVE  RenewInv'
<1>1. /\ RenewTypeOK /\ Told /\ Paced /\ queue \in Seq(Events) /\ Chained(Delivered, queue)
      /\ (callback # Silence => Follows(seen, callback))
      /\ LastOf(Delivered, queue) # "lost"
      /\ (degraded <=> LastOf(Delivered, queue) = "degraded")
      /\ renewer = "call" /\ releaser # "returned" /\ lostFired = FALSE
  BY RenewFacts DEF RenewAnswered
<1>2. /\ failed' = 0 /\ grant' = lifetime /\ rebooted' = FALSE
      /\ UNCHANGED <<endpoint, spent, stop, seen, callback, releaser>>
  BY DEF RenewAnswered, deliveryVars
<1>2a. slept' = (slept /\ lifetime = NoLease) /\ slept' \in BOOLEAN
  BY DEF RenewAnswered
<1>2b. slept' \in BOOLEAN
  BY <1>2a
<1>3. /\ failed' \in 0..3 /\ failed' <= 1 /\ grant' \in 0..Lease \cup {NoLease}
      /\ 0 \in 0..(Interval + Lease \div 10)
  BY SMT, <1>1, <1>2, Fractions DEF RenewTypeOK, Margin
<1>4. CASE rebooted \/ ~endpoint
  <2>1. Lose(queue) /\ UNCHANGED <<seen, callback, deadline, degraded, degradedFired>>
    BY <1>2, <1>4 DEF RenewAnswered
  <2>2. Told' /\ queue' \in Seq(Events) /\ lostFired' = TRUE /\ renewer' = "exited" /\ timer' = 0
    BY <1>1, <2>1, LoseTold
  <2>3. Paced'
    BY <1>1, <1>3, <2>1, <2>2, ExitPaced
  <2>4. RenewTypeOK'
    BY <1>1, <1>2, <1>2b, <1>3, <2>1, <2>2 DEF RenewTypeOK
  <2> QED
    BY <2>2, <2>3, <2>4, RenewWhole
<1>5. CASE ~(rebooted \/ ~endpoint)
  <2>1. /\ Rearm /\ Recovers /\ lostFired' = lostFired /\ renewer' = "wait"
        /\ deadline' = IF lifetime = NoLease THEN deadline ELSE lifetime
    BY <1>5 DEF RenewAnswered, Rearm
  <2>2. /\ queue' \in Seq(Events) /\ Chained(Delivered, queue') /\ LastOf(Delivered, queue') \notin {"lost", "degraded"}
        /\ degraded' = FALSE /\ degradedFired' = FALSE
    <3>1. CASE degraded
      <4>1. Follows(LastOf(Delivered, queue), "recovered") /\ "recovered" \in Events
        BY <1>1, <3>1 DEF Follows, Events
      <4>2. queue' = Append(queue, "recovered") /\ degraded' = FALSE /\ degradedFired' = FALSE
        BY <2>1, <3>1 DEF Recovers
      <4>3. /\ Append(queue, "recovered") \in Seq(Events) /\ Chained(Delivered, Append(queue, "recovered"))
            /\ LastOf(Delivered, Append(queue, "recovered")) = "recovered"
        BY SMT, <1>1, <4>1, AppendChain
      <4> QED
        BY <4>2, <4>3
    <3>2. CASE ~degraded
      BY <1>1, <2>1, <3>2 DEF Recovers, RenewTypeOK
    <3> QED
      BY <3>1, <3>2
  <2>3. Told'
    BY <1>2, <2>1, <2>2, <1>1 DEF Told, EventsFollowLadder, LadderIsPublished, Published, Delivered
  <2>4. Paced' /\ timer' \in 0..(Interval + Lease \div 10) /\ deadline' \in (-Lateness - 1)..Lease \cup {NoLease}
    <3>1. CASE lifetime = NoLease
      <4>1. slept' = slept /\ deadline' = deadline /\ (deadline # NoLease => failed' <= 1)
        BY <1>1, <1>2, <1>2a, <1>3, <2>1, <3>1 DEF RenewTypeOK
      <4>2. Paced' /\ timer' \in 0..(Interval + Margin)
        BY <1>1, <1>3, <2>1, <2>2, <4>1, RearmPaced
      <4> QED
        BY <1>1, <4>1, <4>2 DEF Margin, RenewTypeOK
    <3>2. CASE lifetime # NoLease
      <4>1. PICK j \in Jitters : timer' = Interval + j
        BY <2>1 DEF Rearm
      <4>2. deadline' = Lease
        BY <2>1, <3>2
      <4>3. RenewalsArePaced'
        BY SMT, <1>2, <2>1, <4>1, <4>2, Fractions DEF RenewalsArePaced, Slack
      <4>4. timer' \in 0..(Interval + Lease \div 10) /\ deadline' \in (-Lateness - 1)..Lease \cup {NoLease}
        BY SMT, <4>1, <4>2, Fractions DEF Margin
      <4> QED
        BY <2>2, <4>3, <4>4 DEF Paced, DegradedHasNoLease
    <3> QED
      BY <3>1, <3>2
  <2>5. RenewTypeOK'
    BY <1>1, <1>2, <1>2b, <1>3, <2>1, <2>2, <2>4 DEF RenewTypeOK
  <2> QED
    BY <2>3, <2>4, <2>5, RenewWhole
<1> QED
  BY <1>4, <1>5

(* The dispatcher hands the oldest event to its callback, or the callback   *)
(* returns.                                                                 *)
LEMMA DeliverStep ==
  ASSUME RenewInv, Delivery
  PROVE  RenewInv'
<1>1. RenewTypeOK /\ Told /\ Paced /\ queue \in Seq(Events)
  BY DEF RenewInv, RenewTypeOK, Told, Paced
<1>2. UNCHANGED <<grant, endpoint, rebooted, deadline, failed, degraded, degradedFired, lostFired, slept,
                  timer, spent, renewer, stop, releaser>>
  BY DEF Delivery, Dispatch, CallbackReturns, gatewayVars, ladderVars
<1>3. Paced'
  BY <1>1, <1>2, NothingPaced
<1>4. CASE Dispatch
  <2>1. callback = Silence /\ queue # <<>> /\ callback' = Head(queue) /\ queue' = Tail(queue) /\ seen' = seen
    BY <1>4 DEF Dispatch
  <2>2. Delivered = seen /\ Chained(seen, queue)
    BY <1>1, <2>1 DEF Told, EventsFollowLadder, Delivered
  <2>3. /\ Head(queue) \in Events /\ Tail(queue) \in Seq(Events)
        /\ Follows(seen, Head(queue)) /\ Chained(Head(queue), Tail(queue))
        /\ LastOf(Head(queue), Tail(queue)) = LastOf(seen, queue)
    BY <1>1, <2>1, <2>2, TailChain
  <2>4. Delivered' = callback' /\ Published' = Published
    BY <2>1, <2>2, <2>3 DEF Delivered, Published, Events, Silence
  <2>5. Told'
    BY <1>1, <1>2, <2>1, <2>3, <2>4 DEF Told, EventsFollowLadder, LadderIsPublished
  <2>6. RenewTypeOK'
    BY SMT, <1>1, <1>2, <2>1, <2>3 DEF RenewTypeOK
  <2> QED
    BY <1>3, <2>5, <2>6, RenewWhole
<1>5. CASE CallbackReturns
  <2>1. callback # Silence /\ seen' = callback /\ callback' = Silence /\ queue' = queue
    BY <1>5 DEF CallbackReturns
  <2>2. Delivered' = Delivered /\ Published' = Published
    BY <2>1 DEF Delivered, Published
  <2>3. Told'
    BY <1>1, <1>2, <2>1, <2>2 DEF Told, EventsFollowLadder, LadderIsPublished
  <2>4. RenewTypeOK'
    BY SMT, <1>1, <1>2, <2>1 DEF RenewTypeOK
  <2> QED
    BY <1>3, <2>3, <2>4, RenewWhole
<1> QED
  BY <1>4, <1>5 DEF Delivery


(* Release and the end of the loop: nothing is published or delivered.      *)
LEMMA EndOfLoopStep ==
  ASSUME RenewInv, StopSeen \/ Stopping
  PROVE  RenewInv'
<1>1. RenewTypeOK /\ Told /\ Paced
  BY DEF RenewInv, Told, Paced
<1>2. UNCHANGED <<grant, endpoint, rebooted, deadline, failed, degraded, degradedFired, lostFired, slept,
                  spent, queue, seen, callback>>
  BY DEF StopSeen, Stopping, Release, Joined, gatewayVars, ladderVars, deliveryVars
<1>3. Told'
  BY <1>1, <1>2, NothingTold
<1>4. CASE StopSeen
  <2>1. renewer' = "exited" /\ timer' = 0 /\ UNCHANGED <<stop, releaser>>
    BY <1>4 DEF StopSeen, Exit, deliveryVars
  <2>2. 0 \in 0..(Interval + Lease \div 10)
    BY SMT, Fractions DEF Margin
  <2>3. RenewTypeOK'
    BY SMT, <1>1, <1>2, <2>1, <2>2 DEF RenewTypeOK
  <2>4. deadline # NoLease => failed' <= 1
    BY <1>1, <1>2 DEF Paced, RenewalsArePaced
  <2>5. Paced'
    BY <1>1, <1>2, <2>1, <2>4, ExitPaced
  <2> QED
    BY <1>3, <2>3, <2>5, RenewWhole
<1>5. CASE Stopping
  <2>1. /\ UNCHANGED <<timer, renewer>> /\ stop' \in BOOLEAN
        /\ releaser' \in {"caller", "callback", "returned"} /\ (releaser' = "returned" => renewer = "exited")
    BY <1>1, <1>5 DEF Stopping, Release, Joined, RenewTypeOK
  <2>2. RenewTypeOK'
    BY SMT, <1>1, <1>2, <2>1 DEF RenewTypeOK
  <2>3. Paced'
    BY <1>1, <1>2, <2>1, NothingPaced
  <2> QED
    BY <1>3, <2>2, <2>3, RenewWhole
<1> QED
  BY <1>4, <1>5

(* The gateway restarts or moves the mapping, behind the back of the loop. *)
LEMMA GatewayStep ==
  ASSUME RenewInv, GatewayReboots \/ GatewayRewrites
  PROVE  RenewInv'
<1>1. RenewTypeOK /\ Told /\ Paced
  BY DEF RenewInv, Told, Paced
<1>2. UNCHANGED <<deadline, failed, degraded, degradedFired, lostFired, slept, timer, spent, renewer,
                  stop, queue, seen, callback, releaser>>
  BY DEF GatewayReboots, GatewayRewrites, ladderVars, deliveryVars
<1>3. Told' /\ Paced'
  BY <1>1, <1>2, NothingTold, NothingPaced
<1>4. 0 \in 0..Lease
  BY SMT, Fractions
<1>5. grant' \in 0..Lease \cup {NoLease} /\ endpoint' \in BOOLEAN /\ rebooted' \in BOOLEAN
  BY <1>1, <1>4 DEF GatewayReboots, GatewayRewrites, RenewTypeOK
<1>6. RenewTypeOK'
  BY SMT, <1>1, <1>2, <1>5 DEF RenewTypeOK
<1> QED
  BY <1>3, <1>6, RenewWhole

(* The clocks run on together, in each by as much as it has left.           *)
LEMMA ElapseTyped ==
  ASSUME RenewTypeOK, NEW t \in Nat, Elapse(t)
  PROVE  /\ grant' \in 0..Lease \cup {NoLease} /\ grant' <= grant
         /\ deadline' \in (-Lateness - 1)..Lease \cup {NoLease}
         /\ timer' \in 0..(Interval + Lease \div 10)
         /\ deadline = NoLease <=> deadline' = NoLease
<1>1. grant' \in 0..Lease \cup {NoLease} /\ grant' <= grant
  BY SMT, Fractions DEF RenewTypeOK, Elapse
<1>2. timer' \in 0..(Interval + Lease \div 10)
  BY SMT, Fractions DEF RenewTypeOK, Elapse
<1>3. deadline' \in (-Lateness - 1)..Lease \cup {NoLease} /\ (deadline = NoLease <=> deadline' = NoLease)
  BY SMT, Fractions DEF RenewTypeOK, Elapse
<1> QED
  BY <1>1, <1>2, <1>3

(* Time passes, in ticks or in a suspension of the process.                 *)
LEMMA TimeStep ==
  ASSUME RenewInv, Tick \/ Suspend
  PROVE  RenewInv'
<1>1. RenewTypeOK /\ Told /\ Paced
  BY DEF RenewInv, Told, Paced
<1>2. UNCHANGED <<endpoint, rebooted, renewer, stop, failed, degraded, degradedFired, lostFired, queue,
                  seen, callback, releaser>>
  BY DEF Tick, Suspend, deliveryVars
<1>3. Told'
  BY <1>1, <1>2, NothingTold
<1>4. 1 \in Nat /\ Pause \in Nat
  BY SMT, Fractions
<1>5. PICK t \in Nat : Elapse(t) /\ (Tick => t = 1)
  BY <1>4 DEF Tick, Suspend
<1>6. /\ grant' \in 0..Lease \cup {NoLease}
      /\ deadline' \in (-Lateness - 1)..Lease \cup {NoLease}
      /\ timer' \in 0..(Interval + Lease \div 10)
      /\ deadline = NoLease <=> deadline' = NoLease
  BY <1>1, <1>5, ElapseTyped
<1>7. spent' \in 0..CallBudget
  BY SMT, <1>1, Fractions DEF Tick, Suspend, RenewTypeOK
<1>8. slept' \in BOOLEAN
  BY <1>1 DEF Tick, Suspend, RenewTypeOK
<1>9. RenewTypeOK'
  BY SMT, <1>1, <1>2, <1>6, <1>7, <1>8 DEF RenewTypeOK
<1>10. RenewalsArePaced'
  <2>1. CASE Tick
    <3>1. CASE renewer = "wait"
      BY SMT, <1>1, <1>2, <2>1, <3>1, Fractions
      DEF Tick, Elapse, Paced, RenewalsArePaced, Slack, RenewTypeOK
    <3>2. CASE renewer = "call"
      BY SMT, <1>1, <1>2, <2>1, <3>2, Fractions
      DEF Tick, Elapse, Paced, RenewalsArePaced, RenewTypeOK
    <3>3. CASE renewer = "exited"
      BY <1>1, <1>2, <1>6, <3>3 DEF Paced, RenewalsArePaced
    <3> QED
      BY <1>1, <3>1, <3>2, <3>3 DEF RenewTypeOK
  <2>2. CASE Suspend
    BY SMT, <1>1, <1>2, <2>2, Fractions
    DEF Suspend, Elapse, Paced, RenewalsArePaced, Slack, RenewTypeOK
  <2> QED
    BY <2>1, <2>2
<1>11. Paced'
  BY <1>1, <1>2, <1>6, <1>10 DEF Paced, DegradedHasNoLease
<1> QED
  BY <1>3, <1>9, <1>11, RenewWhole

(* startRenewal: a fresh lease, an armed timer, nothing published.          *)
LEMMA RenewInitial == RenewInit => RenewInv
<1> SUFFICES ASSUME RenewInit PROVE RenewTypeOK /\ Told /\ Paced
  BY PacedIsReported DEF RenewInv, Told, Paced
<1>1. PICK j \in Jitters : timer = Interval + j
  BY DEF RenewInit
<1>2. /\ timer \in 0..(Interval + Lease \div 10) /\ 0 \in 0..CallBudget /\ 0 \in 0..3
      /\ grant \in 0..Lease \cup {NoLease} /\ deadline \in (-Lateness - 1)..Lease \cup {NoLease}
  BY SMT, <1>1, Fractions DEF RenewInit, Margin
<1>3. <<>> \in Seq(Events)
  BY SMT
<1>4. RenewTypeOK
  BY <1>2, <1>3 DEF RenewInit, RenewTypeOK
<1>5. 1..(Len(queue) - 1) = {}
  BY SMT DEF RenewInit
<1>6. Told
  BY <1>5 DEF RenewInit, Told, EventsFollowLadder, LadderIsPublished, Published, Delivered, Chained, LastOf, Silence
<1>7. Paced
  <2>1. RenewalsArePaced
    BY SMT, <1>1, Fractions DEF RenewInit, RenewalsArePaced, Slack
  <2> QED
    BY <2>1 DEF RenewInit, Paced, DegradedHasNoLease
<1> QED
  BY <1>4, <1>6, <1>7

(* Every step keeps the invariant.                                          *)
LEMMA RenewSteps == RenewInv /\ [RenewNext]_renewVars => RenewInv'
<1> SUFFICES ASSUME RenewInv, [RenewNext]_renewVars PROVE RenewInv'
  OBVIOUS
<1>1. CASE UNCHANGED renewVars
  <2>1. RenewTypeOK /\ Told /\ Paced
    BY DEF RenewInv, Told, Paced
  <2>2. Told' /\ Paced'
    BY <1>1, <2>1, NothingTold, NothingPaced DEF renewVars
  <2>3. RenewTypeOK'
    BY SMT, <1>1, <2>1 DEF renewVars, RenewTypeOK
  <2> QED
    BY <2>2, <2>3, RenewWhole
<1>2. CASE RenewNext
  BY <1>2, FireStep, FailStep, AnswerStep, DeliverStep, EndOfLoopStep, GatewayStep, TimeStep
  DEF RenewNext, RenewalLoop
<1> QED
  BY <1>1, <1>2

(* For every lease, exchange time and suspension, callbacks hear the ladder *)
(* in order, a lease that ran out is reported in time, and DEGRADED is told *)
(* only of a mapping without a lease.                                       *)
THEOREM RenewSafe == RenewSpec => []RenewInv
BY RenewInitial, RenewSteps, PTL DEF RenewSpec

(* Once LOST is published or Release returned, no exchange extends the      *)
(* mapping: the loop has exited, and the join waited for that.              *)
THEOREM LostIsNeverRevived == RenewSpec => NeverRevived
<1>1. RenewInv /\ [RenewNext]_renewVars => [lostFired \/ releaser = "returned" => grant' <= grant]_renewVars
  <2> SUFFICES ASSUME RenewInv, RenewNext, renewer = "exited"
               PROVE  grant' <= grant
    BY DEF RenewInv, RenewTypeOK
  <2>1. RenewTypeOK
    BY DEF RenewInv
  <2>2. ~RenewalLoop /\ ~Suspend
    BY DEF RenewalLoop, Fire, RenewFails, StopSeen, RenewAnswered, Suspend
  <2>3. CASE Tick
    <3>1. 1 \in Nat
      BY SMT
    <3> QED
      BY <2>1, <2>3, <3>1, ElapseTyped DEF Tick
  <2>4. CASE GatewayReboots
    BY SMT, <2>1, <2>4, Fractions DEF GatewayReboots, RenewTypeOK
  <2>5. grant <= grant
    BY SMT, <2>1, Fractions DEF RenewTypeOK
  <2>6. CASE Delivery \/ Stopping \/ GatewayRewrites
    <3>1. grant' = grant
      BY <2>6 DEF Delivery, Dispatch, CallbackReturns, Stopping, Release, Joined, GatewayRewrites, gatewayVars
    <3> QED
      BY <2>5, <3>1
  <2> QED
    BY <2>2, <2>3, <2>4, <2>6 DEF RenewNext
<1> QED
  BY <1>1, RenewSafe, PTL DEF RenewSpec, NeverRevived
------------------------------------------------------------------------------
Charging == {"dialing", "proxy", "closing"}
Fits == \A s \in Conns : SocketsFit(sess[s], HeldByLoop(s))
Exact == budget = Cardinality(ChargedConns) /\ (MaxConnections > 0 => budget <= MaxConnections)
LoopTyped ==
    /\ loop \in {"idle", "accept", "reserve", "admit", "track", "backoff", "done"}
    /\ hand \in MayHold
ProbeTyped ==
    workers \subseteq ProbeConns /\ probed \subseteq ProbeConns /\ Cardinality(workers) <= MaxConcurrent
SessionTyped == sess \in [Conns -> Sessions] /\ budget \in Nat
CloseTyped ==
    /\ listener \in {"open", "closed"} /\ targets \subseteq Conns
    /\ gate \in [closed : BOOLEAN, complete : BOOLEAN, err : CloseErrors]
    /\ closed \in BOOLEAN /\ cancelled \in BOOLEAN
    /\ watcher \in {"none", "armed", "fired", "closing", "done"}
    /\ attempt \in {"none", "mark", "listener", "closing", "join", "sessions"}
    /\ complete \in [done : BOOLEAN, err : CloseErrors]
    /\ owner \in {"none", "wants", "waiting", "failed", "nil", "closed"}
    /\ closeFails \in 0..MaxCloseFailures
SessionPart == Exact /\ HalfCloseIsHonoured /\ Fits
ClosePart == ClosedIsDrained /\ CloseInOrder

(* A socket outside the hand of the loop belongs to a charged session, so   *)
(* that the exact budget bounds the sockets.                                *)
LEMMA TcpWhole ==
  (LoopTyped /\ ProbeTyped /\ SessionTyped /\ CloseTyped /\ SessionPart /\ ClosePart => TcpInv)'
<1>1. LoopTyped /\ ProbeTyped /\ SessionTyped /\ CloseTyped /\ SessionPart /\ ClosePart => TcpInv
  <2> SUFFICES ASSUME LoopTyped, ProbeTyped, SessionTyped, CloseTyped, SessionPart, ClosePart PROVE TcpInv
    OBVIOUS
  <2>0. TcpTypeOK
    BY DEF TcpTypeOK, LoopTyped, ProbeTyped, SessionTyped, CloseTyped
  <2> DEFINE S == {s \in Conns : sess[s].stage # "hand" /\ (sess[s].client \/ sess[s].target)}
  <2>1. S \subseteq ChargedConns
    BY <2>0 DEF TcpTypeOK, Sessions, SessionStages, SessionPart, Fits, SocketsFit, ChargedConns
  <2>2. IsFiniteSet(Conns) /\ ChargedConns \subseteq Conns
    BY TcpAssumption DEF ChargedConns
  <2>3. IsFiniteSet(ChargedConns)
    BY <2>2, FS_Subset
  <2>4. Cardinality(S) <= Cardinality(ChargedConns)
    BY <2>1, <2>3, FS_Subset
  <2>5. Cardinality(S) \in Nat /\ Cardinality(ChargedConns) \in Nat
    BY <2>1, <2>3, FS_Subset, FS_CardinalityType
  <2>6. MaxConnections > 0 => Cardinality(S) <= MaxConnections
    BY SMT, <2>4, <2>5, TcpAssumption DEF SessionPart, Exact
  <2> QED
    BY <2>0, <2>6 DEF TcpInv, SessionPart, ClosePart, Exact, BudgetBoundsSockets, Fits
<1> QED
  BY <1>1, PTL

(* The invariant by its parts, and the charges it counts.                   *)
LEMMA TcpParts ==
  ASSUME TcpInv
  PROVE  /\ LoopTyped /\ ProbeTyped /\ SessionTyped /\ CloseTyped /\ SessionPart /\ ClosePart
         /\ IsFiniteSet(ChargedConns) /\ Cardinality(ChargedConns) \in Nat
<1>1. IsFiniteSet(Conns) /\ ChargedConns \subseteq Conns
  BY TcpAssumption DEF ChargedConns
<1>2. IsFiniteSet(ChargedConns)
  BY <1>1, FS_Subset
<1>3. LoopTyped /\ ProbeTyped /\ SessionTyped /\ CloseTyped
  BY DEF TcpInv, TcpTypeOK, LoopTyped, ProbeTyped, SessionTyped, CloseTyped
<1> QED
  BY <1>2, <1>3, FS_CardinalityType DEF TcpInv, SessionPart, ClosePart, Exact, BudgetBoundsSockets, Fits

(* What a step leaves alone stays well formed.                              *)
LEMMA LoopKept ==
  ASSUME LoopTyped, UNCHANGED <<loop, hand>>
  PROVE  LoopTyped'
<1>1. MayHold' = MayHold
  BY DEF MayHold
<1> QED
  BY <1>1 DEF LoopTyped

(* The probe workers.                                                       *)
LEMMA ProbeKept ==
  ASSUME ProbeTyped, UNCHANGED <<workers, probed>>
  PROVE  ProbeTyped'
BY DEF ProbeTyped

(* The close in progress.                                                   *)
LEMMA CloseKept ==
  ASSUME CloseTyped,
         UNCHANGED <<listener, gate, closed, cancelled, watcher, attempt, targets, complete, owner, closeFails>>
  PROVE  CloseTyped'
BY SMT DEF CloseTyped

(* The set of charges gains or loses one session.                           *)
LEMMA ChargeMoves ==
  ASSUME TcpInv, NEW s \in Conns
  PROVE  /\ s \notin ChargedConns => Cardinality(ChargedConns \cup {s}) = budget + 1
         /\ s \in ChargedConns => Cardinality(ChargedConns \ {s}) = budget - 1 /\ budget >= 1
<1>1. IsFiniteSet(ChargedConns) /\ budget = Cardinality(ChargedConns) /\ Cardinality(ChargedConns) \in Nat
  BY TcpParts DEF SessionPart, Exact
<1>2. s \notin ChargedConns => Cardinality(ChargedConns \cup {s}) = budget + 1
  BY <1>1, FS_AddElement
<1>3. s \in ChargedConns => Cardinality(ChargedConns \ {s}) = budget - 1
  BY <1>1, FS_RemoveElement
<1>4. IsFiniteSet(ChargedConns \ {s})
  BY <1>1, FS_Subset
<1>5. Cardinality(ChargedConns \ {s}) \in Nat
  BY <1>4, FS_CardinalityType
<1> QED
  BY SMT, <1>1, <1>2, <1>3, <1>5

(* A step that leaves the sessions alone, and the connection the loop has   *)
(* under charge.                                                            *)
LEMMA SessionsKept ==
  ASSUME SessionPart, UNCHANGED <<sess, budget>>,
         \/ UNCHANGED <<loop, hand>>
         \/ loop \notin {"reserve", "admit"} /\ loop' \notin {"reserve", "admit"}
  PROVE  SessionPart'
<1>1. \A s \in Conns : HeldByLoop(s)' <=> HeldByLoop(s)
  BY DEF HeldByLoop
<1>2. ChargedConns' = ChargedConns
  BY DEF ChargedConns
<1> QED
  BY <1>1, <1>2 DEF SessionPart, Exact, HalfCloseIsHonoured, Fits, SocketsFit

(* What the invariant says of one session.                                  *)
Sound(r, inHand) ==
    SocketsFit(r, inHand) /\ (r.stage = "proxy" /\ ~r.shut => r.client /\ r.target)

(* One session moves, and the loop holds or drops it.                       *)
LEMMA SessionMoves ==
  ASSUME TcpInv, NEW s \in Conns, NEW r \in Sessions, sess' = [sess EXCEPT ![s] = r],
         Sound(r, HeldByLoop(s)'), \A t \in Conns : t # s => (HeldByLoop(t)' <=> HeldByLoop(t)),
         \/ ChargedConns' = ChargedConns /\ budget' = budget
         \/ s \notin ChargedConns /\ ChargedConns' = ChargedConns \cup {s} /\ budget' = budget + 1
            /\ (MaxConnections > 0 => budget < MaxConnections)
         \/ s \in ChargedConns /\ ChargedConns' = ChargedConns \ {s} /\ budget' = budget - 1
  PROVE  SessionPart' /\ SessionTyped'
<1>1. /\ Exact /\ HalfCloseIsHonoured /\ Fits /\ Cardinality(ChargedConns) \in Nat
      /\ sess \in [Conns -> Sessions]
  BY TcpParts DEF SessionPart, SessionTyped
<1>2. sess'[s] = r /\ sess' \in [Conns -> Sessions] /\ \A t \in Conns : t # s => sess'[t] = sess[t]
  BY <1>1
<1>3. Fits'
  <2> SUFFICES ASSUME NEW t \in Conns PROVE SocketsFit(sess'[t], HeldByLoop(t)')
    BY DEF Fits
  <2>1. CASE t = s
    BY <1>2, <2>1 DEF Sound
  <2>2. CASE t # s
    BY <1>1, <1>2, <2>2 DEF Fits, SocketsFit
  <2> QED
    BY <2>1, <2>2
<1>4. HalfCloseIsHonoured'
  BY <1>1, <1>2 DEF HalfCloseIsHonoured, Sound
<1>5. budget' = Cardinality(ChargedConns)'
  BY <1>1, ChargeMoves DEF Exact
<1>6. budget' \in Nat /\ (MaxConnections > 0 => budget' <= MaxConnections)
  <2>1. \/ budget' = budget
        \/ budget' = budget + 1 /\ (MaxConnections > 0 => budget < MaxConnections)
        \/ budget' = budget - 1 /\ budget >= 1
    BY ChargeMoves
  <2>2. budget \in Nat /\ (MaxConnections > 0 => budget <= MaxConnections)
    BY <1>1 DEF Exact
  <2> QED
    BY SMT, <2>1, <2>2, TcpAssumption
<1> QED
  BY <1>2, <1>3, <1>4, <1>5, <1>6 DEF SessionPart, Exact, SessionTyped

(* The step of a session goroutine: the dial, the proxy, the cleanup.       *)
LEMMA SessionStepSafe ==
  ASSUME TcpInv, NEW s \in Conns, NEW r \in Sessions, NEW b, SessionStep(s, r, b),
         Sound(r, FALSE), Tracked(s),
         \/ r.stage \in Charging /\ sess[s].stage \in Charging /\ b = budget
         \/ r.stage \notin Charging /\ sess[s].stage \in Charging /\ b = budget - 1
         \/ r.stage \notin Charging /\ sess[s].stage \notin Charging /\ b = budget
  PROVE  TcpInv'
<1>1. LoopTyped /\ ProbeTyped /\ SessionTyped /\ CloseTyped /\ SessionPart /\ ClosePart
  BY TcpParts
<1>2. /\ sess' = [sess EXCEPT ![s] = r] /\ budget' = b
      /\ UNCHANGED <<listener, workers, probed, loop, hand, gate, closed, cancelled, watcher, attempt,
                     targets, complete, owner, closeFails>>
  BY DEF SessionStep, loopVars, closeVars
<1>3. sess'[s] = r /\ \A t \in Conns : t # s => sess'[t] = sess[t]
  BY <1>1, <1>2 DEF SessionTyped
<1>4. sess[s].stage # "hand" /\ ~HeldByLoop(s) /\ ~HeldByLoop(s)'
  BY <1>1, <1>2 DEF Tracked, SessionPart, Fits, SocketsFit, HeldByLoop
<1>5. \/ ChargedConns' = ChargedConns /\ budget' = budget
      \/ s \in ChargedConns /\ ChargedConns' = ChargedConns \ {s} /\ budget' = budget - 1
  <2>1. \A t \in Conns : t # s => (t \in ChargedConns' <=> t \in ChargedConns)
    BY <1>2, <1>3 DEF ChargedConns
  <2>2. (s \in ChargedConns' <=> r.stage \in Charging) /\ (s \in ChargedConns <=> sess[s].stage \in Charging)
    BY <1>3, <1>4 DEF ChargedConns, Charging, HeldByLoop
  <2>3. ChargedConns \subseteq Conns /\ ChargedConns' \subseteq Conns
    BY DEF ChargedConns
  <2>4. CASE r.stage \in Charging <=> sess[s].stage \in Charging
    <3>1. \A t \in Conns : t \in ChargedConns' <=> t \in ChargedConns
      BY <2>1, <2>2, <2>4
    <3>2. ChargedConns' = ChargedConns
      BY <2>3, <3>1
    <3> QED
      BY <1>2, <2>4, <3>2
  <2>5. CASE r.stage \notin Charging /\ sess[s].stage \in Charging
    <3>1. \A t \in Conns : t \in ChargedConns' <=> t \in ChargedConns \ {s}
      BY <2>1, <2>2, <2>5
    <3>2. ChargedConns' = ChargedConns \ {s}
      BY <2>3, <3>1
    <3> QED
      BY <1>2, <2>2, <2>5, <3>2
  <2> QED
    BY <2>4, <2>5
<1>6. \A t \in Conns : HeldByLoop(t)' <=> HeldByLoop(t)
  BY <1>2 DEF HeldByLoop
<1>7. Sound(r, HeldByLoop(s)')
  BY <1>4 DEF Sound, SocketsFit
<1>8. SessionPart' /\ SessionTyped'
  BY <1>2, <1>5, <1>6, <1>7, SessionMoves
<1>9. LoopTyped' /\ ProbeTyped' /\ CloseTyped'
  BY <1>1, <1>2, LoopKept, ProbeKept, CloseKept
<1>10. ClosePart'
  BY <1>1, <1>2 DEF ClosePart, ClosedIsDrained, CloseInOrder
<1> QED
  BY <1>8, <1>9, <1>10, TcpWhole

(* What a session goroutine does to its session.                            *)
LEMMA WorkStep ==
  ASSUME TcpInv, NEW s \in Conns, SessionWork(s) \/ \E d \in Directions : CopyEnds(s, d)
  PROVE  TcpInv'
<1>1. sess[s] \in Sessions /\ SocketsFit(sess[s], HeldByLoop(s))
      /\ (sess[s].stage = "proxy" /\ ~sess[s].shut => sess[s].client /\ sess[s].target)
  BY TcpParts DEF SessionTyped, SessionPart, Fits, HalfCloseIsHonoured
<1>2. Shut(sess[s]) = [sess[s] EXCEPT !.shut = TRUE, !.client = FALSE, !.target = FALSE]
  BY DEF Shut
<1>3. CASE Dialed(s)
  <2> DEFINE r == [sess[s] EXCEPT !.stage = "proxy", !.dirs = Directions, !.target = ~sess[s].shut]
  <2>1. sess[s].stage = "dialing" /\ SessionStep(s, r, budget)
    BY <1>3 DEF Dialed
  <2>2. r \in Sessions /\ r.stage = "proxy" /\ r.client = sess[s].client /\ r.target = ~sess[s].shut
        /\ r.shut = sess[s].shut
    BY <1>1 DEF Sessions, SessionStages
  <2> HIDE DEF r
  <2>3. Sound(r, FALSE)
    BY <1>1, <2>1, <2>2 DEF Sound, SocketsFit
  <2> QED
    BY <2>1, <2>2, <2>3, SessionStepSafe DEF Tracked, Charging
<1>4. CASE DialFails(s) \/ ProxyEnds(s)
  <2> DEFINE r == [Shut(sess[s]) EXCEPT !.stage = "closing"]
  <2>1. sess[s].stage \in {"dialing", "proxy"} /\ SessionStep(s, r, budget)
    BY <1>4 DEF DialFails, ProxyEnds
  <2>2. r \in Sessions /\ r.stage = "closing" /\ r.client = FALSE /\ r.target = FALSE
    BY <1>1, <1>2 DEF Sessions, SessionStages
  <2> HIDE DEF r
  <2>3. Sound(r, FALSE)
    BY <2>2 DEF Sound, SocketsFit
  <2> QED
    BY <2>1, <2>2, <2>3, SessionStepSafe DEF Tracked, Charging
<1>5. CASE \E d \in Directions : CopyEnds(s, d)
  <2> PICK d \in Directions : CopyEnds(s, d)
    BY <1>5
  <2> DEFINE r == [sess[s] EXCEPT !.dirs = @ \ {d}]
  <2>1. sess[s].stage = "proxy" /\ SessionStep(s, r, budget)
    BY DEF CopyEnds
  <2>2. r \in Sessions /\ r.stage = "proxy" /\ r.client = sess[s].client /\ r.target = sess[s].target
        /\ r.shut = sess[s].shut
    BY <1>1, <2>1 DEF Sessions, SessionStages
  <2> HIDE DEF r
  <2>3. Sound(r, FALSE)
    BY <1>1, <2>1, <2>2 DEF Sound, SocketsFit
  <2> QED
    BY <2>1, <2>2, <2>3, SessionStepSafe DEF Tracked, Charging
<1>6. CASE Uncharge(s)
  <2> DEFINE r == [sess[s] EXCEPT !.stage = "released"]
  <2>1. sess[s].stage = "closing" /\ SessionStep(s, r, budget - 1)
    BY <1>6 DEF Uncharge
  <2>2. r \in Sessions /\ r.stage = "released" /\ r.client = sess[s].client /\ r.target = sess[s].target
    BY <1>1 DEF Sessions, SessionStages
  <2> HIDE DEF r
  <2>3. Sound(r, FALSE)
    BY <1>1, <2>1, <2>2 DEF Sound, SocketsFit
  <2> QED
    BY <2>1, <2>2, <2>3, SessionStepSafe DEF Tracked, Charging
<1>7. CASE Untrack(s)
  <2> DEFINE r == [sess[s] EXCEPT !.stage = "gone"]
  <2>1. sess[s].stage = "released" /\ SessionStep(s, r, budget)
    BY <1>7 DEF Untrack
  <2>2. r \in Sessions /\ r.stage = "gone" /\ r.client = sess[s].client /\ r.target = sess[s].target
    BY <1>1 DEF Sessions, SessionStages
  <2> HIDE DEF r
  <2>3. Sound(r, FALSE)
    BY <1>1, <2>1, <2>2 DEF Sound, SocketsFit
  <2> QED
    BY <2>1, <2>2, <2>3, SessionStepSafe DEF Tracked, Charging
<1> QED
  BY <1>3, <1>4, <1>5, <1>6, <1>7 DEF SessionWork


(* The loop starts, pauses or ends, with no connection in its hand.         *)
LEMMA IdleLoopStep ==
  ASSUME TcpInv, RunStarts \/ AcceptFails \/ AcceptBacksOff \/ BackoffEnds
  PROVE  TcpInv'
<1>1. LoopTyped /\ ProbeTyped /\ SessionTyped /\ CloseTyped /\ SessionPart /\ ClosePart
  BY TcpParts
<1>2. /\ UNCHANGED <<listener, sess, budget, gate, workers, probed, closed, cancelled, attempt, targets,
                     complete, closeFails>>
      /\ loop \in {"idle", "accept", "backoff"} /\ loop' \in {"accept", "backoff", "done"}
      /\ hand' \in {hand, NoConn} /\ (loop = "idle" => ~HoldsRunMu)
  BY DEF RunStarts, AcceptFails, AcceptBacksOff, BackoffEnds, LoopEnds, closeVars
<1>3. /\ watcher' \in {watcher, "armed"} /\ owner' \in {owner, "wants"}
  BY DEF RunStarts, AcceptFails, AcceptBacksOff, BackoffEnds, closeVars
<1>4. hand' = NoConn
  BY <1>1, <1>2 DEF LoopTyped, MayHold
<1>5. LoopTyped'
  BY <1>2, <1>4 DEF LoopTyped, MayHold
<1>6. CloseTyped'
  BY SMT, <1>1, <1>2, <1>3 DEF CloseTyped
<1>7. ProbeTyped' /\ SessionTyped' /\ SessionPart'
  BY <1>1, <1>2, ProbeKept, SessionsKept DEF SessionTyped
<1>8. attempt # "sessions"
  BY <1>1, <1>2 DEF ClosePart, CloseInOrder, HoldsRunMu
<1>9. ClosePart'
  BY <1>1, <1>2, <1>3, <1>8 DEF ClosePart, ClosedIsDrained, CloseInOrder, Tracked
<1> QED
  BY <1>5, <1>6, <1>7, <1>9, TcpWhole

(* A worker is added within the limit, or ends.                             *)
LEMMA WorkersBounded ==
  ASSUME ProbeTyped, NEW c \in ProbeConns
  PROVE  /\ Cardinality(workers) < MaxConcurrent => Cardinality(workers \cup {c}) <= MaxConcurrent
         /\ Cardinality(workers \ {c}) <= MaxConcurrent
         /\ Cardinality(workers) \in Nat
<1>1. IsFiniteSet(workers) /\ MaxConcurrent \in Nat
  BY TcpAssumption, FS_Subset DEF ProbeTyped
<1>2. Cardinality(workers) \in Nat /\ Cardinality(workers) <= MaxConcurrent
  BY <1>1, FS_CardinalityType DEF ProbeTyped
<1>3. \/ Cardinality(workers \cup {c}) = Cardinality(workers)
      \/ Cardinality(workers \cup {c}) = Cardinality(workers) + 1
  BY <1>1, FS_AddElement
<1>4. workers \ {c} \subseteq workers
  OBVIOUS
<1>5. Cardinality(workers \ {c}) <= Cardinality(workers) /\ IsFiniteSet(workers \ {c})
  BY <1>1, <1>4, FS_Subset
<1>6. Cardinality(workers \ {c}) \in Nat
  BY <1>5, FS_CardinalityType
<1> QED
  BY SMT, <1>1, <1>2, <1>3, <1>5, <1>6

(* A provider connection goes to a worker, is dropped for want of a slot,   *)
(* or is refused after Close.                                               *)
LEMMA TrackStep ==
  ASSUME TcpInv, Track
  PROVE  TcpInv'
<1>1. LoopTyped /\ ProbeTyped /\ SessionTyped /\ CloseTyped /\ SessionPart /\ ClosePart
  BY TcpParts
<1>2. /\ UNCHANGED <<listener, sess, budget, probed, gate, closed, cancelled, watcher, attempt, targets,
                     complete, owner, closeFails>>
      /\ loop = "track" /\ loop' \in {"accept", "done"} /\ hand' = NoConn
      /\ \/ workers' = workers
         \/ ~(Cardinality(workers) >= MaxConcurrent) /\ ~gate.closed /\ workers' = workers \cup {hand}
  BY DEF Track, LoopEnds, closeVars
<1>3. hand \in ProbeConns
  BY <1>1, <1>2 DEF LoopTyped, MayHold
<1>4. LoopTyped'
  BY <1>2 DEF LoopTyped, MayHold
<1>5. ~(Cardinality(workers) >= MaxConcurrent) => Cardinality(workers) < MaxConcurrent
  <2>1. Cardinality(workers) \in Nat
    BY <1>1, <1>3, WorkersBounded
  <2> QED
    BY SMT, <2>1, TcpAssumption
<1>6. ProbeTyped'
  BY <1>1, <1>2, <1>3, <1>5, WorkersBounded DEF ProbeTyped
<1>7. CloseTyped' /\ SessionTyped' /\ SessionPart'
  BY <1>1, <1>2, CloseKept, SessionsKept DEF SessionTyped
<1>8. complete.done = FALSE /\ attempt # "sessions"
  BY <1>1, <1>2 DEF ClosePart, ClosedIsDrained, CloseInOrder, CloseTyped
<1>9. ClosePart'
  BY <1>1, <1>2, <1>8 DEF ClosePart, ClosedIsDrained, CloseInOrder
<1> QED
  BY <1>4, <1>6, <1>7, <1>9, TcpWhole

(* A worker ends.                                                           *)
LEMMA WorkerStep ==
  ASSUME TcpInv, NEW c \in ProbeConns, WorkerEnds(c)
  PROVE  TcpInv'
<1>1. LoopTyped /\ ProbeTyped /\ SessionTyped /\ CloseTyped /\ SessionPart /\ ClosePart
  BY TcpParts
<1>2. /\ UNCHANGED <<listener, sess, budget, probed, gate, closed, cancelled, watcher, attempt, targets,
                     complete, owner, closeFails, loop, hand>>
      /\ workers' = workers \ {c}
  BY DEF WorkerEnds, loopVars, closeVars
<1>3. LoopTyped' /\ CloseTyped' /\ SessionTyped' /\ SessionPart'
  BY <1>1, <1>2, LoopKept, CloseKept, SessionsKept DEF SessionTyped
<1>4. ProbeTyped'
  BY <1>1, <1>2, WorkersBounded DEF ProbeTyped
<1>5. ClosePart'
  BY <1>1, <1>2 DEF ClosePart, ClosedIsDrained, CloseInOrder, Tracked
<1> QED
  BY <1>3, <1>4, <1>5, TcpWhole

(* A client connects: the loop takes it in hand, or drops it after Close.   *)
LEMMA AcceptStep ==
  ASSUME TcpInv, NEW c \in Conns \cup ProbeConns, AcceptConn(c)
  PROVE  TcpInv'
<1>1. LoopTyped /\ ProbeTyped /\ SessionTyped /\ CloseTyped /\ SessionPart /\ ClosePart
  BY TcpParts
<1>2. /\ UNCHANGED <<listener, budget, workers, gate, closed, cancelled, watcher, attempt, targets,
                     complete, owner, closeFails>>
      /\ loop = "accept" /\ listener = "open" /\ (c \in Conns => sess[c].stage = "none")
      /\ probed' = (IF c \in ProbeConns THEN probed \cup {c} ELSE probed)
      /\ IF gate.closed THEN loop' = "done" /\ hand' = NoConn
         ELSE hand' = c /\ loop' = IF c \in Conns THEN "reserve" ELSE "track"
  BY DEF AcceptConn, LoopEnds, closeVars
<1>3. LoopTyped'
  BY <1>2 DEF LoopTyped, MayHold
<1>4. ProbeTyped'
  BY <1>1, <1>2 DEF ProbeTyped
<1>5. CloseTyped'
  BY <1>1, <1>2, CloseKept
<1>6. complete.done = FALSE /\ attempt # "sessions"
  BY <1>1, <1>2 DEF ClosePart, ClosedIsDrained, CloseInOrder, CloseTyped
<1>7. ClosePart'
  BY <1>1, <1>2, <1>6 DEF ClosePart, ClosedIsDrained, CloseInOrder
<1>8. SessionPart' /\ SessionTyped'
  <2>1. CASE c \in Conns
    <3> DEFINE r == [Fresh EXCEPT !.stage = IF gate.closed THEN "gone" ELSE "hand", !.client = ~gate.closed]
    <3>1. sess' = [sess EXCEPT ![c] = r]
      BY <2>1 DEF AcceptConn
    <3>2. /\ r \in Sessions /\ r.stage = (IF gate.closed THEN "gone" ELSE "hand")
          /\ r.client = ~gate.closed /\ r.target = FALSE /\ r.shut = FALSE
      BY DEF Sessions, SessionStages, Fresh
    <3> HIDE DEF r
    <3>3. /\ \A t \in Conns : ~HeldByLoop(t)
          /\ \A t \in Conns : HeldByLoop(t)' <=> t = c /\ ~gate.closed
      BY <1>2, <2>1 DEF HeldByLoop
    <3>4. Sound(r, HeldByLoop(c)')
      BY <2>1, <3>2, <3>3 DEF Sound, SocketsFit
    <3>5. sess'[c] = r /\ \A t \in Conns : t # c => sess'[t] = sess[t]
      BY <1>1, <2>1, <3>1 DEF SessionTyped
    <3>6. ChargedConns' = ChargedConns
      <4>1. \A t \in Conns : t \in ChargedConns' <=> t \in ChargedConns
        BY <1>2, <2>1, <3>2, <3>5 DEF ChargedConns
      <4>2. ChargedConns \subseteq Conns /\ ChargedConns' \subseteq Conns
        BY DEF ChargedConns
      <4> QED
        BY <4>1, <4>2
    <3> QED
      BY <1>2, <2>1, <3>1, <3>2, <3>3, <3>4, <3>6, SessionMoves
  <2>2. CASE c \notin Conns
    <3>1. sess' = sess /\ loop' \in {"done", "track"}
      BY <1>2, <2>2 DEF AcceptConn
    <3> QED
      BY <1>1, <1>2, <3>1, SessionsKept DEF SessionTyped
  <2> QED
    BY <2>1, <2>2
<1> QED
  BY <1>3, <1>4, <1>5, <1>7, <1>8, TcpWhole


(* The connection in hand is charged, or turned away at the limit.          *)
LEMMA ReserveStep ==
  ASSUME TcpInv, Reserve
  PROVE  TcpInv'
<1>1. LoopTyped /\ ProbeTyped /\ SessionTyped /\ CloseTyped /\ SessionPart /\ ClosePart
  BY TcpParts
<1>2. /\ UNCHANGED <<listener, workers, probed, gate, closed, cancelled, watcher, attempt, targets,
                     complete, owner, closeFails>>
      /\ loop = "reserve"
  BY DEF Reserve, closeVars
<1>3. PICK c \in Conns : c = hand
  BY <1>1, <1>2 DEF LoopTyped, MayHold
<1>4. /\ sess[c] \in Sessions /\ sess[c].stage = "hand" /\ ~sess[c].target
      /\ SocketsFit(sess[c], TRUE)
  BY <1>1, <1>2, <1>3 DEF SessionTyped, SessionPart, Fits, SocketsFit, HeldByLoop
<1>5. c \notin ChargedConns /\ ChargedConns \subseteq Conns /\ ChargedConns' \subseteq Conns
  BY <1>2, <1>3, <1>4 DEF ChargedConns
<1>6. complete.done = FALSE /\ attempt # "sessions"
  BY <1>1, <1>2 DEF ClosePart, ClosedIsDrained, CloseInOrder, CloseTyped
<1>7. ProbeTyped' /\ CloseTyped'
  BY <1>1, <1>2, ProbeKept, CloseKept
<1>8. \A t \in Conns : t # c => ~HeldByLoop(t)
  BY <1>3 DEF HeldByLoop
<1>9. CASE MaxConnections > 0 /\ budget >= MaxConnections
  <2> DEFINE r == [sess[c] EXCEPT !.stage = "gone", !.client = FALSE]
  <2>1. loop' = "accept" /\ hand' = NoConn /\ budget' = budget /\ sess' = [sess EXCEPT ![c] = r]
    BY <1>1, <1>3, <1>9 DEF Reserve, SessionTyped
  <2>2. r \in Sessions /\ r.stage = "gone" /\ ~r.client /\ ~r.target
    BY <1>4 DEF Sessions, SessionStages
  <2> HIDE DEF r
  <2>3. \A t \in Conns : ~HeldByLoop(t)'
    BY <2>1 DEF HeldByLoop
  <2>4. Sound(r, HeldByLoop(c)')
    BY <1>3, <2>2, <2>3 DEF Sound, SocketsFit
  <2>5. sess'[c] = r /\ \A t \in Conns : t # c => sess'[t] = sess[t]
    BY <1>1, <1>3, <2>1 DEF SessionTyped
  <2>6. \A t \in Conns : t \in ChargedConns' <=> t \in ChargedConns
    BY <1>2, <1>4, <2>1, <2>2, <2>5 DEF ChargedConns
  <2>7. ChargedConns' = ChargedConns
    BY <1>5, <2>6
  <2>8. SessionPart' /\ SessionTyped'
    BY <1>3, <1>8, <2>1, <2>2, <2>3, <2>4, <2>7, SessionMoves
  <2>9. LoopTyped'
    BY <2>1 DEF LoopTyped, MayHold
  <2>10. ClosePart'
    BY <1>1, <1>2, <1>6, <2>1 DEF ClosePart, ClosedIsDrained, CloseInOrder
  <2> QED
    BY <1>7, <2>8, <2>9, <2>10, TcpWhole
<1>10. CASE ~(MaxConnections > 0 /\ budget >= MaxConnections)
  <2>1. loop' = "admit" /\ budget' = budget + 1 /\ hand' = hand /\ sess' = sess
    BY <1>10 DEF Reserve
  <2>2. sess' = [sess EXCEPT ![c] = sess[c]]
    BY <1>1, <1>3, <2>1 DEF SessionTyped
  <2>3. (\A t \in Conns : t # c => ~HeldByLoop(t)') /\ HeldByLoop(c)' = TRUE
    BY <1>3, <2>1 DEF HeldByLoop
  <2>4. Sound(sess[c], HeldByLoop(c)')
    BY <1>4, <2>3 DEF Sound
  <2>5. \A t \in Conns : t \in ChargedConns' <=> t \in ChargedConns \cup {c}
    BY <1>2, <1>3, <2>1 DEF ChargedConns
  <2>6. ChargedConns' = ChargedConns \cup {c}
    BY <1>3, <1>5, <2>5
  <2>7. MaxConnections > 0 => budget < MaxConnections
    BY SMT, <1>1, <1>10, TcpAssumption DEF SessionTyped
  <2>8. SessionPart' /\ SessionTyped'
    BY <1>3, <1>4, <1>5, <1>8, <2>1, <2>2, <2>3, <2>4, <2>6, <2>7, SessionMoves
  <2>9. LoopTyped'
    BY <1>3, <2>1 DEF LoopTyped, MayHold
  <2>10. ClosePart'
    BY <1>1, <1>2, <1>6, <2>1 DEF ClosePart, ClosedIsDrained, CloseInOrder
  <2> QED
    BY <1>7, <2>8, <2>9, <2>10, TcpWhole
<1> QED
  BY <1>9, <1>10

(* The charged connection becomes a session, or is given up because the     *)
(* Forward closed meanwhile.                                                *)
LEMMA AdmitStep ==
  ASSUME TcpInv, Admit
  PROVE  TcpInv'
<1>1. LoopTyped /\ ProbeTyped /\ SessionTyped /\ CloseTyped /\ SessionPart /\ ClosePart
  BY TcpParts
<1>2. /\ UNCHANGED <<listener, workers, probed, gate, closed, cancelled, watcher, attempt, targets,
                     complete, owner, closeFails>>
      /\ loop = "admit" /\ hand' = NoConn /\ loop' \in {"accept", "done"}
  BY DEF Admit, LoopEnds, closeVars
<1>3. PICK c \in Conns : c = hand
  BY <1>1, <1>2 DEF LoopTyped, MayHold
<1>4. /\ sess[c] \in Sessions /\ sess[c].stage = "hand" /\ ~sess[c].target
      /\ SocketsFit(sess[c], TRUE)
  BY <1>1, <1>2, <1>3 DEF SessionTyped, SessionPart, Fits, SocketsFit, HeldByLoop
<1>5. c \in ChargedConns /\ ChargedConns \subseteq Conns /\ ChargedConns' \subseteq Conns
  BY <1>2, <1>3 DEF ChargedConns
<1>6. complete.done = FALSE /\ attempt # "sessions"
  BY <1>1, <1>2 DEF ClosePart, ClosedIsDrained, CloseInOrder, CloseTyped
<1>7. ProbeTyped' /\ CloseTyped' /\ LoopTyped'
  BY <1>1, <1>2, ProbeKept, CloseKept DEF LoopTyped, MayHold
<1>8. /\ \A t \in Conns : t # c => ~HeldByLoop(t)
      /\ \A t \in Conns : ~HeldByLoop(t)'
  BY <1>2, <1>3 DEF HeldByLoop
<1>9. ClosePart'
  BY <1>1, <1>2, <1>6 DEF ClosePart, ClosedIsDrained, CloseInOrder
<1>10. CASE closed
  <2> DEFINE r == [sess[c] EXCEPT !.stage = "gone", !.client = FALSE]
  <2>1. budget' = budget - 1 /\ sess' = [sess EXCEPT ![c] = r]
    BY <1>1, <1>3, <1>10 DEF Admit, SessionTyped
  <2>2. r \in Sessions /\ r.stage = "gone" /\ ~r.client /\ ~r.target
    BY <1>4 DEF Sessions, SessionStages
  <2> HIDE DEF r
  <2>3. Sound(r, HeldByLoop(c)')
    BY <1>3, <1>8, <2>2 DEF Sound, SocketsFit
  <2>4. sess'[c] = r /\ \A t \in Conns : t # c => sess'[t] = sess[t]
    BY <1>1, <1>3, <2>1 DEF SessionTyped
  <2>5. \A t \in Conns : t \in ChargedConns' <=> t \in ChargedConns \ {c}
    BY <1>2, <1>3, <2>2, <2>4 DEF ChargedConns
  <2>6. ChargedConns' = ChargedConns \ {c}
    BY <1>5, <2>5
  <2>7. SessionPart' /\ SessionTyped'
    BY <1>3, <1>5, <1>8, <2>1, <2>2, <2>3, <2>6, SessionMoves
  <2> QED
    BY <1>7, <1>9, <2>7, TcpWhole
<1>11. CASE ~closed
  <2> DEFINE r == [sess[c] EXCEPT !.stage = "dialing"]
  <2>1. budget' = budget /\ sess' = [sess EXCEPT ![c] = r]
    BY <1>1, <1>3, <1>11 DEF Admit, SessionTyped
  <2>2. r \in Sessions /\ r.stage = "dialing" /\ r.client = sess[c].client /\ ~r.target
        /\ r.shut = sess[c].shut
    BY <1>4 DEF Sessions, SessionStages
  <2> HIDE DEF r
  <2>3. Sound(r, HeldByLoop(c)')
    BY <1>3, <1>4, <1>8, <2>2 DEF Sound, SocketsFit
  <2>4. sess'[c] = r /\ \A t \in Conns : t # c => sess'[t] = sess[t]
    BY <1>1, <1>3, <2>1 DEF SessionTyped
  <2>5. \A t \in Conns : t \in ChargedConns' <=> t \in ChargedConns
    BY <1>2, <1>3, <2>2, <2>4 DEF ChargedConns
  <2>6. ChargedConns' = ChargedConns
    BY <1>5, <2>5
  <2>7. SessionPart' /\ SessionTyped'
    BY <1>3, <1>8, <2>1, <2>2, <2>3, <2>6, SessionMoves
  <2> QED
    BY <1>7, <1>9, <2>7, TcpWhole
<1> QED
  BY <1>10, <1>11


(* The gate closes before the listener is touched.                          *)
LEMMA CloseBeginsStep ==
  ASSUME TcpInv, NEW w \in Closers, CloseBegins(w)
  PROVE  TcpInv'
<1>1. LoopTyped /\ ProbeTyped /\ SessionTyped /\ CloseTyped /\ SessionPart /\ ClosePart
  BY TcpParts
<1>2. /\ UNCHANGED <<listener, sess, budget, workers, probed, closed, cancelled, targets, complete,
                     owner, closeFails, loop, hand>>
      /\ gate' = [gate EXCEPT !.closed = TRUE]
  BY DEF CloseBegins, loopVars
<1>3. /\ attempt' \in {attempt, "closing"} /\ watcher' \in {watcher, "closing"}
      /\ (attempt' # attempt => attempt = "listener")
  BY DEF CloseBegins, Closers
<1>4. gate \in [closed : BOOLEAN, complete : BOOLEAN, err : CloseErrors]
  BY <1>1 DEF CloseTyped
<1>5. /\ gate' \in [closed : BOOLEAN, complete : BOOLEAN, err : CloseErrors]
      /\ gate'.closed = TRUE /\ gate'.complete = gate.complete
  BY <1>2, <1>4
<1>6. LoopTyped' /\ ProbeTyped' /\ SessionTyped' /\ SessionPart'
  BY <1>1, <1>2, LoopKept, ProbeKept, SessionsKept DEF SessionTyped
<1>7. CloseTyped'
  BY SMT, <1>1, <1>2, <1>3, <1>5 DEF CloseTyped
<1>8. ClosePart'
  BY <1>1, <1>2, <1>3, <1>5 DEF ClosePart, ClosedIsDrained, CloseInOrder, Tracked
<1> QED
  BY <1>6, <1>7, <1>8, TcpWhole

(* The listener is closed once the workers are joined; the attempt keeps    *)
(* the error for its verdict.                                               *)
LEMMA CloseEndsStep ==
  ASSUME TcpInv, NEW w \in Closers, CloseEnds(w)
  PROVE  TcpInv'
<1>1. LoopTyped /\ ProbeTyped /\ SessionTyped /\ CloseTyped /\ SessionPart /\ ClosePart
  BY TcpParts
<1>2. /\ UNCHANGED <<sess, budget, workers, probed, closed, cancelled, targets, owner, loop, hand>>
      /\ workers = {} /\ (IF w = "attempt" THEN attempt = "closing" ELSE watcher = "closing")
  BY DEF CloseEnds, loopVars
<1>3. PICK err \in CloseErrors :
        /\ IF gate.complete
           THEN err = gate.err /\ UNCHANGED <<gate, listener, closeFails>>
           ELSE /\ IF listener = "closed" THEN err = "closed" ELSE err \in {"nil", "io"}
                /\ err = "io" => closeFails < MaxCloseFailures
                /\ closeFails' = IF err = "io" THEN closeFails + 1 ELSE closeFails
                /\ listener' = "closed"
                /\ gate' = [gate EXCEPT !.err = err, !.complete = err # "io"]
        /\ IF w = "attempt"
           THEN attempt' = "join" /\ complete' = [complete EXCEPT !.err = err] /\ UNCHANGED watcher
           ELSE watcher' = "done" /\ UNCHANGED <<attempt, complete>>
  BY DEF CloseEnds, CloseErrors
<1>4. /\ gate \in [closed : BOOLEAN, complete : BOOLEAN, err : CloseErrors]
      /\ complete \in [done : BOOLEAN, err : CloseErrors] /\ listener \in {"open", "closed"}
      /\ closeFails \in 0..MaxCloseFailures
  BY <1>1 DEF CloseTyped
<1>5. gate.closed /\ gate.closed = TRUE
  BY <1>1, <1>2, <1>4 DEF ClosePart, CloseInOrder
<1>6. /\ listener' = "closed" /\ gate' \in [closed : BOOLEAN, complete : BOOLEAN, err : CloseErrors]
      /\ gate'.closed = TRUE
  <2>1. CASE gate.complete
    BY <1>1, <1>3, <1>4, <1>5, <2>1 DEF ClosePart, CloseInOrder
  <2>2. CASE ~gate.complete
    <3>1. listener' = "closed" /\ gate' = [gate EXCEPT !.err = err, !.complete = err # "io"]
      BY <1>3, <2>2
    <3>2. (err # "io") \in BOOLEAN
      OBVIOUS
    <3> QED
      BY <1>4, <1>5, <3>1, <3>2
  <2> QED
    BY <2>1, <2>2
<1>7. closeFails' \in 0..MaxCloseFailures
  <2>1. \/ closeFails' = closeFails
        \/ closeFails < MaxCloseFailures /\ closeFails' = closeFails + 1
    BY <1>3
  <2> QED
    BY SMT, <1>4, <2>1, TcpAssumption
<1>8. /\ complete' \in [done : BOOLEAN, err : CloseErrors] /\ complete'.done = complete.done
      /\ \/ attempt = "closing" /\ attempt' = "join" /\ watcher' = watcher
         \/ attempt' = attempt /\ complete' = complete /\ watcher' = "done"
  <2>1. CASE w = "attempt"
    BY <1>2, <1>3, <1>4, <2>1
  <2>2. CASE w # "attempt"
    BY <1>2, <1>3, <1>4, <2>2
  <2> QED
    BY <2>1, <2>2
<1>9. LoopTyped' /\ ProbeTyped' /\ SessionTyped' /\ SessionPart'
  BY <1>1, <1>2, LoopKept, ProbeKept, SessionsKept DEF SessionTyped
<1>10. CloseTyped'
  BY SMT, <1>1, <1>2, <1>6, <1>7, <1>8 DEF CloseTyped
<1>11. ClosePart'
  BY <1>1, <1>2, <1>6, <1>8 DEF ClosePart, ClosedIsDrained, CloseInOrder, Tracked
<1> QED
  BY <1>9, <1>10, <1>11, TcpWhole

(* The watcher, the owner and the attempt move on without a socket.         *)
LEMMA OwnerStep ==
  ASSUME TcpInv, WatcherFires \/ CloseContext \/ CallerTimesOut \/ MarkClosed
  PROVE  TcpInv'
<1>1. LoopTyped /\ ProbeTyped /\ SessionTyped /\ CloseTyped /\ SessionPart /\ ClosePart
  BY TcpParts
<1>2. UNCHANGED <<listener, sess, budget, workers, probed, gate, targets, complete, closeFails, loop, hand>>
  BY DEF WatcherFires, CloseContext, CallerTimesOut, MarkClosed, loopVars
<1>3. complete.done => complete.err \in {"nil", "closed"}
  BY <1>1 DEF ClosePart, CloseInOrder, CloseTyped, CloseErrors
<1>4. /\ watcher' \in {watcher, "fired", "done"} /\ closed' \in BOOLEAN /\ cancelled' \in BOOLEAN
      /\ owner' \in {"none", "wants", "waiting", "failed", "nil", "closed"}
  BY <1>1, <1>3 DEF WatcherFires, CloseContext, CallerTimesOut, MarkClosed, CloseTyped
<1>5. /\ attempt' \in {attempt, "mark", "listener"} /\ (complete.done => attempt' = attempt)
  <2>1. complete.done => attempt = "none"
    BY <1>1 DEF ClosePart, CloseInOrder
  <2> QED
    BY <2>1 DEF WatcherFires, CloseContext, CallerTimesOut, MarkClosed
<1>6. LoopTyped' /\ ProbeTyped' /\ SessionTyped' /\ SessionPart'
  BY <1>1, <1>2, LoopKept, ProbeKept, SessionsKept DEF SessionTyped
<1>7. CloseTyped'
  BY SMT, <1>1, <1>2, <1>4, <1>5 DEF CloseTyped
<1>8. ClosePart'
  BY <1>1, <1>2, <1>4, <1>5 DEF ClosePart, ClosedIsDrained, CloseInOrder, Tracked
<1> QED
  BY <1>6, <1>7, <1>8, TcpWhole

(* With the loop over, the attempt takes the sessions and joins them.       *)
LEMMA JoinStep ==
  ASSUME TcpInv, JoinLoop \/ JoinSessions
  PROVE  TcpInv'
<1>1. LoopTyped /\ ProbeTyped /\ SessionTyped /\ CloseTyped /\ SessionPart /\ ClosePart
  BY TcpParts
<1>2. UNCHANGED <<listener, sess, budget, workers, probed, gate, closed, cancelled, watcher, closeFails,
                  loop, hand>>
  BY DEF JoinLoop, JoinSessions, loopVars
<1>3. LoopTyped' /\ ProbeTyped' /\ SessionTyped' /\ SessionPart'
  BY <1>1, <1>2, LoopKept, ProbeKept, SessionsKept DEF SessionTyped
<1>4. CASE JoinLoop
  <2>1. /\ attempt = "join" /\ loop \in {"idle", "done"} /\ attempt' = "sessions" /\ targets' \subseteq Conns
        /\ UNCHANGED <<complete, owner>>
    BY <1>4 DEF JoinLoop
  <2>2. CloseTyped'
    BY SMT, <1>1, <1>2, <2>1 DEF CloseTyped
  <2>3. ClosePart'
    BY <1>1, <1>2, <2>1 DEF ClosePart, ClosedIsDrained, CloseInOrder, Tracked
  <2> QED
    BY <1>3, <2>2, <2>3, TcpWhole
<1>5. CASE JoinSessions
  <2>1. /\ attempt = "sessions" /\ attempt' = "none" /\ targets' = targets
        /\ \A t \in Conns : ~Tracked(t)
        /\ complete' = [complete EXCEPT !.done = complete.err # "io"]
        /\ owner' = IF owner = "waiting" THEN IF complete.err = "io" THEN "failed" ELSE complete.err
                    ELSE owner
    BY <1>5 DEF JoinSessions
  <2>2. complete \in [done : BOOLEAN, err : CloseErrors] /\ (complete.err # "io") \in BOOLEAN
    BY <1>1 DEF CloseTyped
  <2>3. /\ complete' \in [done : BOOLEAN, err : CloseErrors] /\ complete'.err = complete.err
        /\ complete'.done = (complete.err # "io")
    BY <2>1, <2>2
  <2>4. owner' \in {"none", "wants", "waiting", "failed", "nil", "closed"}
    BY <1>1, <2>1, <2>2 DEF CloseTyped, CloseErrors
  <2>5. CloseTyped'
    BY SMT, <1>1, <1>2, <2>1, <2>3, <2>4 DEF CloseTyped
  <2>6. listener = "closed" /\ workers = {} /\ loop \in {"idle", "done"}
    BY <1>1, <2>1 DEF ClosePart, CloseInOrder
  <2>7. \A t \in Conns : ~sess[t].client /\ ~sess[t].target
    <3> TAKE t \in Conns
    <3>1. sess[t].stage \in {"none", "gone"}
      BY <1>1, <2>1, <2>6
      DEF Tracked, SessionTyped, Sessions, SessionStages, SessionPart, Fits, SocketsFit, HeldByLoop
    <3> QED
      BY <1>1, <3>1 DEF SessionPart, Fits, SocketsFit
  <2>8. ClosePart'
    BY <1>1, <1>2, <2>1, <2>3, <2>6, <2>7 DEF ClosePart, ClosedIsDrained, CloseInOrder, Tracked
  <2> QED
    BY <1>3, <2>5, <2>8, TcpWhole
<1> QED
  BY <1>4, <1>5

(* The attempt closes the sockets of a session, whatever its goroutine does *)
(* meanwhile.                                                               *)
LEMMA CloseSessionStep ==
  ASSUME TcpInv, NEW s \in Conns, CloseSession(s)
  PROVE  TcpInv'
<1> DEFINE r == [sess[s] EXCEPT !.shut = TRUE, !.client = FALSE, !.target = FALSE]
<1>1. LoopTyped /\ ProbeTyped /\ SessionTyped /\ CloseTyped /\ SessionPart /\ ClosePart
  BY TcpParts
<1>2. /\ UNCHANGED <<listener, budget, workers, probed, gate, closed, cancelled, watcher, attempt,
                     complete, owner, closeFails, loop, hand>>
      /\ targets' = targets \ {s} /\ attempt = "sessions"
  BY DEF CloseSession, loopVars
<1>3. sess' = [sess EXCEPT ![s] = r]
  BY <1>1 DEF CloseSession, Shut, SessionTyped
<1>4. sess[s] \in Sessions /\ SocketsFit(sess[s], HeldByLoop(s))
  BY <1>1 DEF SessionTyped, SessionPart, Fits
<1>5. r \in Sessions /\ r.stage = sess[s].stage /\ r.shut = TRUE /\ r.client = FALSE /\ r.target = FALSE
  BY <1>4 DEF Sessions, SessionStages
<1> HIDE DEF r
<1>6. \A t \in Conns : HeldByLoop(t)' <=> HeldByLoop(t)
  BY <1>2 DEF HeldByLoop
<1>7. Sound(r, HeldByLoop(s)')
  BY <1>4, <1>5, <1>6 DEF Sound, SocketsFit
<1>8. sess'[s] = r /\ \A t \in Conns : t # s => sess'[t] = sess[t]
  BY <1>1, <1>3 DEF SessionTyped
<1>9. ChargedConns' = ChargedConns
  <2>1. \A t \in Conns : t \in ChargedConns' <=> t \in ChargedConns
    BY <1>2, <1>5, <1>8 DEF ChargedConns
  <2>2. ChargedConns \subseteq Conns /\ ChargedConns' \subseteq Conns
    BY DEF ChargedConns
  <2> QED
    BY <2>1, <2>2
<1>10. SessionPart' /\ SessionTyped'
  BY <1>2, <1>3, <1>5, <1>6, <1>7, <1>9, SessionMoves
<1>11. LoopTyped' /\ ProbeTyped'
  BY <1>1, <1>2, LoopKept, ProbeKept
<1>12. CloseTyped'
  BY SMT, <1>1, <1>2 DEF CloseTyped
<1>13. ClosePart'
  BY <1>1, <1>2 DEF ClosePart, ClosedIsDrained, CloseInOrder
<1> QED
  BY <1>10, <1>11, <1>12, <1>13, TcpWhole

(* An installed Forward starts with its listener open and nothing else.     *)
LEMMA TcpInitial == TcpInit => TcpInv
<1> SUFFICES ASSUME TcpInit PROVE TcpInv
  OBVIOUS
<1>1. Fresh \in Sessions /\ Fresh.stage = "none" /\ ~Fresh.client /\ ~Fresh.target /\ ~Fresh.shut
  BY DEF Fresh, Sessions, SessionStages
<1>2. ChargedConns = {}
  BY <1>1 DEF TcpInit, ChargedConns
<1>3. {s \in Conns : sess[s].stage # "hand" /\ (sess[s].client \/ sess[s].target)} = {}
  BY <1>1 DEF TcpInit
<1>4. Cardinality({}) = 0
  BY FS_EmptySet
<1>5. 0 \in Nat /\ 0 <= MaxConcurrent /\ 0 \in 0..MaxCloseFailures /\ 0 <= MaxConnections
  BY SMT, TcpAssumption
<1>6. TcpTypeOK
  BY <1>1, <1>4, <1>5 DEF TcpInit, TcpTypeOK, MayHold, CloseErrors
<1>7. BudgetBoundsSockets
  BY <1>2, <1>3, <1>4, <1>5 DEF TcpInit, BudgetBoundsSockets
<1>8. HalfCloseIsHonoured /\ ClosedIsDrained /\ CloseInOrder
  BY <1>1 DEF TcpInit, HalfCloseIsHonoured, ClosedIsDrained, CloseInOrder
<1>9. \A s \in Conns : SocketsFit(sess[s], HeldByLoop(s))
  BY <1>1 DEF TcpInit, SocketsFit, HeldByLoop
<1> QED
  BY <1>6, <1>7, <1>8, <1>9 DEF TcpInv

(* Every step of the data plane keeps the invariant.                        *)
LEMMA TcpSteps == TcpInv /\ [TcpNext]_tcpVars => TcpInv'
<1> SUFFICES ASSUME TcpInv, [TcpNext]_tcpVars PROVE TcpInv'
  OBVIOUS
<1>1. CASE UNCHANGED tcpVars
  <2>1. LoopTyped /\ ProbeTyped /\ SessionTyped /\ CloseTyped /\ SessionPart /\ ClosePart
    BY TcpParts
  <2>2. LoopTyped' /\ ProbeTyped' /\ CloseTyped' /\ SessionTyped' /\ SessionPart'
    BY <1>1, <2>1, LoopKept, ProbeKept, CloseKept, SessionsKept DEF SessionTyped, tcpVars
  <2>3. ClosePart'
    BY <1>1, <2>1 DEF ClosePart, ClosedIsDrained, CloseInOrder, Tracked, tcpVars
  <2> QED
    BY <2>2, <2>3, TcpWhole
<1>2. CASE RunStarts \/ AcceptFails \/ AcceptBacksOff \/ LoopWork
  BY <1>2, IdleLoopStep, TrackStep, ReserveStep, AdmitStep DEF LoopWork
<1>3. CASE CloseWork
  BY <1>3, OwnerStep, JoinStep, CloseBeginsStep, CloseEndsStep, CloseSessionStep DEF CloseWork
<1>4. CASE (\E c \in Conns \cup ProbeConns : AcceptConn(c)) \/ (\E c \in ProbeConns : WorkerEnds(c))
  BY <1>4, AcceptStep, WorkerStep
<1>5. CASE \E s \in Conns : SessionWork(s) \/ \E d \in Directions : CopyEnds(s, d)
  BY <1>5, WorkStep
<1>6. CASE CloseContext \/ CallerTimesOut
  BY <1>6, OwnerStep
<1> QED
  BY <1>1, <1>2, <1>3, <1>4, <1>5, <1>6 DEF TcpNext

(* For every number of clients, probes and limits, the charges of a TCP     *)
(* Forward are exact, half closes are honoured, and a completed close left  *)
(* nothing behind.                                                          *)
THEOREM TcpSafe == TcpSpec => []TcpInv
BY TcpInitial, TcpSteps, PTL DEF TcpSpec
==============================================================================
