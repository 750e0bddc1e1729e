------------------------------- MODULE Renewal -------------------------------
(***************************************************************************)
(* The renewal loop of one acquisition (internal/traversal/manager.go):    *)
(* its production pacing, the ladder DEGRADED / RECOVERED / LOST, the      *)
(* ordered event queue, the dispatcher that runs the option callbacks, and *)
(* Release, which cancels the renewal in flight and joins the loop and may *)
(* be called from inside a callback.  Clocks count down in ticks: the time *)
(* to the next attempt, to the lease deadline, and to the moment the       *)
(* gateway drops the mapping.  The loop takes its timer as soon as it      *)
(* fires unless the process is suspended.                                  *)
(***************************************************************************)
EXTENDS Integers, Sequences

CONSTANTS Lease,      \* the lifetime the gateway grants and the agent requests
          CallBudget, \* bound: duration of one renewal exchange
          Pause,      \* length of a suspension of the process
          MaxQueued   \* bound: events a slow callback leaves queued

VARIABLES grant,      \* time until the gateway drops the mapping; 0 once it has
          endpoint,   \* whether the gateway still assigns the acquired endpoint
          rebooted,   \* the gateway lost its state since the last exchange
          deadline,   \* time to leaseDeadline, negative once past; NoLease if zero
          timer,      \* time to the next attempt
          spent,      \* duration of the exchange in flight
          slept,      \* the process was suspended since the last grant
          renewer,    \* the renewal goroutine: wait, call, exited
          stop,       \* renewStop closed and renewCtx cancelled
          failed, degraded, degradedFired, lostFired,
          queue,      \* events published and not yet dispatched
          seen,       \* the last event whose callback returned
          callback,   \* the event whose callback runs
          releaser    \* Release: none, caller, callback, returned

renewVars == <<grant, endpoint, rebooted, deadline, timer, spent, slept, renewer, stop, failed,
               degraded, degradedFired, lostFired, queue, seen, callback, releaser>>
gatewayVars == <<grant, endpoint, rebooted>>
ladderVars == <<deadline, failed, degraded, degradedFired, lostFired, slept>>
deliveryVars == <<seen, callback, releaser>>

NoLease == 1000    \* larger than every clock: a mapping without a lifetime

(* A lease spans ten ticks at least, so that a tenth of it, the jitter and *)
(* the safety margin, is a tick or more.                                   *)
ASSUME RenewAssumption ==
    /\ Lease \in 10..(NoLease - 1)
    /\ CallBudget \in Nat /\ Pause \in Nat /\ MaxQueued \in Nat

Interval == Lease \div 2
Jitters == 0..(Lease \div 10)
Margin == Lease \div 10
Silence == "silence"

(* withinExpiryMarginLocked: an unknown lifetime has no margin. *)
WithinExpiryMargin == deadline <= Margin

(* timer.Reset after an attempt that lost nothing. *)
Rearm == renewer' = "wait" /\ \E j \in Jitters : timer' = Interval + j

(* The loop returns: the queue closes behind the last event. *)
Exit == renewer' = "exited" /\ timer' = 0

Lose(pending) ==
    /\ lostFired' = TRUE
    /\ queue' = Append(pending, "lost")
    /\ Exit

(* The timer fires and renewOnce checks the margin before any exchange. *)
Fire ==
    /\ renewer = "wait" /\ timer = 0 /\ Len(queue) < MaxQueued
    /\ IF WithinExpiryMargin
       THEN Lose(queue)
       ELSE renewer' = "call" /\ UNCHANGED <<timer, lostFired, queue>>
    /\ spent' = 0
    /\ UNCHANGED <<gatewayVars, deadline, slept, stop, failed, degraded,
                   degradedFired, deliveryVars>>

Degrades == failed + 1 >= 3 /\ ~degradedFired

(* A failed exchange, the cancelled one of Release included: the third in  *)
(* a row degrades, and the margin is checked again.  The gateway may have  *)
(* extended the mapping and its answer got lost.                           *)
RenewFails ==
    LET pending == IF Degrades THEN Append(queue, "degraded") ELSE queue
    IN  /\ renewer = "call"
        /\ failed' = IF failed < 3 THEN failed + 1 ELSE failed
        /\ degraded' = (degraded \/ Degrades)
        /\ degradedFired' = (degradedFired \/ Degrades)
        /\ IF WithinExpiryMargin
           THEN Lose(pending)
           ELSE Rearm /\ queue' = pending /\ UNCHANGED lostFired
        /\ grant' \in {grant, Lease}
        /\ UNCHANGED <<endpoint, rebooted, deadline, spent, slept, stop,
                       deliveryVars>>

RecoversAlways == queue' = Append(queue, "recovered") /\ degraded' = FALSE /\ degradedFired' = FALSE

(* A success after a DEGRADED episode publishes RECOVERED. *)
Recovers ==
    IF degraded
    THEN queue' = Append(queue, "recovered") /\ degraded' = FALSE /\ degradedFired' = FALSE
    ELSE UNCHANGED <<queue, degraded, degradedFired>>

(* A successful exchange: the gateway holds the mapping for a new lifetime.*)
(* A confirmed reboot or a rewritten endpoint loses the candidate and      *)
(* leaves the deadline alone.                                              *)
RenewAnswered(lifetime) ==
    /\ renewer = "call" /\ ~stop
    /\ failed' = 0
    /\ grant' = lifetime /\ rebooted' = FALSE /\ slept' = (slept /\ lifetime = NoLease)
    /\ IF rebooted \/ ~endpoint
       THEN Lose(queue) /\ UNCHANGED <<deadline, degraded, degradedFired>>
       ELSE /\ Rearm /\ Recovers
            /\ deadline' = IF lifetime = NoLease THEN deadline ELSE lifetime
            /\ UNCHANGED lostFired
    /\ UNCHANGED <<endpoint, spent, stop, deliveryVars>>

(* The select of the loop sees renewStop. *)
StopSeen ==
    /\ renewer = "wait" /\ stop
    /\ Exit
    /\ UNCHANGED <<gatewayVars, ladderVars, spent, stop, queue, deliveryVars>>
------------------------------------------------------------------------------
(* The dispatcher: drain takes the oldest event and runs its callback      *)
(* outside the queue lock.                                                 *)
Dispatch ==
    /\ callback = Silence /\ queue # <<>>
    /\ callback' = Head(queue) /\ queue' = Tail(queue)
    /\ UNCHANGED <<gatewayVars, ladderVars, timer, spent, renewer, stop, seen,
                   releaser>>

CallbackReturns ==
    /\ callback # Silence /\ releaser # "callback"
    /\ seen' = callback /\ callback' = Silence
    /\ UNCHANGED <<gatewayVars, ladderVars, timer, spent, renewer, stop, queue,
                   releaser>>

(* stopRenewal cancels the exchange in flight and closes renewStop. *)
Release(by) ==
    /\ releaser = "none"
    /\ by = "callback" => callback # Silence
    /\ stop' = TRUE /\ releaser' = by
    /\ UNCHANGED <<gatewayVars, ladderVars, timer, spent, renewer, queue, seen,
                   callback>>

JoinedWithDispatcher ==
    /\ releaser \in {"caller", "callback"} /\ renewer = "exited"
    /\ queue = <<>> /\ callback = Silence
    /\ releaser' = "returned"
    /\ UNCHANGED <<gatewayVars, ladderVars, timer, spent, renewer, stop, queue,
                   seen, callback>>

JoinedEarly ==
    /\ releaser \in {"caller", "callback"}
    /\ releaser' = "returned"
    /\ UNCHANGED <<gatewayVars, ladderVars, timer, spent, renewer, stop, queue,
                   seen, callback>>

(* ... and joins the loop, never the dispatcher. *)
Joined ==
    /\ releaser \in {"caller", "callback"} /\ renewer = "exited"
    /\ releaser' = "returned"
    /\ UNCHANGED <<gatewayVars, ladderVars, timer, spent, renewer, stop, queue,
                   seen, callback>>
------------------------------------------------------------------------------
Lateness == 2 * (Lease \div 10) + 2 * CallBudget

Elapse(t) ==
    /\ timer' = IF timer > t THEN timer - t ELSE 0
    /\ grant' = IF grant = NoLease THEN NoLease ELSE IF grant > t THEN grant - t ELSE 0
    /\ deadline' = IF deadline = NoLease THEN NoLease
                   ELSE IF deadline - t < -Lateness THEN -Lateness - 1 ELSE deadline - t

(* The clock waits for a due timer, and no exchange outlasts its budget. *)
Tick ==
    /\ renewer = "wait" => timer > 0 /\ ~stop
    /\ renewer = "call" => spent < CallBudget /\ ~stop
    /\ Elapse(1)
    /\ spent' = IF renewer = "call" THEN spent + 1 ELSE spent
    /\ UNCHANGED <<endpoint, rebooted, slept, renewer, stop, failed, degraded, degradedFired,
                   lostFired, queue, deliveryVars>>

(* The process is suspended: its timers fire late. *)
Suspend ==
    /\ renewer = "wait" /\ ~slept
    /\ slept' = TRUE /\ Elapse(Pause)
    /\ UNCHANGED <<endpoint, rebooted, spent, renewer, stop, failed, degraded, degradedFired,
                   lostFired, queue, deliveryVars>>

(* External: the gateway restarts without its mappings, or moves the       *)
(* mapping to another endpoint.                                            *)
GatewayReboots ==
    /\ ~rebooted /\ rebooted' = TRUE /\ grant' = 0
    /\ UNCHANGED <<endpoint, ladderVars, timer, spent, renewer, stop, queue,
                   deliveryVars>>

GatewayRewrites ==
    /\ endpoint /\ endpoint' = FALSE
    /\ UNCHANGED <<grant, rebooted, ladderVars, timer, spent, renewer, stop, queue,
                   deliveryVars>>
------------------------------------------------------------------------------
(* acquireGateway granted the mapping and startRenewal armed the timer. *)
RenewInit ==
    /\ grant \in {Lease, NoLease} /\ deadline = grant
    /\ endpoint = TRUE /\ rebooted = FALSE
    /\ timer \in {Interval + j : j \in Jitters} /\ spent = 0 /\ slept = FALSE
    /\ renewer = "wait" /\ stop = FALSE
    /\ failed = 0 /\ degraded = FALSE /\ degradedFired = FALSE /\ lostFired = FALSE
    /\ queue = <<>> /\ seen = Silence /\ callback = Silence /\ releaser = "none"

RenewalLoop == Fire \/ RenewFails \/ StopSeen \/ \E t \in {Lease, NoLease} : RenewAnswered(t)

Delivery == Dispatch \/ CallbackReturns

Stopping == Release("caller") \/ Release("callback") \/ Joined

RenewNext ==
    \/ RenewalLoop \/ Delivery \/ Stopping
    \/ Tick \/ Suspend \/ GatewayReboots \/ GatewayRewrites

(* The goroutines are scheduled, a cancelled exchange and every callback   *)
(* return.                                                                 *)
RenewFairness ==
    /\ WF_renewVars(StopSeen) /\ WF_renewVars(stop /\ RenewFails)
    /\ WF_renewVars(Delivery) /\ WF_renewVars(Joined)

RenewSpec == RenewInit /\ [][RenewNext]_renewVars /\ RenewFairness
------------------------------------------------------------------------------
Events == {"degraded", "recovered", "lost"}

(* The clocks, the ladder and the queue stay well formed, and the loop is  *)
(* over once the mapping is lost.                                           *)
RenewTypeOK ==
    /\ grant \in 0..Lease \cup {NoLease}
    /\ deadline \in (-Lateness - 1)..Lease \cup {NoLease}
    /\ timer \in 0..(Interval + Lease \div 10) /\ spent \in 0..CallBudget
    /\ endpoint \in BOOLEAN /\ rebooted \in BOOLEAN /\ slept \in BOOLEAN /\ stop \in BOOLEAN
    /\ renewer \in {"wait", "call", "exited"} /\ failed \in 0..3
    /\ degraded \in BOOLEAN /\ degradedFired = degraded /\ lostFired \in BOOLEAN
    /\ queue \in Seq(Events)
    /\ seen \in Events \cup {Silence} /\ callback \in Events \cup {Silence}
    /\ releaser \in {"none", "caller", "callback", "returned"}
    /\ lostFired \/ releaser = "returned" => renewer = "exited"

Follows(before, event) ==
    CASE event = "recovered" -> before = "degraded"
      [] event = "degraded"  -> before \in {Silence, "recovered"}
      [] event = "lost"      -> before # "lost"

(* The last event of a queue that comes after an event. *)
LastOf(before, events) == IF events = <<>> THEN before ELSE events[Len(events)]

Chained(before, events) ==
    /\ events # <<>> => Follows(before, events[1])
    /\ \A k \in 1..(Len(events) - 1) : Follows(events[k], events[k + 1])

Delivered == IF callback = Silence THEN seen ELSE callback
Published == LastOf(Delivered, queue)

(* What the callbacks see, in publication order: DEGRADED and RECOVERED    *)
(* alternate from DEGRADED on, and LOST is the last event there is.        *)
EventsFollowLadder ==
    /\ callback # Silence => Follows(seen, callback)
    /\ Chained(Delivered, queue)

(* The ladder of the loop is the event it published last. *)
LadderIsPublished ==
    ~lostFired => Published # "lost" /\ (degraded <=> Published = "degraded")

(* "The manager never revives the old candidate": once LOST is published,  *)
(* or Release returned, no renewal extends the mapping on the gateway.     *)
NeverRevived ==
    [][lostFired \/ releaser = "returned" => grant' <= grant]_renewVars

(* What is left of the lease when the timer fires. *)
Slack == deadline - timer

(* The pacing, of a mapping with a lease: the first attempt comes while    *)
(* about half of the lease is left, and what follows an attempt that did   *)
(* not extend it falls into the safety margin, at most two jitters and an  *)
(* exchange after the deadline of an awake process.                        *)
RenewalsArePaced ==
    deadline # NoLease =>
        /\ failed <= 1
        /\ renewer = "wait" => Slack <= IF failed = 0 THEN Lease - Interval ELSE 1
        /\ renewer = "call" => failed = 0 /\ deadline <= Lease - Interval
        /\ ~slept /\ renewer = "wait" =>
            \/ Slack >= Lease - Interval - Margin
            \/ Slack <= 1 /\ Slack >= -(2 * Margin + CallBudget)
        /\ ~slept /\ renewer = "call" => deadline + spent >= Lease - Interval - Margin

(* A lease that ran out is reported: LOST is published at most two jitter  *)
(* windows and two exchanges after the deadline of an awake process.       *)
ExpiryIsReported ==
    deadline < -Lateness => renewer = "exited" \/ stop \/ slept

(* With a granted lifetime the safety margin is crossed before a third     *)
(* attempt is due, so DEGRADED is only ever seen of a mapping without one. *)
DegradedHasNoLease == degraded => deadline = NoLease

(* The callbacks hear the truth in order: the ladder of events, LOST for   *)
(* every lease that ran out, DEGRADED only of a mapping without a lease    *)
(* (renewalLoop and its dispatcher).                                       *)
RenewInv ==
    /\ RenewTypeOK /\ EventsFollowLadder /\ LadderIsPublished
    /\ RenewalsArePaced /\ ExpiryIsReported /\ DegradedHasNoLease

(* Release returns, also when a callback calls it while later events are   *)
(* queued: it joins the loop and not the dispatcher.                       *)
ReleaseReturns == releaser \in {"caller", "callback"} ~> releaser = "returned"

(* "LOST only when the expiry safety margin is crossed": published before  *)
(* the lease of an awake process is over.                                  *)
LostBeforeExpiry == ~slept /\ renewer # "exited" => deadline >= 0
==============================================================================
