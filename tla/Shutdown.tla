------------------------------- MODULE Shutdown -------------------------------
(***************************************************************************)
(* How a running Agent ends: App.Shutdown joins the local endpoint, the    *)
(* control client, the reconnect loop, the liveness monitor, the probe     *)
(* sweeper and the data plane, and closes the store last.  Everything it   *)
(* joins may be in the middle of a command, a recovery or a cleanup, and   *)
(* some of that starts further work.  One Forward; its actors (a listener  *)
(* with a lease, a renewal loop and a supervisor goroutine) are the members*)
(* of Actors, each of them built at most once.  The dispatcher that runs   *)
(* the lifecycle callbacks of a renewal loop is joined by nothing.         *)
(***************************************************************************)
EXTENDS Naturals, FiniteSets

CONSTANTS Actors,       \* the actors that may be built
          MaxFailures,  \* bound on resources that fail to close
          MaxCalls,     \* bound on the calls of Shutdown
          MaxIncidents, \* bound on what the goroutines are given to do
          MaxEvents     \* bound on the two together

VARIABLES closer,     \* where the call of Shutdown stands
          late,       \* the deadline of its context has passed
          errored,    \* the data plane's part of it has met an error
          calls,      \* number of calls so far
          cancelled,  \* the context of the goroutines of Start is cancelled
          endpoint,   \* the local endpoint: [server, request]
          worker,     \* the workers of the control session
          session,    \* the session is up
          client,     \* the Client accepts another Connect
          reconnect,  \* the reconnect loop, which holds connectMu to connect
          monitor,    \* the liveness monitor
          sweeper,    \* the probe sweeper
          drain,      \* the cleanup drain
          job,        \* the operations of the data plane, by goroutine
          op,         \* the goroutine that owns the operation of the Forward
          closing,    \* the data plane admits no more
          actor,      \* the actors
          todo,       \* by goroutine, the actors it has still to clean up
          joined,     \* by goroutine, the attempt of another it waits for
          failures,   \* number of failed resources so far
          incidents,  \* number of things the goroutines were given to do
          bolt,       \* the store
          events,     \* lifecycle events queued for a dispatcher
          saving      \* the actor a lifecycle callback found live, until it has saved

appVars == <<closer, late, errored, calls, cancelled>>
controlVars == <<endpoint, worker, session, client, reconnect>>
loopVars == <<monitor, sweeper, drain>>
planeVars == <<job, op, closing, actor, todo, joined, failures>>
storeVars == <<bolt, events, saving>>
endVars == <<appVars, controlVars, loopVars, planeVars, storeVars, incidents>>

Nobody == "nobody"

\* The goroutines that run an operation of the data plane: the frame loop with
\* a command, the liveness monitor, and the recovery that a completed cleanup
\* starts, which nothing joins.
Jobs == {"frame", "monitor", "retry"}

\* Whoever may clean an actor up: these, the drain, Shutdown itself, and the
\* supervisor goroutine of each actor, named after it.
Cleaners == Jobs \union {"drain", "closer"} \union Actors

Stages == {"idle", "endpoint", "client", "workers", "reconnect", "monitor", "sweeper",
           "gate", "admission", "snapshot", "cleanup", "supervisors", "drain", "store",
           "closed"}

\* The actor of the start; actors are all alike.
First == CHOOSE a \in Actors : TRUE

EndInit ==
    /\ closer = "idle" /\ late = FALSE /\ errored = FALSE /\ calls = 0
    /\ cancelled = FALSE
    /\ endpoint = [server |-> "open", request |-> FALSE]
    /\ worker = "reading" /\ session = TRUE /\ client = "open" /\ reconnect = "waiting"
    /\ monitor = "polling" /\ sweeper = "waiting" /\ drain = "waiting"
    /\ job = [j \in Jobs |-> "off"] /\ op = Nobody /\ closing = FALSE
    /\ actor = [a \in Actors |->
           [at |-> IF a = First THEN "live" ELSE "none",
            run |-> IF a = First THEN "running" ELSE "none", cleaner |-> Nobody, stuck |-> FALSE,
            renews |-> a = First]]
    /\ todo = [c \in Cleaners |-> {}] /\ joined = [c \in Cleaners |-> {}]
    /\ failures = 0 /\ incidents = 0
    /\ bolt = "open" /\ events = 0 /\ saving = Nobody

At(place) == {a \in Actors : actor[a].at = place}

-----------------------------------------------------------------------------
(* The data plane.                                                           *)

\* beginAdmission, for an apply or a recovery.
AskAnyway(j) ==
    /\ job[j] = "asked"
    /\ job' = [job EXCEPT ![j] = "admitted"]
    /\ UNCHANGED <<appVars, controlVars, loopVars, op, closing, actor, todo,
                   joined, failures, storeVars>>

BeginAdmission(j) ==
    /\ job[j] = "asked"
    /\ job' = [job EXCEPT ![j] = IF closing THEN "off" ELSE "admitted"]
    /\ UNCHANGED <<appVars, controlVars, loopVars, op, closing, actor, todo,
                   joined, failures, storeVars>>

\* beginForwardOperation refuses when closing, and otherwise waits for the
\* operation of the Forward.
BeginOperation(j) ==
    /\ job[j] = "admitted"
    /\ \/ closing /\ job' = [job EXCEPT ![j] = "off"] /\ UNCHANGED op
       \/ op = Nobody /\ op' = j /\ job' = [job EXCEPT ![j] = "building"]
    /\ UNCHANGED <<appVars, controlVars, loopVars, closing, actor, todo, joined,
                   failures, storeVars>>

\* The Forward is live, or its listener cannot be acquired: nothing is built.
NothingBuilt(j) ==
    /\ job[j] = "building"
    /\ job' = [job EXCEPT ![j] = "off"] /\ op' = Nobody
    /\ UNCHANGED <<appVars, controlVars, loopVars, closing, actor, todo, joined,
                   failures, storeVars>>

Acquire(j) ==
    /\ job[j] = "building" /\ At("live") = {}
    /\ At("none") # {}
    /\ LET a == CHOOSE b \in At("none") : TRUE
       IN  actor' = [actor EXCEPT ![a].at = "held", ![a].renews = TRUE]
    /\ job' = [job EXCEPT ![j] = "held"]
    /\ UNCHANGED <<appVars, controlVars, loopVars, op, closing, todo, joined,
                   failures, storeVars>>

\* finishReopen and the end of apply.  A recovery does not install beside an
\* actor that is being cleaned up.
Install(j) ==
    /\ job[j] = "held" /\ ~closing /\ At("live") = {}
    /\ j # "frame" => At("pending") = {}
    /\ \E a \in At("held") : actor' = [actor EXCEPT ![a].at = "live", ![a].run = "running"]
    /\ job' = [job EXCEPT ![j] = "off"] /\ op' = Nobody
    /\ UNCHANGED <<appVars, controlVars, loopVars, closing, todo, joined, failures,
                   storeVars>>

\* abandonAcquiredActor while the data plane is open: a fence, a stale
\* generation, another actor.  The drain owns the actor with the goroutine.
Abandon(j) ==
    /\ job[j] = "held" /\ ~closing
    /\ \E a \in At("held") :
          /\ actor' = [actor EXCEPT ![a].at = "pending"]
          /\ todo' = [todo EXCEPT ![j] = {a}]
    /\ job' = [job EXCEPT ![j] = "abandoning"]
    /\ UNCHANGED <<appVars, controlVars, loopVars, op, closing, joined, failures,
                   storeVars>>

AbandonEnds(j) ==
    /\ job[j] = "abandoning" /\ todo[j] = {}
    /\ job' = [job EXCEPT ![j] = "off"] /\ op' = Nobody
    /\ UNCHANGED <<appVars, controlVars, loopVars, closing, actor, todo, joined,
                   failures, storeVars>>

\* While it closes the actor is released on the spot and an error is dropped.
\* A release joins the renewal loop, whatever becomes of the mapping.
AbandonClosing(j) ==
    /\ job[j] = "held" /\ closing
    /\ \E a \in At("held") :
          \/ actor' = [actor EXCEPT ![a].at = "gone", ![a].renews = FALSE] /\ UNCHANGED failures
          \/ /\ failures < MaxFailures /\ failures' = failures + 1
             /\ actor' = [actor EXCEPT ![a].at = "leaked", ![a].renews = FALSE]
    /\ job' = [job EXCEPT ![j] = "off"] /\ op' = Nobody
    /\ UNCHANGED <<appVars, controlVars, loopVars, closing, todo, joined, storeVars>>

\* What stop and markCapabilityLost do first: live actors become pending, and
\* the goroutine cleans up these and, for a stop, the ones already pending.
TakesLive(c, alsoPending) ==
    /\ actor' = [a \in Actors |->
           IF actor[a].at = "live" THEN [actor[a] EXCEPT !.at = "pending"] ELSE actor[a]]
    /\ todo' = [todo EXCEPT ![c] = At("live") \union (IF alsoPending THEN At("pending") ELSE {})]

-----------------------------------------------------------------------------
(* cleanupActor, shared by all who clean up.                                 *)

\* Whose context may end while it waits: all attempts but Shutdown's own are
\* bounded by five seconds or belong to the session or to Start.
Bounded(c) == c # "closer" \/ late

Settled(cs, a) == [c \in Cleaners |-> IF c \in cs THEN todo[c] \ {a} ELSE todo[c]]

\* Somebody completed the cleanup already.
AlreadyClean(c, a) ==
    /\ a \in todo[c] /\ joined[c] = {} /\ actor[a].at = "gone" /\ actor[a].cleaner = Nobody
    /\ todo' = Settled({c}, a)
    /\ UNCHANGED <<appVars, controlVars, loopVars, job, op, closing, actor, joined,
                   failures, storeVars>>

\* An attempt first cancels the context of the supervisor.
Claim(c, a) ==
    /\ a \in todo[c] /\ joined[c] = {} /\ actor[a].at = "pending" /\ actor[a].cleaner = Nobody
    /\ actor' = [actor EXCEPT ![a].cleaner = c,
                              ![a].run = IF @ = "running" THEN "stopping" ELSE @]
    /\ UNCHANGED <<appVars, controlVars, loopVars, job, op, closing, todo, joined,
                   failures, storeVars>>

JoinsAttempt(c, a) ==
    /\ a \in todo[c] /\ joined[c] = {} /\ actor[a].cleaner \notin {Nobody, c}
    /\ joined' = [joined EXCEPT ![c] = {a}]
    /\ UNCHANGED <<appVars, controlVars, loopVars, job, op, closing, actor, todo,
                   failures, storeVars>>

GivesUpJoin(c, a) ==
    /\ a \in joined[c] /\ Bounded(c)
    /\ joined' = [joined EXCEPT ![c] = {}] /\ todo' = Settled({c}, a)
    /\ errored' = (errored \/ c = "closer")
    /\ UNCHANGED <<closer, late, calls, cancelled, controlVars, loopVars, job, op, closing, actor,
                   failures, storeVars>>

\* The attempt and those who joined it end with one result.  After a success
\* OnActorCleaned starts a recovery nobody joins, unless the Forward is being
\* deleted.
AttemptAlone(c, a) == {c}

Company(c, a) == {c} \union {d \in Cleaners : a \in joined[d]}

Left(c, a) == [d \in Cleaners |-> IF d \in Company(c, a) THEN {} ELSE joined[d]]

CleansUp(c, a) ==
    /\ actor[a].cleaner = c /\ ~actor[a].stuck
    /\ actor' = [actor EXCEPT ![a].at = "gone", ![a].cleaner = Nobody, ![a].renews = FALSE]
    /\ todo' = Settled(Company(c, a), a) /\ joined' = Left(c, a)
    /\ \/ UNCHANGED job
       \/ job["retry"] = "off" /\ job' = [job EXCEPT !["retry"] = "asked"]
    /\ UNCHANGED <<appVars, controlVars, loopVars, op, closing, failures, storeVars>>

\* A gateway mapping whose delete failed once answers every later Release with
\* that failure (stuck).  The error of an attempt is also that of its context.
FailsToCleanUp(c, a) ==
    /\ actor[a].cleaner = c
    /\ \/ /\ actor[a].stuck \/ (c = "closer" /\ late) \/ (c \in {"drain", "monitor"} /\ cancelled)
          /\ UNCHANGED failures
          /\ actor' = [actor EXCEPT ![a].cleaner = Nobody, ![a].renews = FALSE]
       \/ /\ failures < MaxFailures /\ failures' = failures + 1
          /\ \E gateway \in BOOLEAN :
                actor' = [actor EXCEPT ![a].cleaner = Nobody, ![a].stuck = gateway, ![a].renews = FALSE]
    /\ todo' = Settled(Company(c, a), a) /\ joined' = Left(c, a)
    /\ errored' = (errored \/ "closer" \in Company(c, a))
    /\ UNCHANGED <<closer, late, calls, cancelled, controlVars, loopVars, job, op,
                   closing, storeVars>>

CleanupStep(c) ==
    \E a \in Actors :
        \/ AlreadyClean(c, a) \/ Claim(c, a) \/ JoinsAttempt(c, a)
        \/ CleansUp(c, a) \/ FailsToCleanUp(c, a)

\* startForwardSupervisor: Run returns after its context is cancelled, or fails
\* on its own; then handleForwardRunError reports and cleans up.
RunReturns(a) ==
    /\ actor[a].run = "stopping"
    /\ actor' = [actor EXCEPT ![a].run = "done"]
    /\ UNCHANGED <<appVars, controlVars, loopVars, job, op, closing, todo, joined,
                   failures, storeVars>>

RunFails(a) ==
    /\ actor[a].run = "running" /\ actor[a].at \in {"live", "pending"}
    /\ actor' = [actor EXCEPT ![a].run = "handling", ![a].at = "pending"]
    /\ todo' = [todo EXCEPT ![a] = {a}]
    /\ UNCHANGED <<appVars, controlVars, loopVars, job, op, closing, joined,
                   failures, storeVars>>

RunHandled(a) ==
    /\ actor[a].run = "handling" /\ todo[a] = {}
    /\ actor' = [actor EXCEPT ![a].run = "done"]
    /\ UNCHANGED <<appVars, controlVars, loopVars, job, op, closing, todo, joined,
                   failures, storeVars>>

-----------------------------------------------------------------------------
(* The lifecycle callbacks of the manager.                                   *)

\* deliver: a renewal changes the state of the mapping; after a loss the loop
\* ends by itself.
Deliver(a) ==
    /\ actor[a].renews /\ events' = events + 1
    /\ \E lost \in BOOLEAN : actor' = [actor EXCEPT ![a].renews = ~lost]
    /\ UNCHANGED <<appVars, controlVars, loopVars, job, op, closing, todo, joined,
                   failures, bolt, saving>>

\* onMappingLifecycle under probeAdmissionMu, from the dispatcher: it goes on
\* when the Forward is live and has an activation, and reads the store.
CallbackChecks ==
    /\ events > 0 /\ saving = Nobody
    /\ events' = events - 1
    /\ saving' \in At("live") \union {Nobody}
    /\ UNCHANGED <<appVars, controlVars, loopVars, planeVars, bolt>>

\* SaveActivationSnapshot, or the error of a store that is closed by now.
CallbackSaves ==
    /\ saving # Nobody /\ saving' = Nobody
    /\ UNCHANGED <<appVars, controlVars, loopVars, planeVars, bolt, events>>

-----------------------------------------------------------------------------
(* The goroutines of Start.                                                  *)

\* The frame loop takes a command: an apply, or a deletion, which stops the
\* Forward without asking for admission.
Command ==
    /\ worker = "reading" /\ session /\ worker' = "command"
    /\ \/ job' = [job EXCEPT !["frame"] = "asked"] /\ UNCHANGED <<actor, todo>>
       \/ TakesLive("frame", TRUE) /\ UNCHANGED job
    /\ UNCHANGED <<appVars, endpoint, session, client, reconnect, loopVars, op, closing, joined,
                   failures, storeVars>>

CommandEnds ==
    /\ worker = "command" /\ job["frame"] = "off" /\ todo["frame"] = {}
    /\ worker' = "reading"
    /\ UNCHANGED <<appVars, endpoint, session, client, reconnect, loopVars,
                   planeVars, storeVars>>

WorkersLeave ==
    /\ worker = "reading" /\ ~session /\ worker' = "gone"
    /\ UNCHANGED <<appVars, endpoint, session, client, reconnect, loopVars,
                   planeVars, storeVars>>

TransportFails ==
    /\ session /\ session' = FALSE
    /\ UNCHANGED <<appVars, endpoint, worker, client, reconnect, loopVars,
                   planeVars, storeVars>>

\* reconnectControl: wait for the workers, record the loss, connect again, and
\* send what is pending; a failure there closes the session.
Reconnecting ==
    /\ \/ reconnect = "waiting" /\ worker = "gone" /\ reconnect' = "updating"
       \/ /\ reconnect = "updating"
          /\ reconnect' = IF cancelled \/ client = "closed" THEN "done" ELSE "connecting"
       \/ reconnect = "connecting" /\ reconnect' = IF cancelled THEN "done" ELSE "waiting"
       \/ reconnect = "replaying" /\ reconnect' = "waiting"
    /\ UNCHANGED <<appVars, endpoint, worker, session, client, loopVars, planeVars,
                   storeVars>>

Connected ==
    /\ reconnect = "connecting" /\ reconnect' = "replaying"
    /\ session' = TRUE /\ worker' = "reading"
    /\ UNCHANGED <<appVars, endpoint, client, loopVars, planeVars, storeVars>>

ReplayFails ==
    /\ reconnect = "replaying" /\ reconnect' = "waiting" /\ session' = FALSE
    /\ UNCHANGED <<appVars, endpoint, worker, client, loopVars, planeVars, storeVars>>

\* monitorLiveness: a recovery, or the teardown of markCapabilityLost.
MonitorWorks ==
    /\ monitor = "polling" /\ monitor' = "working"
    /\ \/ job' = [job EXCEPT !["monitor"] = "asked"] /\ UNCHANGED <<actor, todo>>
       \/ TakesLive("monitor", FALSE) /\ UNCHANGED job
    /\ UNCHANGED <<appVars, controlVars, sweeper, drain, op, closing, joined,
                   failures, storeVars>>

MonitorRests ==
    /\ \/ /\ monitor = "working" /\ job["monitor"] = "off" /\ todo["monitor"] = {}
          /\ monitor' = "polling"
       \/ monitor = "polling" /\ cancelled /\ monitor' = "done"
    /\ UNCHANGED <<appVars, controlVars, sweeper, drain, planeVars, storeVars>>

\* The sweeper of the ProbeManager, and its end.
SweeperWorks ==
    /\ sweeper = "waiting" /\ sweeper' = "sweeping"
    /\ UNCHANGED <<appVars, controlVars, monitor, drain, planeVars, storeVars>>

SweeperRests ==
    /\ \/ sweeper = "sweeping" /\ sweeper' = "waiting"
       \/ sweeper = "waiting" /\ cancelled /\ sweeper' = "done"
    /\ UNCHANGED <<appVars, controlVars, monitor, drain, planeVars, storeVars>>

\* The cleanup drain ends when it sees the gate closed or its context ended.
DrainWorks ==
    /\ drain = "waiting" /\ drain' = "draining"
    /\ todo' = [todo EXCEPT !["drain"] = At("pending")]
    /\ UNCHANGED <<appVars, controlVars, monitor, sweeper, job, op, closing, actor, joined,
                   failures, storeVars>>

DrainRests ==
    /\ \/ /\ drain = "draining" /\ todo["drain"] = {}
          /\ drain' = IF closing THEN "done" ELSE "waiting"
       \/ drain = "waiting" /\ cancelled /\ drain' = "done"
    /\ UNCHANGED <<appVars, controlVars, monitor, sweeper, planeVars, storeVars>>

\* A request of the local uninstall endpoint, and its end.
Request ==
    /\ endpoint.server = "open" /\ ~endpoint.request
    /\ endpoint' = [endpoint EXCEPT !.request = TRUE]
    /\ UNCHANGED <<appVars, worker, session, client, reconnect, loopVars,
                   planeVars, storeVars>>

RequestEnds ==
    /\ endpoint.request /\ endpoint' = [endpoint EXCEPT !.request = FALSE]
    /\ UNCHANGED <<appVars, worker, session, client, reconnect, loopVars,
                   planeVars, storeVars>>

-----------------------------------------------------------------------------
(* App.Shutdown.                                                             *)

\* A later call finds what an earlier one closed already closed.
Call ==
    /\ closer = "idle" /\ calls < MaxCalls /\ calls + incidents < MaxEvents
    /\ calls' = calls + 1 /\ closer' = "endpoint" /\ late' = FALSE /\ errored' = FALSE
    /\ UNCHANGED <<cancelled, controlVars, loopVars, planeVars, storeVars>>

CallExpires ==
    /\ closer \notin {"idle", "closed"} /\ ~late /\ late' = TRUE
    /\ UNCHANGED <<closer, errored, calls, cancelled, controlVars, loopVars,
                   planeVars, storeVars>>

\* The endpoint waits for its requests once; a later call finds it closed.
CloseEndpoint ==
    /\ closer = "endpoint"
    /\ ~endpoint.request \/ late \/ endpoint.server = "closed"
    /\ endpoint' = [endpoint EXCEPT !.server = "closed"]
    /\ cancelled' = TRUE /\ closer' = "client"
    /\ UNCHANGED <<late, errored, calls, worker, session, client, reconnect, loopVars, planeVars,
                   storeVars>>

\* ShutdownContext takes connectMu, whatever the deadline.
CloseClient ==
    /\ closer = "client" /\ reconnect # "connecting"
    /\ client' = "closed" /\ session' = FALSE /\ closer' = "workers"
    /\ UNCHANGED <<late, errored, calls, cancelled, endpoint, worker, reconnect, loopVars,
                   planeVars, storeVars>>

Admitted == {j \in Jobs : job[j] \notin {"off", "asked"}}

\* What each of the joins waits for.
Joins(stage) ==
    CASE stage = "workers" -> worker = "gone"
      [] stage = "reconnect" -> reconnect = "done"
      [] stage = "monitor" -> monitor = "done"
      [] stage = "sweeper" -> sweeper = "done"
      [] stage = "admission" -> Admitted = {}
      [] stage = "supervisors" -> \A a \in Actors : actor[a].run \in {"none", "done"}
      [] stage = "drain" -> drain = "done"
      [] OTHER -> FALSE

After(stage) ==
    CASE stage = "workers" -> "reconnect"
      [] stage = "reconnect" -> "monitor"
      [] stage = "monitor" -> "sweeper"
      [] stage = "sweeper" -> "gate"
      [] stage = "supervisors" -> "drain"
      [] stage = "drain" -> IF errored THEN "idle" ELSE "store"

\* waitWithContext; a wait that ends with the deadline ends the call, or, for
\* the last two joins of closeAll, counts as an error.
JoinEnds ==
    /\ closer \in {"workers", "reconnect", "monitor", "sweeper", "supervisors", "drain"}
    /\ Joins(closer) /\ closer' = After(closer)
    /\ UNCHANGED <<late, errored, calls, cancelled, controlVars, loopVars,
                   planeVars, storeVars>>

JoinTimesOut ==
    /\ late
    /\ \/ closer \in {"workers", "reconnect", "monitor", "sweeper", "admission"}
          /\ closer' = "idle" /\ UNCHANGED errored
       \/ closer = "supervisors" /\ closer' = "drain" /\ errored' = TRUE
       \/ closer = "drain" /\ closer' = "idle" /\ errored' = TRUE
    /\ UNCHANGED <<late, calls, cancelled, controlVars, loopVars, planeVars, storeVars>>

\* closeAll: shut the gate, wait for what was admitted, take every live actor,
\* list what there is to clean up, clean up, and join.
CloseGate ==
    /\ closer = "gate" /\ closing' = TRUE /\ closer' = "admission"
    /\ UNCHANGED <<late, errored, calls, cancelled, controlVars, loopVars, job, op, actor, todo,
                   joined, failures, storeVars>>

TakeOwnership ==
    /\ closer = "admission" /\ Joins("admission") /\ closer' = "snapshot"
    /\ actor' = [a \in Actors |->
           IF actor[a].at = "live" THEN [actor[a] EXCEPT !.at = "pending"] ELSE actor[a]]
    /\ UNCHANGED <<late, errored, calls, cancelled, controlVars, loopVars, job, op, closing, todo,
                   joined, failures, storeVars>>

Snapshot ==
    /\ closer = "snapshot" /\ closer' = "cleanup"
    /\ todo' = [todo EXCEPT !["closer"] = At("pending")]
    /\ UNCHANGED <<late, errored, calls, cancelled, controlVars, loopVars, job, op, closing, actor,
                   joined, failures, storeVars>>

CleanupEnds ==
    /\ closer = "cleanup" /\ todo["closer"] = {} /\ closer' = "supervisors"
    /\ UNCHANGED <<late, errored, calls, cancelled, controlVars, loopVars,
                   planeVars, storeVars>>

CloseStore ==
    /\ closer = "store" /\ bolt' = "closed" /\ closer' = "closed"
    /\ UNCHANGED <<late, errored, calls, cancelled, controlVars, loopVars,
                   planeVars, events, saving>>

-----------------------------------------------------------------------------

JobStep(j) ==
    \/ BeginAdmission(j) \/ BeginOperation(j) \/ NothingBuilt(j)
    \/ Install(j) \/ Abandon(j) \/ AbandonEnds(j) \/ AbandonClosing(j)

ShutdownStep ==
    \/ CloseEndpoint \/ CloseClient \/ JoinEnds \/ CloseGate \/ TakeOwnership \/ Snapshot
    \/ CleanupEnds \/ CloseStore

\* What the world and the tickers give the goroutines to do.
Incident ==
    \/ \E a \in Actors : RunFails(a) \/ Deliver(a)
    \/ Command \/ TransportFails \/ Connected
    \/ MonitorWorks \/ SweeperWorks \/ DrainWorks \/ Request

\* Goroutines that can go on do: what they were given to do is finite, so it
\* suffices that one of them takes a step as long as any can, and that the
\* reconnect loop, which may fail to connect for ever, is not in the way.
Progress ==
    \/ \E j \in Jobs : JobStep(j)
    \/ \E c \in Cleaners : CleanupStep(c)
    \/ \E a \in Actors : RunReturns(a) \/ RunHandled(a)
    \/ CommandEnds \/ WorkersLeave
    \/ MonitorRests \/ SweeperRests \/ DrainRests \/ RequestEnds
    \/ CallbackChecks \/ CallbackSaves
    \/ ShutdownStep

Routine ==
    \/ Progress \/ Reconnecting \/ ReplayFails
    \/ \E j \in Jobs : Acquire(j)
    \/ \E c \in Cleaners, a \in Actors : GivesUpJoin(c, a)
    \/ Call \/ CallExpires \/ JoinTimesOut

EndNext ==
    \/ /\ incidents < MaxIncidents /\ calls + incidents < MaxEvents
       /\ Incident /\ incidents' = incidents + 1
    \/ Routine /\ UNCHANGED incidents

EndFairness ==
    /\ WF_endVars(Progress /\ UNCHANGED incidents)
    /\ WF_endVars(Reconnecting /\ UNCHANGED incidents)

EndSpec == EndInit /\ [][EndNext]_endVars /\ EndFairness

-----------------------------------------------------------------------------
(* Properties                                                                *)

(* Type correctness. *)
EndTypeOK ==
    /\ closer \in Stages /\ late \in BOOLEAN /\ errored \in BOOLEAN /\ calls \in 0 .. MaxCalls
    /\ cancelled \in BOOLEAN /\ session \in BOOLEAN /\ closing \in BOOLEAN
    /\ endpoint \in [server : {"open", "closed"}, request : BOOLEAN]
    /\ worker \in {"reading", "command", "gone"} /\ client \in {"open", "closed"}
    /\ reconnect \in {"waiting", "updating", "connecting", "replaying", "done"}
    /\ monitor \in {"polling", "working", "done"} /\ sweeper \in {"waiting", "sweeping", "done"}
    /\ drain \in {"waiting", "draining", "done"} /\ bolt \in {"open", "closed"}
    /\ job \in [Jobs -> {"off", "asked", "admitted", "building", "held", "abandoning"}]
    /\ op \in Jobs \union {Nobody}
    /\ actor \in [Actors -> [at : {"none", "held", "live", "pending", "gone", "leaked"},
                             run : {"none", "running", "stopping", "handling", "done"},
                             cleaner : Cleaners \union {Nobody}, stuck : BOOLEAN, renews : BOOLEAN]]
    /\ todo \in [Cleaners -> SUBSET Actors] /\ joined \in [Cleaners -> SUBSET Actors]
    /\ failures \in 0 .. MaxFailures /\ incidents \in 0 .. MaxIncidents
    /\ events \in 0 .. incidents /\ saving \in Actors \union {Nobody}

(* Who may still use the store when it is closed: no session worker,       *)
(* reconnect loop, monitor, sweep, admitted apply or recovery, cleanup,    *)
(* supervisor, drain or renewal loop, however the calls of Shutdown timed  *)
(* out before.  Two are left: a request of the local endpoint may outlive  *)
(* a deadline, and a lifecycle callback, which nothing joins, may come to  *)
(* its save late.  That one found its Forward live before closeAll took    *)
(* it, and the actor it reports on has been released since.                *)
StoreOutlivesUsers ==
    bolt = "closed" =>
        /\ worker = "gone" /\ reconnect = "done" /\ monitor = "done" /\ sweeper = "done"
        /\ drain = "done" /\ Admitted = {}
        /\ \A a \in Actors : /\ actor[a].run \in {"none", "done"}
                             /\ actor[a].cleaner = Nobody /\ ~actor[a].renews
        /\ endpoint.request => late \/ calls > 1
        /\ saving # Nobody => actor[saving].at = "gone"

(* A Shutdown that succeeded left no listener and no mapping behind,       *)
(* except one that was being acquired while the gate closed and could not  *)
(* be released: abandonAcquiredActor drops that error.                     *)
ClosedIsQuiet ==
    bolt = "closed" => ~session /\ \A a \in Actors : actor[a].at \in {"none", "gone", "leaked"}

(* The order of the shutdown is right: the store closes after every user   *)
(* it joins, and when it is closed without an error nothing is left open       *)
(* (Shutdown, closeAll).                                                   *)
ShutdownInv == EndTypeOK /\ StoreOutlivesUsers /\ ClosedIsQuiet

(* Shutdown returns without any deadline: nothing it joins waits, through  *)
(* admission, the operation of the Forward, connectMu or another's         *)
(* cleanup, for something that Shutdown holds up.                          *)
ShutdownReturns == (closer = "endpoint") ~> (closer \in {"idle", "closed"})
===============================================================================
