----------------------------- MODULE TcpForward -----------------------------
(***************************************************************************)
(* One TCP data plane (internal/forward/tcp/forward.go) behind its         *)
(* ProbeGate (internal/agent/reconcile/probe.go): the accept loop, the     *)
(* budget, the session goroutines with their half-close proxy, the probe   *)
(* ingress workers, and the retryable single-flight close that the owner,  *)
(* the context watcher and the loop race to.                               *)
(***************************************************************************)
EXTENDS Naturals, FiniteSets

CONSTANTS Conns,           \* business connections that clients open
          ProbeConns,      \* connections from an armed provider source
          MaxConnections,  \* Limits.MaxConnections
          MaxConcurrent,   \* ProbeGateOptions.MaxConcurrent
          MaxCloseFailures \* bound on close(2) failures

VARIABLES loop,       \* Run: "idle", "accept", "reserve", "admit", "track", "backoff", "done"
          hand,       \* the connection the loop holds
          listener,   \* the wrapped listener: "open" or "closed"
          sess,       \* per connection: stage, directions still copying, socket flags
          budget,     \* Budget.connections
          gate,       \* ProbeGate: closed, complete, err
          workers,    \* ProbeGate.active
          probed,     \* provider connections already made
          closed,     \* Forward.closed
          cancelled,  \* the context Run received
          watcher,    \* the goroutine that closes the listener on cancellation
          attempt,    \* finishClose in progress
          targets,    \* sessions that the attempt has still to close
          complete,   \* closeComplete
          owner,      \* the caller of CloseContext
          closeFails  \* close(2) failures so far

tcpVars == <<loop, hand, listener, sess, budget, gate, workers, probed, closed, cancelled,
             watcher, attempt, targets, complete, owner, closeFails>>
loopVars == <<loop, hand>>
closeVars == <<gate, closed, cancelled, watcher, attempt, targets, complete, owner,
               closeFails>>

NoConn == "none"

(* Client connections and provider connections are told apart. *)
ASSUME TcpAssumption ==
    /\ IsFiniteSet(Conns) /\ IsFiniteSet(ProbeConns)
    /\ Conns \cap ProbeConns = {} /\ NoConn \notin Conns \cup ProbeConns
    /\ MaxConnections \in Nat /\ MaxConcurrent \in Nat /\ MaxCloseFailures \in Nat

Directions == {"up", "down"}
Fresh == [stage |-> "none", dirs |-> {}, client |-> FALSE, target |-> FALSE, shut |-> FALSE]
Tracked(s) == sess[s].stage \in {"dialing", "proxy", "closing", "released"}
HoldsRunMu == attempt = "sessions"
Closers == {"attempt", "watcher"}

(* Run takes runMu for the whole loop and starts the watcher. *)
RunStarts ==
    /\ loop = "idle" /\ ~HoldsRunMu
    /\ loop' = "accept" /\ watcher' = "armed"
    /\ UNCHANGED <<hand, listener, sess, budget, gate, workers, probed, closed, cancelled,
                   attempt, targets, complete, owner, closeFails>>

LoopEnds == loop' = "done" /\ hand' = NoConn

(* Accept on a closed listener, a fatal accept error or a quarantined      *)
(* probe plane ends the loop; the owner then cleans the actor up.          *)
AcceptFails ==
    /\ loop = "accept" /\ LoopEnds
    /\ owner' = IF owner = "none" /\ ~closed /\ ~cancelled THEN "wants" ELSE owner
    /\ UNCHANGED <<listener, sess, budget, workers, probed, gate, closed, cancelled, watcher,
                   attempt, targets, complete, closeFails>>

(* EMFILE and its like pace the loop; cancellation ends the pause. *)
AcceptBacksOff ==
    /\ loop = "accept" /\ listener = "open"
    /\ loop' = "backoff"
    /\ UNCHANGED <<hand, listener, sess, budget, workers,
                   probed>> /\ UNCHANGED closeVars

BackoffEnds ==
    /\ loop = "backoff"
    /\ loop' \in IF cancelled THEN {"accept", "done"} ELSE {"accept"}
    /\ UNCHANGED <<hand, listener, sess, budget, workers,
                   probed>> /\ UNCHANGED closeVars

(* ProbeGate.Accept: a connection after Close is dropped and ends the      *)
(* loop; the provider's source goes to a worker, all others to the Forward.*)
AcceptConn(c) ==
    /\ loop = "accept" /\ listener = "open"
    /\ c \in Conns => sess[c].stage = "none"
    /\ c \in ProbeConns => c \notin probed
    /\ IF gate.closed THEN LoopEnds
       ELSE hand' = c /\ loop' = IF c \in Conns THEN "reserve" ELSE "track"
    /\ sess' = IF c \in Conns
               THEN [sess EXCEPT ![c] = [Fresh EXCEPT !.stage = IF gate.closed THEN "gone" ELSE "hand",
                                                      !.client = ~gate.closed]]
               ELSE sess
    /\ probed' = IF c \in ProbeConns THEN probed \cup {c} ELSE probed
    /\ UNCHANGED <<listener, budget, workers>> /\ UNCHANGED closeVars

TrackUnfenced ==
    /\ loop = "track" /\ loop' = "accept" /\ hand' = NoConn
    /\ workers' = IF Cardinality(workers) >= MaxConcurrent THEN workers ELSE workers \cup {hand}
    /\ UNCHANGED <<listener, sess, budget, probed>> /\ UNCHANGED closeVars

(* A full slot channel drops the connection; track refuses after Close. *)
Track ==
    /\ loop = "track"
    /\ IF Cardinality(workers) >= MaxConcurrent
       THEN loop' = "accept" /\ hand' = NoConn /\ UNCHANGED workers
       ELSE IF gate.closed THEN LoopEnds /\ UNCHANGED workers
       ELSE loop' = "accept" /\ hand' = NoConn /\ workers' = workers \cup {hand}
    /\ UNCHANGED <<listener, sess, budget, probed>> /\ UNCHANGED closeVars

(* handleIngress is bounded by its read deadline.  The slot is freed, then *)
(* untrack ends the worker; here both are one step, so that a worker that  *)
(* has given its slot back still counts for it until it is untracked.      *)
WorkerEnds(c) ==
    /\ c \in workers
    /\ workers' = workers \ {c}
    /\ UNCHANGED <<listener, sess, budget,
                   probed>> /\ UNCHANGED closeVars /\ UNCHANGED loopVars

(* Budget.Reserve, or the rejection of the connection. *)
Reserve ==
    /\ loop = "reserve"
    /\ IF MaxConnections > 0 /\ budget >= MaxConnections
       THEN loop' = "accept" /\ hand' = NoConn /\ UNCHANGED budget
            /\ sess' = [sess EXCEPT ![hand].stage = "gone", ![hand].client = FALSE]
       ELSE loop' = "admit" /\ budget' = budget + 1 /\ UNCHANGED <<hand, sess>>
    /\ UNCHANGED <<listener, workers, probed>> /\ UNCHANGED closeVars

(* The session is published under f.mu unless the Forward is closed. *)
Admit ==
    /\ loop = "admit"
    /\ IF closed
       THEN /\ LoopEnds /\ budget' = budget - 1
            /\ sess' = [sess EXCEPT ![hand].stage = "gone", ![hand].client = FALSE]
       ELSE /\ loop' = "accept" /\ hand' = NoConn /\ UNCHANGED budget
            /\ sess' = [sess EXCEPT ![hand].stage = "dialing"]
    /\ UNCHANGED <<listener, workers, probed>> /\ UNCHANGED closeVars
------------------------------------------------------------------------------
SessionStep(s, r, b) ==
    /\ sess' = [sess EXCEPT ![s] = r] /\ budget' = b
    /\ UNCHANGED <<listener, workers,
                   probed>> /\ UNCHANGED loopVars /\ UNCHANGED closeVars

(* The sockets of session.close, exactly once. *)
Shut(r) == [r EXCEPT !.shut = TRUE, !.client = FALSE, !.target = FALSE]

DialedUnfenced(s) ==
    /\ sess[s].stage = "dialing"
    /\ SessionStep(s, [sess[s] EXCEPT !.stage = "proxy", !.dirs = Directions, !.target = TRUE], budget)

(* The backend answers: setTarget closes the new socket of a session that  *)
(* the stop hook has closed meanwhile.                                     *)
Dialed(s) ==
    /\ sess[s].stage = "dialing"
    /\ SessionStep(s, [sess[s] EXCEPT !.stage = "proxy", !.dirs = Directions,
                                      !.target = ~sess[s].shut], budget)

DialFails(s) ==
    /\ sess[s].stage = "dialing"
    /\ SessionStep(s, [Shut(sess[s]) EXCEPT !.stage = "closing"], budget)

(* proxyTCP: the end of one direction is passed on by CloseWrite, and the  *)
(* other one goes on.                                                      *)
CopyEnds(s, d) ==
    /\ sess[s].stage = "proxy" /\ d \in sess[s].dirs
    /\ SessionStep(s, [sess[s] EXCEPT !.dirs = @ \ {d}], budget)

(* Both directions are done: the sockets and the session are closed. *)
ProxyEnds(s) ==
    /\ sess[s].stage = "proxy" /\ sess[s].dirs = {}
    /\ SessionStep(s, [Shut(sess[s]) EXCEPT !.stage = "closing"], budget)

(* untrack frees the charge, then forgets the session; wg.Done follows. *)
Uncharge(s) ==
    /\ sess[s].stage = "closing"
    /\ SessionStep(s, [sess[s] EXCEPT !.stage = "released"], budget - 1)

Untrack(s) ==
    /\ sess[s].stage = "released"
    /\ SessionStep(s, [sess[s] EXCEPT !.stage = "gone"], budget)
------------------------------------------------------------------------------
(* Who closes the listener at this moment; listenerMu admits one. *)
ListenerMuFree == watcher # "closing" /\ attempt # "closing"

(* closeListener and ProbeGate.Close up to the snapshot of the workers. *)
CloseBegins(w) ==
    /\ ListenerMuFree
    /\ CASE w = "attempt" -> attempt = "listener" /\ attempt' = "closing" /\ UNCHANGED watcher
         [] OTHER -> watcher = "fired" /\ watcher' = "closing" /\ UNCHANGED attempt
    /\ gate' = [gate EXCEPT !.closed = TRUE]
    /\ UNCHANGED <<listener, sess, budget, workers, probed, closed, cancelled, targets, complete,
                   owner, closeFails>> /\ UNCHANGED loopVars

(* inner.Close, the close of the snapshot and the join of the workers; a   *)
(* complete close answers with its recorded error.  close(2) may fail, and *)
(* evicts the descriptor all the same: the next close reports ErrClosed.   *)
CloseEnds(w) ==
    /\ IF w = "attempt" THEN attempt = "closing" ELSE watcher = "closing"
    /\ workers = {}
    /\ \E err \in {"nil", "closed", "io"} :
        /\ IF gate.complete
           THEN err = gate.err /\ UNCHANGED <<gate, listener, closeFails>>
           ELSE /\ IF listener = "closed" THEN err = "closed" ELSE err \in {"nil", "io"}
                /\ err = "io" => closeFails < MaxCloseFailures
                /\ closeFails' = IF err = "io" THEN closeFails + 1 ELSE closeFails
                /\ listener' = "closed"
                /\ gate' = [gate EXCEPT !.err = err, !.complete = err # "io"]
        /\ IF w = "attempt"
           THEN attempt' = "join" /\ complete' = [complete EXCEPT !.err = err] /\ UNCHANGED watcher
           ELSE watcher' = "done" /\ UNCHANGED <<attempt, complete>>
    /\ UNCHANGED <<sess, budget, workers, probed, closed, cancelled, targets,
                   owner>>
    /\ UNCHANGED loopVars

(* The watcher fires on cancellation while the loop runs, and else leaves. *)
WatcherFires ==
    /\ watcher = "armed"
    /\ \/ cancelled /\ watcher' = "fired"
       \/ loop = "done" /\ watcher' = "done"
    /\ UNCHANGED <<listener, sess, budget, gate, workers, probed, closed, cancelled, attempt,
                   targets, complete, owner, closeFails>> /\ UNCHANGED loopVars

(* cleanupActor: the stop cancels the context before CloseContext; a       *)
(* failed or timed-out attempt is retried, and joins one in flight.        *)
CloseContext ==
    /\ owner \in {"none", "wants", "failed"}
    /\ cancelled' = TRUE
    /\ IF complete.done
       THEN owner' = complete.err /\ UNCHANGED attempt
       ELSE owner' = "waiting" /\ attempt' = IF attempt = "none" THEN "mark" ELSE attempt
    /\ UNCHANGED <<listener, sess, budget, gate, workers, probed, closed, watcher, targets,
                   complete, closeFails>> /\ UNCHANGED loopVars

CallerTimesOut ==
    /\ owner = "waiting" /\ owner' = "failed"
    /\ UNCHANGED <<listener, sess, budget, workers, probed, gate, closed, cancelled, watcher,
                   attempt, targets, complete, closeFails>> /\ UNCHANGED loopVars

(* finishClose: closed is set before the listener is touched. *)
MarkClosed ==
    /\ attempt = "mark"
    /\ closed' = TRUE /\ attempt' = "listener"
    /\ UNCHANGED <<listener, sess, budget, workers, probed, gate, cancelled, watcher,
                   targets, complete, owner, closeFails>> /\ UNCHANGED loopVars

(* runMu is free only when the loop is over or never began. *)
JoinLoop ==
    /\ attempt = "join" /\ loop \in {"idle", "done"}
    /\ attempt' = "sessions" /\ targets' = {s \in Conns : Tracked(s)}
    /\ UNCHANGED <<listener, sess, budget, workers, probed, gate, closed, cancelled, watcher,
                   complete, owner, closeFails>> /\ UNCHANGED loopVars

CloseSession(s) ==
    /\ attempt = "sessions" /\ s \in targets
    /\ targets' = targets \ {s}
    /\ sess' = [sess EXCEPT ![s] = Shut(@)]
    /\ UNCHANGED <<listener, budget, workers, probed, gate, closed, cancelled, watcher, attempt,
                   complete, owner, closeFails>> /\ UNCHANGED loopVars

(* wg.Wait, and the verdict of the attempt for its waiters. *)
JoinSessions ==
    /\ attempt = "sessions" /\ targets = {}
    /\ \A s \in Conns : ~Tracked(s)
    /\ attempt' = "none"
    /\ complete' = [complete EXCEPT !.done = complete.err # "io"]
    /\ owner' = IF owner = "waiting" THEN IF complete.err = "io" THEN "failed" ELSE complete.err
                ELSE owner
    /\ UNCHANGED <<listener, sess, budget, workers, probed, gate, closed, cancelled, watcher,
                   targets, closeFails>> /\ UNCHANGED loopVars
------------------------------------------------------------------------------
TcpInit ==
    /\ loop = "idle" /\ hand = NoConn /\ listener = "open"
    /\ sess = [s \in Conns |-> Fresh]
    /\ budget = 0 /\ workers = {} /\ probed = {}
    /\ gate = [closed |-> FALSE, complete |-> FALSE, err |-> "nil"]
    /\ closed = FALSE /\ cancelled = FALSE /\ watcher = "none"
    /\ attempt = "none" /\ targets = {}
    /\ complete = [done |-> FALSE, err |-> "nil"]
    /\ owner = "none" /\ closeFails = 0

SessionWork(s) == Dialed(s) \/ DialFails(s) \/ ProxyEnds(s) \/ Uncharge(s) \/ Untrack(s)
LoopWork == BackoffEnds \/ Track \/ Reserve \/ Admit
CloseWork ==
    \/ MarkClosed \/ JoinLoop \/ JoinSessions \/ WatcherFires
    \/ \E w \in Closers : CloseBegins(w) \/ CloseEnds(w)
    \/ \E s \in Conns : CloseSession(s)

TcpNext ==
    \/ RunStarts \/ AcceptFails \/ AcceptBacksOff \/ LoopWork \/ CloseWork
    \/ \E c \in Conns \cup ProbeConns : AcceptConn(c)
    \/ \E c \in ProbeConns : WorkerEnds(c)
    \/ \E s \in Conns : SessionWork(s) \/ \E d \in Directions : CopyEnds(s, d)
    \/ CloseContext \/ CallerTimesOut

(* Goroutines run, dials and reads have deadlines, a copy from a closed    *)
(* socket ends, Accept on a closed listener returns, and cleanup retries. *)
TcpFairness ==
    /\ WF_tcpVars(LoopWork) /\ WF_tcpVars(CloseWork)
    /\ WF_tcpVars(listener = "closed" /\ AcceptFails)
    /\ WF_tcpVars(owner # "none" /\ CloseContext)
    /\ \A c \in ProbeConns : WF_tcpVars(WorkerEnds(c))
    /\ \A s \in Conns : /\ WF_tcpVars(SessionWork(s))
                        /\ WF_tcpVars(~sess[s].client /\ CopyEnds(s, "up"))
                        /\ WF_tcpVars(~sess[s].target /\ CopyEnds(s, "down"))

TcpSpec == TcpInit /\ [][TcpNext]_tcpVars /\ TcpFairness
------------------------------------------------------------------------------
SessionStages == {"none", "hand", "dialing", "proxy", "closing", "released", "gone"}
Sessions == [stage : SessionStages, dirs : SUBSET Directions,
             client : BOOLEAN, target : BOOLEAN, shut : BOOLEAN]
CloseErrors == {"nil", "closed", "io"}
MayHold == IF loop \in {"reserve", "admit"} THEN Conns ELSE IF loop = "track" THEN ProbeConns ELSE {NoConn}

(* The loop, the sessions and the close machinery stay well formed. *)
TcpTypeOK ==
    /\ loop \in {"idle", "accept", "reserve", "admit", "track", "backoff", "done"}
    /\ hand \in MayHold
    /\ listener \in {"open", "closed"}
    /\ workers \subseteq ProbeConns /\ probed \subseteq ProbeConns /\ Cardinality(workers) <= MaxConcurrent
    /\ sess \in [Conns -> Sessions] /\ budget \in Nat /\ targets \subseteq Conns
    /\ gate \in [closed : BOOLEAN, complete : BOOLEAN, err : CloseErrors]
    /\ closed \in BOOLEAN /\ cancelled \in BOOLEAN
    /\ watcher \in {"none", "armed", "fired", "closing", "done"}
    /\ attempt \in {"none", "mark", "listener", "closing", "join", "sessions"}
    /\ complete \in [done : BOOLEAN, err : CloseErrors]
    /\ owner \in {"none", "wants", "waiting", "failed", "nil", "closed"}
    /\ closeFails \in 0..MaxCloseFailures

(* The sockets that a session may have open at each stage; inHand says     *)
(* that the accept loop has not published it yet.                          *)
SocketsFit(r, inHand) ==
    /\ r.stage = "hand" <=> inHand
    /\ r.shut \/ r.stage \in {"none", "closing", "released", "gone"} => ~r.client /\ ~r.target
    /\ r.stage \in {"hand", "dialing"} => ~r.target /\ (r.shut \/ r.client)

HeldByLoop(s) == loop \in {"reserve", "admit"} /\ hand = s

(* The order of a close: the gate before the listener, the workers before  *)
(* the listener counts as closed, the listener and the loop before the     *)
(* sessions, and no further attempt after one that completed.              *)
CloseInOrder ==
    /\ attempt \in {"closing", "join", "sessions"} \/ watcher = "closing" => gate.closed
    /\ listener = "closed" => gate.closed /\ workers = {}
    /\ attempt \in {"join", "sessions"} \/ gate.complete => listener = "closed"
    /\ attempt = "sessions" => loop \in {"idle", "done"}
    /\ complete.done => attempt = "none" /\ complete.err # "io"

ChargedConns ==
    {s \in Conns : sess[s].stage \in {"dialing", "proxy", "closing"} \/ (loop = "admit" /\ hand = s)}

(* The budget is exact and bounds real sockets: a charge is held by each   *)
(* session from Reserve until its sockets are closed, never longer and     *)
(* never twice, so no more than MaxConnections clients hold a socket.      *)
BudgetBoundsSockets ==
    /\ budget = Cardinality(ChargedConns)
    /\ MaxConnections > 0 =>
        /\ budget <= MaxConnections
        /\ Cardinality({s \in Conns : sess[s].stage # "hand" /\ (sess[s].client \/ sess[s].target)})
               <= MaxConnections

(* A session that nobody stopped keeps both sockets until both directions  *)
(* ended, so a reply after the peer's half close is never cut short.       *)
HalfCloseIsHonoured ==
    \A s \in Conns : sess[s].stage = "proxy" /\ ~sess[s].shut => sess[s].client /\ sess[s].target

(* A completed close is final: no session, socket, probe worker or accept  *)
(* in progress is left, whatever raced it, and none appears afterwards.    *)
ClosedIsDrained ==
    complete.done =>
        /\ listener = "closed" /\ workers = {} /\ loop \notin {"reserve", "admit", "track"}
        /\ \A s \in Conns : ~Tracked(s) /\ ~sess[s].client /\ ~sess[s].target

(* The sockets of a TCP Forward are accounted for from accept to close:    *)
(* charged once, kept while a direction is open, and gone after a          *)
(* completed close, whatever raced it (forward.go, budget.go).             *)
TcpInv ==
    /\ TcpTypeOK /\ BudgetBoundsSockets /\ HalfCloseIsHonoured /\ ClosedIsDrained
    /\ CloseInOrder /\ \A s \in Conns : SocketsFit(sess[s], HeldByLoop(s))

(* A close that was asked for completes, through a failed close(2), a      *)
(* timed-out caller, a dial in flight or a probe worker.                   *)
CloseCompletes == (owner # "none") ~> complete.done

(* The owner that retries is told of the success it waits for: "a          *)
(* successful close is permanently idempotent".                            *)
CompletedCloseSucceeds == owner # "closed"
==============================================================================
