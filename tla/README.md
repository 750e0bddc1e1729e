# A TLA+ verification of the AntiNAT Agent

The AntiNAT Agent is the data-plane process of AntiNAT: it publishes TCP and UDP
services that live behind a NAT.  A Controller tells it, over signed WebSocket
sessions, which Forwards should exist; the Agent opens listeners and router
mappings, proves that they are reachable, keeps all it must not forget in one
bbolt store, and reports back.  This directory models the Agent's protocols in
TLA+, checks them with TLC on small instances, and proves the most important
properties with TLAPS for every instance.

## 1. Inventory: the parts of the system

Paths are relative to `src/internal/agent/` unless they start with `src/`.

| Part | State | Operations | What is hard about it |
| --- | --- | --- | --- |
| Command journal (`localstate/journal.go`) | inbox, operation rows, results, outbox, receipt tombstones, epoch and session | receive, intent, applying, complete, nack, recover, queue, claim, sent, ack, receipt, requeue | a crash between any two transactions; redelivery; rows of older clients |
| Control session (`control/session.go`) | transport, generation, sequence numbers, worker group | handshake, frame loop, outbox pump, heartbeat, close, shutdown | two goroutines race on outbox rows; the receipt may beat the pump |
| Desired and applied state (`localstate/applied.go`) | received desired rows, applied rows, mirror of activations | merge, `SaveReceivedDesired`, `CommitDesired` | revisions that arrive out of order; a crash between save and commit |
| Forward deletion (`localstate/forward_delete.go`, `tombstone.go`, `reconcile/delete.go`) | pending intents, tombstones | put intent, delete, complete, converge after a restart | a deletion must survive every crash and never be undone by a late PRESENT |
| Reconciler (`reconcile/desired.go`, `reconciler.go`) | none of its own | apply a snapshot with guard and rollback, periodic re-apply | one step of several fails; a terminal fence rises in the middle |
| Decommission (`reconcile/decommission.go`, `localstate/decommission.go`, `marker.go`, `latch.go`) | intent, terminal marker, latch, cleanup tombstone | begin, stop all, complete, deadline, restart | the marker, the latch and the store are three places and a crash falls between them |
| Recovery quarantine (`localstate/recovery.go`, `reconcile/recovery.go`) | restore record | enter, reconcile, result | no side effect may run on restored state before the Controller agrees |
| Probes (`reconcile/probe.go`, `probe_udp.go`, `localstate/probe.go`) | armed rows, acknowledgement and receipt progress, ingress gates | prepare, commit, abort, ingress, retry, acknowledge, sweep | at most one consumption, exact acknowledgement after a crash |
| Activation (`reconcile/activation.go`, `state_machine.go`, `localstate/activation.go`) | evidence axis per Forward, published status | start probe, outcome, evidence lost, restart | an outcome of an older probe arriving late |
| Forward actors (`reconcile/actor.go`, data plane in `app.go`) | running actors, journal of mappings, pending cleanups | apply, stop, rollback, recover, reopen, cleanup drain | stop racing apply; a cleanup that fails is retried for ever |
| Traversal (`../traversal/`) | mappings, leases, port registry, shared sockets | acquire, renew, release, detect | a lease outlives its owner; two Forwards want one port |
| Mapping protocols (`../traversal/pcp`, `natpmp`, `upnp`, `stun`) | transactions, epochs | request, retry, validate | a late answer of an earlier attempt |
| TCP and UDP forwarding (`../forward/`) | connections, budget, limiter | accept, copy, close, drain | a budget at its limit, close racing accept |
| Controller key rotation (`reconcile/rotation.go`, `localstate/pins.go`, `../security/keyring.go`) | pins, prepared key | prepare, commit | a crash between prepare and commit |
| Enrollment (`control/enroll.go`, `tokenfile.go`) | token file, pin | enroll | a token is spent, the answer lost |
| Store (`localstate/store.go`, `schema.go`) | buckets, lock | open, migrate | a migration cut short |
| Envelopes and codecs (`src/internal/protocol/`) | none | parse, verify, build | pure functions |
| Uninstall and installers (`reconcile/uninstall.go`, `src/scripts/`) | files | uninstall notice | I/O |

How they meet: the frame loop journals a command, then calls the application
handler, which drives the reconciler, the decommission, the probe manager or the
key rotation; each of these writes the same store and queues its own results
through the journal.  On a restart the application replays what the store says
before it connects; on every reconnect the journal recovers what a crash left.

## 2. Plan

1. `ControlJournal` with its abstract specification `CommandContract`: the
   exactly-once core everything else relies on.
2. `ForwardLifecycle`: desired merge, `CommitDesired`, deletion intents and
   tombstones, the reconciler and the data plane's actors, over crashes.  Abstract
   specification `ForwardContract`.
3. `Decommission`, `ProbeLifecycle`, `Activation`: what the commands other than a
   snapshot do.
4. Traversal (`MappingLife`, `Ports`, `GatewayExchange`, `Renewal`, `Upnp`, `Stun`,
   `Detection`).
5. Forwarding (`TcpForward`, `UdpForward`, `Limiter`).
6. `Rotation` and `Shutdown`.

All are modelled and checked.  Proved for every instance are the safety properties of
all but `ProbeLifecycle`, `Upnp`, `Detection` and `Shutdown`, and both refinements
(section 5).

## 3. Modules

### CommandContract

What the Agent promises about a command, with sessions and crashes left out: at
most one effect, at most one answer, never revised, and no success without its
effect.

### ControlJournal

One bbolt transaction is one action: bbolt serialises writers and commits
atomically, so no interleaving exists inside one.  Handlers that make several
transactions are several actions, linked by the step counters of the goroutine
that runs them: `frame` for the frame loop, `pump` for the outbox pump, `conn`
for the reconnect loop.  A crash resets all three and leaves the store.

- `frame.pc` runs through `intent`, `applying`, `run`, `report`, `finish` for a new
  command; `converge`, `converged`, `recover`, `requeueNack` for duplicates
  (`handleCommandOnSession`); `rcClaim`, `rcSent`, `rcAck`, `rcAccept` for a
  receipt (`handleReceiptOnSession`).
- `pump.pc` runs through `claim`, `write`, `sent`, `rcpt` (`pumpOnce`).
- `OnCommand` is the application handler seen from the journal: it has an effect,
  succeeds or fails, and may queue the result of a deletion under the deletion's
  own id, or of a decommission under the command's id (`ReportOf`).
- The Controller is external and modelled from what the session code expects of
  it: it persists a result before it sends the receipt, re-sends what it holds on
  every session, and collects a command on the Agent's `message_receipt`.
- What the Controller has sent and the Agent has not read is a set, so any order
  of commands and receipts is covered.  A frame the Agent writes arrives or dies
  with its transport.

The session check of each transaction (`checkSession`) never fails here, and
cannot in the code: `reconnectControl` joins both workers (`client.Wait`) before the
next `Connect`, so no worker outlives its session.  Message ids stand for the type
and payload hash they are derived from; a frame that fails verification closes the
session, which `Disconnect` covers.  Each deletion id belongs to a Forward of its own;
two deletion ids competing for one Forward belong to the Forward lifecycle.

### ForwardContract

What the Agent promises about a Forward, with snapshots, goroutines and crashes left
out: the revision it serves never goes back, a deletion is final, and after the
deletion is complete no listener is open for it.

### ForwardLifecycle

The durable rows of `localstate` (`desired`, `applied`, `intent`, `tomb`), the
reconciler's `ApplyDesired` and the data plane of `app.go`.

- `frame` is the frame loop: a snapshot is merged and saved, its deletions fenced,
  its Forwards applied or stopped one by one in any order, and the result committed;
  a failure rolls back.  After the commit the stopped Forwards are waited for and
  their deletions completed.  A decommission stops every Forward.
- `rec` holds the recovery goroutines: the liveness monitor, which also tears every
  listener down when the route table changes, and the retry goroutines that a
  finished cleanup or a detection pass starts.  Each runs `recover`, `reopen` and
  `finishReopen`, with one action per transaction or critical section.
- `actor` says what each acquired listener serves and the generations it was
  acquired under; `forwards` and `pending` say who owns it.  `mu` is the data plane's
  mutex where it is held over several transactions; `op` is the operation that
  serialises the acquisitions of one Forward.
- The route table (`net`) is external: it changes, becomes unusable and recovers at
  any time.  A crash loses everything but the rows and the terminal marker.

Simplifications.  The second fence read of `reopen` is part of `RecPick`, which comes
right before it.  The snapshot of previous rows that `ApplyDesired` carries equals the
stored rows, because the frame loop is their only writer.  Releasing a torn down
actor and taking it off `pending` is one step, and a release that fails changes
nothing.  Left to other modules: the admission gate of `closeAll` (`Shutdown`), the
decommission deadline, the error paths of `Begin` and the quarantine (`Decommission`), and
the mapping journal references (`MappingLife`).  Retry goroutines started while `Start` is
still recovering are not modelled.

### Decommission

The `node_decommission` command from its intent to its acknowledgement, with the
terminal marker, the latch, the deadline, the cleanup tombstone and the recovery
quarantine.  A command is split at every durable write; a write or a stop may fail,
and a crash may fall between any two.  `RecoverBegin`, `RecoverInstall` and the cleanup retries run
beside it, and so does the reconnect loop, which saves activation mirrors.  `phase` separates a
process that is down, starting and up: what `New` and `Start` do with what they find
in the state directory are steps of their own.

### ProbeLifecycle

`row` is the durable ARM1 row, `op` and `replay` are the manager's maps.  A step is one
critical section of `ProbeManager.mu` or one store transaction, so two ingress workers,
the sweeper, the receipt loop and the arming command interleave between them.  The
clock is a number of ticks and may be set back by a restart.  Frames that fail the
binding or signature checks are dropped by the code and are not in the model.  A behaviour
begins with an empty store, or with a process about to start on what an earlier manager
left: armed and consumed rows of every probe, which may be more than `MaxActive` and
`MaxReplay` allow, so that `Boot` has to quarantine (`Incomplete`).  The probes in `Commanded` are the ones
the Controller arms in the run; the others have only the rows left behind.

### Activation

One Forward over two revisions.  `act` is the activation in memory, `mirrored` its durable
copy; `probeAdmissionMu` makes each handler one step with a save at its end that may fail.
Axes that no relation between axes involves are left out; the handlers that change only
those still save what they find.  Outcomes other than `OPEN_FROM_VANTAGE` act alike.

### MappingLife, Ports, GatewayExchange

`MappingLife` follows the gateway mappings of one Forward through acquisition, journal
record, publication, commit, stop, cleanup, reopen and evacuation, with one command
thread and one recovery pass.  An acquisition, its mapping and its record share one
identity, because record ids are random and never reused.  `excused` collects the
mappings whose record could never be written: a `Map` the gateway granted and whose answer
was lost (`Unanswered`), a failed `Put`, a failed compensating delete, or a death between
`Map` and `journalPut`.  A delete that fails may have removed the mapping or not.

A deletion has the order of `ApplyDesired`: the intent (`DeleteIntent`), then tombstone and
applied row in one transaction (`DeleteCommit`), and only then `stop`, which takes the live
actor and all pending ones and waits for their cleanups (`Stop`, `StopEnds`).  Until it
returns, the Forward may still serve under its tombstone.  The intent is cleared
(`DeleteComplete`) when every captured actor was released; otherwise it stays, and a
redelivery begins again.  `erased` is how far the durable part has come, `stopping` what
`stop` captured.  `DeleteForwardOnce` (`reconcile/delete.go`) has no caller and is not modelled.

`Ports` has the two registries over the ports of one host.  The plain `Release` checks,
closes outside the lock and checks again; the shared one races `DialFrom`.

`GatewayExchange` has the transactions of PCP and NAT-PMP through the one adapter all
Forwards share: the epoch baseline is copied at the start and handed back at the end,
with no lock over the exchange.

### Renewal

The renewal loop with its production pacing, as clocks that count down, the
DEGRADED / RECOVERED / LOST ladder, the event queue, the dispatcher and `Release`, which may be
called from a callback.

### TcpForward, UdpForward, Limiter

The goroutines behind an open listener.  TCP: the accept loop, the probe plane, the
session goroutines with their half close, the context watcher and the retryable
single-flight close.  A probe worker gives its slot back just before it is untracked; the
model takes both at once.  UDP: the ingress loop, one reply loop per session, the expirer
and `Close`.  `Limiter` is the token bucket with whole tokens and a clock that may step
back.

### Shutdown

`App.Shutdown` against everything it joins, with two actors of one Forward and what
`cleanupActor` does when several goroutines clean up the same one: one attempt, joined
by the others.  `job` holds the operations of the data plane that passed the admission
gate, `op` the per-Forward operation.  An actor `renews` until its renewal loop is joined; the
loop queues `events`, and the dispatcher of the Manager runs one callback at a time: it
looks the Forward up and reads the fence (`CallbackChecks`), then saves the snapshot
(`CallbackSaves`).  Nothing joins the dispatcher.

### Upnp, Stun, Detection, Rotation

`Upnp`: the adapter against the port tables of gateways that other hosts use too; every
answer may be lost.  `Stun`: exchanges over one UDP socket or TCP connection with a
single reader, and the verdict of a mapping observation; the network keeps every
answer it was ever given.  `UDPClient`, `TCPClient` and `ObserveMapping` have tests and no
production caller: the Agent uses `NewManagerObserver`, one exchange over a connection of its
own, so what `Stun` shows is about the package and not yet about the Agent.  `Detection`: a pass with its attempts and temporary
resources, the profile on disk, the route and plan of a Forward and the verdict on its
layers, while the network changes.  `Rotation`: the pin of the Controller's key, with
the journal cut down to the one operation; who signed what stands for signatures.

### Composites

`MCTraversal`, `MCSessions` and `MCNode` each check several components that share no
variable in one run; `part` says which of them a behaviour is about.  In `MCNode` a
Forward is not opened while attempts of a detection pass run (`PassAside`): their steps
write different variables and commute.

## 4. Runs

Every run: `tlc -config <cfg> <module>`.

| Run | Configuration | Shows |
| --- | --- | --- |
| `journal_two_deletes` | `MCJournalTwoDeletes` | two symmetric commands that delete one Forward: the inductive invariant, and "recovered" only after the cleanup |
| `journal_ack` | `MCJournalAck` | commands that report under their own id: recovery never wedges; refinement of `CommandContract` |
| `journal_legacy` | `MCJournalLegacy` | a row in each phase an older client leaves, two sessions, two epochs: one session per epoch; the command is carried to its receipt |
| `forward_life` | `MCForwardLife` | create, hot update and deletion with the monitor and a retry goroutine: a deleted Forward stays dead, a terminal Agent is quiet, no listener is without an owner, no install over a live actor |
| `forward_rivals` | `MCForwardRivals` | the route table flaps, a change no hot update can make, two competing deletion ids: rows, recoveries and actors agree (the inductive invariant); refinement of `ForwardContract` |
| `decommission` | `MCDecommission` | one operation with a deadline, the same without, and a rival: one operation, silence at the end, settled results, release only by the authorisation of that entry, an answer in the end |
| `probe` | `MCProbe` | two challenges on two workers, and a start on more rows than the maps hold: one answer per consumption, the durable fence, the receipt is sent until acknowledged |
| `traversal` | `MCTraversal` | mappings are accounted for; tuples and sockets have one owner; gateway transactions conclude only what is true |
| `sessions` | `MCSessions` | sockets and charges are accounted for and closes complete; the rate holds; the renewal tells its callbacks the truth in order and `Release` returns |
| `shutdown` | `MCShutdown` | the store closes last, but for a lifecycle callback nothing joins, nothing stays open, a call without a deadline returns |
| `node` | `MCNode` | publications rest on evidence; the pin is one the Controller has; the UPnP tables agree; detection claims what it found; STUN answers are one's own |
| `rotation_enrolled` | `MCRotationEnrolled` | a disagreement, section 6 |

Where a component has several state invariants, the run checks their conjunction
(`ForwardInv`, `LifeInv`, `TcpInv`, ...), whose conjuncts are stated and explained one by one in the
module.  The journal's `TypeOK`, `AtMostOnce`, `SettledIsQueued` and `NoResurrection` are
conjuncts of `IndInv`; `OneSemanticResult` and `ClassifiedIsFenced` are left to the proofs.

Bounds.  Two commands are the least for which results compete for one deletion id
and for which one recovery transaction settles several rows; a third adds nothing,
because every property speaks of one operation or of two.  `MaxEpoch` bounds the
epochs the Controller grants; a session at the same epoch with the same id is
allowed again and again, so the number of reconnects and crashes is unbounded.

For Forwards: two actors are enough for one that is torn down while another is
acquired; an acquisition waits for a free identity, so identities bound only how many
exist at once.  Three revisions give a creation, an update and a deletion in any
order, with redelivery of each; in `forward_rivals` an update and a deletion carry the
same revision, and the other deletion an older one.  `MaxGen` bounds the route changes
between two restarts; commands, crashes, deaths of listeners and retries are unbounded.
The retry goroutine and the higher `MaxGen` are in different runs because together they
are beyond a quick run.

Elsewhere, one crash and one failing write (`MaxCrashes`, `MaxRestarts`, `MaxFails`,
`MaxSaveFails`, `MaxFaults`, `MaxFailures`) are enough for a failure between any two steps, and the retry that
follows meets a healthy store.  `MappingLife` has three acquisitions: one that serves, one
being cleaned up and one being built.  `Ports` has three leases of one port, with and
without the wildcard address.  `GatewayExchange` has two Forwards, one reboot and three transactions, so an
answer of before the reboot can arrive after one of after it.  `TcpForward` has two
clients and a budget of one, `UdpForward` three clients at two addresses with a limit of
two in all and one per address.  `Renewal` has a lease of ten ticks, so that interval,
jitter and margin keep the proportions of the code.  `Shutdown` bounds what the
goroutines are given to do to three events in all.  `ProbeLifecycle` has two probes and maps
of one entry each: the least at which the rows of a store overflow them.  A behaviour that
begins with such rows has used its crash and its failing write.

Deadlock is not checked where the system may stop: a decommissioned Agent, a closed
Forward, a released mapping, or a model whose bounds are used up.

Fairness.
- Journal: weak fairness of the reconnect loop, the frame loop and the pump, each a
  goroutine with a loop of its own.  Nothing is assumed of the network: the
  properties speak of behaviours in which the transport is up from some point on.
- Decommission: the process manager starts the Agent again and a start proceeds; the
  handler proceeds; an operator restarts a process whose latch is stuck; and the
  Controller repeats a request that was not answered (strong, because sessions come and go).
- Probe: the receipt ticker runs, the process is started again, and the Controller
  acknowledges a receipt that reaches it again and again (strong).
- Renewal: the loop sees the stop, a cancelled exchange returns, callbacks return and
  the dispatcher goes on.
- TCP and UDP: goroutines run; dials and reads end by their deadlines or when their
  socket is closed; the owner that asked for a close retries one that failed, as the
  cleanup drain does; the expirer's ticker runs.
- Shutdown: goroutines with finite work make progress, and connect attempts end.

## 5. Proofs

Each theorem holds for every value of the constants.  The invariants the runs check are
the inductive ones themselves: TLC checks on the small instance the very formula that is
proved, so each was found to hold there before its proof was written.

| Proof module | About | Theorems |
| --- | --- | --- |
| `ControlProofs` | `ControlJournal` | `InductiveInvariant`, and from it `TypeCorrect`, `EffectOnce`, `SettledHasResult`, `OneResultOnly`, `ReceiptedStaysDead`, `RecoverySucceeds`; `JournalRefinesContract`; `OneSessionPerEpoch`; `DeletionIsFenced` |
| | `Rotation` | `RotationSafe` |
| `ForwardRows`, `ForwardPlane`, `ForwardProofs` | `ForwardLifecycle` | `ForwardSafe`, and from it `DeletionIsFinal`, `TerminalLeavesNothing`, `EveryActorIsOwned`, `SlotStaysFree`; `ForwardImplements` |
| `AgentProofs` | `Decommission` | `DecommissionSafe`, `AcknowledgementSettled`, `QuarantineReleasedByGrant` |
| | `Activation` | `ActivationSafe` |
| `TraversalProofs` | `Ports` | `PortsSafe` |
| | `MappingLife` | `LifeSafe`, `RecordOutlivesMapping` |
| | `GatewayExchange` | `ExchangeSafe`, `ConclusionsHold` |
| `SessionProofs` | `TcpForward`, `Limiter` | `TcpSafe`, `LimiterSafe` |
| | `Renewal` | `RenewSafe`, `LostIsNeverRevived` |
| `UdpStunProofs` | `UdpForward`, `Stun` | `UdpSafe`, `StunSafe` |

How they are laid out: one lemma per action, or per group of actions that write the
same state, each from the invariant to the invariant; under it the conjuncts the action
can disturb.  Where an invariant speaks of one Forward, session or waiter at a time, a
lemma says what a step does to one of them and a second lemma puts the others back
(`OneForward`, `ExchangeByForward` and their like).  `ForwardRows` has what a step does to
types, rows and recoveries, `ForwardPlane` what it does to the actors and their owners.

What the inductive invariants add to the properties one would state first:

- Journal (`IndInv`).  `RowsAgree` ties the result table to the outbox; `FrameAgrees` says
  that the row the frame loop works on is in the phase its step expects, has no receipt
  and that no receipt is being handled for a result the Controller does not hold;
  `PumpAgrees` says that what the pump is about to send is still the outcome;
  `EffectsAgree` counts effects by phase; `ControllerAgrees` says that the Controller
  holds no other outcome.  `Known`, the result or what the receipt tombstone keeps of
  it, is the value all of them speak of.  In the refinement `OnCommand` maps to `Run`,
  every other step to `Answer` of the commands it settles.
- Forwards (`ForwardInv`).  `TablesAgree` is about the durable rows and what the frame
  and the recoveries copied of them; `PlaneAgrees` says who owns an actor (its slot, the
  pending cleanups, or one goroutine); `FrameOwns` and `RecoveryOwns` say what the frame
  loop and a recovery hold at each of their steps; `StopsHold` says that what a deletion
  stopped stays stopped until it is complete: a recovery that passed its last check
  holds `mu`, or finds the fence.  In the refinement a commit maps to `Serve` or
  `Delete` of the Forwards whose rows it changes, and `Complete` to `Finish`.
- Decommission (`DecommissionInv`).  `CommandInStep` says how far marker, intent and
  tombstone have come at each step of the command; `QuarantineDated` orders the
  authorisations by the generation they were issued for.
- Activation (`ActivationInv`).  `CommandsAreBacked` ties what a handler in progress works
  on to the durable revision; without it a reopen might publish a revision nobody
  applied.
- Rotation (`RotationInv`).  `KeysAgree` relates the keys made, pinned, offered and saved;
  `AnswersAreTrue` says that an answer under way speaks of a pin that was saved.
- Ports (`PortOwnership`).  Leases are numbered (`LeasesNumbered`), entries point to leases
  of their own tuple (`EntriesMatchLeases`), and a call in progress still matches its
  lease (`CallsMatchLeases`).
- Mappings (`LifeInv`).  `RecordsFollow` says of each stage of an acquisition whether its
  mapping and its record exist; `OneActor` that only one serves and how far a deletion has
  come at each step of the command; `DeletedIsReleased` that from the stop on nothing serves, and
  that what is pending after the completion is at most a listener a racing reopen abandoned.
- Exchanges (`ExchangeInv`).  `EpochsInPast`: whatever was read from the gateway was read
  before now, in this boot or an earlier one; `AnswerIsTrue`: what an answer in the
  socket says of the gateway.
- TCP (`TcpInv`).  `SocketsFit` says which sockets a session of each stage holds, and
  `CloseInOrder` what each stage of the close has ended.  The budget is a cardinality,
  and a step changes it by one.
- UDP (`UdpInv`).  A session is in one place only, in the shard of its client, with the
  expirer or with `Close` (`OneHolderPerSession`), and no session enters a shard that
  `Close` has emptied (`DrainInOrder`); the counters are cardinalities of these places.
- Renewal (`RenewInv`).  `LadderIsPublished` ties the queue to the ladder, and
  `RenewalsArePaced` bounds how late an attempt may come.  That DEGRADED implies "no
  lease" is arithmetic about half, a tenth and two tenths of a lease.
- Limiter (`LimiterInv`).  `TokensAreEarned` is the balance: what passed and what is left
  never exceed the burst and the refill of the time that went by.
- STUN (`StunInv`).  `WaitersAreApart`: two waiters never share a transaction identity.

Assumptions.  Bounds are natural numbers, sets of identities do not contain the value
that stands for none, and snapshots are valid, as the code demands before it applies
one.  Four say more.  `TcpAssumption` takes the clients to be finite, for the
cardinalities.  `RenewAssumption` takes a lease of ten ticks or more and below the value
that stands for no lease, so that a tick is no longer than the tenth of a lease the code
computes with; the clock of the code counts nanoseconds.  `LimiterAssumption` excludes a
zero rate, which means no limit, and a zero burst, which `NewLimiterWithClock` replaces by
the rate.
`RotAssumption` starts generations at 1, as the Controller does.  Every assumption is
evaluated by TLC in the runs.

Left to TLC:

- liveness, for which the prover has no rules;
- `RecoveredAfterCleanup`, `OneAnswerPerRun`, `ProbeInv`, `DetectionInv`, `ShutdownInv`: the
  inductive invariants they need are not worked out;
- `UpnpInv`, which holds with one gateway only (section 6, `MCUpnpTwoGateways.cfg`).

## 6. Disagreements with the repository's own words

The run `rotation_enrolled` states what `docs/recovery.md` says of rotation certificates:
a valid one from the pinned key with a higher generation is accepted.  `Enroll`
pins generation 1 whatever the Controller's generation is, and
`AcceptControllerRotationPin` demands the exact generation, so an Agent that enrolled
after a rotation refuses every later one.

The other disagreements have a configuration each, which is no run of the project;
TLC prints the steps with `tlc -config <configuration> <module>`.

| Configuration, module | The words | What the code does |
| --- | --- | --- |
| `MCJournalRedelivery.cfg`, `MCControlJournal` | `docs/protocol.md:133`: an exact redelivery gets the cached result | once receipted, `receiveCommandTx` refuses it and the frame loop closes the session (`journal.go:322`) |
| `MCJournalCollect.cfg`, `MCControlJournal` | `session.go:893`: each result is followed by a `message_receipt` | a receipt re-sent on a new session may collect the row before the pump sends it; nothing sends it later (`session.go:748`) |
| `MCForwardIncapable.cfg`, `MCForwardLifecycle` | `app.go:2189`: readiness "is implied by the capability generation" | a recovery that starts after the loss carries the current generation (`app.go:3636`) |
| `MCForwardRollback.cfg`, `MCForwardLifecycle` | `desired.go:179`, on the rollback of hot updates | a failed commit may leave the live target ahead of the applied row (`desired.go:323`) |
| `MCForwardStale.cfg`, `MCForwardLifecycle` | `app.go:2153`: "a stale result can never be installed over a newer one" | `recover` lists the rows once and may publish an older spec (`app.go:3359`) |
| `MCDecommissionResidue.cfg`, `MCDecommission` | `docs/state-model.md`: after the final marker no Forward state is kept | mirrors are written from memory after they were cleared (`app.go:782`) |
| `MCDecommissionQuarantine.cfg`, `MCDecommission` | `docs/recovery.md:125`: no listeners are restored before the authorisation | only `Start` asks `RecoveryDeferred`; the monitor, the detection job and the cleanup retry recover without it (`app.go:1123`) |
| `MCProbeSweep.cfg`, `ProbeLifecycle` | a consumed row is kept for its receipt | the sweep deletes, in a second transaction, a row that was consumed after it was read (`probe.go:553`) |
| `MCActivationLate.cfg`, `Activation` | `docs/state-model.md:155`: after a loss the endpoint is probed again | the outcome of a probe begun before the loss publishes (`state_machine.go:76`) |
| `MCMappingLive.cfg`, `MappingLife` | `app.go:3414`: a live mapping is never "classified orphaned and released" | one published between the two reads is (`app.go:3418`) |
| `MCRenewalLate.cfg`, `Renewal` | `manager.go:7`: LOST when "the expiry safety margin is crossed" | the margin is looked at only after an attempt, and LOST may come after the expiry |
| `MCTcpRetry.cfg`, `TcpForward` | "a successful close is permanently idempotent" | after a failed `close(2)` the retry ends with `net.ErrClosed` for good (`tcp/forward.go:263`) |
| `MCUpnpTwoGateways.cfg`, `MCNode` | `app.go:384`: a shared adapter "would let concurrent Discover/Map calls overwrite one another" | the owners have one each, but all Forwards of an owner share it; a deletion after another gateway was discovered finds no entry there and succeeds |

Smaller observations made while modelling; none has a configuration.

- Journal.  Every new session moves outbox rows back to PENDING, which the state model
  document forbids, but liveness needs it.
- Forwards.  A deletion may carry an older revision than the row it deletes;
  `DesiredAgrees` lets a fence win over revisions, as the merge does.  Of a failed commit
  `NothingLeaks` covers the new actors; that hot updates are taken back is not a property of
  a run, because the code does not always do it (`MCForwardRollback.cfg`).
- Probes.  A re-armed row may be deleted by a sweep that looked at the old deadline.  `Abort`
  is not reachable from `armProbe`.
- Activation.  A listener ERROR in the mirror survives a successful reopen (`app.go:1645`).
  Handlers without a fence check save the mirror again after the tombstone.  `notifyDeleted`
  runs once per Forward, not once per deletion (`app.go:2266`).  A mapping event between install and
  `OnApplied` is dropped when no activation is in memory.
- Mappings.  `Release` caches a failed delete, so cleanup retries never succeed
  (`manager.go:509`).  Evacuation keeps every record of a Forward that still has an applied row,
  tombstone or intent, the superseded ones too (`app.go:3408`).  A failing compensating delete
  leaves a mapping without a record, and so does a `Map` whose answer is lost.
- Renewal.  With a granted lifetime and production pacing DEGRADED cannot happen
  (`DegradedHasNoLease`).  A renewal answered with lifetime 0 keeps the old deadline.
- PCP and NAT-PMP.  After a reboot of the gateway "publication state must go stale", but only the
  first transaction sees the rollback, and only a renewal acts on it.  A late answer of before a reboot may become the baseline
  of the adapter.  A `Map` that ends in `ErrNoResponse` may leave a mapping under a nonce nobody
  knows.
- UPnP.  The adapters evacuation uses are never discovered, so evacuating a UPnP record always fails
  (`adapter.go:216`).  An IGDv1 add of a port of another Forward of the same host overwrites it.
- STUN.  `TCPClient.Close` shares its `sync.Once` with `transportDead`, so waiters keep
  their own deadlines although `tcp.go:89` says they fail with `ErrDisconnected`.
- Detection.  Routes with an explicit gateway check that there is a fingerprint, not that
  it is current (`strategy.go:231`).  `DetectionInv` speaks of what a pass found and what a
  chain observed, not of the profile's age when a route is planned from it.  `stun-only` passes with any server configured, while
  acquisition uses the first.
- Forwarding.  A session accepted before `Backend.Update` and not yet dialed uses the new
  target.  UDP `Close` does not join the ingress loop.  `WaitDuration` is finite for a
  request above the burst, which `Allow` refuses for ever.  Neither `Limiter` nor `Budget` has a
  production caller.
- Shutdown.  `stopRenewal` joins the renewal loop and not the lifecycle dispatcher
  (`manager.go:694`, `1005`), so a callback that found its Forward live may save into a store that
  `Shutdown` has closed and reported closed (`app.go:1812`); it gets bbolt's error.  `StoreOutlivesUsers` says
  that no other user is left, and that the actor of such a callback is gone.  A cleanup that joins an attempt made under the cancelled run context returns
  its error though nothing failed.  `abandonAcquiredActor` drops release errors.  The waits for
  `shutdownMu` are not bounded by the caller's context (`app.go:1741`).
- Rotation.  There is one pin only, so between the pin and the activation the Agent
  accepts nothing the old key signs, although `keyring.go:135` keeps it the signer.  Enrolling
  again writes generation 1, which `SaveControllerPin` refuses after a rotation.

## 7. Not modelled

- The generic `Supervisor` (`reconcile/actor.go`), the tombstone collector (`tombstone.go:96`),
  `EndpointHealth` (`stun/health.go`), `DeleteForwardOnce` (`reconcile/delete.go`) and
  `security/keyring.go` have no caller in the Agent.
- The store's migrations are single bbolt transactions; the models take bbolt's atomic,
  serialised writers as given.
- Envelopes, codecs, signatures and the wire formats of PCP, NAT-PMP, UPnP and STUN are
  pure functions over bytes, covered by golden vectors and fuzz tests in Go; the models
  take a verified message as given.
- Key files, token files, flags and the HTTP exchange of an enrolment are I/O and
  cryptography.  Of enrolment the pin it writes is modelled, in `Rotation`.
- The uninstall notice is one durable row and one queued result, which `ControlJournal` has
  as `QueueReport`; `Shutdown` has the life of its endpoint.
- Installers, service files and packaging are scripts.
- Liveness of Forwards, mappings and detection: retries there have no bound in time that
  a property could use, and what they wait for is the outside world.
