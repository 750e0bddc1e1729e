----------------------------- MODULE MappingLife -----------------------------
(***************************************************************************)
(* The life of the gateway mappings of one Forward: the manager acquires a *)
(* mapping and writes its journal record (internal/traversal/manager.go),  *)
(* the data plane publishes, commits, stops and cleans up the actor that   *)
(* owns it (internal/agent/app.go), and every recovery pass reopens the    *)
(* Forward and evacuates the records no durable fact requires              *)
(* (internal/agent/reconcile/delete.go).  A process that dies keeps only   *)
(* the journal, the applied row and the fence; the gateway keeps its       *)
(* mappings until they are deleted or their lease ends.                    *)
(*                                                                         *)
(* An acquisition, its mapping and its journal record share one identity:  *)
(* the record ID is random and never reused.  One command thread and one   *)
(* recovery pass run concurrently; d.forwardOps serializes their           *)
(* acquisitions.                                                           *)
(***************************************************************************)
EXTENDS Naturals, FiniteSets

CONSTANTS MaxAcquisitions,  \* bound: acquisitions in one behaviour
          MaxFaults,        \* bound: failing deletes, journal writes and commits
          MaxIncidents,     \* bound: gateway losses, capability losses, passes
          MaxDeaths         \* bound: process crashes

ASSUME LifeAssumption ==
    /\ MaxAcquisitions \in Nat /\ MaxFaults \in Nat /\ MaxIncidents \in Nat /\ MaxDeaths \in Nat

VARIABLES held,       \* acquisitions whose mapping the gateway holds
          journal,    \* acquisitions with a record in the mapping_journal bucket
          applied,    \* the applied row: its presence and mapping_journal_ref
          erased,     \* the delete fence: none, the intent, the tombstone beside
                      \* it, and done: the tombstone alone
          acq,        \* the acquisitions of this process
          owner,      \* who holds the forward operation: nobody, "apply" or "reopen"
          cmd,        \* the command thread
          stopping,   \* the acquisitions that its stop cleans up
          pass,       \* the recovery pass
          excused,    \* mappings whose record was never durably written
          faults, mishaps, deaths

lifeVars == <<held, journal, applied, erased, acq, owner, cmd, stopping, pass, excused,
              faults, mishaps, deaths>>

Acquisitions == 1..MaxAcquisitions
NoRef == 0

(* stage: none, mapped (the gateway granted it), acquired (journalPut ran), *)
(* live (in d.forwards), pending (in cleanupPending), unmapped (Release     *)
(* deleted the mapping), stuck (Release failed and caches its error), gone. *)
Owned(i) == acq[i].stage \in {"mapped", "acquired", "live", "pending", "unmapped", "stuck"}
Live == {i \in Acquisitions : acq[i].stage = "live"}
Pending == {i \in Acquisitions : acq[i].stage \in {"pending", "unmapped", "stuck"}}
Building(by) == {i \in Acquisitions : acq[i].stage \in {"mapped", "acquired"} /\ acq[i].by = by}

Unused == [stage |-> "none", by |-> "apply", jid |-> FALSE, meta |-> FALSE]
Idle == [pc |-> "idle", live |-> {}, records |-> {}, ref |-> NoRef, row |-> FALSE, fenced |-> FALSE,
         doomed |-> {}, freed |-> {}]

Stage(i, s) == acq' = [acq EXCEPT ![i].stage = s]

(* A released acquisition leaves nothing in memory. *)
Gone == [Unused EXCEPT !.stage = "gone"]
Drop(i) == acq' = [acq EXCEPT ![i] = Gone]

(* Live actors move to cleanupPending. *)
Retire ==
    acq' = [i \in Acquisitions |-> IF i \in Live THEN [acq[i] EXCEPT !.stage = "pending"] ELSE acq[i]]

Fault == faults < MaxFaults /\ faults' = faults + 1
Mishap == mishaps < MaxIncidents /\ mishaps' = mishaps + 1
Steady == UNCHANGED <<faults, mishaps, deaths>>
------------------------------------------------------------------------------
(* Acquisition *)

(* acquireGateway up to mapper.Map: the gateway grants a mapping to a      *)
(* fresh acquisition.                                                      *)
Grants(i, by, s) ==
    /\ acq[i].stage = "none"
    /\ \A j \in 1..(i - 1) : acq[j].stage # "none"
    /\ acq' = [acq EXCEPT ![i] = [Unused EXCEPT !.stage = s, !.by = by]]
    /\ held' = held \cup {i}

Map(by) == owner' = by /\ \E i \in Acquisitions : Grants(i, by, "mapped")

(* The gateway granted the mapping but no answer came: Map fails, and the  *)
(* mapping is left without an acquisition and without a record.            *)
Unanswered(by) ==
    /\ Fault
    /\ \E i \in Acquisitions : Grants(i, by, "gone") /\ excused' = excused \cup {i}
    /\ UNCHANGED owner

(* apply: a new install, with no actor, no pending cleanup and no fence.   *)
ApplyMap ==
    /\ cmd = "idle" /\ owner = "nobody"
    /\ Live = {} /\ Pending = {} /\ erased = "none"
    /\ \/ Map("apply") /\ cmd' = "apply" /\ UNCHANGED <<excused, faults>>
       \/ Unanswered("apply") /\ UNCHANGED cmd
    /\ UNCHANGED <<journal, applied, erased, stopping, pass, mishaps, deaths>>

(* reopen: the applied row's serving spec, re-acquired on the gateway.     *)
(* Only d.forwards is consulted first; a pending cleanup is not.           *)
ReopenMap ==
    /\ pass.pc = "reopen" /\ owner = "nobody"
    /\ pass.row /\ Live = {} /\ erased = "none"
    /\ \/ Map("reopen") /\ pass' = [pass EXCEPT !.pc = "finish"] /\ UNCHANGED <<excused, faults>>
       \/ Unanswered("reopen") /\ pass' = [pass EXCEPT !.pc = "failed"]
    /\ UNCHANGED <<journal, applied, erased, cmd, stopping, mishaps, deaths>>

(* The acquisition failed: so does the command, or the whole pass.         *)
Ends(by) ==
    /\ owner' = "nobody"
    /\ cmd' = IF by = "apply" THEN "idle" ELSE cmd
    /\ pass' = IF by = "reopen" THEN [pass EXCEPT !.pc = "failed"] ELSE pass

(* EvaluateLayers refuses the chain: the mapping is deleted before the     *)
(* acquisition fails.  When that delete fails, or its answer is lost,      *)
(* nothing remembers the mapping.                                          *)
Compensate(by) ==
    \E i \in Building(by) :
        /\ acq[i].stage = "mapped"
        /\ Drop(i)
        /\ Ends(by)
        /\ \/ held' = held \ {i} /\ UNCHANGED <<excused, faults>>
           \/ Fault /\ excused' = excused \cup {i} /\ held' \in {held, held \ {i}}
        /\ UNCHANGED <<journal, applied, erased, mishaps, deaths, stopping>>

(* journalPut.  A confirmed Put publishes JournalID (done); an ordinary    *)
(* error writes nothing; a Put that committed and panicked, with an        *)
(* unreadable row, leaves the record behind the private attempt ID (kept). *)
JournalPut(i, done, kept) ==
    /\ done => kept
    /\ journal' = IF kept THEN journal \cup {i} ELSE journal
    /\ excused' = IF i \in journal' THEN excused \ {i} ELSE excused \cup {i}
    /\ IF done THEN UNCHANGED faults ELSE Fault

(* The end of acquireGateway and newGatewayActor: the record is written,   *)
(* renewal starts, and actor.meta snapshots the JournalID of this moment.  *)
Acquired(by) ==
    \E i \in Building(by), done, kept \in BOOLEAN :
        /\ acq[i].stage = "mapped"
        /\ JournalPut(i, done, kept)
        /\ acq' = [acq EXCEPT ![i].stage = "acquired", ![i].jid = done, ![i].meta = done]
        /\ UNCHANGED <<held, applied, erased, owner, cmd, stopping, pass, mishaps,
                       deaths>>

(* The install lock of apply.  A rebuild or a capability transition since  *)
(* the acquisition abandons the actor to the cleanup drain.                *)
ApplyPublish ==
    \E i \in Building("apply") :
        /\ acq[i].stage = "acquired"
        /\ \/ /\ erased = "none" /\ Live = {}
              /\ Stage(i, "live")
              /\ cmd' = "commit" /\ UNCHANGED mishaps
           \/ /\ Mishap
              /\ Stage(i, "pending")
              /\ cmd' = "idle"
        /\ owner' = "nobody"
        /\ UNCHANGED <<held, journal, applied, erased, stopping, pass, excused,
                       faults, deaths>>

(* finishReopen: a fence, a live actor, a pending cleanup or a failing     *)
(* RefreshAppliedJournalRef abandons the actor; otherwise the applied row  *)
(* names the new record before the actor becomes reachable.                *)
ReopenPublish ==
    \E i \in Building("reopen") :
        /\ acq[i].stage = "acquired"
        /\ \/ /\ erased = "none" /\ Live = {} /\ Pending = {}
              /\ Stage(i, "live")
              /\ applied' = IF acq[i].meta /\ applied.row THEN [applied EXCEPT !.ref = i] ELSE applied
              /\ pass' = [pass EXCEPT !.pc = "refs"]
              /\ UNCHANGED faults
           \/ /\ erased # "none" \/ Live # {} \/ Pending # {}
              /\ Stage(i, "pending")
              /\ pass' = [pass EXCEPT !.pc = "refs"]
              /\ UNCHANGED <<applied, faults>>
           \/ /\ Fault
              /\ Stage(i, "pending")
              /\ pass' = [pass EXCEPT !.pc = "failed"]
              /\ UNCHANGED applied
        /\ owner' = "nobody"
        /\ UNCHANGED <<held, journal, erased, cmd, stopping, excused, mishaps,
                       deaths>>
------------------------------------------------------------------------------
(* The command thread *)

(* CommitDesired after an install or a hot update: the applied row carries *)
(* the JournalID snapshot of actor.meta, whatever renewal wrote since.     *)
Refers(i) == [row |-> TRUE, ref |-> IF acq[i].meta THEN i ELSE NoRef]

Commit ==
    /\ cmd = "commit"
    /\ cmd' = "idle"
    /\ \/ /\ \E i \in Live : applied' = Refers(i)
          /\ UNCHANGED <<acq, faults>>
       \/ /\ Live = {} /\ UNCHANGED <<applied, acq, faults>>
       \/ Fault /\ Retire /\ UNCHANGED applied
    /\ UNCHANGED <<held, journal, erased, owner, stopping, pass, excused, mishaps, deaths>>

HotUpdate ==
    /\ cmd = "idle" /\ owner = "nobody" /\ erased = "none" /\ Pending = {}
    /\ \E i \in Live : applied' = Refers(i)
    /\ UNCHANGED <<held, journal, erased, acq, owner, cmd, stopping, pass, excused>> /\ Steady

(* The ABSENT spec in ApplyDesired.  PutForwardDeleteIntents comes first;  *)
(* a redelivery finds the intent or, after the completion, nothing to do.  *)
DeleteIntent ==
    /\ cmd = "idle" /\ erased # "done"
    /\ erased' = IF erased = "none" THEN "intent" ELSE erased
    /\ cmd' = "delete"
    /\ UNCHANGED <<held, journal, applied, acq, owner, stopping, pass, excused>> /\ Steady

(* CommitDesired: one transaction writes the tombstone and removes the     *)
(* applied row; the actor still serves.                                    *)
DeleteCommit ==
    /\ cmd = "delete"
    /\ \/ /\ erased' = "tombstone" /\ applied' = [row |-> FALSE, ref |-> NoRef]
          /\ cmd' = "stop" /\ UNCHANGED faults
       \/ Fault /\ cmd' = "idle" /\ UNCHANGED <<erased, applied>>
    /\ UNCHANGED <<held, journal, acq, owner, stopping, pass, excused, mishaps, deaths>>

(* "Tombstone-before-stop": stop captures the actor and whatever is        *)
(* pending.  When the fence cannot be read it does not run.                *)
Stop ==
    /\ cmd = "stop"
    /\ \/ Retire /\ stopping' = Live \cup Pending /\ cmd' = "stopping" /\ UNCHANGED faults
       \/ Fault /\ cmd' = "idle" /\ UNCHANGED <<acq, stopping>>
    /\ UNCHANGED <<held, journal, applied, erased, owner, pass, excused, mishaps, deaths>>

StopEndsAnyway ==
    /\ cmd = "stopping"
    /\ cmd' = "complete" /\ stopping' = {}
    /\ UNCHANGED <<held, journal, applied, erased, acq, owner, pass, excused>> /\ Steady

(* The cleanups have all succeeded, or one failed or outlasted the context *)
(* of the command; then the intent stays, for a redelivery to retry.       *)
StopEnds ==
    /\ cmd = "stopping"
    /\ cmd' = IF \A i \in stopping : acq[i].stage = "gone" THEN "complete" ELSE "idle"
    /\ stopping' = {}
    /\ UNCHANGED <<held, journal, applied, erased, acq, owner, pass, excused>> /\ Steady

(* CompleteForwardDeleteIntent. *)
DeleteComplete ==
    /\ cmd = "complete"
    /\ \/ erased' = "done" /\ UNCHANGED faults
       \/ Fault /\ UNCHANGED erased
    /\ cmd' = "idle"
    /\ UNCHANGED <<held, journal, applied, acq, owner, stopping, pass, excused, mishaps, deaths>>
------------------------------------------------------------------------------
(* Renewal and release *)

(* renewOnce, from the acquisition until Release stops the loop.  The      *)
(* gateway extends the mapping, or grants it again when it had dropped it; *)
(* a confirmed reboot leaves the record alone and ends the loop.           *)
Renew(i) ==
    /\ acq[i].stage \in {"acquired", "live", "pending"}
    /\ Mishap
    /\ held' = held \cup {i}
    /\ \/ \E done, kept \in BOOLEAN :
            /\ JournalPut(i, done, kept)
            /\ acq' = [acq EXCEPT ![i].jid = @ \/ done]
       \/ UNCHANGED <<journal, excused, acq, faults>>
    /\ UNCHANGED <<applied, erased, owner, cmd, stopping, pass, deaths>>

ReleaseMappingLast(i) ==
    /\ acq[i].stage = "pending"
    /\ journal' = journal \ {i} /\ Stage(i, "unmapped")
    /\ UNCHANGED <<held, applied, erased, owner, cmd, stopping, pass, excused>> /\ Steady

(* release, first half: the loop is joined and the mapping deleted.  A     *)
(* failed delete keeps the record, and sync.Once keeps the error: every    *)
(* later Release returns it, so the actor stays in cleanupPending.         *)
ReleaseMapping(i) ==
    /\ acq[i].stage = "pending"
    /\ \/ held' = held \ {i} /\ Stage(i, "unmapped") /\ UNCHANGED faults
       \/ Fault /\ Stage(i, "stuck") /\ held' \in {held, held \ {i}}
    /\ UNCHANGED <<journal, applied, erased, owner, cmd, stopping, pass, excused,
                   mishaps, deaths>>

(* release, second half: the record goes under JournalID or the attempt ID.*)
ReleaseRecord(i) ==
    /\ acq[i].stage = "unmapped"
    /\ \/ journal' = journal \ {i} /\ Drop(i) /\ UNCHANGED faults
       \/ Fault /\ Stage(i, "stuck") /\ UNCHANGED journal
    /\ UNCHANGED <<held, applied, erased, owner, cmd, stopping, pass, excused,
                   mishaps, deaths>>

(* markCapabilityLost, or a supervisor's run error: the actors are torn down. *)
TearDown ==
    /\ Live # {} /\ Mishap
    /\ Retire
    /\ UNCHANGED <<held, journal, applied, erased, owner, cmd, stopping, pass, excused,
                   faults, deaths>>

(* External: a lease ends or the gateway restarts. *)
GatewayForgets(i) ==
    /\ i \in held /\ Mishap
    /\ held' = held \ {i}
    /\ UNCHANGED <<journal, applied, erased, acq, owner, cmd, stopping, pass,
                   excused, faults, deaths>>
------------------------------------------------------------------------------
(* The recovery pass *)

(* recover lists the applied rows; a fenced or running Forward is skipped. *)
PassStart ==
    /\ pass.pc = "idle" /\ cmd # "down" /\ Mishap
    /\ pass' = [Idle EXCEPT !.pc = "reopen", !.row = applied.row]
    /\ UNCHANGED <<held, journal, applied, erased, acq, owner, cmd, stopping,
                   excused, faults, deaths>>

(* Nothing to reopen or a quarantined strategy; an acquisition that fails  *)
(* before the gateway granted anything fails the pass.                     *)
PassSkip ==
    /\ pass.pc = "reopen"
    /\ \/ pass' = [pass EXCEPT !.pc = "refs"]
       \/ /\ pass.row /\ Live = {} /\ erased = "none"
          /\ pass' = [pass EXCEPT !.pc = "failed"]
    /\ UNCHANGED <<held, journal, applied, erased, acq, owner, cmd, stopping,
                   excused>> /\ Steady

(* liveJournalRefs: the JournalIDs of the actors in d.forwards, once. *)
PassLiveRefs ==
    /\ pass.pc = "refs"
    /\ pass' = [Idle EXCEPT !.pc = "list", !.live = {i \in Live : acq[i].jid}]
    /\ UNCHANGED <<held, journal, applied, erased, acq, owner, cmd, stopping,
                   excused>> /\ Steady

(* EvacuateOrphanedJournals reads the records, the applied rows, the       *)
(* tombstones and the intents, each in a transaction of its own.           *)
PassList ==
    /\ pass.pc = "list"
    /\ pass' = [pass EXCEPT !.pc = "applied", !.records = journal]
    /\ UNCHANGED <<held, journal, applied, erased, acq, owner, cmd, stopping,
                   excused>> /\ Steady

PassApplied ==
    /\ pass.pc = "applied"
    /\ pass' = [pass EXCEPT !.pc = "tombstones", !.ref = applied.ref]
    /\ UNCHANGED <<held, journal, applied, erased, acq, owner, cmd, stopping,
                   excused>> /\ Steady

PassTombstones ==
    /\ pass.pc = "tombstones"
    /\ pass' = [pass EXCEPT !.pc = "intents", !.fenced = erased \in {"tombstone", "done"}]
    /\ UNCHANGED <<held, journal, applied, erased, acq, owner, cmd, stopping,
                   excused>> /\ Steady

(* A record is orphaned when the Forward has no applied ref, no fence and  *)
(* no live acquisition behind that very record.                            *)
Orphans ==
    {i \in pass.records :
        /\ i \notin pass.live /\ pass.ref = NoRef
        /\ ~pass.fenced /\ erased \notin {"intent", "tombstone"}}

(* A dangling ref is cleared whatever the row says by now. *)
PassIntents ==
    /\ pass.pc = "intents"
    /\ pass' = [Idle EXCEPT !.pc = "release", !.doomed = Orphans]
    /\ applied' = IF pass.ref # NoRef /\ pass.ref \notin pass.records /\ applied.row
                  THEN [applied EXCEPT !.ref = NoRef] ELSE applied
    /\ UNCHANGED <<held, journal, erased, acq, owner, cmd, stopping, excused>> /\ Steady

(* The owning adapter deletes one orphaned mapping; a record that does not *)
(* decode, or whose delete fails, is kept.                                 *)
PassRelease(i) ==
    /\ pass.pc = "release" /\ i \in pass.doomed
    /\ \/ /\ held' = held \ {i}
          /\ pass' = [pass EXCEPT !.doomed = @ \ {i}, !.freed = @ \cup {i}]
          /\ UNCHANGED faults
       \/ /\ Fault /\ held' \in {held, held \ {i}}
          /\ pass' = [pass EXCEPT !.doomed = @ \ {i}]
    /\ UNCHANGED <<journal, applied, erased, acq, owner, cmd, stopping, excused,
                   mishaps, deaths>>

(* EvacuateJournalRecords: the released records go in one transaction. *)
PassCommit ==
    /\ pass.pc = "release" /\ pass.doomed = {}
    /\ pass' = Idle
    /\ journal' = journal \ pass.freed
    /\ excused' = excused \cup {i \in pass.freed : Owned(i)}
    /\ UNCHANGED <<held, applied, erased, acq, owner, cmd, stopping>> /\ Steady
------------------------------------------------------------------------------
(* The process dies: memory goes, the gateway and the store stay. *)
Die ==
    /\ cmd # "down" /\ deaths < MaxDeaths /\ deaths' = deaths + 1
    /\ cmd' = "down" /\ owner' = "nobody" /\ pass' = Idle /\ stopping' = {}
    /\ acq' = [i \in Acquisitions |-> IF Owned(i) THEN Gone ELSE acq[i]]
    /\ excused' = excused \cup {i \in Acquisitions : acq[i].stage = "mapped"}
    /\ UNCHANGED <<held, journal, applied, erased, faults, mishaps>>

(* App.Start runs a recovery pass before it serves a command. *)
Start ==
    /\ cmd = "down"
    /\ cmd' = "boot"
    /\ pass' = [Idle EXCEPT !.pc = "reopen", !.row = applied.row]
    /\ UNCHANGED <<held, journal, applied, erased, acq, owner, stopping, excused>> /\ Steady

Serve ==
    /\ cmd = "boot" /\ pass.pc = "idle"
    /\ cmd' = "idle"
    /\ UNCHANGED <<held, journal, applied, erased, acq, owner, stopping, pass,
                   excused>> /\ Steady

(* A failed pass is retried by a later one; at start it ends the process,  *)
(* once the startup cleanup has tried to release what the pass acquired.   *)
PassFails ==
    /\ pass.pc = "failed"
    /\ pass' = Idle
    /\ \/ cmd # "boot" /\ UNCHANGED <<cmd, acq>>
       \/ /\ cmd = "boot" /\ Live = {} /\ \A i \in Pending : acq[i].stage = "stuck"
          /\ cmd' = "down"
          /\ acq' = [i \in Acquisitions |-> IF Owned(i) THEN Gone ELSE acq[i]]
    /\ UNCHANGED <<held, journal, applied, erased, owner, stopping, excused>> /\ Steady
------------------------------------------------------------------------------
LifeInit ==
    /\ held = {} /\ journal = {} /\ excused = {}
    /\ applied = [row |-> FALSE, ref |-> NoRef] /\ erased = "none"
    /\ acq = [i \in Acquisitions |-> Unused]
    /\ owner = "nobody" /\ cmd = "idle" /\ stopping = {} /\ pass = Idle
    /\ faults = 0 /\ mishaps = 0 /\ deaths = 0

Acquiring == \E by \in {"apply", "reopen"} : Compensate(by) \/ Acquired(by)

Commands ==
    \/ ApplyMap \/ ApplyPublish \/ Commit \/ HotUpdate
    \/ DeleteIntent \/ DeleteCommit \/ Stop \/ StopEnds \/ DeleteComplete

Releasing == \E i \in Acquisitions : ReleaseMapping(i) \/ ReleaseRecord(i)

Passing ==
    \/ PassStart \/ PassSkip \/ ReopenMap \/ ReopenPublish \/ PassFails \/ PassLiveRefs
    \/ PassList \/ PassApplied \/ PassTombstones \/ PassIntents \/ PassCommit
    \/ \E i \in Acquisitions : PassRelease(i)

Around ==
    \/ TearDown \/ Die \/ Start \/ Serve
    \/ \E i \in Acquisitions : Renew(i) \/ GatewayForgets(i)

LifeNext == Acquiring \/ Commands \/ Releasing \/ Passing \/ Around

LifeSpec == LifeInit /\ [][LifeNext]_lifeVars
------------------------------------------------------------------------------
Stages == {"none", "mapped", "acquired", "live", "pending", "unmapped", "stuck", "gone"}
AcquisitionStates == [stage : Stages, by : {"apply", "reopen"}, jid : BOOLEAN, meta : BOOLEAN]
PassSteps == {"idle", "reopen", "finish", "refs", "list", "applied", "tombstones", "intents",
              "release", "failed"}
PassStates ==
    [pc : PassSteps, live : SUBSET Acquisitions, records : SUBSET Acquisitions,
     ref : 0..MaxAcquisitions, row : BOOLEAN, fenced : BOOLEAN, doomed : SUBSET Acquisitions,
     freed : SUBSET Acquisitions]

(* The acquisitions, the durable rows and both threads stay well formed. *)
LifeTypeOK ==
    /\ held \subseteq Acquisitions /\ journal \subseteq Acquisitions /\ excused \subseteq Acquisitions
    /\ applied \in [row : BOOLEAN, ref : 0..MaxAcquisitions]
    /\ erased \in {"none", "intent", "tombstone", "done"}
    /\ acq \in [Acquisitions -> AcquisitionStates]
    /\ owner \in {"nobody", "apply", "reopen"}
    /\ cmd \in {"down", "boot", "idle", "apply", "commit", "delete", "stop", "stopping", "complete"}
    /\ stopping \subseteq Acquisitions
    /\ pass \in PassStates
    /\ faults \in 0..MaxFaults /\ mishaps \in 0..MaxIncidents /\ deaths \in 0..MaxDeaths

(* At most one acquisition of the Forward is published and at most one is  *)
(* being built, the forward operation is held by the thread that builds    *)
(* it, no apply is at work on a Forward under deletion, a deletion has     *)
(* written what its step says, and no pass runs in a process that is down. *)
OneActor ==
    /\ \A i, j \in Live : i = j
    /\ \A i, j \in Building("apply") \cup Building("reopen") : i = j
    /\ \A by \in {"apply", "reopen"} : Building(by) # {} => owner = by
    /\ owner = "apply" => cmd = "apply"
    /\ owner = "reopen" => pass.pc = "finish"
    /\ cmd = "down" => pass.pc = "idle"
    /\ cmd \in {"apply", "commit"} => erased = "none"
    /\ cmd = "delete" => erased \in {"intent", "tombstone"}
    /\ cmd \in {"stop", "stopping", "complete"} => erased = "tombstone"

(* What journalPut, Release and an evacuation leave of one acquisition:    *)
(* past its journalPut it has its record or an excuse, it has neither a    *)
(* record nor a place in a pass before, its mapping is off the gateway     *)
(* when Release gets to the record, and a mapping that a pass released is  *)
(* back on the gateway only while its acquisition lives.                   *)
RecordsFollow(i) ==
    /\ acq[i].stage \in {"acquired", "live", "pending", "unmapped", "stuck"} => i \in journal \cup excused
    /\ acq[i].stage \in {"none", "mapped"} =>
          i \notin journal \cup pass.records \cup pass.doomed \cup pass.freed
    /\ acq[i].stage = "unmapped" => i \notin held
    /\ i \in pass.freed \cap held => Owned(i)

(* Every mapping the gateway holds for the Forward is owned by an acquisition *)
(* in memory or recorded in the journal: a crash, a failed delete, a teardown *)
(* or an evacuation loses track of none.  Excused are the mappings whose      *)
(* record was never written: a Map that granted and was not answered, a       *)
(* failed Put, a failed compensating delete, or a death between Map and       *)
(* journalPut.                                                                *)
MappingAccounted ==
    \A i \in held : Owned(i) \/ i \in journal \/ i \in excused

(* Release and evacuation forget a record only once its mapping is off the    *)
(* gateway: the record "is the only durable evidence of a mapping that may    *)
(* still be live".  The evacuation of a mapping some acquisition still renews *)
(* is the subject of LiveIsNeverEvacuated.                                    *)
ForgottenIsReleased ==
    [][\A i \in journal \ journal' : i \notin held \/ i \in excused']_lifeVars

(* The applied row never names the record of a superseded acquisition while   *)
(* another one with a confirmed record serves: finishReopen refreshes the ref *)
(* before it publishes, and the next commit writes the actor's own.           *)
RefIsCurrent ==
    \A i \in Live : acq[i].meta /\ cmd # "commit" /\ applied.row => applied.ref \in {NoRef, i}

(* The order of a deletion.  The tombstone and the applied row exclude     *)
(* each other, and from the stop on nothing serves; until then the old     *)
(* actor may.  What the stop did not capture, and what is left once the    *)
(* intent is cleared, is a listener that a racing reopen abandoned: the    *)
(* deletion is reported complete only when its own actors are released,    *)
(* over failed commits and stops, redeliveries, evacuations and crashes.   *)
DeletedIsReleased ==
    /\ erased \in {"tombstone", "done"} => ~applied.row
    /\ cmd \in {"stopping", "complete"} \/ erased = "done" =>
          Live = {} /\ \A i \in Pending \ stopping : acq[i].by = "reopen"
    /\ cmd # "stopping" => stopping = {}

(* No mapping of the Forward is lost track of: each is owned or recorded,  *)
(* the applied row names the record that serves, and a completed deletion  *)
(* leaves nothing that serves (the journal of the manager, app.go).        *)
LifeInv ==
    /\ LifeTypeOK /\ MappingAccounted /\ RefIsCurrent /\ DeletedIsReleased
    /\ OneActor /\ \A i \in Acquisitions : RecordsFollow(i)

(* Recovery "so a live mapping is never classified orphaned and released":    *)
(* no mapping a pass released backs an actor that serves.                     *)
LiveIsNeverEvacuated == \A i \in pass.freed : acq[i].stage # "live"
==============================================================================
