------------------------------ MODULE Rotation ------------------------------
(***************************************************************************)
(* The Agent's pin of the Controller's signing key: enrollment, rotation   *)
(* by a certificate of the pinned key, and the sessions that the pin lets  *)
(* through.                                                                *)
(*                                                                         *)
(* A key is a number, new for every key the Controller makes; a pin and a  *)
(* certificate's ends are records [key, gen].  The Controller's side       *)
(* (offering a successor, activating it, forcing it) is external: it is    *)
(* what docs/recovery.md lets it do.  The command journal is cut down to   *)
(* the one operation of key_rotation_prepare; ControlJournal has it whole. *)
(***************************************************************************)
EXTENDS Naturals

CONSTANTS
    FirstGens,       \* generations the Controller's key may have at enrollment
    MaxKeys,         \* keys the Controller makes
    MaxMishaps       \* crashes, lost sessions, failed writes, operator steps

\* Generations count from 1 (enroll.go, rotation.go).
ASSUME RotAssumption ==
    FirstGens \subseteq Nat \ {0} /\ MaxKeys \in Nat \ {0} /\ MaxMishaps \in Nat

VARIABLES
    signer,          \* the key the Controller signs with
    offer,           \* the certificate of the rotation under way, or NoOffer
    minted,          \* keys made so far
    first,           \* generation of the Controller's key at enrollment
    acked,           \* the Controller heard "pinned" for the offer
    forced,          \* some successor was activated without that answer
    reenrolled,      \* the operator enrolled the Agent again
    confirmed,       \* generation of the last "pinned" or "committed" heard
    pin,             \* the durable pin (bucket controller_pins)
    op,              \* the journalled key_rotation_prepare: [cert, phase]
    running,         \* the Agent's process is up
    linked,          \* a session is established
    handler,         \* what the frame loop is doing with the prepare command
    mishaps

rotVars == <<signer, offer, minted, first, acked, forced, reenrolled,
             confirmed, pin, op, running, linked, handler, mishaps>>
ctlVars == <<signer, offer, minted, first, acked, forced, reenrolled,
             confirmed>>

NoOffer == [old |-> [key |-> 0, gen |-> 0], new |-> [key |-> 0, gen |-> 0]]
NoRotation == [cert |-> NoOffer, phase |-> "none"]
Pins == [key : Nat, gen : Nat]

(***************************************************************************)
(* Enroll writes generation 1 whatever the generation of the Controller's  *)
(* key is (enroll.go), so that is the pin of a node that has just enrolled.*)
(***************************************************************************)
EnrolledPin(key) == [key |-> key, gen |-> 1]

RotInit ==
    /\ first \in FirstGens
    /\ signer = [key |-> 1, gen |-> first]
    /\ pin = EnrolledPin(1)
    /\ offer = NoOffer /\ minted = 1 /\ acked = FALSE
    /\ forced = FALSE /\ reenrolled = FALSE /\ confirmed = 0
    /\ op = NoRotation /\ running = TRUE /\ linked = FALSE
    /\ handler = "idle" /\ mishaps = 0

Mishap == mishaps < MaxMishaps /\ mishaps' = mishaps + 1

(***************************************************************************)
(* A signed frame or welcome passes only under the one pinned key, which   *)
(* is read from the store for every frame.                                 *)
(***************************************************************************)
Verifies == pin.key = signer.key

(***************************************************************************)
(* RecoverApplyingOperations, part of every handshake: a command whose     *)
(* handler never finished is answered as indeterminate, a NACK.            *)
(***************************************************************************)
Recovered(o) == IF o.phase = "applying" THEN [o EXCEPT !.phase = "nacked"] ELSE o

Handshake ==
    /\ running /\ ~linked /\ handler = "idle" /\ Verifies
    /\ linked' = TRUE
    /\ op' = Recovered(op)
    /\ UNCHANGED <<ctlVars, pin, running, handler, mishaps>>

(***************************************************************************)
(* Any frame the Controller signs with a key that is not the pinned one    *)
(* is refused, and the refusal ends the session.                           *)
(***************************************************************************)
RefuseFrame ==
    /\ linked /\ handler = "idle" /\ ~Verifies
    /\ linked' = FALSE
    /\ UNCHANGED <<ctlVars, pin, op, running, handler, mishaps>>

(***************************************************************************)
(* key_rotation_prepare arrives.  The first delivery is journalled and     *)
(* goes to the handler; a repeat is answered from the journal.             *)
(***************************************************************************)
ReceivePrepare ==
    /\ linked /\ handler = "idle" /\ Verifies
    /\ offer # NoOffer /\ ~acked
    /\ IF op.cert # offer
          THEN /\ op' = [cert |-> offer, phase |-> "applying"]
               /\ handler' = "deciding"
          ELSE /\ op' = Recovered(op)
               /\ UNCHANGED handler
    /\ UNCHANGED <<ctlVars, pin, running, linked, mishaps>>

(***************************************************************************)
(* DecodeRotationCertificate and the comparisons AcceptControllerRotation- *)
(* Pin adds: signed by the pinned key, from exactly the pinned generation, *)
(* to a higher one.                                                        *)
(***************************************************************************)
Acceptable(cert) ==
    /\ cert.new.gen > cert.old.gen
    /\ cert.old.key = pin.key
    /\ cert.old.gen = pin.gen
    /\ cert.new.gen > pin.gen

(***************************************************************************)
(* SaveControllerPin: one durable transaction that refuses a lower         *)
(* generation than the stored one.                                         *)
(***************************************************************************)
\* Mutant of Saves: the stored generation is not compared.
SavesAny(next) == TRUE

Saves(next) == next.gen >= pin.gen

AcceptPin ==
    /\ handler = "deciding" /\ Acceptable(op.cert) /\ Saves(op.cert.new)
    /\ pin' = op.cert.new
    /\ handler' = "saved"
    /\ UNCHANGED <<ctlVars, op, running, linked, mishaps>>

RefuseCertificate ==
    /\ handler = "deciding" /\ ~Acceptable(op.cert)
    /\ handler' = "refused"
    /\ UNCHANGED <<ctlVars, pin, op, running, linked, mishaps>>

SaveFails ==
    /\ handler = "deciding" /\ Acceptable(op.cert) /\ Mishap
    /\ handler' = "failed"
    /\ UNCHANGED <<ctlVars, pin, op, running, linked>>

(***************************************************************************)
(* The handler's return: CompleteOperation or NackOperationWithResult      *)
(* writes phase and queued answer in one transaction.                      *)
(***************************************************************************)
Answer(h) == IF h = "saved" THEN "applied" ELSE "nacked"

FinishPrepare ==
    /\ handler \in {"saved", "refused", "failed"}
    /\ op' = [op EXCEPT !.phase = Answer(handler)]
    /\ handler' = "idle"
    /\ UNCHANGED <<ctlVars, pin, running, linked, mishaps>>

(***************************************************************************)
(* The outbox pump sends the answer on whatever session is up.  An ACK     *)
(* carries the generation pinned; after a NACK the Controller withdraws    *)
(* the offer and may make another.                                         *)
(***************************************************************************)
SendAnswer ==
    /\ linked /\ op.cert = offer /\ offer # NoOffer /\ ~acked
    /\ op.phase \in {"applied", "nacked"}
    /\ IF op.phase = "applied"
          THEN /\ acked' = TRUE /\ confirmed' = op.cert.new.gen
               /\ UNCHANGED offer
          ELSE /\ offer' = NoOffer
               /\ UNCHANGED <<acked, confirmed>>
    /\ UNCHANGED <<signer, minted, first, forced, reenrolled, pin, op,
                   running, linked, handler, mishaps>>

(***************************************************************************)
(* key_rotation_commit: the Agent answers with the generation it has       *)
(* pinned, whatever that is.                                               *)
(***************************************************************************)
AnswerCommit ==
    /\ linked /\ handler = "idle" /\ Verifies
    /\ confirmed # pin.gen
    /\ confirmed' = pin.gen
    /\ UNCHANGED <<signer, offer, minted, first, acked, forced, reenrolled,
                   pin, op, running, linked, handler, mishaps>>

-----------------------------------------------------------------------------
(* The Controller (external), as docs/recovery.md describes it.            *)

OfferSuccessor ==
    /\ offer = NoOffer /\ minted < MaxKeys
    /\ minted' = minted + 1
    /\ offer' = [old |-> signer,
                 new |-> [key |-> minted + 1, gen |-> signer.gen + 1]]
    /\ acked' = FALSE
    /\ UNCHANGED <<signer, first, forced, reenrolled, confirmed, pin, op,
                   running, linked, handler, mishaps>>

Activate ==
    /\ offer # NoOffer
    /\ \/ acked /\ UNCHANGED <<forced, mishaps>>
       \/ ~acked /\ Mishap /\ forced' = TRUE
    /\ signer' = offer.new
    /\ offer' = NoOffer /\ acked' = FALSE
    /\ UNCHANGED <<minted, first, reenrolled, confirmed, pin, op, running,
                   linked, handler>>

-----------------------------------------------------------------------------
(* Lost sessions, crashes, starts, and the operator enrolling again.       *)

LoseSession ==
    /\ linked /\ Mishap
    /\ linked' = FALSE
    /\ UNCHANGED <<ctlVars, pin, op, running, handler>>

CrashNode ==
    /\ running /\ Mishap
    /\ running' = FALSE /\ linked' = FALSE /\ handler' = "idle"
    /\ UNCHANGED <<ctlVars, pin, op>>

StartNode ==
    /\ ~running
    /\ running' = TRUE
    /\ UNCHANGED <<ctlVars, pin, op, linked, handler, mishaps>>

(***************************************************************************)
(* New with a token: Enroll verifies challenge and result under the key    *)
(* the operator supplies, the Controller's present one, and saves it at    *)
(* generation 1; a refused save leaves the process down.                   *)
(***************************************************************************)
EnrollAgain ==
    /\ ~running /\ Mishap
    /\ IF Saves(EnrolledPin(signer.key))
          THEN /\ pin' = EnrolledPin(signer.key)
               /\ running' = TRUE
               /\ reenrolled' = TRUE
          ELSE UNCHANGED <<pin, running, reenrolled>>
    /\ UNCHANGED <<signer, offer, minted, first, acked, forced, confirmed,
                   op, linked, handler>>

RotNext ==
    \/ Handshake \/ RefuseFrame \/ ReceivePrepare
    \/ AcceptPin \/ RefuseCertificate \/ SaveFails \/ FinishPrepare
    \/ SendAnswer \/ AnswerCommit
    \/ OfferSuccessor \/ Activate
    \/ LoseSession \/ CrashNode \/ StartNode \/ EnrollAgain

RotSpec == RotInit /\ [][RotNext]_rotVars

-----------------------------------------------------------------------------
(* The variables keep their types, keys and generations count from 1, a    *)
(* running handler belongs to a process that is up and to the journalled   *)
(* command, and only a command that was journalled has a phase             *)
(* (handleCommandOnSession).                                               *)
RotTypeOK ==
    /\ signer \in Pins /\ pin \in Pins /\ confirmed \in Nat /\ minted \in Nat
    /\ pin.key > 0 /\ pin.gen > 0 /\ signer.key > 0 /\ signer.gen > 0
    /\ offer \in [old : Pins, new : Pins] /\ first \in FirstGens
    /\ op \in [cert : [old : Pins, new : Pins], phase : {"none", "applying", "applied", "nacked"}]
    /\ handler \in {"idle", "deciding", "saved", "refused", "failed"}
    /\ running \in BOOLEAN /\ linked \in BOOLEAN /\ acked \in BOOLEAN
    /\ forced \in BOOLEAN /\ reenrolled \in BOOLEAN
    /\ handler # "idle" => running /\ op.phase = "applying"
    /\ op.phase # "none" => op.cert.new.key # 0
    /\ linked => running

(* Whatever was answered to the Controller stays true over crashes and     *)
(* re-enrollments: it never heard of a generation above the durable pin's  *)
(* ("an ACK is only ever sent for a pin the agent can verify locally",     *)
(* rotation.go).                                                           *)
ConfirmedIsPinned == confirmed <= pin.gen

(* As long as the Controller forces nothing, the Agent trusts the key the  *)
(* Controller signs with or the successor it has on offer: no order of     *)
(* deliveries, repeats, NACKs and crashes leaves it with a key that the    *)
(* Controller neither has nor will have.                                   *)
PinIsLive == ~forced => pin.key \in {signer.key, offer.new.key}

(* While the Agent trusts the key in use, it counts generations at the     *)
(* distance from the Controller's count it had at enrollment: rotations,   *)
(* refused, repeated or cut short by a crash, never change it, so whether  *)
(* certificates can be accepted is settled when the node enrolls           *)
(* (AcceptControllerRotationPin).                                          *)
GenerationsAgree ==
    pin.key = signer.key /\ ~reenrolled =>
        signer.gen + 1 = pin.gen + first

(* The ends of the certificates in use and the signing key.                *)
KnownKeys == {signer, offer.old, offer.new, op.cert.old, op.cert.new}

(* A key has one generation, wherever it is written down, and the pin of a *)
(* node that enrolled once differs from it by the distance at enrollment.  *)
(* The certificate on offer leads from the key in use to a key of its own. *)
KeysAgree ==
    /\ pin.key <= minted /\ \A x \in KnownKeys : x.key <= minted
    /\ \A x, y \in KnownKeys : x.key = y.key /\ x.key # 0 => x.gen = y.gen
    /\ ~reenrolled => \A x \in KnownKeys : x.key = pin.key => x.gen + 1 = pin.gen + first
    /\ offer # NoOffer =>
        offer.old = signer /\ offer.new.key \notin {0, signer.key} /\ offer.new.gen = signer.gen + 1

(* What a phase of the journalled command says of the pin: "applied" that  *)
(* the key on offer is pinned, "nacked" that the key in use still is.  The *)
(* answer is only true of the Controller's present offer, and as long as   *)
(* it has forced nothing (handleKeyRotationPrepare, RecoverApplying...).   *)
AnswersAreTrue ==
    /\ op.phase = "applied" \/ handler = "saved" => op.cert.new.gen <= pin.gen
    /\ ~forced =>
        /\ handler # "idle" => op.cert = offer /\ offer # NoOffer /\ ~acked
        /\ handler \in {"deciding", "refused", "failed"} => pin.key = signer.key
        /\ handler = "saved" => pin = offer.new
        /\ op.cert = offer /\ offer # NoOffer =>
            /\ op.phase = "nacked" => pin.key = signer.key
            /\ op.phase = "applied" => pin = offer.new
        /\ acked => op.cert = offer /\ offer # NoOffer /\ op.phase = "applied"

(* Agent and Controller agree about the key: what was confirmed is pinned,  *)
(* the pinned key is one the Controller has or offers, and generations keep *)
(* their distance, over crashes, repeats and lost answers (rotation.go).    *)
RotationInv ==
    /\ RotTypeOK /\ ConfirmedIsPinned /\ PinIsLive /\ GenerationsAgree
    /\ KeysAgree /\ AnswersAreTrue

(* docs/recovery.md: a valid certificate of the currently pinned key that  *)
(* carries a strictly higher generation is accepted.                       *)
ValidIsAccepted ==
    handler = "refused" =>
        ~(op.cert.old.key = pin.key /\ op.cert.new.gen > pin.gen)
=============================================================================
