-------------------------- MODULE MCControlJournal --------------------------
(* Instances of ControlJournal for TLC.                                     *)
EXTENDS ControlJournal, TLC

CONSTANTS c1, c2, d1, s1, s2

\* One command that deletes a forward.
OneDelete == [c \in {c1} |-> d1]

\* Two commands whose handler queues an acknowledgement under their own id.
BothAck == [c \in {c1, c2} |-> c]

\* Two commands that delete the same forward under one deletion id.
BothDelete == [c \in {c1, c2} |-> d1]

\* Both report d1 and carry a payload, so exchanging them changes nothing.
SymmetricCmds == Permutations({c1, c2})
=============================================================================
