--------------------------- MODULE CommandContract ---------------------------
(***************************************************************************)
(* What the Agent promises the Controller about a command, with the        *)
(* journal, the sessions and the crashes left out: its side effect happens *)
(* at most once, it gets at most one answer, an answer is never revised,   *)
(* and a success is only ever claimed for an effect that happened          *)
(* (docs/state-model.md, 3.2).                                             *)
(***************************************************************************)
CONSTANTS Cmds, Results, NoResult, Successes

VARIABLES ran,     \* commands whose side effect happened
          answer   \* the answer of each command, or NoResult

Init ==
    /\ ran \subseteq Cmds
    /\ answer \in [Cmds -> Results \cup {NoResult}]
    /\ \A c \in Cmds : answer[c] \in Successes => c \in ran

Run(c) ==
    /\ c \notin ran /\ answer[c] = NoResult
    /\ ran' = ran \cup {c}
    /\ UNCHANGED answer

\* Recovery may answer several commands in one transaction.
Answer(S) ==
    /\ \A c \in S : answer[c] = NoResult
    /\ answer' \in [Cmds -> Results \cup {NoResult}]
    /\ \A c \in Cmds \ S : answer'[c] = answer[c]
    /\ \A c \in S : answer'[c] # NoResult /\ (answer'[c] \in Successes => c \in ran)
    /\ UNCHANGED ran

Next == (\E c \in Cmds : Run(c)) \/ (\E S \in SUBSET Cmds : Answer(S))

Spec == Init /\ [][Next]_<<ran, answer>>
=============================================================================
