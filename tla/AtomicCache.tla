---------------------------- MODULE AtomicCache ----------------------------
(***************************************************************************)
(* What cache.rs promises of one key: the entry is absent or one whole     *)
(* answer, a put replaces it in one step, and a get returns what the entry *)
(* was at one instant.                                                     *)
(***************************************************************************)
CONSTANTS Client, Answer, Absent, Nothing

VARIABLES
    entry,   \* the completion stored under the key
    got      \* what each client's last get returned

vars == <<entry, got>>

Init ==
    /\ entry = Absent
    /\ got = [c \in Client |-> Nothing]

Put ==
    /\ entry' \in Answer
    /\ UNCHANGED got

Get(c) ==
    /\ got' = [got EXCEPT ![c] = entry]
    /\ UNCHANGED entry

\* Some clients start over: their dispatch was dropped or the process died.
Forget ==
    /\ \E gone \in SUBSET Client :
         got' = [c \in Client |-> IF c \in gone THEN Nothing ELSE got[c]]
    /\ UNCHANGED entry

Next == Put \/ (\E c \in Client : Get(c)) \/ Forget

Spec == Init /\ [][Next]_vars
=============================================================================
