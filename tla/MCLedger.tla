------------------------------ MODULE MCLedger ------------------------------
(* Instances of LedgerView for TLC. *)
EXTENDS LedgerView, TLC

CONSTANTS c1, c2

MCClient == {c1, c2}

\* Stamps that end in 119, 12 and 125.
MCTs == <<119, 120, 125>>
=============================================================================
