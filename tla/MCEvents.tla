------------------------------ MODULE MCEvents ------------------------------
(* Instances of EventFeed for TLC. *)
EXTENDS EventFeed, TLC

CONSTANTS adr, finding, p1, p2, t1, page, other

MCDirOf == p1 :> adr @@ t1 :> adr @@ p2 :> finding
MCPageDir == page :> adr @@ other :> NoDir
=============================================================================
