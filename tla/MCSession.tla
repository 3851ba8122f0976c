----------------------------- MODULE MCSession -----------------------------
(* Instances of Session for TLC. *)
EXTENDS Session, TLC

\* Requests, passphrases and salts are interchangeable.
Sym == Permutations(Client) \union Permutations(Pass) \union Permutations(Salt)
=============================================================================
