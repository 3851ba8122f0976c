---------------------------- MODULE MCArtifacts ----------------------------
(* Instances of ArtifactStore for TLC. *)
EXTENDS ArtifactStore, TLC

CONSTANTS d1, d2, d3, a, b, alias, readme, outside

MCYamlId == a :> a @@ alias :> a @@ readme :> readme @@ outside :> outside

\* A well-formed name of each store, and ADR 1 of the constitution.  Ids that
\* fit, one that is too large, none, and bytes that are no text.
MCUserPath == {<<1, b>>, <<MinNewId, a>>, <<0, a>>}
MCUserId == {MinNewId, MaxId, MaxId + 1, a, Garbled, Unreadable}

DraftSymmetry == Permutations(Draft)
=============================================================================
