----------------------------- MODULE MCCapture -----------------------------
(* Instances of Capture for TLC.                                           *)
EXTENDS Capture, TLC

CONSTANTS a1, a2, noAlias, v1, v2, h1, h2

MCSaid(v) == [value |-> v, from |-> 0, to |-> 0, related |-> noAlias]
MCContents == {MCSaid(v) : v \in Values}

MCCandidate(id, v, sound) == [id |-> id, content |-> MCSaid(v), sound |-> sound]

(* One title said in two ways, and another title close to it that the last *)
(* gates would refuse.                                                     *)
MCCandidates ==
  {MCCandidate(a1, v1, TRUE), MCCandidate(a1, v2, TRUE), MCCandidate(a2, v1, FALSE)}

MCExtractions ==
  {<<>>, <<MCCandidate(a1, v1, TRUE)>>, <<MCCandidate(a1, v2, TRUE)>>,
   <<MCCandidate(a2, v1, FALSE)>>}

MCKeys == {<<"post-commit", "c1", a>> : a \in LegacyIds}
          \cup {<<"candidate", a, c>> : a \in LegacyIds, c \in MCContents}

MCSimilar == {<<a1, a2>>, <<a2, a1>>}

MCSymmetry == Permutations(Hooks)
=============================================================================
