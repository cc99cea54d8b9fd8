-------------------------- MODULE MCEvidenceStore --------------------------
(* The instances of EvidenceStore that TLC checks. *)
EXTENDS EvidenceStore, TLC

CONSTANTS p1, p2

Two == {p1, p2}

AnyOrder == Permutations(Publishers)

\* A confirmed capsule.  Runs with two capsules meet at no place, so it is the
\* runs of one that can meet: judged, with a witness found at one boundary or at
\* both, or unresolved, and its replays.
Shared == [boundary |-> "effect-commit", trace |-> "necessary"]

EveryJob ==
    {j \in CheckJobs \union ReplayJobs :
        j.capsule = Shared /\ (j.exercised \/ (j.unresolved /\ j.hunt # "both"))}

AllFaults == {"crash", "write", "unlink"}
=============================================================================
