------------------------ MODULE EvidenceStoreProofs ------------------------
(***************************************************************************)
(* The promises of EvidenceStore for any number of publishers, any jobs    *)
(* and any faults.  Two invariants carry them: what a publisher left       *)
(* behind it is there or was taken back, and a file in the making is its   *)
(* maker's alone.                                                          *)
(***************************************************************************)
EXTENDS EvidenceStore, TLAPS

Names == ReproFiles \union RunFiles

----------------------------------------------------------------------------
(* Plans.                                                                  *)

LEMMA OptionalType ==
    ASSUME NEW S, NEW name \in S, NEW wanted
    PROVE  Optional(wanted, name) \in Seq(S)
<1>1. CASE wanted
  <2>1. Optional(wanted, name) = <<name>>
    BY <1>1 DEF Optional
  <2> QED
    BY <2>1
<1>2. CASE ~wanted
  <2>1. Optional(wanted, name) = <<>>
    BY <1>2 DEF Optional
  <2> QED
    BY <2>1
<1> QED
  BY <1>1, <1>2

\* A plan is its evidence, then the manifest, then perhaps the report.
LEMMA PlanParts ==
    ASSUME NEW j \in Job
    PROVE  \E head \in Seq(Names \ {"manifest", "report"}), tail \in Seq({"report"}) :
               Plan(j) = (head \o <<"manifest">>) \o tail
<1> DEFINE S == Names \ {"manifest", "report"}
           always == <<"capsule", "contract", "event", "metadata">>
           test   == Optional(j.exercised, "test_repro")
           anchor == Optional(j.unresolved, "anchor-resolution")
           hunt   == Optional(j.hunt # "none", "hunt")
           least  == Optional(j.minimized, "minimization")
           tail   == Optional(j.attempted, "report")
           head   == always \o test \o anchor \o hunt \o least
<1>1. always \in Seq(S)
  BY DEF Names, ReproFiles, RunFiles
<1>2. test \in Seq(S) /\ anchor \in Seq(S) /\ hunt \in Seq(S) /\ least \in Seq(S)
  <2>1. /\ "test_repro" \in S /\ "anchor-resolution" \in S
        /\ "hunt" \in S /\ "minimization" \in S
    BY DEF Names, ReproFiles, RunFiles
  <2> HIDE DEF S
  <2> QED
    BY <2>1, OptionalType
<1>3. tail \in Seq({"report"})
  BY OptionalType
<1> HIDE DEF S, always, test, anchor, hunt, least, tail
<1>4. head \in Seq(S)
  BY <1>1, <1>2
<1>5. Plan(j) = (head \o <<"manifest">>) \o tail
  BY DEF Plan, always, test, anchor, hunt, least, tail
<1> QED
  BY <1>3, <1>4, <1>5 DEF S

LEMMA PlanType ==
    ASSUME NEW j \in Job
    PROVE  Plan(j) \in Seq(Names) /\ Len(Plan(j)) \in Nat \ {0}
<1>1. PICK head \in Seq(Names \ {"manifest", "report"}), tail \in Seq({"report"}) :
          Plan(j) = (head \o <<"manifest">>) \o tail
  BY PlanParts
<1>2. head \in Seq(Names) /\ tail \in Seq(Names) /\ <<"manifest">> \in Seq(Names)
  BY DEF Names, RunFiles
<1> QED
  BY <1>1, <1>2

\* The manifest comes after everything it describes.
LEMMA PlanOrder ==
    ASSUME NEW j \in Job, NEW i \in 1..Len(Plan(j)), NEW k \in 1..Len(Plan(j)),
           Plan(j)[i] = "manifest", Plan(j)[k] \notin {"manifest", "report"}
    PROVE  k < i
<1>1. PICK head \in Seq(Names \ {"manifest", "report"}), tail \in Seq({"report"}) :
          Plan(j) = (head \o <<"manifest">>) \o tail
  BY PlanParts
<1>2. i > Len(head)
  BY <1>1
<1>3. k <= Len(head)
  BY <1>1
<1> QED
  BY <1>2, <1>3

\* No file is whole by holding nothing.
LEMMA AssetIsWhole ==
    ASSUME NEW p, NEW j \in Job, NEW name
    PROVE  /\ Asset(p, j, name) \in {"whole"} \union Hunts
           /\ Asset(p, j, name) \notin {"absent", "short"}
  BY DEF Asset, Job, Hunts

LEMMA JobsAreJobs == Jobs \subseteq Job
  BY JobsAssumption DEF CheckJobs, ReplayJobs

----------------------------------------------------------------------------
(* Types.                                                                  *)

LEMMA PlaceType ==
    ASSUME TypeOK, NEW p \in Publishers, NEW i \in 1..Len(Plan(job[p]))
    PROVE  Place(p, Plan(job[p])[i]) \in Places
<1>1. job[p] \in Jobs /\ job[p] \in Job
  BY JobsAreJobs DEF TypeOK
<1>2. Plan(job[p])[i] \in Names
  BY <1>1, PlanType
<1> QED
  BY <1>1, <1>2 DEF Place, Places, Names

LEMMA HereType ==
    ASSUME TypeOK, NEW p \in Publishers
    PROVE  /\ job[p] \in Job /\ at[p] \in 1..Len(Plan(job[p]))
           /\ Name(p) \in Names /\ Here(p) \in Places
<1>1. job[p] \in Job
  BY JobsAreJobs DEF TypeOK
<1>2. at[p] \in 1..Len(Plan(job[p]))
  BY <1>1, PlanType DEF TypeOK
<1>3. Name(p) \in Names
  BY <1>1, <1>2, PlanType DEF Name
<1> QED
  BY <1>1, <1>2, <1>3, PlaceType DEF Here, Name

\* Every variable keeps its type, and no publisher runs past its plan.
THEOREM TypeCorrect == Spec => []TypeOK
<1>1. Init => TypeOK
  <2> SUFFICES ASSUME Init PROVE TypeOK
    OBVIOUS
  <2>1. \A p \in Publishers : 1 <= Len(Plan(job[p]))
    BY PlanType, JobsAreJobs DEF Init
  <2> QED
    BY <2>1 DEF Init, TypeOK, Phase
<1>2. TypeOK /\ [Next]_vars => TypeOK'
  <2> SUFFICES ASSUME TypeOK, [Next]_vars PROVE TypeOK'
    OBVIOUS
  <2>1. CASE UNCHANGED vars
    BY <2>1 DEF TypeOK, vars
  <2>2. ASSUME NEW p \in Publishers, Step(p) PROVE TypeOK'
    <3>1. /\ job[p] \in Job /\ at[p] \in 1..Len(Plan(job[p])) /\ Here(p) \in Places
      BY HereType
    <3>2. Len(Plan(job[p])) \in Nat /\ at[p] \in Nat
      BY <3>1, PlanType DEF TypeOK
    <3>3. job' = job
      BY <2>2 DEF Step, Begin, Create, Meet, Fill, Seal, Agree, Differ, OpenFails, WriteFails,
             Unlink, UnlinkFails, Crash
    <3>4. phase' \in [Publishers -> Phase]
      BY <2>2 DEF TypeOK, Phase, Step, Begin, Create, Meet, Fill, Seal, Agree, Differ,
             OpenFails, WriteFails, Unlink, UnlinkFails, Crash, Move, Advance
    <3>5. at' \in [Publishers -> Nat \ {0}] /\ \A q \in Publishers : at'[q] <= Len(Plan(job[q]))
      <4>1. CASE UNCHANGED at
        BY <4>1 DEF TypeOK
      <4>2. CASE Advance(p)
        <5>1. CASE UNCHANGED at
          BY <5>1 DEF TypeOK
        <5>2. CASE at[p] # Len(Plan(job[p])) /\ at' = [at EXCEPT ![p] = @ + 1]
          <6>1. at[p] + 1 \in 1..Len(Plan(job[p]))
            BY <5>2, <3>1, <3>2
          <6>2. at' \in [Publishers -> Nat \ {0}]
            BY <5>2, <6>1, <3>2 DEF TypeOK
          <6>3. ASSUME NEW q \in Publishers PROVE at'[q] <= Len(Plan(job[q]))
            <7>1. CASE q = p
              BY <7>1, <5>2, <6>1, <3>2 DEF TypeOK
            <7>2. CASE q # p
              BY <7>2, <5>2 DEF TypeOK
            <7> QED
              BY <7>1, <7>2
          <6> QED
            BY <6>2, <6>3
        <5> QED
          BY <4>2, <5>1, <5>2 DEF Advance
      <4> QED
        BY <2>2, <4>1, <4>2 DEF Step, Begin, Create, Meet, Fill, Seal, Agree, Differ, OpenFails,
               WriteFails, Unlink, UnlinkFails, Crash
    <3>6. files' \in [Places -> {"absent", "short", "whole"} \union Hunts]
      <4>1. Asset(p, job[p], Name(p)) \in {"whole"} \union Hunts
        BY <3>1, AssetIsWhole
      <4> QED
        BY <2>2, <4>1 DEF TypeOK, Step, Begin, Create, Meet, Fill, Seal, Agree, Differ,
               OpenFails, WriteFails, Unlink, UnlinkFails, Crash
    <3>7. maker' \in [Places -> SUBSET Publishers] /\ withdrawn' \subseteq Places
      BY <2>2, <3>1 DEF TypeOK, Step, Begin, Create, Meet, Fill, Seal, Agree, Differ,
             OpenFails, WriteFails, Unlink, UnlinkFails, Crash
    <3> QED
      BY <3>3, <3>4, <3>5, <3>6, <3>7 DEF TypeOK
  <2> QED
    BY <2>1, <2>2 DEF Next
<1> QED
  BY <1>1, <1>2, PTL DEF Spec
----------------------------------------------------------------------------
(* What a step of one publisher does to the store.                         *)

\* One publisher moves; it touches no place but the one it is at.
LEMMA StepFacts ==
    ASSUME TypeOK, NEW p \in Publishers, Step(p)
    PROVE  /\ job' = job
           /\ withdrawn \subseteq withdrawn'
           /\ \A q \in Publishers \ {p} : phase'[q] = phase[q] /\ at'[q] = at[q]
           /\ at'[p] \in {at[p], at[p] + 1}
           /\ phase[p] \notin {"sync", "compare"} => at'[p] = at[p]
           /\ \A place \in Places \ {Here(p)} :
                 files'[place] = files[place] /\ maker'[place] = maker[place]
  BY HereType DEF TypeOK, Step, Begin, Create, Meet, Fill, Seal, Agree, Differ, OpenFails,
     WriteFails, Unlink, UnlinkFails, Crash, Move, Advance

\* The ways the place a publisher is at changes.
LEMMA HereChanges ==
    ASSUME TypeOK, NEW p \in Publishers, Step(p)
    PROVE  \/ files'[Here(p)] = files[Here(p)] /\ maker'[Here(p)] = maker[Here(p)]
           \/ /\ phase[p] = "open" /\ phase'[p] = "fill" /\ maker'[Here(p)] = {p}
              /\ files[Here(p)] = "absent" /\ files'[Here(p)] = "short"
           \/ /\ phase[p] = "fill" /\ phase'[p] = "sync" /\ maker'[Here(p)] = maker[Here(p)]
              /\ files'[Here(p)] = Asset(p, job[p], Name(p))
           \/ /\ phase[p] = "unlink" /\ phase'[p] = "failed" /\ maker'[Here(p)] = maker[Here(p)]
              /\ files'[Here(p)] = "absent" /\ Here(p) \in withdrawn'
  BY HereType DEF TypeOK, Step, Begin, Create, Meet, Fill, Seal, Agree, Differ, OpenFails,
     WriteFails, Unlink, UnlinkFails, Crash, Move, Advance

----------------------------------------------------------------------------
(* The inductive invariant.                                                *)

\* What a publisher has behind it is as it wrote or found it.
Left ==
    \A p \in Publishers : \A i \in 1..(at[p] - 1) :
        Holds(p, i) \/ Place(p, Plan(job[p])[i]) \in withdrawn

\* A file in the making is its maker's alone.
Owned ==
    \A p \in Publishers :
        phase[p] \in {"fill", "sync", "unlink"} =>
            /\ maker[Here(p)] = {p}
            /\ files[Here(p)] # "absent"
            /\ phase[p] = "fill" => files[Here(p)] = "short"
            /\ phase[p] = "sync" => files[Here(p)] = Asset(p, job[p], Name(p))

\* A manifest is whole only of a run that came to it.
ManifestIsReached ==
    \A p \in Publishers :
        Whole(<<p, "manifest">>) => \E i \in 1..at[p] : Plan(job[p])[i] = "manifest"

\* A whole file is what its maker's plan asks for at that place.
MadeByPlan(q, place) ==
    \E i \in 1..Len(Plan(job[q])) :
        /\ Place(q, Plan(job[q])[i]) = place
        /\ files[place] = Asset(q, job[q], Plan(job[q])[i])

Made == \A place \in Places : Whole(place) => \E q \in maker[place] : MadeByPlan(q, place)

LEMMA LeftStep ==
    ASSUME TypeOK, Left, Owned, NEW p \in Publishers, Step(p)
    PROVE  Left'
<1> USE StepFacts
<1> SUFFICES ASSUME NEW q \in Publishers, NEW i \in 1..(at'[q] - 1)
             PROVE  (Holds(q, i) \/ Place(q, Plan(job[q])[i]) \in withdrawn)'
  BY DEF Left
<1>1. job[q] \in Job /\ at[q] \in 1..Len(Plan(job[q])) /\ Len(Plan(job[q])) \in Nat
  BY HereType, PlanType
<1>2. i \in 1..(at[q] - 1) \/ (i = at[q] /\ q = p)
  BY <1>1
<1>3. i \in 1..Len(Plan(job[q]))
  BY <1>1, <1>2
<1> DEFINE place == Place(q, Plan(job[q])[i])
           asset == Asset(q, job[q], Plan(job[q])[i])
<1>4. place \in Places /\ place' = place
  BY <1>3, PlaceType DEF Place
<1>5. files[place] = asset \/ place \in withdrawn
  <2>1. CASE i \in 1..(at[q] - 1)
    BY <2>1 DEF Left, Holds
  <2>2. CASE i = at[q] /\ q = p
    <3>1. at'[p] # at[p]
      BY <2>2, <1>1
    <3>2. Seal(p) \/ Agree(p)
      BY <3>1, <2>2 DEF Step, Begin, Create, Meet, Fill, Differ, OpenFails, WriteFails,
         Unlink, UnlinkFails, Crash
    <3>3. files[Here(p)] = Asset(p, job[p], Name(p))
      BY <3>2 DEF Owned, Seal, Agree
    <3> QED
      BY <2>2, <3>3 DEF Here, Name
  <2> QED
    BY <1>2, <2>1, <2>2
<1>6. asset \notin {"absent", "short"}
  BY <1>1, AssetIsWhole
<1>7. files'[place] = files[place] \/ place \in withdrawn \/ place \in withdrawn'
  <2>1. CASE place # Here(p)
    BY <2>1, <1>4
  <2>2. CASE place = Here(p)
    <3>1. files[place] = asset => files[place] \notin {"absent", "short"}
      BY <1>6
    <3>2. files[Here(p)] # "short" => phase[p] # "fill"
      BY DEF Owned
    <3> QED
      BY <1>5, <2>2, <3>1, <3>2, HereChanges
  <2> QED
    BY <2>1, <2>2
<1> QED
  BY <1>4, <1>5, <1>7 DEF Holds

LEMMA OwnedStep ==
    ASSUME TypeOK, Owned, NEW p \in Publishers, Step(p)
    PROVE  Owned'
<1> USE StepFacts
<1> SUFFICES ASSUME NEW q \in Publishers, phase'[q] \in {"fill", "sync", "unlink"}
             PROVE  /\ maker'[Here(q)'] = {q}
                    /\ files'[Here(q)'] # "absent"
                    /\ phase'[q] = "fill" => files'[Here(q)'] = "short"
                    /\ phase'[q] = "sync" =>
                          files'[Here(q)'] = Asset(q, job'[q], Name(q)')
  BY DEF Owned, Asset
<1>1. Here(p) \in Places /\ Here(q) \in Places /\ job[q] \in Job
  BY HereType
<1>2. CASE q # p
  <2>1. Here(q)' = Here(q) /\ Name(q)' = Name(q) /\ phase[q] = phase'[q]
    BY <1>2 DEF Here, Name, Place
  <2>2. /\ maker[Here(q)] = {q} /\ files[Here(q)] # "absent"
        /\ phase[q] = "fill" => files[Here(q)] = "short"
        /\ phase[q] = "sync" => files[Here(q)] = Asset(q, job[q], Name(q))
    BY <2>1 DEF Owned
  <2>3. files'[Here(q)] = files[Here(q)] /\ maker'[Here(q)] = maker[Here(q)]
    <3>1. CASE Here(q) # Here(p)
      BY <3>1, <1>1
    <3>2. CASE Here(q) = Here(p)
      <4>1. phase[p] \notin {"fill", "sync", "unlink"}
        BY <2>2, <3>2, <1>2 DEF Owned
      <4> QED
        BY <4>1, <2>2, <3>2, HereChanges
    <3> QED
      BY <3>1, <3>2
  <2> QED
    BY <2>1, <2>2, <2>3
<1>3. CASE q = p
  <2>1. \/ phase[p] = "open" /\ Create(p)
        \/ phase[p] = "fill" /\ Fill(p)
        \/ phase[p] \in {"fill", "sync"} /\ WriteFails(p)
    BY <1>3, HereType DEF TypeOK, Step, Begin, Create, Meet, Fill, Seal, Agree, Differ, OpenFails,
       WriteFails, Unlink, UnlinkFails, Crash, Move, Advance
  <2>2. Here(p)' = Here(p) /\ Name(p)' = Name(p)
    BY <2>1 DEF Here, Name, Place, Create, Fill, WriteFails
  <2>3. Asset(p, job[p], Name(p)) \notin {"absent", "short"}
    BY <1>1, <1>3, AssetIsWhole
  <2>4. CASE Create(p)
    BY <2>4, <2>2, <1>1, <1>3 DEF Create, Move, TypeOK
  <2>5. CASE phase[p] = "fill" /\ Fill(p)
    <3>1. maker[Here(p)] = {p}
      BY <2>5 DEF Owned
    <3> QED
      BY <2>5, <2>2, <2>3, <3>1, <1>1, <1>3 DEF Fill, Move, TypeOK
  <2>6. CASE phase[p] \in {"fill", "sync"} /\ WriteFails(p)
    BY <2>6, <2>2, <1>1, <1>3 DEF WriteFails, Move, TypeOK, Owned
  <2> QED
    BY <2>1, <2>4, <2>5, <2>6
<1> QED
  BY <1>2, <1>3

LEMMA ManifestIsReachedStep ==
    ASSUME TypeOK, ManifestIsReached, NEW p \in Publishers, Step(p)
    PROVE  ManifestIsReached'
<1> USE StepFacts
<1> SUFFICES ASSUME NEW q \in Publishers, Whole(<<q, "manifest">>)'
             PROVE  \E i \in 1..at'[q] : Plan(job[q])[i] = "manifest"
  BY DEF ManifestIsReached
<1>1. <<q, "manifest">> \in Places
  BY DEF Places, RunFiles
<1>2. at[q] \in Nat /\ at'[q] \in {at[q], at[q] + 1} /\ at[q] \in 1..Len(Plan(job[q]))
  BY HereType DEF TypeOK
<1>3. CASE Whole(<<q, "manifest">>)
  <2>1. PICK i \in 1..at[q] : Plan(job[q])[i] = "manifest"
    BY <1>3 DEF ManifestIsReached
  <2>2. i \in 1..at'[q]
    BY <1>2
  <2> QED
    BY <2>1, <2>2
<1>4. CASE ~Whole(<<q, "manifest">>)
  <2>1. Here(p) = <<q, "manifest">> /\ phase[p] = "fill"
    BY <1>1, <1>4, HereChanges DEF Whole
  <2>2. Name(p) = "manifest" /\ p = q
    BY <2>1 DEF Here, Place, ReproFiles
  <2> QED
    BY <2>1, <2>2, <1>2 DEF Name
<1> QED
  BY <1>3, <1>4

LEMMA MadeStep ==
    ASSUME TypeOK, Owned, Made, NEW p \in Publishers, Step(p)
    PROVE  Made'
<1> USE StepFacts
<1> SUFFICES ASSUME NEW place \in Places, Whole(place)'
             PROVE  \E q \in maker'[place] : MadeByPlan(q, place)'
  BY DEF Made
<1>1. CASE files'[place] = files[place] /\ maker'[place] = maker[place]
  <2>1. Whole(place)
    BY <1>1 DEF Whole
  <2>2. PICK q \in maker[place] : MadeByPlan(q, place)
    BY <2>1 DEF Made
  <2>3. MadeByPlan(q, place)'
    BY <2>2, <1>1 DEF MadeByPlan, Place, Asset
  <2> QED
    BY <2>2, <2>3, <1>1
<1>2. CASE ~(files'[place] = files[place] /\ maker'[place] = maker[place])
  <2>1. place = Here(p) /\ phase[p] = "fill" /\ maker'[place] = maker[place]
        /\ files'[place] = Asset(p, job[p], Name(p))
    BY <1>2, HereChanges DEF Whole
  <2>2. p \in maker'[place]
    BY <2>1 DEF Owned
  <2>3. at[p] \in 1..Len(Plan(job[p]))
    BY HereType
  <2>4. MadeByPlan(p, place)'
    BY <2>1, <2>3 DEF MadeByPlan, Here, Name, Place, Asset
  <2> QED
    BY <2>2, <2>4
<1> QED
  BY <1>1, <1>2

LEMMA DebtorStep ==
    ASSUME TypeOK, ShortFilesHaveADebtor, NEW p \in Publishers, Step(p)
    PROVE  ShortFilesHaveADebtor'
<1> USE StepFacts
<1> SUFFICES ASSUME NEW place \in Places, files'[place] = "short"
             PROVE  \E q \in maker'[place] :
                       (Here(q) = place /\ phase[q] \in {"fill", "unlink", "failed", "crashed"})'
  BY DEF ShortFilesHaveADebtor
<1>1. Here(p) \in Places /\ job[p] \in Job
  BY HereType
<1>2. CASE files[place] = "absent"
  <2>1. place = Here(p) /\ phase[p] = "open" /\ phase'[p] = "fill" /\ maker'[place] = {p}
    BY <1>2, <1>1, AssetIsWhole, HereChanges
  <2>2. Here(p)' = Here(p)
    BY <2>1 DEF Here, Name, Place
  <2> QED
    BY <2>1, <2>2
<1>3. CASE files[place] # "absent"
  <2>1. files[place] = "short" /\ maker'[place] = maker[place]
    BY <1>3, <1>1, AssetIsWhole, HereChanges
  <2>2. PICK q \in maker[place] :
            Here(q) = place /\ phase[q] \in {"fill", "unlink", "failed", "crashed"}
    BY <2>1 DEF ShortFilesHaveADebtor
  <2>3. q \in Publishers
    BY DEF TypeOK
  <2>4. at'[q] = at[q]
    BY <2>2, <2>3
  <2>5. Here(q)' = place
    BY <2>2, <2>4 DEF Here, Name, Place
  <2>6. phase'[q] \in {"fill", "unlink", "failed", "crashed"}
    <3>1. CASE q # p
      BY <3>1, <2>2, <2>3
    <3>2. CASE q = p
      <4>1. ~Fill(p)
        BY <3>2, <2>2, <1>1, AssetIsWhole DEF Fill, TypeOK
      <4> QED
        BY <3>2, <2>2, <4>1 DEF TypeOK, Step, Begin, Create, Meet, Seal, Agree, Differ, OpenFails,
           WriteFails, Unlink, UnlinkFails, Crash, Move
    <3> QED
      BY <3>1, <3>2
  <2> QED
    BY <2>1, <2>2, <2>5, <2>6
<1> QED
  BY <1>2, <1>3
IInv == TypeOK /\ Left /\ Owned /\ ManifestIsReached /\ Made /\ ShortFilesHaveADebtor

LEMMA IInvInit == Init => IInv
<1> SUFFICES ASSUME Init PROVE IInv
  OBVIOUS
<1>1. \A p \in Publishers : job[p] \in Job /\ 1 <= Len(Plan(job[p]))
  BY PlanType, JobsAreJobs DEF Init
<1>2. TypeOK
  BY <1>1 DEF Init, TypeOK, Phase
<1>3. Left /\ Owned
  BY DEF Init, Left, Owned
<1>4. \A place \in Places : files[place] = "absent"
  BY DEF Init
<1>5. ManifestIsReached
  <2>1. \A p \in Publishers : <<p, "manifest">> \in Places
    BY DEF Places, RunFiles
  <2> QED
    BY <1>4, <2>1 DEF ManifestIsReached, Whole
<1>6. Made /\ ShortFilesHaveADebtor
  BY <1>4 DEF Made, Whole, ShortFilesHaveADebtor
<1> QED
  BY <1>2, <1>3, <1>5, <1>6 DEF IInv

\* The strengthening holds of every reachable state.
THEOREM InvariantHolds == Spec => []IInv
<1>1. Init => IInv
  BY IInvInit
<1>2. IInv /\ TypeOK' /\ [Next]_vars => IInv'
  <2> SUFFICES ASSUME IInv, TypeOK', [Next]_vars PROVE IInv'
    OBVIOUS
  <2>1. CASE UNCHANGED vars
    BY <2>1 DEF IInv, vars, TypeOK, Left, Owned, ManifestIsReached, Made, MadeByPlan,
       ShortFilesHaveADebtor, Holds, Whole, Here, Name, Place
  <2>2. ASSUME NEW p \in Publishers, Step(p) PROVE IInv'
    BY <2>2, LeftStep, OwnedStep, ManifestIsReachedStep, MadeStep, DebtorStep DEF IInv
  <2> QED
    BY <2>1, <2>2 DEF Next
<1> QED
  BY <1>1, <1>2, TypeCorrect, PTL DEF Spec

\* A short file is owed by a publisher that is at it or fell at it.
THEOREM ShortFilesAreOwed == Spec => []ShortFilesHaveADebtor
<1>1. IInv => ShortFilesHaveADebtor
  BY DEF IInv
<1> QED
  BY <1>1, InvariantHolds, PTL

\* A whole manifest finds every file it describes, but for those taken back.
THEOREM ManifestStands == Spec => []ManifestStandsOnItsFiles
<1>1. IInv => ManifestStandsOnItsFiles
  <2> SUFFICES ASSUME IInv, NEW p \in Publishers, Whole(Place(p, "manifest")), NEW k \in Listed(p)
               PROVE  Holds(p, k) \/ Place(p, Plan(job[p])[k]) \in withdrawn
    BY DEF ManifestStandsOnItsFiles
  <2>1. Place(p, "manifest") = <<p, "manifest">> /\ <<p, "manifest">> \in Places
    BY DEF Place, ReproFiles, RunFiles, Places
  <2>2. /\ job[p] \in Job /\ at[p] \in 1..Len(Plan(job[p])) /\ k \in 1..Len(Plan(job[p]))
        /\ Len(Plan(job[p])) \in Nat
    BY HereType, PlanType DEF IInv, Listed
  <2>3. PICK i \in 1..at[p] : Plan(job[p])[i] = "manifest"
    BY <2>1 DEF IInv, ManifestIsReached
  <2>4. CASE Plan(job[p])[k] = "manifest"
    <3>1. PICK q \in maker[<<p, "manifest">>] : MadeByPlan(q, <<p, "manifest">>)
      BY <2>1 DEF IInv, Made
    <3>2. PICK n \in 1..Len(Plan(job[q])) :
              /\ Place(q, Plan(job[q])[n]) = <<p, "manifest">>
              /\ files[<<p, "manifest">>] = Asset(q, job[q], Plan(job[q])[n])
      BY <3>1 DEF MadeByPlan
    <3>3. files[<<p, "manifest">>] = "whole"
      BY <3>2 DEF Place, Asset, ReproFiles
    <3> QED
      BY <2>1, <2>4, <3>3 DEF Holds, Asset
  <2>5. CASE Plan(job[p])[k] # "manifest"
    <3>1. k < i
      BY <2>2, <2>3, <2>5, PlanOrder DEF Listed
    <3>2. k \in 1..(at[p] - 1)
      BY <2>2, <2>3, <3>1
    <3> QED
      BY <3>2 DEF IInv, Left
  <2> QED
    BY <2>4, <2>5
<1> QED
  BY <1>1, InvariantHolds, PTL

\* No whole file is given other contents; its unfinished maker alone removes it.
THEOREM EvidenceIsWrittenOnce == Spec => NothingIsOverwritten
<1>1. IInv /\ [Next]_vars =>
         [\A place \in Places :
             Whole(place) =>
                 \/ files'[place] = files[place]
                 \/ /\ files'[place] = "absent"
                    /\ \E p \in maker[place] : phase[p] = "unlink" /\ Here(p) = place]_vars
  <2> SUFFICES ASSUME IInv, NEW p \in Publishers, Step(p), NEW place \in Places, Whole(place),
                      files'[place] # files[place]
               PROVE  /\ files'[place] = "absent"
                      /\ \E q \in maker[place] : phase[q] = "unlink" /\ Here(q) = place
    BY DEF Next
  <2>1. place = Here(p)
    BY StepFacts DEF IInv
  <2>2. phase[p] = "unlink" /\ files'[place] = "absent"
    BY <2>1, HereChanges DEF IInv, Whole, Owned
  <2>3. p \in maker[place]
    BY <2>1, <2>2 DEF IInv, Owned
  <2> QED
    BY <2>1, <2>2, <2>3
<1> QED
  BY <1>1, InvariantHolds, PTL DEF Spec, NothingIsOverwritten

\* A refusal meets an unfinished file, or another hunt of the same capsule.
THEOREM RefusalsAreConflicts == Spec => RefusalIsAConflict
<1>1. IInv /\ [Next]_vars =>
         [\A p \in Publishers :
             phase[p] # "refused" /\ phase'[p] = "refused" =>
                 \/ files[Here(p)] \in {"short", "absent"}
                 \/ /\ Name(p) = "hunt"
                    /\ \E q \in maker[Here(p)] : /\ job[q].capsule = job[p].capsule
                                                 /\ job[q].hunt # job[p].hunt]_vars
  <2> SUFFICES ASSUME IInv, NEW r \in Publishers, Step(r), NEW p \in Publishers,
                      phase[p] # "refused", phase'[p] = "refused", Whole(Here(p))
               PROVE  /\ Name(p) = "hunt"
                      /\ \E q \in maker[Here(p)] : /\ job[q].capsule = job[p].capsule
                                                   /\ job[q].hunt # job[p].hunt
    BY DEF Next, Whole
  <2>1. Differ(p)
    BY DEF IInv, TypeOK, Step, Begin, Create, Meet, Fill, Seal, Agree, Differ, OpenFails,
       WriteFails, Unlink, UnlinkFails, Crash, Move, Advance
  <2>2. files[Here(p)] # Asset(p, job[p], Name(p)) /\ Here(p) \in Places
    BY <2>1, HereType DEF Differ, IInv
  <2>3. PICK q \in maker[Here(p)] : MadeByPlan(q, Here(p))
    BY <2>2 DEF IInv, Made
  <2>4. PICK n \in 1..Len(Plan(job[q])) :
            /\ Place(q, Plan(job[q])[n]) = Here(p)
            /\ files[Here(p)] = Asset(q, job[q], Plan(job[q])[n])
    BY <2>3 DEF MadeByPlan
  <2>5. Plan(job[q])[n] = Name(p)
    BY <2>4 DEF Here, Place
  <2>6. Name(p) = "hunt" /\ job[q].hunt # job[p].hunt
    BY <2>2, <2>4, <2>5 DEF Asset
  <2>7. job[q].capsule = job[p].capsule
    BY <2>4, <2>5, <2>6 DEF Here, Place, ReproFiles
  <2> QED
    BY <2>6, <2>7
<1> QED
  BY <1>1, InvariantHolds, PTL DEF Spec, RefusalIsAConflict
=============================================================================
