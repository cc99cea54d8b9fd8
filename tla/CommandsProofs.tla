--------------------------- MODULE CommandsProofs ---------------------------
(***************************************************************************)
(* What a published verdict promises, for any confirmations, any bound on  *)
(* commits and any requests: of check, of replay and of the map.           *)
(*                                                                         *)
(* The invariant says what a command knows at each of its stages.  With it *)
(* the validators are shown to pass every result the orchestrator makes,   *)
(* but one; and what the validators passed is shown to be earned.          *)
(***************************************************************************)
EXTENDS Commands, FiniteSetTheorems, SequenceTheorems, TLAPS

Tried == DOMAIN evidence.attempts
Swept == DOMAIN evidence.sweeps

Confirmed(who, seen) ==
    who \in Tried /\ ConfirmedObservation(evidence.attempts[who]) = seen

Unfinished == stage \notin {"publish", "done"}

----------------------------------------------------------------------------
(* The invariants.                                                         *)

\* The base duplicates when it is killed, and only then.
WitnessReady ==
    /\ HuntIsConclusive(evidence.hunt) /\ FaultIsNecessary(evidence.control)
    /\ Confirmed("base", "DUPLICATE_EFFECT")

\* A candidate is swept if it was exactly once at the boundary, and judged
\* without a sweep if it was seen to be wrong there.
CandidateReady ==
    \/ Confirmed("candidate", "EXACTLY_ONCE") /\ Swept \ {"corrected"} = {"candidate"}
    \/ /\ Swept \ {"corrected"} = {}
       /\ Confirmed("candidate", "DUPLICATE_EFFECT") \/ Confirmed("candidate", "INVARIANT_FAILED")

\* What check knows of the role it works on.
CheckKnows ==
    /\ evidence.unresolved = "none"
    /\ CASE role = "base" ->
              /\ stage \in {"bind", "hunt", "minimize", "confirm"}
              /\ evidence.attempts = <<>> /\ evidence.sweeps = <<>>
              /\ stage \in {"bind", "hunt"} => evidence = NoEvidence
              /\ stage \in {"minimize", "confirm"} => HuntIsConclusive(evidence.hunt)
              /\ stage = "minimize" => evidence.control = <<>>
              /\ stage = "confirm" => FaultIsNecessary(evidence.control)
         [] role = "candidate" ->
              /\ stage \in {"bind", "confirm", "sweep", "judge"} /\ WitnessReady
              /\ stage \in {"bind", "confirm"} => Tried = {"base"} /\ Swept = {}
              /\ stage \in {"sweep", "judge"} => Tried = {"base", "candidate"}
              /\ stage = "sweep" =>
                     /\ Swept = {}
                     /\ \/ Confirmed("candidate", "EXACTLY_ONCE")
                        \/ NeverReached(evidence.attempts["candidate"])
              /\ stage = "judge" =>
                     CandidateReady /\ Swept \subseteq {"candidate"} /\ ~request.corrected
         [] role = "corrected" ->
              /\ stage \in {"bind", "confirm", "sweep", "judge"} /\ WitnessReady /\ CandidateReady
              /\ request.corrected
              /\ stage \in {"bind", "confirm"} => Tried = {"base", "candidate"}
              /\ stage \in {"sweep", "judge"} => Tried = Role
              /\ stage # "judge" => Swept \subseteq {"candidate"}
              /\ stage = "sweep" => Confirmed("corrected", "EXACTLY_ONCE")
              /\ stage = "judge" => /\ Swept \subseteq {"candidate", "corrected"}
                                    /\ "corrected" \in Swept <=>
                                           Confirmed("corrected", "EXACTLY_ONCE")

\* What replay knows.
ReplayKnows ==
    /\ stage \in {"load", "bind", "confirm", "sweep", "judge"}
    /\ stage \in {"load", "bind", "confirm"} => evidence = NoEvidence
    /\ stage \in {"sweep", "judge"} => role # "base" /\ Tried = {role}
    /\ stage = "sweep" => Swept = {} /\ Confirmed(role, "EXACTLY_ONCE")
    /\ stage = "judge" => role \in Swept <=> Confirmed(role, "EXACTLY_ONCE")

Knowledge ==
    Unfinished =>
        /\ verdict = "EVIDENCE_INCOMPLETE"
        /\ request.command = "check" => CheckKnows
        /\ request.command = "replay" => ReplayKnows
        /\ request.command = "map" =>
               stage \in {"bind", "sweep"} /\ role = "candidate" /\ evidence = NoEvidence

\* A replay is of one role, and hunts nothing.
ReplayIsOfOneRole ==
    request.command = "replay" =>
        /\ Tried \subseteq {role} /\ Swept \subseteq Tried
        /\ evidence.hunt = <<>> /\ evidence.control = <<>>
        /\ Tried # {} => evidence.unresolved = "none"

\* A sweep kills after each commit its census counted.
KillsFollowTheCensus ==
    \A who \in Swept : DOMAIN evidence.sweeps[who].kills = KillPoints(evidence.sweeps[who].census)

\* A conclusive verdict is the one on the role that is judged.
ConclusionIsJudged ==
    verdict \in Conclusive =>
        /\ request.command = "check" =>
               /\ verdict # "BUG_REPRODUCED" /\ verdict = VerdictOn("candidate")
               /\ evidence.hunt # <<>>
               /\ Tried = (IF request.corrected THEN Role ELSE {"base", "candidate"})
        /\ request.command = "replay" =>
               /\ Tried = {role}
               /\ role = "base" => verdict = "BUG_REPRODUCED"
               /\ role # "base" => verdict # "BUG_REPRODUCED" /\ verdict = VerdictOn(role)
        /\ request.command # "map"

\* The validators pass what is to be published, or a census overrules them.
ValidatorsAgree ==
    /\ stage # "done" => outcome = "none"
    /\ stage = "publish" =>
           /\ request.command # "map"
           /\ Publishable(verdict, evidence) \/ CensusDecidesOverAnIncompleteSweep(Judged)
    /\ outcome = "published" => Publishable(verdict, evidence)
    /\ outcome = "refused" =>
           /\ ~Publishable(verdict, evidence)
           /\ CensusDecidesOverAnIncompleteSweep(Judged)

\* What the validators may rely on of any world: one that completed was judged,
\* its status and its integrity tell the same.
Judgeable(r) ==
    /\ r \in Receipt
    /\ Completed(r) <=> r.status = "COMPLETED"
    /\ Completed(r) => r.observation # "NOT_OBSERVED"

\* What is known of a sweep that was run.
ASweep(sweep) ==
    /\ Judgeable(sweep.census) /\ (Completed(sweep.census) => sweep.census.ops # <<>>)
    /\ sweep.kills \in Seq(Receipt)
    /\ DOMAIN sweep.kills = KillPoints(sweep.census)
    /\ \A n \in DOMAIN sweep.kills : Judgeable(sweep.kills[n]) /\ IsKilledAfter(sweep.kills[n], n)

\* A map that swept told what its sweep told it to, and ran no other world.
MapTold ==
    request.command = "map" /\ role \in Swept =>
        /\ role = "candidate" /\ Swept = {role} /\ Tried = {}
        /\ evidence.unresolved = "none"
        /\ ASweep(evidence.sweeps[role])
        /\ \E escaped \in BOOLEAN : outcome = Tell(evidence.sweeps[role], escaped)

CommandInv ==
    /\ TypeOK
    /\ Knowledge
    /\ ReplayIsOfOneRole
    /\ KillsFollowTheCensus
    /\ ConclusionIsJudged
    /\ ValidatorsAgree
    /\ MapTold
----------------------------------------------------------------------------
(* What worlds return.                                                     *)

\* What a completed world is judged to have shown is an observation.
LEMMA JudgedTypes ==
    ASSUME NEW final, NEW first, NEW initial
    PROVE  /\ ClassifyFinal(final, initial) \in CrashObservation \ {"NOT_OBSERVED"}
           /\ ClassifyDelivery(first, final, initial) \in CrashObservation \ {"NOT_OBSERVED"}
BY DEF ClassifyFinal, ClassifyDelivery, CrashObservation

LEMMA ScheduleTypes == \A n \in Nat : Schedules(n) \subseteq Seq(Operations)
<1>1. ASSUME NEW n \in Nat, NEW s \in Schedules(n)
      PROVE  s \in Seq(Operations)
  <2>1. s \in UNION {[1..k -> Operations] : k \in 0..n}
    BY <1>1 DEF Schedules
  <2>2. PICK k \in 0..n : s \in [1..k -> Operations]
    BY <2>1
  <2>3. k \in Nat
    BY <2>2
  <2> QED
    BY <2>2, <2>3
<1> QED
  BY <1>1

LEMMA DeliveryTypes ==
    \A d \in Deliveries : d[1] \in Seq(Operations)
BY ScheduleTypes, EvidenceAssumption DEF Deliveries

LEMMA ReceiptOfTypes ==
    ASSUME NEW observation \in CrashObservation, NEW ops \in Seq(Operations)
    PROVE  /\ ReceiptOf(observation, ops) \in Receipt
           /\ Completed(ReceiptOf(observation, ops))
BY DEF ReceiptOf, Receipt, Completed, ExecutionStatus, IntegrityStatus

\* A world that failed did not complete.
LEMMA FailedTypes ==
    \A r \in FailedReceipts : r \in Receipt /\ ~Completed(r) /\ r.status # "COMPLETED"
<1>1. ASSUME NEW r \in FailedReceipts
      PROVE  r \in Receipt /\ ~Completed(r) /\ r.status # "COMPLETED"
  <2>1. r \in [status : Failures, integrity : {"INVALID", "INCOMPLETE"},
               observation : CrashObservation, ops : {<<>>}]
    BY <1>1 DEF FailedReceipts
  <2>2. <<>> \in Seq(Operations)
    OBVIOUS
  <2> QED
    BY <2>1, <2>2, EvidenceAssumption DEF Receipt, Completed, IntegrityStatus
<1> QED
  BY <1>1

LEMMA SetupFailureType ==
    /\ SetupFailure \in Receipt
    /\ [SetupFailure EXCEPT !.status = "UNSUPPORTED"] \in Receipt
    /\ SetupFailure.observation = "NOT_OBSERVED"
    /\ [SetupFailure EXCEPT !.status = "UNSUPPORTED"].observation = "NOT_OBSERVED"
    /\ ~Completed(SetupFailure)
    /\ ~Completed([SetupFailure EXCEPT !.status = "UNSUPPORTED"])
<1>1. <<>> \in Seq(Operations)
  OBVIOUS
<1> QED
  BY <1>1 DEF SetupFailure, Receipt, ExecutionStatus, IntegrityStatus, CrashObservation, Completed

LEMMA FailedAreJudgeable == \A r \in FailedReceipts : Judgeable(r)
BY FailedTypes DEF Judgeable

LEMMA CompletedAreJudgeable ==
    ASSUME NEW observation \in CrashObservation \ {"NOT_OBSERVED"}, NEW ops \in Seq(Operations)
    PROVE  Judgeable(ReceiptOf(observation, ops))
BY ReceiptOfTypes DEF Judgeable, ReceiptOf

LEMMA WorldsAreJudgeable ==
    /\ \A b \in FaultBoundary : \A r \in Attempts(b) : Judgeable(r)
    /\ \A r \in SweepAttempts : Judgeable(r)
    /\ \A r \in NoFaultReplays : Judgeable(r)
<1>1. ASSUME NEW b, NEW r \in CompletedAttempts(b)
      PROVE  Judgeable(r)
  <2>1. PICK d \in Deliveries : r = ReceiptOf(ClassifyFinal(After(d[1] \o d[2]), InitialTotal), d[1])
    BY <1>1 DEF CompletedAttempts
  <2> QED
    BY <2>1, DeliveryTypes, JudgedTypes, CompletedAreJudgeable
<1>2. ASSUME NEW b \in FaultBoundary, NEW r \in Attempts(b)
      PROVE  Judgeable(r)
  BY <1>1, <1>2, FailedAreJudgeable DEF Attempts, EffectAttempts, MarkerAttempts
<1>3. ASSUME NEW r \in SweepAttempts
      PROVE  Judgeable(r)
  <2>1. CASE r \in FailedReceipts
    BY <2>1, FailedAreJudgeable
  <2>2. CASE r \notin FailedReceipts
    <3>1. PICK d \in Deliveries :
              r = ReceiptOf(ClassifyFinal(After(d[1] \o d[2]), InitialTotal), d[1])
      BY <1>3, <2>2 DEF SweepAttempts
    <3> QED
      BY <3>1, DeliveryTypes, JudgedTypes, CompletedAreJudgeable
  <2> QED
    BY <2>1, <2>2
<1>4. ASSUME NEW r \in NoFaultReplays
      PROVE  Judgeable(r)
  <2>1. CASE r \in FailedReceipts
    BY <2>1, FailedAreJudgeable
  <2>2. CASE r \notin FailedReceipts
    <3>1. PICK d \in Deliveries :
              r = ReceiptOf(ClassifyDelivery(After(d[1]), After(d[1] \o d[2]), InitialTotal), d[1])
      BY <1>4, <2>2 DEF NoFaultReplays
    <3> QED
      BY <3>1, DeliveryTypes, JudgedTypes, CompletedAreJudgeable
  <2> QED
    BY <2>1, <2>2
<1> QED
  BY <1>2, <1>3, <1>4

\* A census that completed has a commit.
LEMMA CensusHasACommit == \A r \in NoFaultReplays : Completed(r) => r.ops # <<>>
<1>1. ASSUME NEW r \in NoFaultReplays, Completed(r)
      PROVE  r.ops # <<>>
  <2>1. r \notin FailedReceipts
    BY <1>1, FailedTypes
  <2>2. PICK d \in {e \in Deliveries : e[1] # <<>>} :
            r = ReceiptOf(ClassifyDelivery(After(d[1]), After(d[1] \o d[2]), InitialTotal), d[1])
    BY <1>1, <2>1 DEF NoFaultReplays
  <2> QED
    BY <2>2 DEF ReceiptOf
<1> QED
  BY <1>1

\* No base world keeps its schedule, and it is a receipt still.
LEMMA BareAreJudgeable ==
    ASSUME NEW receipts, \A r \in receipts : Judgeable(r)
    PROVE  \A r \in Bare(receipts) : Judgeable(r)
<1>1. ASSUME NEW r \in Bare(receipts)
      PROVE  Judgeable(r)
  <2>1. PICK s \in receipts : r = [s EXCEPT !.ops = <<>>]
    BY <1>1 DEF Bare
  <2>2. <<>> \in Seq(Operations)
    OBVIOUS
  <2>3. Judgeable(s)
    BY <2>1
  <2> QED
    BY <2>1, <2>2, <2>3 DEF Judgeable, Receipt, Completed
<1> QED
  BY <1>1

LEMMA WithinAreJudgeable ==
    ASSUME NEW receipts, \A r \in receipts : Judgeable(r)
    PROVE  \A r \in Within(receipts) : Judgeable(r) /\ r \in receipts
BY DEF Within

LEMMA FunctionsAreSequences ==
    ASSUME NEW n \in Nat, NEW S, NEW f \in [1..n -> S]
    PROVE  f \in Seq(S) /\ Len(f) = n
OBVIOUS

\* A wave is a sequence of as many worlds as a role is confirmed by.
AWave(attempts) ==
    /\ attempts \in Seq(Receipt)
    /\ Len(attempts) = Confirmations
    /\ \A i \in DOMAIN attempts : Judgeable(attempts[i])

LEMMA WavesAreWaves ==
    ASSUME boundary \in FaultBoundary
    PROVE  /\ \A attempts \in Waves : AWave(attempts)
           /\ \A attempts \in BareWaves : AWave(attempts)
<1>1. ASSUME NEW receipts, \A r \in receipts : Judgeable(r),
             NEW attempts \in [1..Confirmations -> receipts]
      PROVE  AWave(attempts)
  <2>1. attempts \in [1..Confirmations -> Receipt]
    BY <1>1 DEF Judgeable
  <2> QED
    BY <1>1, <2>1, EvidenceAssumption DEF AWave
<1>2. \A r \in Attempts(boundary) : Judgeable(r)
  BY WorldsAreJudgeable
<1>3. \A r \in Within(Attempts(boundary)) : Judgeable(r)
  BY <1>2, WithinAreJudgeable
<1>4. \A r \in Bare(Attempts(boundary)) : Judgeable(r)
  BY <1>2, BareAreJudgeable
<1> QED
  BY <1>1, <1>3, <1>4 DEF Waves, BareWaves
----------------------------------------------------------------------------
(* What the rules conclude, and from what.                                 *)

LEMMA SawOneThing ==
    ASSUME NEW receipts \in Seq(Receipt)
    PROVE  /\ Cardinality(Saw(receipts)) = 1 <=> \E o \in CrashObservation : Saw(receipts) = {o}
           /\ \A i \in DOMAIN receipts : receipts[i].observation \in Saw(receipts)
           /\ \A o : Saw(receipts) = {o} =>
                  /\ \A i \in DOMAIN receipts : receipts[i].observation = o
                  /\ DOMAIN receipts # {}
<1>1. \A i \in DOMAIN receipts : receipts[i] \in Receipt
  OBVIOUS
<1>2. Saw(receipts) \subseteq CrashObservation
  BY <1>1 DEF Saw, Receipt
<1>3. IsFiniteSet(CrashObservation)
  <2>1. IsFiniteSet({"DUPLICATE_EFFECT", "EXACTLY_ONCE"})
    <3>1. /\ IsFiniteSet({"DUPLICATE_EFFECT"})
          /\ {"DUPLICATE_EFFECT"} \union {"EXACTLY_ONCE"} = {"DUPLICATE_EFFECT", "EXACTLY_ONCE"}
      BY FS_Singleton
    <3> QED
      BY <3>1, FS_AddElement, Zenon
  <2>2. IsFiniteSet({"DUPLICATE_EFFECT", "EXACTLY_ONCE"} \union {"INVARIANT_FAILED"})
    BY <2>1, FS_AddElement, Zenon
  <2>3. IsFiniteSet(({"DUPLICATE_EFFECT", "EXACTLY_ONCE"} \union {"INVARIANT_FAILED"})
                    \union {"NOT_OBSERVED"})
    BY <2>2, FS_AddElement, Zenon
  <2>4. CrashObservation = ({"DUPLICATE_EFFECT", "EXACTLY_ONCE"} \union {"INVARIANT_FAILED"})
                           \union {"NOT_OBSERVED"}
    BY DEF CrashObservation
  <2> QED
    BY <2>3, <2>4
<1>4. IsFiniteSet(Saw(receipts))
  BY <1>2, <1>3, FS_Subset
<1>5. Cardinality(Saw(receipts)) = 1 <=> \E o : Saw(receipts) = {o}
  BY <1>4, FS_Singleton
<1>6. Cardinality(Saw(receipts)) = 1 <=> \E o \in CrashObservation : Saw(receipts) = {o}
  BY <1>2, <1>5
<1>7. \A i \in DOMAIN receipts : receipts[i].observation \in Saw(receipts)
  BY DEF Saw
<1>8. ASSUME NEW o, Saw(receipts) = {o}
      PROVE  DOMAIN receipts # {}
  BY <1>8 DEF Saw
<1> QED
  BY <1>6, <1>7, <1>8

\* A wave that confirms something is of completed worlds that all showed it.
LEMMA ConfirmedMeans ==
    ASSUME NEW attempts \in Seq(Receipt), NEW seen, seen # "NOT_OBSERVED",
           ConfirmedObservation(attempts) = seen
    PROVE  /\ Len(attempts) = Confirmations /\ AllCompleted(attempts)
           /\ Saw(attempts) = {seen} /\ Cardinality(Saw(attempts)) = 1
           /\ attempts[1].observation = seen
           /\ seen \in CrashObservation
           /\ 1 \in DOMAIN attempts
<1>1. /\ Len(attempts) = Confirmations /\ AllCompleted(attempts)
      /\ Cardinality(Saw(attempts)) = 1
      /\ attempts[1].observation = seen
  BY DEF ConfirmedObservation
<1>2. 1 \in DOMAIN attempts
  BY <1>1, EvidenceAssumption
<1>3. Saw(attempts) = {seen} /\ seen \in CrashObservation
  BY <1>1, <1>2, SawOneThing
<1> QED
  BY <1>1, <1>2, <1>3

\* A wave of judgeable worlds that saw one thing, and all completed, confirms it.
LEMMA WaveConfirms ==
    ASSUME NEW attempts, AWave(attempts)
    PROVE  /\ ConfirmedObservation(attempts) \in CrashObservation
           /\ ConfirmedObservation(attempts) = "NOT_OBSERVED" =>
                  ~(AllCompleted(attempts) /\ Cardinality(Saw(attempts)) = 1)
           /\ attempts \in Seq(Receipt)
<1>1. attempts \in Seq(Receipt) /\ 1 \in DOMAIN attempts
  BY EvidenceAssumption DEF AWave
<1>2. attempts[1] \in Receipt
  BY <1>1
<1>3. attempts[1].observation \in CrashObservation
  BY <1>2 DEF Receipt
<1>4. AllCompleted(attempts) => attempts[1].observation # "NOT_OBSERVED"
  BY <1>1 DEF AWave, AllCompleted, Judgeable
<1> QED
  BY <1>1, <1>4, <1>3 DEF AWave, ConfirmedObservation, CrashObservation

LEMMA NeverReachedIsNotCompleted ==
    ASSUME NEW attempts \in Seq(Receipt), Len(attempts) = Confirmations
    PROVE  NeverReached(attempts) => ~AllCompleted(attempts)
<1>1. 1 \in DOMAIN attempts
  BY EvidenceAssumption
<1> QED
  BY <1>1 DEF NeverReached, AllCompleted, Completed

\* What a sweep observes, and what of it was seen.
LEMMA SweepMeans ==
    ASSUME NEW census \in Receipt, NEW kills \in Seq(Receipt)
    PROVE  LET seen == SweepObservation(census, kills)
           IN  /\ seen \in CrashObservation
               /\ seen # "NOT_OBSERVED" => Completed(census)
               /\ seen = "EXACTLY_ONCE" =>
                      /\ AllCompleted(kills) /\ census.observation = "EXACTLY_ONCE"
                      /\ \A i \in DOMAIN kills : kills[i].observation = "EXACTLY_ONCE"
               /\ seen \in {"DUPLICATE_EFFECT", "INVARIANT_FAILED"} =>
                      \/ census.observation = seen
                      \/ /\ AllCompleted(kills)
                         /\ \E i \in DOMAIN kills : kills[i].observation = seen
               /\ seen # "NOT_OBSERVED" /\ ~AllCompleted(kills) =>
                      census.observation # "EXACTLY_ONCE"
               /\ Completed(census) /\ AllCompleted(kills) /\ kills # <<>>
                  /\ census.observation # "NOT_OBSERVED"
                  /\ (\A i \in DOMAIN kills : kills[i].observation # "NOT_OBSERVED")
                      => seen # "NOT_OBSERVED"
<1> DEFINE seen == SweepObservation(census, kills)
<1>1. seen \in CrashObservation /\ (seen # "NOT_OBSERVED" => Completed(census))
  BY DEF SweepObservation, CrashObservation, Receipt
<1>2. seen = "EXACTLY_ONCE" =>
          /\ AllCompleted(kills) /\ census.observation = "EXACTLY_ONCE"
          /\ Saw(kills) = {"EXACTLY_ONCE"}
  BY DEF SweepObservation
<1>3. seen = "EXACTLY_ONCE" => \A i \in DOMAIN kills : kills[i].observation = "EXACTLY_ONCE"
  BY <1>2, SawOneThing
<1>4. seen \in {"DUPLICATE_EFFECT", "INVARIANT_FAILED"} =>
          census.observation = seen \/ (AllCompleted(kills) /\ seen \in Saw(kills))
  BY DEF SweepObservation
<1>5. \A o \in Saw(kills) : \E i \in DOMAIN kills : kills[i].observation = o
  BY DEF Saw
<1>6. seen # "NOT_OBSERVED" /\ ~AllCompleted(kills) => census.observation # "EXACTLY_ONCE"
  BY DEF SweepObservation
<1>7. ASSUME Completed(census), AllCompleted(kills), kills # <<>>,
             census.observation # "NOT_OBSERVED",
             \A i \in DOMAIN kills : kills[i].observation # "NOT_OBSERVED"
      PROVE  seen # "NOT_OBSERVED"
  <2>1. Saw(kills) \subseteq CrashObservation \ {"NOT_OBSERVED"}
    <3>1. \A i \in DOMAIN kills : kills[i] \in Receipt
      OBVIOUS
    <3> QED
      BY <1>7, <3>1 DEF Saw, Receipt
  <2>2. Saw(kills) # {}
    <3>1. Len(kills) \in Nat \ {0}
      BY <1>7, EmptySeq
    <3>2. 1 \in DOMAIN kills
      BY <3>1
    <3> QED
      BY <3>2 DEF Saw
  <2>3. "DUPLICATE_EFFECT" \notin Saw(kills) /\ "INVARIANT_FAILED" \notin Saw(kills)
            => Saw(kills) = {"EXACTLY_ONCE"}
    BY <2>1, <2>2 DEF CrashObservation
  <2>4. census.observation \in {"DUPLICATE_EFFECT", "INVARIANT_FAILED", "EXACTLY_ONCE"}
    BY <1>7 DEF Receipt, CrashObservation
  <2> QED
    BY <1>7, <2>3, <2>4 DEF SweepObservation
<1> QED
  BY <1>1, <1>2, <1>3, <1>4, <1>5, <1>6, <1>7

\* What a conclusive verdict on a role rests on.
LEMMA VerdictMeans ==
    ASSUME NEW seen, NEW attempts, NEW swept \in BOOLEAN, NEW census
    PROVE  LET claim == ClaimedFixVerdict(seen, attempts, swept, census)
           IN  /\ claim \in CrashVerdict \ {"BUG_REPRODUCED"}
               /\ claim # "EVIDENCE_INCOMPLETE" =>
                      /\ seen = Claim(claim)
                      /\ swept => ~ScheduleSplit(attempts, census)
                      /\ seen = "EXACTLY_ONCE" => swept
               /\ claim = "FIX_PROVEN_FOR_THIS_CAPSULE" => swept /\ seen = "EXACTLY_ONCE"
               /\ claim \in PatchFailed => seen \in {"DUPLICATE_EFFECT", "INVARIANT_FAILED"}
BY DEF ClaimedFixVerdict, CrashVerdict, Claim, PatchFailed
----------------------------------------------------------------------------
(* What a step adds to the evidence.                                       *)

LEMMA EvidenceTypes ==
    ASSUME IsEvidence(evidence)
    PROVE  /\ Tried \subseteq Role /\ Swept \subseteq Role
           /\ \A who \in Tried : evidence.attempts[who] \in Seq(Receipt)
           /\ \A who \in Swept : /\ evidence.sweeps[who].census \in Receipt
                                 /\ evidence.sweeps[who].kills \in Seq(Receipt)
BY DEF IsEvidence, Sweep, Tried, Swept

LEMMA NoEvidenceType ==
    /\ IsEvidence(NoEvidence)
    /\ DOMAIN NoEvidence.attempts = {} /\ DOMAIN NoEvidence.sweeps = {}
BY DEF IsEvidence, NoEvidence, Role

\* All but a role's receipts stay.
Receiving(attempts) ==
    /\ IsEvidence(evidence')
    /\ Tried' = Tried \union {role} /\ evidence'.attempts[role] = attempts
    /\ \A who \in Tried \ {role} : evidence'.attempts[who] = evidence.attempts[who]
    /\ evidence'.sweeps = evidence.sweeps
    /\ evidence'.unresolved = evidence.unresolved

LEMMA ReceiveMeans ==
    ASSUME IsEvidence(evidence), role \in Role, NEW attempts \in Seq(Receipt), Receive(attempts)
    PROVE  /\ Receiving(attempts)
           /\ evidence'.hunt = evidence.hunt /\ evidence'.control = evidence.control
<1>1. /\ DOMAIN evidence' = DOMAIN evidence
      /\ evidence'.hunt = evidence.hunt /\ evidence'.control = evidence.control
      /\ evidence'.sweeps = evidence.sweeps /\ evidence'.unresolved = evidence.unresolved
      /\ evidence'.attempts = Extend(evidence.attempts, role, attempts)
  BY DEF Receive, IsEvidence
<1>2. /\ DOMAIN evidence'.attempts = DOMAIN evidence.attempts \union {role}
      /\ evidence'.attempts[role] = attempts
      /\ \A who \in DOMAIN evidence.attempts \ {role} :
            evidence'.attempts[who] = evidence.attempts[who]
  BY <1>1 DEF Extend
<1> QED
  BY <1>1, <1>2 DEF IsEvidence, Receiving, Tried

LEMMA SweepIsASweep ==
    ASSUME NEW census \in Within(NoFaultReplays),
           NEW kills \in [KillPoints(census) -> Within(SweepAttempts)],
           \A n \in KillPoints(census) : IsKilledAfter(kills[n], n)
    PROVE  /\ ASweep([census |-> census, kills |-> kills])
           /\ [census |-> census, kills |-> kills] \in Sweep
<1>1. Judgeable(census) /\ (Completed(census) => census.ops # <<>>)
  BY WorldsAreJudgeable, CensusHasACommit, WithinAreJudgeable
<1>2. \A n \in DOMAIN kills : Judgeable(kills[n])
  BY WorldsAreJudgeable, WithinAreJudgeable
<1>3. Len(census.ops) \in Nat
  BY <1>1 DEF Judgeable, Receipt
<1>4. \E n \in Nat : KillPoints(census) = 1..n
  <2>1. CASE Completed(census)
    BY <2>1, <1>3 DEF KillPoints
  <2>2. CASE ~Completed(census)
    <3>1. KillPoints(census) = 1..0
      BY <2>2 DEF KillPoints
    <3> QED
      BY <3>1
  <2> QED
    BY <2>1, <2>2
<1>5. kills \in [KillPoints(census) -> Receipt]
  BY <1>2 DEF Judgeable
<1>6. kills \in Seq(Receipt)
  BY <1>4, <1>5
<1> QED
  BY <1>1, <1>2, <1>6 DEF ASweep, Sweep, Judgeable

Sweeping ==
    /\ IsEvidence(evidence')
    /\ Swept' = Swept \union {role} /\ ASweep(evidence'.sweeps[role])
    /\ \A who \in Swept \ {role} : evidence'.sweeps[who] = evidence.sweeps[who]
    /\ evidence'.attempts = evidence.attempts /\ Tried' = Tried
    /\ evidence'.hunt = evidence.hunt /\ evidence'.control = evidence.control
    /\ evidence'.unresolved = evidence.unresolved

LEMMA SweepEveryCommitMeans ==
    ASSUME IsEvidence(evidence), role \in Role, SweepEveryCommit
    PROVE  Sweeping
<1>1. PICK census \in Within(NoFaultReplays) :
          \E kills \in [KillPoints(census) -> Within(SweepAttempts)] :
              /\ \A n \in KillPoints(census) : IsKilledAfter(kills[n], n)
              /\ evidence' = [evidence EXCEPT !.sweeps =
                                 Extend(@, role, [census |-> census, kills |-> kills])]
  BY DEF SweepEveryCommit
<1>2. PICK kills \in [KillPoints(census) -> Within(SweepAttempts)] :
          /\ \A n \in KillPoints(census) : IsKilledAfter(kills[n], n)
          /\ evidence' = [evidence EXCEPT !.sweeps =
                             Extend(@, role, [census |-> census, kills |-> kills])]
  BY <1>1
<1> DEFINE sweep == [census |-> census, kills |-> kills]
<1>3. ASweep(sweep) /\ sweep \in Sweep
  BY <1>2, SweepIsASweep
<1> HIDE DEF sweep
<1>4. /\ DOMAIN evidence' = DOMAIN evidence
      /\ evidence'.hunt = evidence.hunt /\ evidence'.control = evidence.control
      /\ evidence'.attempts = evidence.attempts /\ evidence'.unresolved = evidence.unresolved
      /\ evidence'.sweeps = Extend(evidence.sweeps, role, sweep)
  BY <1>2 DEF IsEvidence, sweep
<1>5. /\ DOMAIN evidence'.sweeps = DOMAIN evidence.sweeps \union {role}
      /\ evidence'.sweeps[role] = sweep
      /\ \A who \in DOMAIN evidence.sweeps \ {role} : evidence'.sweeps[who] = evidence.sweeps[who]
  BY <1>4 DEF Extend
<1> QED
  BY <1>3, <1>4, <1>5 DEF IsEvidence, Sweeping, Tried, Swept

LEMMA SweepingKeepsTheCensus ==
    ASSUME Sweeping, KillsFollowTheCensus PROVE KillsFollowTheCensus'
BY DEF Sweeping, KillsFollowTheCensus, Swept, ASweep
----------------------------------------------------------------------------
(* The validators, of what the orchestrator publishes.                     *)

\* A role that is confirmed is effectively what its worlds all showed, but for
\* a fix, whose sweep must agree.
LEMMA ConfirmedIsEffective ==
    ASSUME IsEvidence(evidence), NEW who \in Role, NEW seen,
           seen # "NOT_OBSERVED", Confirmed(who, seen)
    PROVE  /\ Len(evidence.attempts[who]) = Confirmations
           /\ AllCompleted(evidence.attempts[who])
           /\ who = "base" \/ seen # "EXACTLY_ONCE" => EffectiveObservation(evidence, who) = seen
           /\ who # "base" /\ seen = "EXACTLY_ONCE" /\ who \in Swept =>
                  EffectiveObservation(evidence, who) =
                      SweepObservation(evidence.sweeps[who].census, evidence.sweeps[who].kills)
<1>1. evidence.attempts[who] \in Seq(Receipt)
  BY EvidenceTypes DEF Confirmed
<1>2. /\ Len(evidence.attempts[who]) = Confirmations /\ AllCompleted(evidence.attempts[who])
      /\ Saw(evidence.attempts[who]) = {seen} /\ Cardinality(Saw(evidence.attempts[who])) = 1
      /\ evidence.attempts[who][1].observation = seen
  BY <1>1, ConfirmedMeans DEF Confirmed
<1>3. {seen} # {"EXACTLY_ONCE"} <=> seen # "EXACTLY_ONCE"
  OBVIOUS
<1> QED
  BY <1>2, <1>3 DEF EffectiveObservation, Swept

\* A role is swept when it was confirmed exactly once, and then alone.
SweptWhenConfirmed(who) == who \in Swept <=> Confirmed(who, "EXACTLY_ONCE")

\* What is observed of such a role, the validators observe of it too, unless a
\* census decides over kills that did not complete.
LEMMA ObservedIsEffective ==
    ASSUME IsEvidence(evidence), NEW who \in Tried \ {"base"}, SweptWhenConfirmed(who),
           ObservedOf(who) # "NOT_OBSERVED", ~CensusDecidesOverAnIncompleteSweep(who)
    PROVE  /\ Len(evidence.attempts[who]) = Confirmations
           /\ AllCompleted(evidence.attempts[who])
           /\ EffectiveObservation(evidence, who) = ObservedOf(who)
           /\ who \in Swept => /\ Completed(evidence.sweeps[who].census)
                               /\ AllCompleted(evidence.sweeps[who].kills)
<1>1. who \in Role /\ evidence.attempts[who] \in Seq(Receipt)
  BY EvidenceTypes
<1>2. CASE who \in Swept
  <2>1. Confirmed(who, "EXACTLY_ONCE")
    BY <1>2 DEF SweptWhenConfirmed
  <2> DEFINE sweep == evidence.sweeps[who]
  <2>2. sweep.census \in Receipt /\ sweep.kills \in Seq(Receipt)
    BY <1>2, EvidenceTypes
  <2>3. ObservedOf(who) = SweepObservation(sweep.census, sweep.kills)
    BY <1>2 DEF ObservedOf, ObservedIn, Swept
  <2>4. Completed(sweep.census)
    BY <2>2, <2>3, SweepMeans
  <2>5. AllCompleted(sweep.kills)
    BY <1>2, <2>2, <2>3, <2>4, SweepMeans DEF CensusDecidesOverAnIncompleteSweep, Swept
  <2> QED
    BY <1>1, <1>2, <2>1, <2>3, <2>4, <2>5, ConfirmedIsEffective
<1>3. CASE who \notin Swept
  <2>1. ObservedOf(who) = ConfirmedObservation(evidence.attempts[who])
    BY <1>3 DEF ObservedOf, ObservedIn, Swept
  <2>2. Confirmed(who, ObservedOf(who)) /\ ObservedOf(who) # "EXACTLY_ONCE"
    BY <1>3, <2>1 DEF Confirmed, SweptWhenConfirmed
  <2> QED
    BY <1>1, <1>3, <2>2, ConfirmedIsEffective
<1> QED
  BY <1>2, <1>3

LEMMA ClaimMeans ==
    /\ \A claim \in CrashVerdict : Claim(claim) # "NOT_OBSERVED"
    /\ "EVIDENCE_INCOMPLETE" \in CrashVerdict
BY DEF Claim, CrashVerdict

LEMMA VerdictOnMeans ==
    ASSUME NEW who
    PROVE  /\ VerdictOn(who) \in CrashVerdict \ {"BUG_REPRODUCED"}
           /\ VerdictOn(who) # "EVIDENCE_INCOMPLETE" =>
                  /\ ObservedOf(who) = Claim(VerdictOn(who))
                  /\ ObservedOf(who) # "NOT_OBSERVED"
                  /\ who \in Swept =>
                         ~ScheduleSplit(evidence.attempts[who], evidence.sweeps[who].census)
           /\ VerdictOn(who) = "FIX_PROVEN_FOR_THIS_CAPSULE" =>
                  who \in Swept /\ ObservedOf(who) = "EXACTLY_ONCE"
           /\ VerdictOn(who) \in PatchFailed => ObservedOf(who) \in {"DUPLICATE_EFFECT", "INVARIANT_FAILED"}
<1> DEFINE swept == who \in DOMAIN evidence.sweeps
           census == IF swept THEN evidence.sweeps[who].census ELSE SetupFailure
<1>1. swept \in BOOLEAN
  OBVIOUS
<1>2. VerdictOn(who) = ClaimedFixVerdict(ObservedOf(who), evidence.attempts[who], swept, census)
  BY DEF VerdictOn, VerdictIn, ObservedOf
<1>3. swept => census = evidence.sweeps[who].census
  OBVIOUS
<1> HIDE DEF swept, census
<1>4. who \in Swept <=> swept
  BY DEF Swept, swept
<1> QED
  BY <1>1, <1>2, <1>3, <1>4, VerdictMeans, ClaimMeans

\* A result that concludes nothing is well formed if its parts are.
LEMMA InconclusiveIsPublishable ==
    ASSUME NEW ev,
           ResolutionIsCoherent("EVIDENCE_INCOMPLETE", ev), LinksAreCoherent(ev), SweepsAreCoherent(ev)
    PROVE  Publishable("EVIDENCE_INCOMPLETE", ev)
BY DEF Publishable, Conclusive
----------------------------------------------------------------------------
(* The invariant is kept: what every command shares.                       *)

\* A step that goes on needs only what the next stage knows.
LEMMA GoingOn ==
    ASSUME CommandInv, Unfinished, Unfinished',
           UNCHANGED <<request, verdict, outcome>>,
           TypeOK', Knowledge', ReplayIsOfOneRole', KillsFollowTheCensus', MapTold'
    PROVE  CommandInv'
<1>1. verdict = "EVIDENCE_INCOMPLETE" /\ outcome = "none"
  BY DEF CommandInv, Knowledge, ValidatorsAgree, Unfinished
<1>2. ConclusionIsJudged'
  BY <1>1 DEF ConclusionIsJudged, Conclusive
<1>3. ValidatorsAgree'
  BY <1>1 DEF ValidatorsAgree, Unfinished
<1> QED
  BY <1>2, <1>3 DEF CommandInv

\* A step that gives up needs only that its evidence is well formed.
LEMMA GivingUp ==
    ASSUME CommandInv, Unfinished, stage' = "publish",
           UNCHANGED <<request, verdict, outcome>>, request.command # "map",
           TypeOK', ReplayIsOfOneRole', KillsFollowTheCensus', MapTold',
           Publishable("EVIDENCE_INCOMPLETE", evidence')
    PROVE  CommandInv'
<1>1. verdict = "EVIDENCE_INCOMPLETE" /\ outcome = "none"
  BY DEF CommandInv, Knowledge, ValidatorsAgree, Unfinished
<1>2. ConclusionIsJudged'
  BY <1>1 DEF ConclusionIsJudged, Conclusive
<1>3. ValidatorsAgree'
  BY <1>1 DEF ValidatorsAgree
<1>4. Knowledge'
  BY DEF Knowledge, Unfinished
<1> QED
  BY <1>2, <1>3, <1>4 DEF CommandInv

\* The types of a step that keeps the request and says nothing of an outcome.
LEMMA StepType ==
    ASSUME TypeOK, UNCHANGED <<request, outcome>>,
           stage' \in Stage, role' \in Role, boundary' \in FaultBoundary, verdict' \in CrashVerdict,
           IsEvidence(evidence')
    PROVE  TypeOK'
BY DEF TypeOK

LEMMA InitInv == Init => CommandInv
<1> SUFFICES ASSUME Init PROVE CommandInv
  OBVIOUS
<1>1. request \in CheckRequests \union ReplayRequests \union MapRequests
  BY RequestsAssumption DEF Init
<1>2. \/ request.command = "check" /\ stage = "bind" /\ role = "base"
      \/ request.command = "replay" /\ stage = "load" /\ role \in Role
      \/ request.command = "map" /\ stage = "bind" /\ role = "candidate"
  BY <1>1 DEF Init, CheckRequests, ReplayRequests, MapRequests
<1>3. boundary \in FaultBoundary
  BY <1>1 DEF Init, CheckRequests, ReplayRequests, MapRequests, FaultBoundary
<1>4. TypeOK
  BY <1>2, <1>3, NoEvidenceType DEF Init, TypeOK, Stage, Role, CrashVerdict
<1>5. /\ evidence.unresolved = "none" /\ evidence.attempts = <<>> /\ evidence.sweeps = <<>>
      /\ evidence.hunt = <<>> /\ evidence.control = <<>>
      /\ Tried = {} /\ Swept = {}
  BY DEF Init, NoEvidence, Tried, Swept
<1>6. /\ request.command = "check" => CheckKnows
      /\ request.command = "replay" => ReplayKnows
      /\ request.command = "map" =>
             stage \in {"bind", "sweep"} /\ role = "candidate" /\ evidence = NoEvidence
  BY <1>2, <1>5 DEF Init, CheckKnows, ReplayKnows
<1>7. Knowledge
  BY <1>6 DEF Knowledge, Init
<1>8. ReplayIsOfOneRole /\ KillsFollowTheCensus
  BY <1>5 DEF ReplayIsOfOneRole, KillsFollowTheCensus
<1>9. ConclusionIsJudged
  BY DEF Init, ConclusionIsJudged, Conclusive
<1>10. ValidatorsAgree
  BY <1>2 DEF Init, ValidatorsAgree
<1>11. MapTold
  BY <1>5 DEF MapTold, Swept
<1> QED
  BY <1>4, <1>7, <1>8, <1>9, <1>10, <1>11 DEF CommandInv

LEMMA PublishKeeps == CommandInv /\ Publish => CommandInv'
<1> SUFFICES ASSUME CommandInv, Publish PROVE CommandInv'
  OBVIOUS
<1>1. /\ stage = "publish" /\ stage' = "done"
      /\ request' = request /\ role' = role /\ boundary' = boundary
      /\ evidence' = evidence /\ verdict' = verdict
      /\ outcome' = IF Publishable(verdict, evidence) THEN "published" ELSE "refused"
  BY DEF Publish
<1>2. TypeOK'
  BY <1>1 DEF CommandInv, TypeOK, Stage
<1>3. Knowledge' /\ ReplayIsOfOneRole' /\ KillsFollowTheCensus'
  BY <1>1 DEF CommandInv, Knowledge, Unfinished, ReplayIsOfOneRole, KillsFollowTheCensus, Tried, Swept
<1>4. ConclusionIsJudged'
  BY <1>1 DEF CommandInv, ConclusionIsJudged, VerdictOn, ObservedOf, VerdictIn, ObservedIn, Tried
<1>5. ValidatorsAgree'
  BY <1>1 DEF CommandInv, ValidatorsAgree, Judged, CensusDecidesOverAnIncompleteSweep
<1>6. MapTold'
  BY <1>1 DEF CommandInv, ValidatorsAgree, MapTold
<1> QED
  BY <1>2, <1>3, <1>4, <1>5, <1>6 DEF CommandInv

LEMMA AbortKeeps == CommandInv /\ Abort => CommandInv'
<1> SUFFICES ASSUME CommandInv, Abort PROVE CommandInv'
  OBVIOUS
<1>1. /\ stage' = "done" /\ outcome' = "aborted"
      /\ evidence' = NoEvidence /\ verdict' = "EVIDENCE_INCOMPLETE"
      /\ request' = request /\ role' = role /\ boundary' = boundary
  BY DEF Abort
<1>2. /\ Tried' = {} /\ Swept' = {} /\ evidence'.hunt = <<>> /\ evidence'.control = <<>>
      /\ IsEvidence(evidence')
  BY <1>1, NoEvidenceType DEF Tried, Swept, NoEvidence
<1>3. TypeOK'
  BY <1>1, <1>2 DEF CommandInv, TypeOK, Stage, CrashVerdict
<1>4. Knowledge' /\ ReplayIsOfOneRole' /\ KillsFollowTheCensus'
  BY <1>1, <1>2 DEF Knowledge, Unfinished, ReplayIsOfOneRole, KillsFollowTheCensus
<1>5. ConclusionIsJudged' /\ ValidatorsAgree'
  BY <1>1 DEF ConclusionIsJudged, ValidatorsAgree, Conclusive
<1>6. MapTold'
  BY <1>2 DEF MapTold, Swept
<1> QED
  BY <1>3, <1>4, <1>5, <1>6 DEF CommandInv
----------------------------------------------------------------------------
(* The invariant is kept: check.                                           *)

\* A step of a check, and what is at hand in it.
Checking(here) ==
    /\ CommandInv /\ At("check", here) /\ here \in {"bind", "hunt", "minimize", "confirm", "sweep", "judge"}
    /\ UNCHANGED <<request, outcome>>

LEMMA CheckingMeans ==
    ASSUME NEW here, Checking(here)
    PROVE  /\ Unfinished /\ CheckKnows /\ stage = here
           /\ request.command = "check" /\ request'.command = "check"
           /\ role \in Role /\ IsEvidence(evidence) /\ boundary \in FaultBoundary
           /\ verdict = "EVIDENCE_INCOMPLETE" /\ outcome = "none"
           /\ KillsFollowTheCensus /\ TypeOK
           /\ ReplayIsOfOneRole' /\ MapTold'
<1>1. Unfinished /\ stage = here /\ request.command = "check" /\ request'.command = "check"
  BY DEF Checking, At, Unfinished
<1>2. /\ CheckKnows /\ verdict = "EVIDENCE_INCOMPLETE"
      /\ outcome = "none"
  BY <1>1 DEF Checking, CommandInv, Knowledge, ValidatorsAgree, Unfinished
<1>3. ReplayIsOfOneRole' /\ MapTold'
  BY <1>1 DEF ReplayIsOfOneRole, MapTold
<1> QED
  BY <1>1, <1>2, <1>3 DEF Checking, CommandInv, TypeOK

LEMMA CheckGoesOn ==
    ASSUME NEW here, Checking(here), verdict' = verdict,
           Unfinished', CheckKnows', TypeOK', KillsFollowTheCensus'
    PROVE  CommandInv'
<1>1. Knowledge'
  BY CheckingMeans DEF Knowledge
<1> QED
  BY <1>1, CheckingMeans, GoingOn DEF Checking

LEMMA CheckGivesUp ==
    ASSUME NEW here, Checking(here), GiveUp,
           TypeOK', KillsFollowTheCensus', Publishable("EVIDENCE_INCOMPLETE", evidence')
    PROVE  CommandInv'
<1>1. stage' = "publish" /\ verdict' = verdict
  BY DEF GiveUp, GoTo
<1> QED
  BY <1>1, CheckingMeans, GivingUp DEF Checking

\* A check knows these of its sweeps and of its hunt, wherever it is.
LEMMA CheckSweeps ==
    ASSUME CheckKnows, role \in Role
    PROVE  /\ Swept \subseteq Tried \ {"base"}
           /\ role # "base" => WitnessReady /\ "base" \in Tried
           /\ role = "base" => Tried = {} /\ Swept = {}
<1>1. role = "base" => Tried = {} /\ Swept = {}
  BY DEF CheckKnows, Tried, Swept
<1>2. role = "candidate" =>
          /\ WitnessReady /\ "base" \in Tried
          /\ Swept \subseteq Tried \ {"base"}
  BY DEF CheckKnows
<1>3. role = "corrected" =>
          /\ WitnessReady /\ "base" \in Tried
          /\ Swept \subseteq Tried \ {"base"}
  BY DEF CheckKnows, Role
<1> QED
  BY <1>1, <1>2, <1>3 DEF Role

\* What is given up is well formed: the witness stands for the hunt and for the
\* control, and each sweep is of a role that has worlds.
LEMMA GivenUpIsPublishable ==
    ASSUME NEW ev, DOMAIN ev.attempts # {}, ev.unresolved = "none",
           "base" \in DOMAIN ev.attempts,
           ev.control # <<>> => HuntIsConclusive(ev.hunt),
           DOMAIN ev.sweeps \subseteq DOMAIN ev.attempts \ {"base"},
           \A who \in DOMAIN ev.sweeps :
               DOMAIN ev.sweeps[who].kills = KillPoints(ev.sweeps[who].census)
    PROVE  Publishable("EVIDENCE_INCOMPLETE", ev)
<1>1. ResolutionIsCoherent("EVIDENCE_INCOMPLETE", ev)
  BY DEF ResolutionIsCoherent
<1>2. LinksAreCoherent(ev)
  BY DEF LinksAreCoherent, HuntIsConclusive
<1>3. SweepsAreCoherent(ev)
  BY DEF SweepsAreCoherent
<1> QED
  BY <1>1, <1>2, <1>3, InconclusiveIsPublishable

LEMMA BindKeeps == CommandInv /\ Bind => CommandInv'
<1> SUFFICES ASSUME CommandInv, Bind PROVE CommandInv'
  OBVIOUS
<1>1. /\ Checking("bind") /\ verdict' = verdict /\ role' = role /\ boundary' = boundary
      /\ evidence' = evidence
      /\ stage' = IF role = "base" THEN "hunt" ELSE "confirm"
  BY DEF Bind, GoTo, Checking, At
<1>2. TypeOK'
  BY <1>1, CheckingMeans, StepType DEF TypeOK, Stage, Checking
<1>3. Unfinished' /\ KillsFollowTheCensus'
  BY <1>1, CheckingMeans DEF Unfinished, KillsFollowTheCensus, Swept
<1>4. Tried' = Tried /\ Swept' = Swept /\ WitnessReady' = WitnessReady /\ CandidateReady' = CandidateReady
      /\ request' = request
  BY <1>1 DEF Tried, Swept, WitnessReady, CandidateReady, Confirmed, Checking
<1>5. CheckKnows'
  BY <1>1, <1>4, CheckingMeans DEF CheckKnows, Role
<1> QED
  BY <1>1, <1>2, <1>3, <1>5, CheckGoesOn
\* The roles before the one that is bound are confirmed.
LEMMA BoundAfterOthers ==
    ASSUME Checking("bind")
    PROVE  /\ role = "base" => evidence = NoEvidence
           /\ role # "base" =>
                  /\ Tried = (IF role = "candidate" THEN {"base"} ELSE {"base", "candidate"})
                  /\ Len(evidence.hunt) = 2 /\ Len(evidence.control) = 2
                  /\ HuntIsConclusive(evidence.hunt)
                  /\ \A who \in Tried : /\ Len(evidence.attempts[who]) = Confirmations
                                        /\ AllCompleted(evidence.attempts[who])
<1>1. /\ CheckKnows /\ stage = "bind" /\ role \in Role /\ IsEvidence(evidence)
  BY CheckingMeans
<1>2. role = "base" => evidence = NoEvidence
  BY <1>1 DEF CheckKnows
<1>3. role # "base" => Tried = (IF role = "candidate" THEN {"base"} ELSE {"base", "candidate"})
  BY <1>1 DEF CheckKnows, Role
<1>4. role # "base" => WitnessReady
  BY <1>1, CheckSweeps
<1>5. role = "corrected" => CandidateReady
  BY <1>1 DEF CheckKnows
<1>6. role # "base" =>
          /\ Len(evidence.hunt) = 2 /\ Len(evidence.control) = 2
          /\ HuntIsConclusive(evidence.hunt)
  BY <1>4 DEF WitnessReady, HuntIsConclusive, FaultIsNecessary
<1>7. ASSUME role # "base"
      PROVE  Len(evidence.attempts["base"]) = Confirmations /\ AllCompleted(evidence.attempts["base"])
  BY <1>1, <1>4, <1>7, ConfirmedIsEffective DEF WitnessReady, Role
<1>8. ASSUME role = "corrected"
      PROVE  /\ Len(evidence.attempts["candidate"]) = Confirmations
             /\ AllCompleted(evidence.attempts["candidate"])
  <2>1. \E seen : seen # "NOT_OBSERVED" /\ Confirmed("candidate", seen)
    BY <1>5, <1>8 DEF CandidateReady
  <2> QED
    BY <1>1, <2>1, ConfirmedIsEffective DEF Role
<1> QED
  BY <1>1, <1>2, <1>3, <1>6, <1>7, <1>8 DEF Role

LEMMA LeaveUnresolvedKeeps == CommandInv /\ LeaveUnresolved => CommandInv'
<1> SUFFICES ASSUME CommandInv, LeaveUnresolved PROVE CommandInv'
  OBVIOUS
<1>1. /\ Checking("bind") /\ GiveUp /\ boundary' = boundary
      /\ evidence' = [evidence EXCEPT !.unresolved = role, !.sweeps = <<>>]
      /\ stage' = "publish" /\ verdict' = verdict /\ role' = role
  BY DEF LeaveUnresolved, GiveUp, GoTo, Checking, At
<1>2. /\ DOMAIN evidence' = DOMAIN evidence
      /\ evidence'.unresolved = role /\ evidence'.sweeps = <<>>
      /\ evidence'.hunt = evidence.hunt /\ evidence'.control = evidence.control
      /\ evidence'.attempts = evidence.attempts
  BY <1>1, CheckingMeans DEF IsEvidence
<1>3. DOMAIN evidence'.sweeps = {}
  BY <1>2
<1>4. IsEvidence(evidence')
  BY <1>1, <1>2, <1>3, CheckingMeans DEF IsEvidence
<1>5. TypeOK' /\ KillsFollowTheCensus'
  BY <1>1, <1>3, <1>4, CheckingMeans, StepType DEF TypeOK, Stage, Checking, KillsFollowTheCensus, Swept
<1>6. SweepsAreCoherent(evidence')
  BY <1>3 DEF SweepsAreCoherent
<1>7. CASE role = "base"
  <2>1. /\ evidence'.hunt = <<>> /\ evidence'.control = <<>>
        /\ DOMAIN evidence'.attempts = {}
    BY <1>1, <1>2, <1>7, BoundAfterOthers DEF NoEvidence
  <2>2. ResolutionIsCoherent("EVIDENCE_INCOMPLETE", evidence')
    BY <1>2, <1>7, <2>1 DEF ResolutionIsCoherent
  <2>3. LinksAreCoherent(evidence')
    BY <2>1 DEF LinksAreCoherent
  <2> QED
    BY <1>1, <1>5, <1>6, <2>2, <2>3, InconclusiveIsPublishable, CheckGivesUp
<1>8. CASE role # "base"
  <2>1. /\ DOMAIN evidence'.attempts =
               (CASE role = "candidate" -> {"base"} [] role = "corrected" -> {"base", "candidate"}
                  [] OTHER -> {})
        /\ "base" \in DOMAIN evidence'.attempts
    BY <1>1, <1>2, <1>8, BoundAfterOthers, CheckingMeans DEF Tried, Role
  <2>2. ResolutionIsCoherent("EVIDENCE_INCOMPLETE", evidence')
    BY <1>1, <1>2, <1>8, <2>1, BoundAfterOthers DEF ResolutionIsCoherent, Tried
  <2>3. LinksAreCoherent(evidence')
    BY <1>1, <1>2, <1>8, <2>1, BoundAfterOthers DEF LinksAreCoherent, HuntIsConclusive
  <2> QED
    BY <1>1, <1>5, <1>6, <2>2, <2>3, InconclusiveIsPublishable, CheckGivesUp
<1> QED
  BY <1>7, <1>8

LEMMA BlockLiveKeeps == CommandInv /\ BlockLive => CommandInv'
<1> SUFFICES ASSUME CommandInv, BlockLive PROVE CommandInv'
  OBVIOUS
<1> DEFINE blocked == <<[SetupFailure EXCEPT !.status = "UNSUPPORTED"]>>
<1>1. /\ Checking("bind") /\ role = "base" /\ GiveUp /\ boundary' = boundary
      /\ Receive(blocked)
      /\ stage' = "publish" /\ verdict' = verdict /\ role' = role
  BY DEF BlockLive, GiveUp, GoTo, Checking, At
<1>2. blocked \in Seq(Receipt)
  BY SetupFailureType
<1> HIDE DEF blocked
<1>3. /\ Receiving(blocked)
      /\ evidence'.hunt = evidence.hunt /\ evidence'.control = evidence.control
  BY <1>1, <1>2, CheckingMeans, ReceiveMeans
<1>4. /\ evidence = NoEvidence /\ Swept = {} /\ Tried = {}
  BY <1>1, BoundAfterOthers, NoEvidenceType DEF Swept, Tried
<1>5. /\ Tried' = {"base"} /\ Swept' = {} /\ evidence'.unresolved = "none"
      /\ evidence'.control = <<>>
  BY <1>1, <1>3, <1>4 DEF Receiving, Swept, NoEvidence
<1>6. TypeOK' /\ KillsFollowTheCensus'
  BY <1>1, <1>3, <1>5, CheckingMeans, StepType
     DEF TypeOK, Stage, Checking, KillsFollowTheCensus, Receiving
<1>7. Publishable("EVIDENCE_INCOMPLETE", evidence')
  BY <1>5, GivenUpIsPublishable DEF Tried, Swept
<1> QED
  BY <1>1, <1>6, <1>7, CheckGivesUp

LEMMA BlockForkKeeps == CommandInv /\ BlockFork => CommandInv'
<1> SUFFICES ASSUME CommandInv, BlockFork PROVE CommandInv'
  OBVIOUS
<1>1. /\ Checking("bind") /\ role = "candidate" /\ GiveUp /\ boundary' = boundary
      /\ evidence' = [evidence EXCEPT !.attempts["base"] = Append(@, SetupFailure)]
      /\ stage' = "publish" /\ verdict' = verdict /\ role' = role
  BY DEF BlockFork, GiveUp, GoTo, Checking, At
<1>2. /\ CheckKnows /\ Tried = {"base"} /\ Swept = {} /\ IsEvidence(evidence)
      /\ HuntIsConclusive(evidence.hunt) /\ evidence.unresolved = "none"
  BY <1>1, CheckingMeans, BoundAfterOthers DEF CheckKnows
<1>3. /\ DOMAIN evidence' = DOMAIN evidence
      /\ evidence'.hunt = evidence.hunt /\ evidence'.control = evidence.control
      /\ evidence'.sweeps = evidence.sweeps /\ evidence'.unresolved = evidence.unresolved
      /\ evidence'.attempts =
            [evidence.attempts EXCEPT !["base"] = Append(evidence.attempts["base"], SetupFailure)]
  BY <1>1, <1>2 DEF IsEvidence
<1>4. Append(evidence.attempts["base"], SetupFailure) \in Seq(Receipt)
  BY <1>2, EvidenceTypes, SetupFailureType
<1>5. /\ DOMAIN evidence'.attempts = {"base"}
      /\ evidence'.attempts["base"] = Append(evidence.attempts["base"], SetupFailure)
  BY <1>2, <1>3 DEF Tried
<1>6. IsEvidence(evidence')
  BY <1>2, <1>3, <1>4, <1>5 DEF IsEvidence, Role
<1>7. Tried' = {"base"} /\ Swept' = {}
  BY <1>2, <1>3, <1>5 DEF Tried, Swept
<1>8. TypeOK' /\ KillsFollowTheCensus'
  BY <1>1, <1>6, <1>7, CheckingMeans, StepType DEF TypeOK, Stage, Checking, KillsFollowTheCensus
<1>9. Publishable("EVIDENCE_INCOMPLETE", evidence')
  BY <1>2, <1>3, <1>7, GivenUpIsPublishable DEF Tried, Swept
<1> QED
  BY <1>1, <1>8, <1>9, CheckGivesUp
\* A base that did not get so far is given up with one receipt.
LEMMA BaseIsGivenUp ==
    ASSUME NEW here, Checking(here), role = "base", GiveUp,
           IsEvidence(evidence'), evidence'.sweeps = evidence.sweeps,
           evidence'.unresolved = evidence.unresolved,
           evidence'.control # <<>> => HuntIsConclusive(evidence'.hunt),
           Tried' = {"base"}, boundary' \in FaultBoundary
    PROVE  CommandInv'
<1>1. stage' = "publish" /\ verdict' = verdict /\ role' = role
  BY DEF GiveUp, GoTo
<1>2. /\ CheckKnows /\ TypeOK
      /\ DOMAIN evidence.sweeps = {} /\ evidence.unresolved = "none"
  BY CheckingMeans, CheckSweeps DEF Swept, CheckKnows
<1>3. TypeOK' /\ KillsFollowTheCensus'
  BY <1>1, <1>2, StepType DEF TypeOK, Stage, Checking, KillsFollowTheCensus, Swept
<1>4. Publishable("EVIDENCE_INCOMPLETE", evidence')
  BY <1>2, GivenUpIsPublishable DEF Tried
<1> QED
  BY <1>3, <1>4, CheckGivesUp

LEMMA HuntKeeps == CommandInv /\ Hunt => CommandInv'
<1> SUFFICES ASSUME CommandInv, Hunt PROVE CommandInv'
  OBVIOUS
<1>1. PICK atEffect \in Bare(Attempts("effect-commit")), atMarker \in Bare(Attempts("marker-commit")) :
          LET hunt == <<atEffect, atMarker>>
          IN  /\ boundary' = SelectedBoundary(hunt)
              /\ IF HuntIsConclusive(hunt)
                 THEN evidence' = [evidence EXCEPT !.hunt = hunt] /\ GoTo("minimize")
                 ELSE /\ evidence' = [evidence EXCEPT !.hunt = hunt,
                                      !.attempts = Extend(@, role, <<SetupFailure>>)]
                      /\ GiveUp
  BY DEF Hunt
<1> DEFINE hunt == <<atEffect, atMarker>>
<1>2. hunt \in Seq(Receipt) /\ boundary' \in FaultBoundary
  <2>1. atEffect \in Receipt /\ atMarker \in Receipt
    BY WorldsAreJudgeable, BareAreJudgeable DEF FaultBoundary, Judgeable
  <2> QED
    BY <1>1, <2>1 DEF SelectedBoundary, FaultBoundary
<1> HIDE DEF hunt
<1>3. Checking("hunt") /\ stage = "hunt" /\ CheckKnows /\ role \in Role /\ IsEvidence(evidence)
  BY CheckingMeans DEF Hunt, Checking
<1>4. /\ role = "base" /\ evidence.attempts = <<>> /\ evidence.sweeps = <<>>
      /\ evidence.control = <<>> /\ Tried = {} /\ Swept = {}
      /\ evidence.unresolved = "none"
  <2>1. role = "base" /\ evidence = NoEvidence
    BY <1>3 DEF CheckKnows, Role
  <2>2. Tried = {} /\ Swept = {}
    BY <1>3, <2>1, CheckSweeps
  <2>3. /\ evidence.attempts = <<>> /\ evidence.sweeps = <<>>
        /\ evidence.control = <<>> /\ evidence.unresolved = "none"
    BY <2>1 DEF NoEvidence
  <2> QED
    BY <2>1, <2>2, <2>3
<1>5. CASE HuntIsConclusive(hunt)
  <2>1. evidence' = [evidence EXCEPT !.hunt = hunt] /\ GoTo("minimize")
    BY <1>1, <1>5 DEF hunt
  <2>2. /\ DOMAIN evidence' = DOMAIN evidence
        /\ evidence'.hunt = hunt /\ evidence'.control = <<>>
        /\ evidence'.sweeps = <<>> /\ evidence'.unresolved = "none"
        /\ evidence'.attempts = <<>>
    BY <1>3, <1>4, <2>1 DEF IsEvidence
  <2>3. stage' = "minimize" /\ role' = "base" /\ verdict' = verdict
    BY <1>4, <2>1 DEF GoTo
  <2>4. Swept' = {} /\ IsEvidence(evidence')
    <3>1. DOMAIN evidence'.sweeps = {} /\ DOMAIN evidence'.attempts = {}
      BY <2>2
    <3> QED
      BY <1>2, <1>3, <2>2, <3>1 DEF IsEvidence, Swept
  <2>5. Unfinished' /\ TypeOK' /\ KillsFollowTheCensus'
    <3>1. verdict' \in CrashVerdict /\ TypeOK /\ UNCHANGED <<request, outcome>>
      BY <1>3, <2>3, CheckingMeans DEF TypeOK, Checking
    <3> QED
      BY <1>2, <2>3, <2>4, <3>1, StepType DEF Unfinished, Stage, Role, KillsFollowTheCensus
  <2>6. CheckKnows'
    BY <1>5, <2>2, <2>3 DEF CheckKnows
  <2> QED
    BY <1>3, <2>3, <2>5, <2>6, CheckGoesOn
<1>6. CASE ~HuntIsConclusive(hunt)
  <2>1. /\ evidence' = [evidence EXCEPT !.hunt = hunt,
                                        !.attempts = Extend(@, role, <<SetupFailure>>)]
        /\ GiveUp
    BY <1>1, <1>6 DEF hunt
  <2>2. /\ DOMAIN evidence' = DOMAIN evidence
        /\ evidence'.hunt = hunt /\ evidence'.control = evidence.control
        /\ evidence'.sweeps = evidence.sweeps /\ evidence'.unresolved = evidence.unresolved
        /\ evidence'.attempts = Extend(evidence.attempts, role, <<SetupFailure>>)
    BY <1>3, <2>1 DEF IsEvidence
  <2>3. Tried' = {"base"} /\ evidence'.attempts["base"] = <<SetupFailure>>
    BY <1>4, <2>2 DEF Extend, Tried
  <2>4. <<SetupFailure>> \in Seq(Receipt)
    BY SetupFailureType
  <2>5. IsEvidence(evidence')
    BY <1>2, <1>3, <2>2, <2>3, <2>4 DEF IsEvidence, Tried, Role
  <2> QED
    BY <1>2, <1>3, <1>4, <2>1, <2>2, <2>3, <2>5, BaseIsGivenUp
<1> QED
  BY <1>5, <1>6

LEMMA MinimizeKeeps == CommandInv /\ Minimize => CommandInv'
<1> SUFFICES ASSUME CommandInv, Minimize PROVE CommandInv'
  OBVIOUS
<1>1. PICK control \in [1..2 -> Bare(NoFaultReplays)] :
          IF FaultIsNecessary(control)
          THEN evidence' = [evidence EXCEPT !.control = control] /\ GoTo("confirm")
          ELSE /\ evidence' = [evidence EXCEPT !.control = control,
                               !.attempts = Extend(@, role, <<SetupFailure>>)]
               /\ GiveUp
  BY DEF Minimize
<1>2. control \in Seq(Receipt)
  <2>1. \A r \in Bare(NoFaultReplays) : r \in Receipt
    BY WorldsAreJudgeable, BareAreJudgeable DEF Judgeable
  <2>2. control \in [1..2 -> Receipt]
    BY <2>1
  <2> QED
    BY <2>2, FunctionsAreSequences
<1>3. /\ Checking("minimize") /\ stage = "minimize" /\ CheckKnows /\ role \in Role /\ IsEvidence(evidence)
      /\ boundary' = boundary
  BY CheckingMeans DEF Minimize, Checking
<1>4. /\ role = "base" /\ evidence.attempts = <<>> /\ evidence.sweeps = <<>>
      /\ HuntIsConclusive(evidence.hunt) /\ Tried = {} /\ Swept = {}
      /\ evidence.unresolved = "none" /\ boundary \in FaultBoundary
  <2>1. role = "base"
    BY <1>3 DEF CheckKnows, Role
  <2>2. Tried = {} /\ Swept = {}
    BY <1>3, <2>1, CheckSweeps
  <2>3. stage = "minimize" /\ boundary \in FaultBoundary
    BY <1>3, CheckingMeans
  <2>4. /\ evidence.attempts = <<>> /\ evidence.sweeps = <<>>
        /\ HuntIsConclusive(evidence.hunt) /\ evidence.unresolved = "none"
    BY <1>3, <2>1, <2>3 DEF CheckKnows
  <2> QED
    BY <2>1, <2>2, <2>3, <2>4
<1>5. CASE FaultIsNecessary(control)
  <2>1. evidence' = [evidence EXCEPT !.control = control] /\ GoTo("confirm")
    BY <1>1, <1>5
  <2>2. /\ DOMAIN evidence' = DOMAIN evidence
        /\ evidence'.hunt = evidence.hunt /\ evidence'.control = control
        /\ evidence'.sweeps = <<>> /\ evidence'.unresolved = "none"
        /\ evidence'.attempts = <<>>
    BY <1>3, <1>4, <2>1 DEF IsEvidence
  <2>3. stage' = "confirm" /\ role' = "base" /\ verdict' = verdict
    BY <1>4, <2>1 DEF GoTo
  <2>4. Swept' = {} /\ IsEvidence(evidence')
    BY <1>2, <1>3, <2>2 DEF IsEvidence, Swept
  <2>5. Unfinished' /\ TypeOK' /\ KillsFollowTheCensus'
    BY <1>3, <1>4, <2>3, <2>4, CheckingMeans, StepType
       DEF Unfinished, TypeOK, Stage, Role, Checking, KillsFollowTheCensus
  <2>6. CheckKnows'
    BY <1>4, <1>5, <2>2, <2>3 DEF CheckKnows
  <2> QED
    BY <1>3, <2>3, <2>5, <2>6, CheckGoesOn
<1>6. CASE ~FaultIsNecessary(control)
  <2>1. /\ evidence' = [evidence EXCEPT !.control = control,
                                        !.attempts = Extend(@, role, <<SetupFailure>>)]
        /\ GiveUp
    BY <1>1, <1>6
  <2>2. /\ DOMAIN evidence' = DOMAIN evidence
        /\ evidence'.hunt = evidence.hunt /\ evidence'.control = control
        /\ evidence'.sweeps = evidence.sweeps /\ evidence'.unresolved = evidence.unresolved
        /\ evidence'.attempts = Extend(evidence.attempts, role, <<SetupFailure>>)
    BY <1>3, <2>1 DEF IsEvidence
  <2>3. Tried' = {"base"} /\ evidence'.attempts["base"] = <<SetupFailure>>
    BY <1>4, <2>2 DEF Extend, Tried
  <2>4. <<SetupFailure>> \in Seq(Receipt)
    BY SetupFailureType
  <2>5. IsEvidence(evidence')
    BY <1>2, <1>3, <2>2, <2>3, <2>4 DEF IsEvidence, Tried, Role
  <2> QED
    BY <1>3, <1>4, <2>1, <2>2, <2>3, <2>5, BaseIsGivenUp
<1> QED
  BY <1>5, <1>6

LEMMA ConfirmBaseKeeps == CommandInv /\ ConfirmBase => CommandInv'
<1> SUFFICES ASSUME CommandInv, ConfirmBase PROVE CommandInv'
  OBVIOUS
<1>1. PICK attempts \in BareWaves :
          /\ Receive(attempts)
          /\ IF ConfirmedObservation(attempts) = "DUPLICATE_EFFECT"
             THEN Turn("candidate") ELSE GiveUp
  BY DEF ConfirmBase
<1>2. /\ Checking("confirm") /\ role = "base" /\ boundary' = boundary
      /\ boundary \in FaultBoundary /\ CheckKnows /\ IsEvidence(evidence)
  BY CheckingMeans DEF ConfirmBase, Checking
<1>3. attempts \in Seq(Receipt)
  BY <1>2, WavesAreWaves DEF AWave
<1>4. /\ Receiving(attempts) /\ IsEvidence(evidence')
      /\ evidence'.hunt = evidence.hunt /\ evidence'.control = evidence.control
  BY <1>1, <1>2, <1>3, ReceiveMeans DEF Receiving, Role
<1>5. /\ Tried = {} /\ Swept = {} /\ evidence.unresolved = "none"
      /\ HuntIsConclusive(evidence.hunt) /\ FaultIsNecessary(evidence.control)
  BY <1>2, CheckingMeans, CheckSweeps DEF CheckKnows
<1>6. Tried' = {"base"} /\ Swept' = {} /\ evidence'.attempts["base"] = attempts
  BY <1>2, <1>4, <1>5 DEF Receiving, Swept
<1>7. CASE ConfirmedObservation(attempts) = "DUPLICATE_EFFECT"
  <2>1. stage' = "bind" /\ role' = "candidate" /\ verdict' = verdict
    BY <1>1, <1>7 DEF Turn
  <2>2. Unfinished' /\ TypeOK' /\ KillsFollowTheCensus'
    BY <1>2, <1>4, <1>6, <2>1, CheckingMeans, StepType
       DEF Unfinished, TypeOK, Stage, Role, Checking, KillsFollowTheCensus
  <2>3. WitnessReady'
    BY <1>4, <1>5, <1>6, <1>7 DEF WitnessReady, Confirmed
  <2>4. CheckKnows'
    BY <1>4, <1>5, <1>6, <2>1, <2>3 DEF CheckKnows, Receiving
  <2> QED
    BY <1>2, <2>1, <2>2, <2>4, CheckGoesOn
<1>8. CASE ConfirmedObservation(attempts) # "DUPLICATE_EFFECT"
  BY <1>1, <1>2, <1>4, <1>5, <1>6, <1>8, BaseIsGivenUp DEF Receiving
<1> QED
  BY <1>7, <1>8
\* With its candidate ready, a check turns to the corrected control, or judges.
LEMMA AfterCandidateKeeps ==
    ASSUME NEW here, Checking(here), role = "candidate", AfterCandidate, boundary' = boundary,
           IsEvidence(evidence'), KillsFollowTheCensus', WitnessReady', CandidateReady',
           Tried' = {"base", "candidate"}, Swept' \subseteq {"candidate"},
           evidence'.unresolved = "none"
    PROVE  CommandInv'
<1>1. /\ verdict' = verdict /\ request' = request
      /\ IF request.corrected THEN stage' = "bind" /\ role' = "corrected"
                              ELSE stage' = "judge" /\ role' = "candidate"
  BY DEF AfterCandidate, Turn, GoTo, Checking
<1>2. Unfinished' /\ TypeOK'
  <2>1. /\ verdict' \in CrashVerdict /\ TypeOK /\ UNCHANGED <<request, outcome>>
        /\ boundary' \in FaultBoundary
    BY <1>1, CheckingMeans DEF TypeOK, Checking
  <2> QED
    BY <1>1, <2>1, StepType DEF Unfinished, Stage, Role
<1>3. CheckKnows'
  BY <1>1 DEF CheckKnows
<1> QED
  BY <1>1, <1>2, <1>3, CheckGoesOn

\* A check that gives a candidate up has its witness to publish.
LEMMA CandidateIsGivenUp ==
    ASSUME NEW here, Checking(here), role = "candidate", GiveUp, boundary' = boundary,
           IsEvidence(evidence'), KillsFollowTheCensus', WitnessReady',
           Tried' = {"base", "candidate"}, Swept' \subseteq {"candidate"},
           evidence'.unresolved = "none"
    PROVE  CommandInv'
<1>1. stage' = "publish" /\ verdict' = verdict /\ role' = role
  BY DEF GiveUp, GoTo
<1>2. TypeOK'
  <2>1. /\ verdict' \in CrashVerdict /\ TypeOK /\ UNCHANGED <<request, outcome>>
        /\ boundary' \in FaultBoundary
    BY <1>1, CheckingMeans DEF TypeOK, Checking
  <2> QED
    BY <1>1, <2>1, StepType DEF Stage, Role
<1>3. HuntIsConclusive(evidence'.hunt)
  BY DEF WitnessReady
<1>4. Publishable("EVIDENCE_INCOMPLETE", evidence')
  BY <1>3, GivenUpIsPublishable DEF Tried, Swept, KillsFollowTheCensus
<1> QED
  BY <1>2, <1>4, CheckGivesUp

\* The witness and the candidate stay while another role is confirmed or swept.
LEMMA WitnessStays ==
    ASSUME WitnessReady, evidence'.hunt = evidence.hunt, evidence'.control = evidence.control,
           "base" \in Tried', evidence'.attempts["base"] = evidence.attempts["base"]
    PROVE  WitnessReady'
BY DEF WitnessReady, Confirmed

LEMMA CandidateStays ==
    ASSUME CandidateReady, "candidate" \in Tried',
           evidence'.attempts["candidate"] = evidence.attempts["candidate"],
           Swept' \ {"corrected"} = Swept \ {"corrected"}
    PROVE  CandidateReady'
<1>1. \A seen : Confirmed("candidate", seen) => Confirmed("candidate", seen)'
  BY DEF Confirmed
<1> QED
  BY <1>1 DEF CandidateReady

LEMMA ConfirmCandidateKeeps == CommandInv /\ ConfirmCandidate => CommandInv'
<1> SUFFICES ASSUME CommandInv, ConfirmCandidate PROVE CommandInv'
  OBVIOUS
<1>1. PICK attempts \in Waves :
          /\ Receive(attempts)
          /\ CASE ConfirmedObservation(attempts) = "EXACTLY_ONCE" -> GoTo("sweep")
               [] ConfirmedObservation(attempts) = "NOT_OBSERVED" ->
                      IF NeverReached(attempts) THEN GoTo("sweep") ELSE GiveUp
               [] OTHER -> AfterCandidate
  BY DEF ConfirmCandidate
<1>2. /\ Checking("confirm") /\ stage = "confirm" /\ role = "candidate" /\ boundary' = boundary
      /\ boundary \in FaultBoundary /\ CheckKnows /\ IsEvidence(evidence) /\ TypeOK
      /\ KillsFollowTheCensus
  BY CheckingMeans DEF ConfirmCandidate, Checking
<1>3. AWave(attempts)
  BY <1>2, WavesAreWaves
<1>4. /\ Receiving(attempts) /\ IsEvidence(evidence')
      /\ evidence'.hunt = evidence.hunt /\ evidence'.control = evidence.control
  BY <1>1, <1>2, <1>3, ReceiveMeans DEF Receiving, Role, AWave
<1>5. /\ Tried = {"base"} /\ Swept = {} /\ evidence.unresolved = "none"
      /\ WitnessReady
  BY <1>2 DEF CheckKnows
<1>6. /\ Tried' = {"base", "candidate"} /\ Swept' = {}
      /\ evidence'.attempts["candidate"] = attempts
      /\ evidence'.attempts["base"] = evidence.attempts["base"]
      /\ evidence'.unresolved = "none"
  BY <1>2, <1>4, <1>5 DEF Receiving, Swept
<1>7. WitnessReady' /\ KillsFollowTheCensus'
  BY <1>4, <1>5, <1>6, WitnessStays DEF KillsFollowTheCensus
<1>8. CASE /\ GoTo("sweep")
           /\ ConfirmedObservation(attempts) = "EXACTLY_ONCE" \/ NeverReached(attempts)
  <2>1. stage' = "sweep" /\ role' = "candidate" /\ verdict' = verdict
    BY <1>2, <1>8 DEF GoTo
  <2>2. Unfinished' /\ TypeOK'
    <3>1. /\ verdict' \in CrashVerdict /\ TypeOK /\ UNCHANGED <<request, outcome>>
          /\ boundary' \in FaultBoundary
      BY <1>2, <2>1 DEF TypeOK, Checking
    <3> QED
      BY <1>4, <2>1, <3>1, StepType DEF Unfinished, Stage, Role
  <2>3. CheckKnows'
    BY <1>6, <1>7, <1>8, <2>1 DEF CheckKnows, Confirmed
  <2> QED
    BY <1>2, <1>7, <2>1, <2>2, <2>3, CheckGoesOn
<1>9. CASE GiveUp
  BY <1>2, <1>4, <1>6, <1>7, <1>9, CandidateIsGivenUp
<1>10. CASE ConfirmedObservation(attempts) \notin {"EXACTLY_ONCE", "NOT_OBSERVED"}
  <2>1. AfterCandidate
    BY <1>1, <1>10
  <2>2. ConfirmedObservation(attempts) \in {"DUPLICATE_EFFECT", "INVARIANT_FAILED"}
    BY <1>3, <1>10, WaveConfirms DEF CrashObservation
  <2>3. CandidateReady'
    BY <1>6, <2>2 DEF CandidateReady, Confirmed
  <2> QED
    BY <1>2, <1>4, <1>6, <1>7, <2>1, <2>3, AfterCandidateKeeps
<1> QED
  BY <1>1, <1>8, <1>9, <1>10

LEMMA ConfirmCorrectedKeeps == CommandInv /\ ConfirmCorrected => CommandInv'
<1> SUFFICES ASSUME CommandInv, ConfirmCorrected PROVE CommandInv'
  OBVIOUS
<1>1. PICK attempts \in Waves :
          /\ Receive(attempts)
          /\ GoTo(IF ConfirmedObservation(attempts) = "EXACTLY_ONCE" THEN "sweep" ELSE "judge")
  BY DEF ConfirmCorrected
<1>2. /\ Checking("confirm") /\ stage = "confirm" /\ role = "corrected" /\ boundary' = boundary
      /\ boundary \in FaultBoundary /\ CheckKnows /\ IsEvidence(evidence) /\ TypeOK
      /\ KillsFollowTheCensus /\ request' = request
  BY CheckingMeans DEF ConfirmCorrected, Checking
<1>3. attempts \in Seq(Receipt)
  BY <1>2, WavesAreWaves DEF AWave
<1>4. /\ Receiving(attempts) /\ IsEvidence(evidence')
      /\ evidence'.hunt = evidence.hunt /\ evidence'.control = evidence.control
  BY <1>1, <1>2, <1>3, ReceiveMeans DEF Receiving, Role
<1>5. /\ Tried = {"base", "candidate"} /\ Swept \subseteq {"candidate"}
      /\ evidence.unresolved = "none" /\ request.corrected
      /\ WitnessReady /\ CandidateReady
  BY <1>2 DEF CheckKnows
<1>6. /\ Tried' = Role /\ Swept' = Swept
      /\ evidence'.sweeps = evidence.sweeps
      /\ evidence'.attempts["corrected"] = attempts
      /\ evidence'.attempts["base"] = evidence.attempts["base"]
      /\ evidence'.attempts["candidate"] = evidence.attempts["candidate"]
      /\ evidence'.unresolved = "none"
  BY <1>2, <1>4, <1>5 DEF Receiving, Swept, Role
<1>7. WitnessReady' /\ KillsFollowTheCensus'
  BY <1>2, <1>4, <1>5, <1>6, WitnessStays DEF KillsFollowTheCensus, Role
<1>8. CandidateReady'
  BY <1>5, <1>6, CandidateStays DEF Role
<1>9. /\ stage' = IF ConfirmedObservation(attempts) = "EXACTLY_ONCE" THEN "sweep" ELSE "judge"
      /\ role' = "corrected" /\ verdict' = verdict
  BY <1>1, <1>2 DEF GoTo
<1>10. Unfinished' /\ TypeOK'
  <2>1. /\ verdict' \in CrashVerdict /\ TypeOK /\ UNCHANGED <<request, outcome>>
        /\ boundary' \in FaultBoundary
    BY <1>2, <1>9 DEF TypeOK, Checking
  <2> QED
    BY <1>4, <1>9, <2>1, StepType DEF Unfinished, Stage, Role
<1>11. Confirmed("corrected", "EXACTLY_ONCE")' <=> ConfirmedObservation(attempts) = "EXACTLY_ONCE"
  BY <1>6 DEF Confirmed, Role
<1>12. CheckKnows'
  BY <1>2, <1>5, <1>6, <1>7, <1>8, <1>9, <1>11 DEF CheckKnows
<1> QED
  BY <1>2, <1>7, <1>9, <1>10, <1>12, CheckGoesOn
LEMMA RunSweepKeeps == CommandInv /\ RunSweep => CommandInv'
<1> SUFFICES ASSUME CommandInv, RunSweep PROVE CommandInv'
  OBVIOUS
<1>1. /\ Checking("sweep") /\ stage = "sweep" /\ SweepEveryCommit /\ boundary' = boundary
      /\ boundary \in FaultBoundary /\ CheckKnows /\ IsEvidence(evidence) /\ TypeOK
      /\ KillsFollowTheCensus /\ request' = request /\ role \in {"candidate", "corrected"}
      /\ evidence.unresolved = "none" /\ WitnessReady
  <2>1. Checking("sweep") /\ SweepEveryCommit /\ boundary' = boundary /\ request' = request
    BY DEF RunSweep, Checking
  <2>2. /\ stage = "sweep" /\ CheckKnows /\ role \in Role /\ IsEvidence(evidence)
        /\ boundary \in FaultBoundary /\ KillsFollowTheCensus /\ TypeOK
    BY <2>1, CheckingMeans
  <2>3. role # "base"
    BY <2>2 DEF CheckKnows
  <2> QED
    BY <2>1, <2>2, <2>3, CheckSweeps DEF CheckKnows, Role
<1>2. Sweeping
  BY <1>1, SweepEveryCommitMeans DEF Role
<1>3. /\ IsEvidence(evidence') /\ Tried' = Tried /\ Swept' = Swept \union {role}
      /\ evidence'.attempts = evidence.attempts /\ evidence'.unresolved = "none"
      /\ KillsFollowTheCensus'
  BY <1>1, <1>2, SweepingKeepsTheCensus DEF Sweeping
<1>4. WitnessReady'
  BY <1>1, <1>2, WitnessStays DEF Sweeping, WitnessReady, Confirmed
<1>5. CASE role = "corrected"
  <2>1. /\ CandidateReady /\ Tried = Role /\ Swept \subseteq {"candidate"}
        /\ Confirmed("corrected", "EXACTLY_ONCE") /\ request.corrected
    BY <1>1, <1>5 DEF CheckKnows
  <2>2. stage' = "judge" /\ role' = "corrected" /\ verdict' = verdict
    BY <1>5 DEF RunSweep, GoTo
  <2>3. CandidateReady'
    BY <1>3, <1>5, <2>1, CandidateStays DEF Role
  <2>4. Confirmed("corrected", "EXACTLY_ONCE")'
    BY <1>3, <2>1 DEF Confirmed
  <2>5. Unfinished' /\ TypeOK'
    <3>1. /\ verdict' \in CrashVerdict /\ TypeOK /\ UNCHANGED <<request, outcome>>
          /\ boundary' \in FaultBoundary
      BY <1>1, <2>2 DEF TypeOK, Checking
    <3> QED
      BY <1>3, <2>2, <3>1, StepType DEF Unfinished, Stage, Role
  <2>6. CheckKnows'
    BY <1>1, <1>3, <1>4, <1>5, <2>1, <2>2, <2>3, <2>4 DEF CheckKnows
  <2> QED
    BY <1>1, <1>3, <2>2, <2>5, <2>6, CheckGoesOn
<1>6. CASE role = "candidate"
  <2>1. /\ Tried = {"base", "candidate"} /\ Swept = {}
        /\ Confirmed("candidate", "EXACTLY_ONCE") \/ NeverReached(evidence.attempts["candidate"])
    BY <1>1, <1>6 DEF CheckKnows
  <2>2. CASE NeverReached(evidence.attempts["candidate"])
    <3>1. GiveUp
      BY <1>6, <2>2 DEF RunSweep
    <3> QED
      BY <1>1, <1>3, <1>4, <1>6, <2>1, <3>1, CandidateIsGivenUp
  <2>3. CASE ~NeverReached(evidence.attempts["candidate"])
    <3>1. AfterCandidate
      BY <1>6, <2>3 DEF RunSweep
    <3>2. CandidateReady'
      BY <1>3, <1>6, <2>1, <2>3 DEF CandidateReady, Confirmed
    <3> QED
      BY <1>1, <1>3, <1>4, <1>6, <2>1, <3>1, <3>2, AfterCandidateKeeps
  <2> QED
    BY <2>2, <2>3
<1> QED
  BY <1>1, <1>5, <1>6

\* A conclusive verdict of a check is one its validators pass, or a census
\* decides over kills that did not complete.
LEMMA JudgementIsPublishable ==
    ASSUME CheckKnows, role \in {"candidate", "corrected"}, stage = "judge",
           IsEvidence(evidence), KillsFollowTheCensus,
           VerdictOn("candidate") # "EVIDENCE_INCOMPLETE",
           role = "corrected" => ObservedOf("corrected") = "EXACTLY_ONCE",
           ~CensusDecidesOverAnIncompleteSweep("candidate")
    PROVE  Publishable(VerdictOn("candidate"), evidence)
<1> DEFINE claim == VerdictOn("candidate")
<1>1. /\ claim \in Conclusive \ {"BUG_REPRODUCED"} /\ ObservedOf("candidate") = Claim(claim)
      /\ ObservedOf("candidate") # "NOT_OBSERVED"
  BY VerdictOnMeans DEF Conclusive
<1> HIDE DEF claim
<1>2. /\ WitnessReady /\ CandidateReady /\ evidence.unresolved = "none"
      /\ Tried = (IF role = "candidate" THEN {"base", "candidate"} ELSE Role)
      /\ role = "candidate" => Swept \subseteq {"candidate"}
      /\ role = "corrected" => Swept \subseteq {"candidate", "corrected"}
      /\ role = "corrected" => ("corrected" \in Swept <=> Confirmed("corrected", "EXACTLY_ONCE"))
  BY DEF CheckKnows
<1>3. /\ Len(evidence.attempts["base"]) = Confirmations /\ AllCompleted(evidence.attempts["base"])
      /\ EffectiveObservation(evidence, "base") = "DUPLICATE_EFFECT"
  BY <1>2, ConfirmedIsEffective DEF WitnessReady, Role
<1>4. SweptWhenConfirmed("candidate")
  BY <1>2 DEF CandidateReady, SweptWhenConfirmed, Confirmed
<1>5. /\ Len(evidence.attempts["candidate"]) = Confirmations
      /\ AllCompleted(evidence.attempts["candidate"])
      /\ EffectiveObservation(evidence, "candidate") = Claim(claim)
      /\ "candidate" \in Swept => /\ Completed(evidence.sweeps["candidate"].census)
                                  /\ AllCompleted(evidence.sweeps["candidate"].kills)
  BY <1>1, <1>2, <1>4, ObservedIsEffective DEF Role
<1>6. ASSUME role = "corrected"
      PROVE  /\ Len(evidence.attempts["corrected"]) = Confirmations
             /\ AllCompleted(evidence.attempts["corrected"])
             /\ EffectiveObservation(evidence, "corrected") = "EXACTLY_ONCE"
             /\ "corrected" \in Swept => /\ Completed(evidence.sweeps["corrected"].census)
                                         /\ AllCompleted(evidence.sweeps["corrected"].kills)
  <2>1. SweptWhenConfirmed("corrected")
    BY <1>2, <1>6 DEF SweptWhenConfirmed
  <2>2. ~CensusDecidesOverAnIncompleteSweep("corrected")
    <3>1. ASSUME CensusDecidesOverAnIncompleteSweep("corrected") PROVE FALSE
      <4>1. /\ "corrected" \in Swept
            /\ evidence.sweeps["corrected"].census.observation # "EXACTLY_ONCE"
        BY <3>1 DEF CensusDecidesOverAnIncompleteSweep, Swept
      <4>2. ObservedOf("corrected") = SweepObservation(evidence.sweeps["corrected"].census,
                                                       evidence.sweeps["corrected"].kills)
        BY <4>1 DEF ObservedOf, ObservedIn, Swept
      <4> QED
        BY <1>6, <4>1, <4>2, EvidenceTypes, SweepMeans
    <3> QED
      BY <3>1
  <2> QED
    BY <1>2, <1>6, <2>1, <2>2, ObservedIsEffective DEF Role
<1>7. WorldsCompleted(evidence)
  BY <1>2, <1>3, <1>5, <1>6 DEF WorldsCompleted, Tried, Swept, Role
<1>8. ObservationsSupport(claim, evidence)
  BY <1>1, <1>2, <1>3, <1>5, <1>6 DEF ObservationsSupport, Tried, Role
<1>9. VerdictIsCoherent(claim, evidence)
  BY <1>2, <1>7, <1>8 DEF VerdictIsCoherent, WitnessReady, HuntIsConclusive
<1>10. /\ ResolutionIsCoherent(claim, evidence) /\ LinksAreCoherent(evidence)
       /\ SweepsAreCoherent(evidence)
  <2>1. "base" \in Tried /\ Tried # {} /\ Swept \subseteq Tried \ {"base"}
    BY <1>2 DEF Role
  <2> QED
    BY <1>2, <2>1 DEF ResolutionIsCoherent, LinksAreCoherent, SweepsAreCoherent, Tried, Swept,
                      KillsFollowTheCensus, WitnessReady, HuntIsConclusive
<1> QED
  BY <1>9, <1>10 DEF Publishable, claim
\* A step that concludes is kept if the validators pass it, or a census decides.
LEMMA Concluding ==
    ASSUME CommandInv, Unfinished, UNCHANGED <<request, role, boundary, outcome>>,
           request.command # "map", NEW claim \in CrashVerdict, Conclude(claim),
           IsEvidence(evidence'), ReplayIsOfOneRole', KillsFollowTheCensus', MapTold',
           ConclusionIsJudged',
           Publishable(claim, evidence') \/ CensusDecidesOverAnIncompleteSweep(Judged)'
    PROVE  CommandInv'
<1>1. stage' = "publish" /\ verdict' = claim
  BY DEF Conclude
<1>2. TypeOK'
  BY <1>1 DEF CommandInv, TypeOK, Stage
<1>3. outcome = "none"
  BY DEF CommandInv, ValidatorsAgree, Unfinished
<1>4. ValidatorsAgree'
  BY <1>1, <1>3 DEF ValidatorsAgree
<1>5. Knowledge'
  BY <1>1 DEF Knowledge, Unfinished
<1> QED
  BY <1>2, <1>4, <1>5 DEF CommandInv

LEMMA JudgeKeeps == CommandInv /\ Judge => CommandInv'
<1> SUFFICES ASSUME CommandInv, Judge PROVE CommandInv'
  OBVIOUS
<1> DEFINE claim == IF request.corrected /\ ObservedOf("corrected") # "EXACTLY_ONCE"
                    THEN "EVIDENCE_INCOMPLETE" ELSE VerdictOn("candidate")
<1>1. /\ Checking("judge") /\ stage = "judge" /\ boundary' = boundary /\ evidence' = evidence
      /\ CheckKnows /\ IsEvidence(evidence) /\ KillsFollowTheCensus
      /\ UNCHANGED <<request, role, boundary, outcome>> /\ Conclude(claim)
      /\ role \in Role /\ request.command = "check" /\ Unfinished
      /\ ReplayIsOfOneRole' /\ MapTold'
  <2>1. /\ Checking("judge") /\ boundary' = boundary /\ evidence' = evidence
        /\ UNCHANGED <<request, role, boundary, outcome>> /\ Conclude(claim)
    BY DEF Judge, Checking, Conclude
  <2> QED
    BY <2>1, CheckingMeans
<1>2. /\ role \in {"candidate", "corrected"} /\ evidence.unresolved = "none" /\ WitnessReady
      /\ Swept \subseteq Tried \ {"base"} /\ "base" \in Tried
      /\ Tried = (IF role = "candidate" THEN {"base", "candidate"} ELSE Role)
      /\ role = "corrected" <=> request.corrected
  <2>1. role # "base"
    BY <1>1 DEF CheckKnows
  <2> QED
    BY <1>1, <2>1, CheckSweeps DEF CheckKnows, Role
<1>3. claim \in CrashVerdict \ {"BUG_REPRODUCED"}
  BY VerdictOnMeans, ClaimMeans
<1>4. claim # "EVIDENCE_INCOMPLETE" =>
          /\ claim = VerdictOn("candidate")
          /\ role = "corrected" => ObservedOf("corrected") = "EXACTLY_ONCE"
  BY <1>2
<1> HIDE DEF claim
<1>5. verdict' = claim
  BY <1>1 DEF Conclude
<1>6. KillsFollowTheCensus'
  BY <1>1 DEF KillsFollowTheCensus, Swept
<1>7. VerdictOn("candidate")' = VerdictOn("candidate")
  BY <1>1 DEF VerdictOn, ObservedOf, VerdictIn, ObservedIn
<1>8. ConclusionIsJudged'
  <2>1. evidence.hunt # <<>>
    BY <1>2 DEF WitnessReady, HuntIsConclusive
  <2> QED
    BY <1>1, <1>2, <1>3, <1>4, <1>5, <1>7, <2>1 DEF ConclusionIsJudged, Conclusive, Tried
<1>9. CASE claim = "EVIDENCE_INCOMPLETE"
  <2>1. Publishable(claim, evidence)
    BY <1>1, <1>2, <1>9, GivenUpIsPublishable DEF KillsFollowTheCensus, WitnessReady, Tried, Swept
  <2> QED
    BY <1>1, <1>3, <1>6, <1>8, <2>1, Concluding
<1>10. CASE claim # "EVIDENCE_INCOMPLETE"
  <2>1. Publishable(claim, evidence) \/ CensusDecidesOverAnIncompleteSweep("candidate")
    BY <1>1, <1>2, <1>4, <1>10, JudgementIsPublishable
  <2>2. CensusDecidesOverAnIncompleteSweep(Judged)' <=> CensusDecidesOverAnIncompleteSweep("candidate")
    BY <1>1 DEF Judged, CensusDecidesOverAnIncompleteSweep
  <2> QED
    BY <1>1, <1>3, <1>6, <1>8, <2>1, <2>2, Concluding
<1> QED
  BY <1>9, <1>10

LEMMA CheckKeeps == CommandInv /\ CheckNext => CommandInv'
BY BindKeeps, LeaveUnresolvedKeeps, BlockLiveKeeps, BlockForkKeeps, HuntKeeps, MinimizeKeeps,
   ConfirmBaseKeeps, ConfirmCandidateKeeps, ConfirmCorrectedKeeps, RunSweepKeeps, JudgeKeeps
   DEF CheckNext

----------------------------------------------------------------------------
(* The invariant is kept: replay.                                          *)

Replaying(here) ==
    /\ CommandInv /\ At("replay", here) /\ here \in {"load", "bind", "confirm", "sweep", "judge"}
    /\ UNCHANGED <<request, boundary, outcome>> /\ role' = role

LEMMA ReplayingMeans ==
    ASSUME NEW here, Replaying(here)
    PROVE  /\ Unfinished /\ ReplayKnows /\ stage = here
           /\ request.command = "replay" /\ request'.command = "replay"
           /\ role \in Role /\ IsEvidence(evidence) /\ boundary \in FaultBoundary
           /\ verdict = "EVIDENCE_INCOMPLETE" /\ outcome = "none"
           /\ KillsFollowTheCensus /\ ReplayIsOfOneRole /\ TypeOK
           /\ MapTold'
<1>1. Unfinished /\ stage = here /\ request.command = "replay" /\ request'.command = "replay"
  BY DEF Replaying, At, Unfinished
<1>2. ReplayKnows /\ verdict = "EVIDENCE_INCOMPLETE" /\ outcome = "none"
  BY <1>1 DEF Replaying, CommandInv, Knowledge, ValidatorsAgree, Unfinished
<1>3. MapTold'
  BY <1>1 DEF MapTold
<1> QED
  BY <1>1, <1>2, <1>3 DEF Replaying, CommandInv, TypeOK

LEMMA ReplayGoesOn ==
    ASSUME NEW here, Replaying(here), verdict' = verdict, stage' \in Stage, IsEvidence(evidence'),
           Unfinished', ReplayKnows', ReplayIsOfOneRole', KillsFollowTheCensus'
    PROVE  CommandInv'
<1>1. Knowledge'
  BY ReplayingMeans DEF Knowledge
<1>2. TypeOK'
  BY ReplayingMeans, StepType DEF Replaying, TypeOK
<1> QED
  BY <1>1, <1>2, ReplayingMeans, GoingOn DEF Replaying

LEMMA ReplayGivesUp ==
    ASSUME NEW here, Replaying(here), GiveUp, IsEvidence(evidence'),
           ReplayIsOfOneRole', KillsFollowTheCensus', Publishable("EVIDENCE_INCOMPLETE", evidence')
    PROVE  CommandInv'
<1>1. stage' = "publish" /\ verdict' = verdict
  BY DEF GiveUp, GoTo
<1>2. TypeOK'
  BY <1>1, ReplayingMeans, StepType DEF Replaying, TypeOK, Stage
<1> QED
  BY <1>1, <1>2, ReplayingMeans, GivingUp DEF Replaying

LEMMA LoadCapsuleKeeps == CommandInv /\ LoadCapsule => CommandInv'
<1> SUFFICES ASSUME CommandInv, LoadCapsule PROVE CommandInv'
  OBVIOUS
<1>1. /\ Replaying("load") /\ evidence' = evidence /\ stage' = "bind" /\ verdict' = verdict
      /\ request' = request /\ role' = role
  BY DEF LoadCapsule, Replaying, GoTo
<1>2. stage = "load" /\ ReplayKnows /\ ReplayIsOfOneRole /\ KillsFollowTheCensus /\ IsEvidence(evidence)
  BY <1>1, ReplayingMeans
<1>3. ReplayKnows' /\ ReplayIsOfOneRole' /\ KillsFollowTheCensus'
  BY <1>1, <1>2 DEF ReplayKnows, ReplayIsOfOneRole, KillsFollowTheCensus, Tried, Swept
<1> QED
  BY <1>1, <1>2, <1>3, ReplayGoesOn DEF Stage, Unfinished

LEMMA BindSourceKeeps == CommandInv /\ BindSource => CommandInv'
<1> SUFFICES ASSUME CommandInv, BindSource PROVE CommandInv'
  OBVIOUS
<1>1. /\ Replaying("bind") /\ evidence' = evidence /\ stage' = "confirm" /\ verdict' = verdict
      /\ request' = request /\ role' = role
  BY DEF BindSource, Replaying, GoTo
<1>2. stage = "bind" /\ ReplayKnows /\ ReplayIsOfOneRole /\ KillsFollowTheCensus /\ IsEvidence(evidence)
  BY <1>1, ReplayingMeans
<1>3. ReplayKnows' /\ ReplayIsOfOneRole' /\ KillsFollowTheCensus'
  BY <1>1, <1>2 DEF ReplayKnows, ReplayIsOfOneRole, KillsFollowTheCensus, Tried, Swept
<1> QED
  BY <1>1, <1>2, <1>3, ReplayGoesOn DEF Stage, Unfinished
LEMMA LeaveReplayUnresolvedKeeps == CommandInv /\ LeaveReplayUnresolved => CommandInv'
<1> SUFFICES ASSUME CommandInv, LeaveReplayUnresolved PROVE CommandInv'
  OBVIOUS
<1>1. /\ Replaying("bind") /\ GiveUp /\ role' = role
      /\ evidence' = [evidence EXCEPT !.unresolved = role]
  BY DEF LeaveReplayUnresolved, Replaying, GiveUp, GoTo
<1>2. evidence = NoEvidence /\ role \in Role /\ IsEvidence(evidence)
  <2>1. stage = "bind" /\ ReplayKnows /\ role \in Role /\ IsEvidence(evidence)
    BY <1>1, ReplayingMeans
  <2> QED
    BY <2>1 DEF ReplayKnows
<1>3. /\ DOMAIN evidence' = DOMAIN evidence
      /\ evidence'.unresolved = role /\ evidence'.sweeps = <<>> /\ evidence'.attempts = <<>>
      /\ evidence'.hunt = <<>> /\ evidence'.control = <<>>
  <2>1. /\ evidence.sweeps = <<>> /\ evidence.attempts = <<>>
        /\ evidence.hunt = <<>> /\ evidence.control = <<>>
    BY <1>2 DEF NoEvidence
  <2> QED
    BY <1>1, <1>2, <2>1 DEF IsEvidence
<1>4. DOMAIN evidence'.sweeps = {} /\ DOMAIN evidence'.attempts = {}
  BY <1>3
<1>5. IsEvidence(evidence')
  BY <1>2, <1>3, <1>4 DEF IsEvidence
<1>6. ReplayIsOfOneRole' /\ KillsFollowTheCensus'
  BY <1>3, <1>4 DEF ReplayIsOfOneRole, KillsFollowTheCensus, Tried, Swept
<1>7. /\ ResolutionIsCoherent("EVIDENCE_INCOMPLETE", evidence')
      /\ LinksAreCoherent(evidence') /\ SweepsAreCoherent(evidence')
  <2>1. role # "none"
    BY <1>2 DEF Role
  <2> QED
    BY <1>3, <1>4, <2>1 DEF ResolutionIsCoherent, LinksAreCoherent, SweepsAreCoherent
<1> QED
  BY <1>1, <1>5, <1>6, <1>7, InconclusiveIsPublishable, ReplayGivesUp

\* A replay with worlds of its role and no sweep: what its evidence is.
ReplayedWave(attempts) ==
    /\ IsEvidence(evidence') /\ ReplayIsOfOneRole' /\ KillsFollowTheCensus'
    /\ Tried' = {role} /\ Swept' = {} /\ evidence'.attempts[role] = attempts
    /\ evidence'.unresolved = "none" /\ evidence'.hunt = <<>> /\ evidence'.control = <<>>

LEMMA ReplayReceives ==
    ASSUME NEW here \in {"bind", "confirm"}, Replaying(here), NEW attempts \in Seq(Receipt),
           Receive(attempts)
    PROVE  ReplayedWave(attempts)
<1>1. evidence = NoEvidence /\ role \in Role /\ IsEvidence(evidence)
  <2>1. stage = here /\ ReplayKnows /\ role \in Role /\ IsEvidence(evidence)
    BY ReplayingMeans
  <2> QED
    BY <2>1 DEF ReplayKnows
<1>2. /\ Receiving(attempts) /\ role' = role
      /\ evidence'.hunt = evidence.hunt /\ evidence'.control = evidence.control
  BY <1>1, ReceiveMeans DEF Replaying
<1>3. /\ evidence.sweeps = <<>> /\ evidence.attempts = <<>> /\ evidence.unresolved = "none"
      /\ evidence.hunt = <<>> /\ evidence.control = <<>>
  BY <1>1 DEF NoEvidence
<1>4. /\ Tried' = {role} /\ Swept' = {} /\ evidence'.attempts[role] = attempts
      /\ evidence'.unresolved = "none"
  BY <1>2, <1>3 DEF Receiving, Tried, Swept
<1>5. ReplayIsOfOneRole' /\ KillsFollowTheCensus'
  BY <1>2, <1>3, <1>4 DEF ReplayIsOfOneRole, KillsFollowTheCensus
<1> QED
  BY <1>2, <1>3, <1>4, <1>5 DEF ReplayedWave, Receiving

\* What a replay publishes without a sweep is well formed.
LEMMA WaveIsPublishable ==
    ASSUME NEW attempts, ReplayedWave(attempts)
    PROVE  /\ Publishable("EVIDENCE_INCOMPLETE", evidence')
           /\ \A claim : /\ ResolutionIsCoherent(claim, evidence') /\ LinksAreCoherent(evidence')
                         /\ SweepsAreCoherent(evidence')
<1>1. DOMAIN evidence'.attempts # {} /\ DOMAIN evidence'.sweeps = {}
  BY DEF ReplayedWave, Tried, Swept
<1>2. /\ LinksAreCoherent(evidence') /\ SweepsAreCoherent(evidence')
      /\ \A claim : ResolutionIsCoherent(claim, evidence')
  BY <1>1 DEF ReplayedWave, ResolutionIsCoherent, LinksAreCoherent, SweepsAreCoherent
<1> QED
  BY <1>2, InconclusiveIsPublishable

LEMMA BlockReplayKeeps == CommandInv /\ BlockReplay => CommandInv'
<1> SUFFICES ASSUME CommandInv, BlockReplay PROVE CommandInv'
  OBVIOUS
<1> DEFINE blocked == <<IF request.live THEN [SetupFailure EXCEPT !.status = "UNSUPPORTED"]
                        ELSE SetupFailure>>
<1>1. Replaying("bind") /\ GiveUp /\ Receive(blocked)
  BY DEF BlockReplay, Replaying, GiveUp, GoTo
<1>2. blocked \in Seq(Receipt)
  BY SetupFailureType
<1> HIDE DEF blocked
<1>3. ReplayedWave(blocked)
  BY <1>1, <1>2, ReplayReceives
<1>4. Publishable("EVIDENCE_INCOMPLETE", evidence')
  BY <1>3, WaveIsPublishable
<1> QED
  BY <1>1, <1>3, <1>4, ReplayGivesUp DEF ReplayedWave

LEMMA ReplayFixKeeps == CommandInv /\ ReplayFix => CommandInv'
<1> SUFFICES ASSUME CommandInv, ReplayFix PROVE CommandInv'
  OBVIOUS
<1>1. PICK attempts \in Waves :
          /\ Receive(attempts)
          /\ GoTo(IF ConfirmedObservation(attempts) = "EXACTLY_ONCE" THEN "sweep" ELSE "judge")
  BY DEF ReplayFix
<1>2. /\ Replaying("confirm") /\ role # "base" /\ role' = role /\ verdict' = verdict
      /\ request' = request
      /\ stage' = IF ConfirmedObservation(attempts) = "EXACTLY_ONCE" THEN "sweep" ELSE "judge"
  BY <1>1 DEF ReplayFix, Replaying, GoTo
<1>3. boundary \in FaultBoundary
  BY <1>2, ReplayingMeans
<1>4. attempts \in Seq(Receipt)
  BY <1>3, WavesAreWaves DEF AWave
<1>5. ReplayedWave(attempts)
  BY <1>1, <1>2, <1>4, ReplayReceives
<1>6. Confirmed(role, "EXACTLY_ONCE")' <=> ConfirmedObservation(attempts) = "EXACTLY_ONCE"
  BY <1>2, <1>5 DEF ReplayedWave, Confirmed
<1>7. ReplayKnows'
  BY <1>2, <1>5, <1>6 DEF ReplayKnows, ReplayedWave
<1> QED
  BY <1>2, <1>5, <1>7, ReplayGoesOn DEF Stage, Unfinished, ReplayedWave
LEMMA OneRole == \A who : Cardinality({who}) = 1
BY FS_Singleton

LEMMA ReplayBaseKeeps == CommandInv /\ ReplayBase => CommandInv'
<1> SUFFICES ASSUME CommandInv, ReplayBase PROVE CommandInv'
  OBVIOUS
<1>1. PICK attempts \in BareWaves :
          /\ Receive(attempts)
          /\ Conclude(IF ConfirmedObservation(attempts) = "DUPLICATE_EFFECT"
                      THEN "BUG_REPRODUCED" ELSE "EVIDENCE_INCOMPLETE")
  BY DEF ReplayBase
<1> DEFINE claim == IF ConfirmedObservation(attempts) = "DUPLICATE_EFFECT"
                    THEN "BUG_REPRODUCED" ELSE "EVIDENCE_INCOMPLETE"
<1>2. /\ Replaying("confirm") /\ role = "base" /\ Conclude(claim)
      /\ UNCHANGED <<request, role, boundary, outcome>> /\ verdict' = claim
  BY <1>1 DEF ReplayBase, Replaying, Conclude
<1>3. \/ claim \in CrashVerdict \ Conclusive
      \/ claim = "BUG_REPRODUCED" /\ claim \in CrashVerdict
  BY DEF CrashVerdict, Conclusive
<1>4. /\ boundary \in FaultBoundary /\ Unfinished /\ request.command = "replay"
      /\ MapTold'
  BY <1>2, ReplayingMeans
<1>5. attempts \in Seq(Receipt)
  BY <1>4, WavesAreWaves DEF AWave
<1>6. ReplayedWave(attempts)
  BY <1>1, <1>2, <1>5, ReplayReceives
<1>7. ConclusionIsJudged'
  BY <1>2, <1>4, <1>6 DEF ConclusionIsJudged, ReplayedWave, Conclusive
<1>8. Publishable(claim, evidence')
  <2>1. CASE ConfirmedObservation(attempts) = "DUPLICATE_EFFECT"
    <3>1. /\ Len(attempts) = Confirmations /\ AllCompleted(attempts)
          /\ Cardinality(Saw(attempts)) = 1 /\ attempts[1].observation = "DUPLICATE_EFFECT"
      BY <1>5, <2>1, ConfirmedMeans
    <3>2. /\ DOMAIN evidence'.attempts = {"base"} /\ DOMAIN evidence'.sweeps = {}
          /\ evidence'.attempts["base"] = attempts /\ evidence'.hunt = <<>>
      BY <1>2, <1>6 DEF ReplayedWave, Tried, Swept
    <3>3. EffectiveObservation(evidence', "base") = "DUPLICATE_EFFECT"
      BY <3>1, <3>2 DEF EffectiveObservation
    <3>4. ObservationsSupport("BUG_REPRODUCED", evidence')
      BY <3>1, <3>2, <3>3 DEF ObservationsSupport
    <3>5. WorldsCompleted(evidence')
      BY <3>1, <3>2 DEF WorldsCompleted
    <3>6. VerdictIsCoherent("BUG_REPRODUCED", evidence')
      BY <3>2, <3>4, <3>5, OneRole DEF VerdictIsCoherent
    <3> QED
      BY <1>6, <2>1, <3>6, WaveIsPublishable DEF Publishable
  <2>2. CASE ConfirmedObservation(attempts) # "DUPLICATE_EFFECT"
    BY <1>6, <2>2, WaveIsPublishable
  <2> QED
    BY <2>1, <2>2
<1> QED
  BY <1>2, <1>3, <1>4, <1>6, <1>7, <1>8, Concluding DEF ReplayedWave

LEMMA ReplaySweepKeeps == CommandInv /\ ReplaySweep => CommandInv'
<1> SUFFICES ASSUME CommandInv, ReplaySweep PROVE CommandInv'
  OBVIOUS
<1>1. /\ Replaying("sweep") /\ SweepEveryCommit /\ stage' = "judge" /\ role' = role
      /\ verdict' = verdict /\ request' = request
  BY DEF ReplaySweep, Replaying, GoTo
<1>2. /\ stage = "sweep" /\ ReplayKnows /\ ReplayIsOfOneRole /\ KillsFollowTheCensus
      /\ role \in Role /\ IsEvidence(evidence) /\ request.command = "replay"
  BY <1>1, ReplayingMeans
<1>3. Sweeping /\ KillsFollowTheCensus'
  BY <1>1, <1>2, SweepEveryCommitMeans, SweepingKeepsTheCensus
<1>4. /\ role # "base" /\ Tried = {role} /\ Swept = {} /\ Confirmed(role, "EXACTLY_ONCE")
  BY <1>2 DEF ReplayKnows
<1>5. /\ Tried' = {role} /\ Swept' = {role} /\ evidence'.attempts = evidence.attempts
      /\ IsEvidence(evidence')
  BY <1>3, <1>4 DEF Sweeping
<1>6. Confirmed(role, "EXACTLY_ONCE")'
  BY <1>1, <1>4, <1>5 DEF Confirmed
<1>7. ReplayKnows'
  BY <1>1, <1>4, <1>5, <1>6 DEF ReplayKnows
<1>8. ReplayIsOfOneRole'
  BY <1>1, <1>2, <1>3, <1>4, <1>5 DEF ReplayIsOfOneRole, Sweeping
<1> QED
  BY <1>1, <1>3, <1>5, <1>7, <1>8, ReplayGoesOn DEF Stage, Unfinished

\* A conclusive verdict of a replay passes its validators, or a census decides.
LEMMA ReplayJudgementIsPublishable ==
    ASSUME IsEvidence(evidence), KillsFollowTheCensus, ReplayIsOfOneRole,
           request.command = "replay", role \in Role \ {"base"}, Tried = {role},
           SweptWhenConfirmed(role)
    PROVE  \/ Publishable(VerdictOn(role), evidence)
           \/ CensusDecidesOverAnIncompleteSweep(role)
<1> DEFINE claim == VerdictOn(role)
<1>1. /\ claim \in CrashVerdict \ {"BUG_REPRODUCED"}
      /\ claim # "EVIDENCE_INCOMPLETE" =>
             ObservedOf(role) = Claim(claim) /\ ObservedOf(role) # "NOT_OBSERVED"
  BY VerdictOnMeans
<1> HIDE DEF claim
<1>2. /\ evidence.hunt = <<>> /\ evidence.control = <<>> /\ evidence.unresolved = "none"
      /\ Swept \subseteq {role}
  BY DEF ReplayIsOfOneRole
<1>3. \A any : /\ ResolutionIsCoherent(any, evidence) /\ LinksAreCoherent(evidence)
               /\ SweepsAreCoherent(evidence)
  BY <1>2 DEF ResolutionIsCoherent, LinksAreCoherent, SweepsAreCoherent, KillsFollowTheCensus,
              Tried, Swept
<1>4. CASE claim = "EVIDENCE_INCOMPLETE"
  BY <1>3, <1>4, InconclusiveIsPublishable DEF claim
<1>5. CASE claim # "EVIDENCE_INCOMPLETE" /\ ~CensusDecidesOverAnIncompleteSweep(role)
  <2>1. /\ Len(evidence.attempts[role]) = Confirmations /\ AllCompleted(evidence.attempts[role])
        /\ EffectiveObservation(evidence, role) = Claim(claim)
        /\ role \in Swept => /\ Completed(evidence.sweeps[role].census)
                             /\ AllCompleted(evidence.sweeps[role].kills)
    BY <1>1, <1>5, ObservedIsEffective
  <2>2. WorldsCompleted(evidence)
    BY <1>2, <2>1 DEF WorldsCompleted, Tried, Swept
  <2>3. ObservationsSupport(claim, evidence)
    BY <1>1, <2>1 DEF ObservationsSupport, Tried, Role
  <2>4. VerdictIsCoherent(claim, evidence)
    BY <1>2, <2>2, <2>3, OneRole DEF VerdictIsCoherent, Tried
  <2> QED
    BY <1>3, <2>4 DEF Publishable, claim
<1> QED
  BY <1>4, <1>5

LEMMA JudgeReplayKeeps == CommandInv /\ JudgeReplay => CommandInv'
<1> SUFFICES ASSUME CommandInv, JudgeReplay PROVE CommandInv'
  OBVIOUS
<1>1. /\ Replaying("judge") /\ evidence' = evidence /\ Conclude(VerdictOn(role))
      /\ UNCHANGED <<request, role, boundary, outcome>> /\ verdict' = VerdictOn(role)
  BY DEF JudgeReplay, Replaying, Conclude
<1>2. /\ stage = "judge" /\ ReplayKnows /\ ReplayIsOfOneRole /\ KillsFollowTheCensus /\ Unfinished
      /\ role \in Role /\ IsEvidence(evidence) /\ request.command = "replay" /\ MapTold'
  BY <1>1, ReplayingMeans
<1>3. role # "base" /\ Tried = {role} /\ SweptWhenConfirmed(role)
  BY <1>2 DEF ReplayKnows, SweptWhenConfirmed
<1>4. Publishable(VerdictOn(role), evidence) \/ CensusDecidesOverAnIncompleteSweep(role)
  BY <1>2, <1>3, ReplayJudgementIsPublishable
<1>5. /\ CensusDecidesOverAnIncompleteSweep(Judged)' <=> CensusDecidesOverAnIncompleteSweep(role)
      /\ VerdictOn(role)' = VerdictOn(role)
  BY <1>1, <1>2 DEF Judged, CensusDecidesOverAnIncompleteSweep, VerdictOn, ObservedOf, VerdictIn,
                    ObservedIn
<1>6. VerdictOn(role) \in CrashVerdict \ {"BUG_REPRODUCED"}
  BY VerdictOnMeans
<1>7. ConclusionIsJudged'
  BY <1>1, <1>2, <1>3, <1>5, <1>6 DEF ConclusionIsJudged, Tried
<1>8. ReplayIsOfOneRole' /\ KillsFollowTheCensus'
  BY <1>1, <1>2 DEF ReplayIsOfOneRole, KillsFollowTheCensus, Tried, Swept
<1> QED
  BY <1>1, <1>2, <1>4, <1>5, <1>6, <1>7, <1>8, Concluding

LEMMA ReplayKeeps == CommandInv /\ ReplayNext => CommandInv'
BY LoadCapsuleKeeps, LeaveReplayUnresolvedKeeps, BlockReplayKeeps, BindSourceKeeps,
   ReplayBaseKeeps, ReplayFixKeeps, ReplaySweepKeeps, JudgeReplayKeeps DEF ReplayNext
----------------------------------------------------------------------------
(* The invariant is kept: map.                                             *)

Mapping(here) ==
    /\ CommandInv /\ At("map", here) /\ here \in {"bind", "sweep"} /\ UNCHANGED request

LEMMA MappingMeans ==
    ASSUME NEW here, Mapping(here)
    PROVE  /\ Unfinished /\ stage = here
           /\ request.command = "map" /\ request'.command = "map"
           /\ role = "candidate" /\ evidence = NoEvidence /\ IsEvidence(evidence)
           /\ verdict = "EVIDENCE_INCOMPLETE" /\ outcome = "none"
           /\ boundary \in FaultBoundary /\ request \in Requests
           /\ evidence.sweeps = <<>> /\ Swept = {}
           /\ KillsFollowTheCensus /\ TypeOK
<1>1. Unfinished /\ stage = here /\ request.command = "map" /\ request'.command = "map"
  BY DEF Mapping, At, Unfinished
<1>2. role = "candidate" /\ evidence = NoEvidence /\ verdict = "EVIDENCE_INCOMPLETE" /\ outcome = "none"
  BY <1>1 DEF Mapping, CommandInv, Knowledge, ValidatorsAgree, Unfinished
<1>3. evidence.sweeps = <<>> /\ Swept = {}
  BY <1>2 DEF NoEvidence, Swept
<1> QED
  BY <1>1, <1>2, <1>3 DEF Mapping, CommandInv, TypeOK

LEMMA MapEnds ==
    ASSUME NEW here, Mapping(here), NEW result \in MapOutcome, End(result),
           IsEvidence(evidence'), KillsFollowTheCensus', MapTold'
    PROVE  CommandInv'
<1>1. /\ stage' = "done" /\ outcome' = result /\ role' = role /\ boundary' = boundary
      /\ verdict' = "EVIDENCE_INCOMPLETE" /\ request' = request
  BY MappingMeans DEF End
<1>2. TypeOK'
  BY <1>1, MappingMeans DEF TypeOK, Stage
<1>3. Knowledge' /\ ReplayIsOfOneRole'
  BY <1>1, MappingMeans DEF Knowledge, Unfinished, ReplayIsOfOneRole
<1>4. ConclusionIsJudged' /\ ValidatorsAgree'
  BY <1>1 DEF ConclusionIsJudged, ValidatorsAgree, Conclusive, MapOutcome
<1> QED
  BY <1>2, <1>3, <1>4 DEF CommandInv

LEMMA LeaveUnmappableKeeps == CommandInv /\ LeaveUnmappable => CommandInv'
<1> SUFFICES ASSUME CommandInv, LeaveUnmappable PROVE CommandInv'
  OBVIOUS
<1>1. /\ Mapping("bind") /\ End("unmappable")
      /\ evidence' = [evidence EXCEPT !.unresolved = role]
  BY DEF LeaveUnmappable, Mapping, End
<1>2. /\ evidence = NoEvidence /\ IsEvidence(evidence) /\ role = "candidate"
      /\ evidence.sweeps = <<>>
  BY <1>1, MappingMeans
<1>3. /\ DOMAIN evidence' = DOMAIN evidence
      /\ evidence'.unresolved = role /\ evidence'.sweeps = <<>>
      /\ evidence'.attempts = evidence.attempts
      /\ evidence'.hunt = evidence.hunt /\ evidence'.control = evidence.control
  BY <1>1, <1>2 DEF IsEvidence
<1>4. DOMAIN evidence'.sweeps = {}
  BY <1>3
<1>5. IsEvidence(evidence')
  BY <1>2, <1>3, <1>4 DEF IsEvidence, Role
<1>6. KillsFollowTheCensus' /\ MapTold'
  BY <1>4 DEF KillsFollowTheCensus, MapTold, Swept
<1> QED
  BY <1>1, <1>5, <1>6, MapEnds DEF MapOutcome

LEMMA BindMapKeeps == CommandInv /\ BindMap => CommandInv'
<1> SUFFICES ASSUME CommandInv, BindMap PROVE CommandInv'
  OBVIOUS
<1>1. /\ Mapping("bind") /\ UNCHANGED <<request, verdict, outcome>> /\ evidence' = evidence
      /\ stage' = "sweep" /\ role' = role /\ boundary' = boundary
  BY DEF BindMap, Mapping, GoTo
<1>2. /\ evidence = NoEvidence /\ role = "candidate" /\ verdict = "EVIDENCE_INCOMPLETE"
      /\ Swept = {} /\ TypeOK /\ Unfinished /\ request'.command = "map"
  BY <1>1, MappingMeans
<1>3. TypeOK' /\ Unfinished'
  BY <1>1, <1>2 DEF TypeOK, Stage, Unfinished
<1>4. Knowledge' /\ ReplayIsOfOneRole'
  BY <1>1, <1>2 DEF Knowledge, ReplayIsOfOneRole
<1>5. KillsFollowTheCensus' /\ MapTold'
  BY <1>1, <1>2 DEF KillsFollowTheCensus, MapTold, Swept
<1> QED
  BY <1>1, <1>2, <1>3, <1>4, <1>5, GoingOn

LEMMA SweepRaisesKeeps == CommandInv /\ SweepRaises => CommandInv'
<1> SUFFICES ASSUME CommandInv, SweepRaises PROVE CommandInv'
  OBVIOUS
<1>1. Mapping("sweep") /\ End("escaped") /\ evidence' = evidence
  BY DEF SweepRaises, Mapping, End
<1>2. Swept = {} /\ IsEvidence(evidence)
  BY <1>1, MappingMeans
<1>3. KillsFollowTheCensus' /\ MapTold'
  BY <1>1, <1>2 DEF KillsFollowTheCensus, MapTold, Swept
<1> QED
  BY <1>1, <1>2, <1>3, MapEnds DEF MapOutcome

LEMMA MapWindowsKeeps == CommandInv /\ MapWindows => CommandInv'
<1> SUFFICES ASSUME CommandInv, MapWindows PROVE CommandInv'
  OBVIOUS
<1>1. Mapping("sweep") /\ SweepEveryCommit /\ role' = role
  BY DEF MapWindows, Mapping, End
<1>2. PICK escaped \in BOOLEAN : End(Tell(evidence'.sweeps[role], escaped))
  BY DEF MapWindows
<1>3. role = "candidate" /\ IsEvidence(evidence) /\ Swept = {} /\ KillsFollowTheCensus
  BY <1>1, MappingMeans
<1>4. Sweeping /\ KillsFollowTheCensus'
  BY <1>1, <1>3, SweepEveryCommitMeans, SweepingKeepsTheCensus DEF Role
<1> DEFINE sweep == evidence'.sweeps[role]
           result == Tell(sweep, escaped)
<1>5. ASweep(sweep) /\ IsEvidence(evidence')
  BY <1>4 DEF Sweeping
<1>6. result \in MapOutcome /\ outcome' = result
  BY <1>2 DEF Tell, MapOutcome, End
<1>7. Swept' = {role} /\ Tried' = {} /\ evidence'.unresolved = "none"
  BY <1>1, <1>3, <1>4, MappingMeans, NoEvidenceType DEF Sweeping, Tried, NoEvidence
<1>8. MapTold'
  BY <1>1, <1>3, <1>5, <1>6, <1>7 DEF MapTold
<1> HIDE DEF result
<1> QED
  BY <1>1, <1>2, <1>4, <1>5, <1>6, <1>8, MapEnds DEF result

LEMMA MapKeeps == CommandInv /\ MapNext => CommandInv'
BY LeaveUnmappableKeeps, BindMapKeeps, SweepRaisesKeeps, MapWindowsKeeps DEF MapNext

LEMMA StutterKeeps == CommandInv /\ UNCHANGED vars => CommandInv'
<1> SUFFICES ASSUME CommandInv, UNCHANGED vars PROVE CommandInv'
  OBVIOUS
<1>1. /\ request' = request /\ stage' = stage /\ role' = role /\ boundary' = boundary
      /\ evidence' = evidence /\ verdict' = verdict /\ outcome' = outcome
  BY DEF vars
<1>2. /\ Tried' = Tried /\ Swept' = Swept /\ WitnessReady' = WitnessReady
      /\ CandidateReady' = CandidateReady
  BY <1>1 DEF Tried, Swept, WitnessReady, CandidateReady, Confirmed
<1>3. TypeOK' /\ ReplayIsOfOneRole' /\ KillsFollowTheCensus' /\ MapTold'
  BY <1>1, <1>2 DEF CommandInv, TypeOK, ReplayIsOfOneRole, KillsFollowTheCensus, MapTold
<1>4. CheckKnows' = CheckKnows /\ ReplayKnows' = ReplayKnows
  BY <1>1, <1>2 DEF CheckKnows, ReplayKnows, Confirmed
<1>5. Knowledge'
  BY <1>1, <1>4 DEF CommandInv, Knowledge, Unfinished
<1>6. ConclusionIsJudged' /\ ValidatorsAgree'
  BY <1>1, <1>2 DEF CommandInv, ConclusionIsJudged, ValidatorsAgree, VerdictOn, ObservedOf,
                    VerdictIn, ObservedIn, Judged, CensusDecidesOverAnIncompleteSweep
<1> QED
  BY <1>3, <1>5, <1>6 DEF CommandInv

\* Every step keeps the invariant: what a command knows, and what it concludes.
THEOREM CommandInvHolds == Spec => []CommandInv
<1>1. CommandInv /\ [Next]_vars => CommandInv'
  BY CheckKeeps, ReplayKeeps, MapKeeps, PublishKeeps, AbortKeeps, StutterKeeps DEF Next
<1> QED
  BY <1>1, InitInv, PTL DEF Spec

\* Every command's state is of its types.
THEOREM CommandTypeHolds == Spec => []TypeOK
<1>1. CommandInv => TypeOK
  BY DEF CommandInv
<1> QED
  BY <1>1, CommandInvHolds, PTL

----------------------------------------------------------------------------
(* What the validators let pass is earned.                                 *)

\* A base whose worlds effectively duplicate duplicated in every one of them.
LEMMA EffectiveBase ==
    ASSUME IsEvidence(evidence), "base" \in Tried,
           Len(evidence.attempts["base"]) = Confirmations, AllCompleted(evidence.attempts["base"]),
           EffectiveObservation(evidence, "base") = "DUPLICATE_EFFECT"
    PROVE  \A receipt \in AttemptsOf("base") : Reproduced(receipt)
<1> DEFINE attempts == evidence.attempts["base"]
<1>1. attempts \in Seq(Receipt) /\ 1 \in DOMAIN attempts
  BY EvidenceTypes, EvidenceAssumption
<1>2. Cardinality(Saw(attempts)) = 1 /\ attempts[1].observation = "DUPLICATE_EFFECT"
  BY DEF EffectiveObservation
<1>3. \A i \in DOMAIN attempts : attempts[i].observation = "DUPLICATE_EFFECT"
  BY <1>1, <1>2, SawOneThing
<1> QED
  BY <1>3 DEF AttemptsOf, Reproduced, AllCompleted

\* The boundary worlds of a role that is effectively something saw one thing:
\* that, or exactly once, and then its sweep observed it.
LEMMA EffectiveRole ==
    ASSUME IsEvidence(evidence), NEW who \in Tried \ {"base"}, NEW seen, seen # "NOT_OBSERVED",
           Len(evidence.attempts[who]) = Confirmations,
           EffectiveObservation(evidence, who) = seen
    PROVE  \/ /\ seen # "EXACTLY_ONCE" /\ 1 \in DOMAIN evidence.attempts[who]
              /\ evidence.attempts[who][1].observation = seen
           \/ /\ who \in Swept
              /\ \A i \in DOMAIN evidence.attempts[who] :
                    evidence.attempts[who][i].observation = "EXACTLY_ONCE"
              /\ SweepObservation(evidence.sweeps[who].census, evidence.sweeps[who].kills) = seen
<1> DEFINE attempts == evidence.attempts[who]
<1>1. attempts \in Seq(Receipt) /\ 1 \in DOMAIN attempts
  BY EvidenceTypes, EvidenceAssumption
<1>2. Cardinality(Saw(attempts)) = 1
  BY DEF EffectiveObservation
<1>3. PICK o \in CrashObservation : Saw(attempts) = {o}
  BY <1>1, <1>2, SawOneThing
<1>4. \A i \in DOMAIN attempts : attempts[i].observation = o
  BY <1>1, <1>3, SawOneThing
<1>5. CASE o # "EXACTLY_ONCE"
  <2>1. Saw(attempts) # {"EXACTLY_ONCE"}
    BY <1>3, <1>5
  <2>2. attempts[1].observation = seen
    BY <1>2, <2>1 DEF EffectiveObservation
  <2> QED
    BY <1>1, <1>4, <1>5, <2>2
<1>6. CASE o = "EXACTLY_ONCE"
  <2>1. Saw(attempts) = {"EXACTLY_ONCE"}
    BY <1>3, <1>6
  <2>2. /\ who \in Swept
        /\ SweepObservation(evidence.sweeps[who].census, evidence.sweeps[who].kills) = seen
    BY <1>2, <2>1 DEF EffectiveObservation, Swept
  <2> QED
    BY <1>4, <1>6, <2>2
<1> QED
  BY <1>5, <1>6

LEMMA EffectiveFix ==
    ASSUME IsEvidence(evidence), NEW who \in Tried \ {"base"},
           Len(evidence.attempts[who]) = Confirmations, WorldsCompleted(evidence),
           KillsFollowTheCensus, EffectiveObservation(evidence, who) = "EXACTLY_ONCE"
    PROVE  ExactlyOnceEverywhere(who)
<1> DEFINE sweep == evidence.sweeps[who]
<1>1. /\ who \in Swept
      /\ \A i \in DOMAIN evidence.attempts[who] :
            evidence.attempts[who][i].observation = "EXACTLY_ONCE"
      /\ SweepObservation(sweep.census, sweep.kills) = "EXACTLY_ONCE"
  BY EffectiveRole
<1>2. sweep.census \in Receipt /\ sweep.kills \in Seq(Receipt)
  BY <1>1, EvidenceTypes
<1>3. /\ sweep.census.observation = "EXACTLY_ONCE" /\ Completed(sweep.census)
      /\ AllCompleted(sweep.kills)
      /\ \A i \in DOMAIN sweep.kills : sweep.kills[i].observation = "EXACTLY_ONCE"
  BY <1>1, <1>2, SweepMeans
<1>4. Len(sweep.kills) = Len(sweep.census.ops)
  <2>1. DOMAIN sweep.kills = 1..Len(sweep.census.ops)
    BY <1>1, <1>3 DEF KillsFollowTheCensus, KillPoints
  <2>2. sweep.census.ops \in Seq(Operations)
    BY <1>2 DEF Receipt
  <2> HIDE DEF sweep
  <2>3. DOMAIN sweep.kills = 1..Len(sweep.kills) /\ Len(sweep.kills) \in Nat
    BY <1>2
  <2>4. Len(sweep.census.ops) \in Nat
    BY <2>2
  <2> QED
    BY <2>1, <2>3, <2>4
<1>5. \A receipt \in AttemptsOf(who) : Shows(receipt, "EXACTLY_ONCE")
  BY <1>1 DEF AttemptsOf, Shows, WorldsCompleted, AllCompleted, Tried
<1>6. \A receipt \in SweepOf(who) : Shows(receipt, "EXACTLY_ONCE")
  BY <1>1, <1>3 DEF SweepOf, Shows, AllCompleted, Swept
<1> QED
  BY <1>1, <1>4, <1>5, <1>6 DEF ExactlyOnceEverywhere, Tried, Swept

LEMMA EffectiveFailure ==
    ASSUME IsEvidence(evidence), NEW who \in Tried \ {"base"},
           Len(evidence.attempts[who]) = Confirmations, WorldsCompleted(evidence),
           NEW seen \in {"DUPLICATE_EFFECT", "INVARIANT_FAILED"},
           EffectiveObservation(evidence, who) = seen
    PROVE  \E receipt \in AttemptsOf(who) \union SweepOf(who) : Shows(receipt, seen)
<1>1. CASE /\ 1 \in DOMAIN evidence.attempts[who]
           /\ evidence.attempts[who][1].observation = seen
  BY <1>1 DEF AttemptsOf, Shows, WorldsCompleted, AllCompleted, Tried
<1>2. CASE /\ who \in Swept
           /\ SweepObservation(evidence.sweeps[who].census, evidence.sweeps[who].kills) = seen
  <2> DEFINE sweep == evidence.sweeps[who]
  <2>1. sweep.census \in Receipt /\ sweep.kills \in Seq(Receipt)
    BY <1>2, EvidenceTypes
  <2>2. \/ sweep.census.observation = seen
        \/ \E i \in DOMAIN sweep.kills : sweep.kills[i].observation = seen
    BY <1>2, <2>1, SweepMeans
  <2>3. Completed(sweep.census) /\ AllCompleted(sweep.kills)
    BY <1>2 DEF WorldsCompleted, Swept
  <2> QED
    BY <1>2, <2>2, <2>3 DEF SweepOf, Shows, AllCompleted, Swept
<1> QED
  BY <1>1, <1>2, EffectiveRole
\* What is published with a conclusive verdict passed the validators.
LEMMA PublishedMeans ==
    ASSUME CommandInv, outcome = "published", verdict \in Conclusive
    PROVE  /\ IsEvidence(evidence) /\ KillsFollowTheCensus /\ LinksAreCoherent(evidence)
           /\ WorldsCompleted(evidence) /\ ObservationsSupport(verdict, evidence)
           /\ evidence.hunt # <<>> =>
                  HuntIsConclusive(evidence.hunt) /\ FaultIsNecessary(evidence.control)
           /\ \A who \in Tried : Len(evidence.attempts[who]) = Confirmations
<1>1. Publishable(verdict, evidence) /\ IsEvidence(evidence) /\ KillsFollowTheCensus
  BY DEF CommandInv, ValidatorsAgree, TypeOK
<1>2. VerdictIsCoherent(verdict, evidence) /\ LinksAreCoherent(evidence)
  BY <1>1 DEF Publishable
<1> QED
  BY <1>1, <1>2 DEF VerdictIsCoherent, ObservationsSupport, Tried

LEMMA CompletedEvidence == CommandInv => NothingIsConcludedFromIncompleteEvidence
<1> SUFFICES ASSUME CommandInv, outcome = "published", verdict \in Conclusive
             PROVE  /\ AllCompleted(evidence.hunt) /\ AllCompleted(evidence.control)
                    /\ \A who \in DOMAIN evidence.attempts : AllCompleted(evidence.attempts[who])
                    /\ \A who \in DOMAIN evidence.sweeps :
                          \A receipt \in SweepOf(who) : Completed(receipt)
  BY DEF NothingIsConcludedFromIncompleteEvidence
<1>1. evidence.hunt # <<>> => AllCompleted(evidence.hunt) /\ AllCompleted(evidence.control)
  BY PublishedMeans DEF HuntIsConclusive, FaultIsNecessary
<1>2. evidence.hunt = <<>> => AllCompleted(evidence.hunt) /\ AllCompleted(evidence.control)
  <2>1. evidence.hunt = <<>> => evidence.control = <<>>
    BY PublishedMeans DEF LinksAreCoherent
  <2> QED
    BY <2>1 DEF AllCompleted
<1>3. \A who \in DOMAIN evidence.attempts : AllCompleted(evidence.attempts[who])
  BY PublishedMeans DEF WorldsCompleted
<1>4. \A who \in DOMAIN evidence.sweeps : \A receipt \in SweepOf(who) : Completed(receipt)
  BY PublishedMeans DEF WorldsCompleted, SweepOf, AllCompleted
<1> QED
  BY <1>1, <1>2, <1>3, <1>4

\* No conclusive verdict is published over a world that did not complete.
THEOREM CompleteEvidenceHolds == Spec => []NothingIsConcludedFromIncompleteEvidence
BY CommandInvHolds, CompletedEvidence, PTL

\* What every conclusive verdict of a check rests on.
LEMMA CheckedMeans ==
    ASSUME CommandInv, request.command = "check", outcome = "published", verdict \in Conclusive
    PROVE  /\ WitnessIsConfirmed
           /\ "candidate" \in Tried /\ verdict = VerdictOn("candidate")
           /\ EffectiveObservation(evidence, "candidate") = Claim(verdict)
           /\ request.corrected => ExactlyOnceEverywhere("corrected")
<1>1. /\ verdict # "BUG_REPRODUCED" /\ verdict = VerdictOn("candidate") /\ evidence.hunt # <<>>
      /\ Tried = (IF request.corrected THEN Role ELSE {"base", "candidate"})
  BY DEF CommandInv, ConclusionIsJudged
<1>2. /\ "base" \in Tried /\ "candidate" \in Tried
      /\ request.corrected => "corrected" \in Tried
  BY <1>1 DEF Role
<1>3. /\ EffectiveObservation(evidence, "base") = "DUPLICATE_EFFECT"
      /\ EffectiveObservation(evidence, "candidate") = Claim(verdict)
      /\ "corrected" \in Tried => EffectiveObservation(evidence, "corrected") = "EXACTLY_ONCE"
  <2>1. DOMAIN evidence.attempts \notin {{"candidate"}, {"corrected"}}
    BY <1>2 DEF Tried
  <2> QED
    BY <1>1, <2>1, PublishedMeans DEF ObservationsSupport, Tried
<1>4. \A receipt \in AttemptsOf("base") : Reproduced(receipt)
  BY <1>2, <1>3, PublishedMeans, EffectiveBase DEF WorldsCompleted, Tried
<1>5. /\ Len(evidence.control) = 2
      /\ \A i \in 1..2 : Shows(evidence.control[i], "EXACTLY_ONCE")
  <2>1. FaultIsNecessary(evidence.control) /\ evidence.control \in Seq(Receipt)
    BY <1>1, PublishedMeans DEF IsEvidence
  <2>2. DOMAIN evidence.control = 1..2
    BY <2>1 DEF FaultIsNecessary
  <2>3. \A i \in 1..2 : evidence.control[i].observation = "EXACTLY_ONCE"
    BY <2>1, <2>2, SawOneThing DEF FaultIsNecessary
  <2> QED
    BY <2>1, <2>2, <2>3 DEF FaultIsNecessary, AllCompleted, Shows
<1>6. WitnessIsConfirmed
  BY <1>2, <1>4, <1>5, PublishedMeans DEF WitnessIsConfirmed
<1>7. request.corrected => ExactlyOnceEverywhere("corrected")
  BY <1>2, <1>3, PublishedMeans, EffectiveFix
<1> QED
  BY <1>1, <1>2, <1>3, <1>6, <1>7

LEMMA SchedulesAgree ==
    ASSUME NEW who \in Swept, WorldsCompleted(evidence),
           ~ScheduleSplit(evidence.attempts[who], evidence.sweeps[who].census), who \in Tried
    PROVE  OnOneSchedule(who)
BY DEF OnOneSchedule, ScheduleSplit, Splits, WorldsCompleted, AllCompleted, Completed, AttemptsOf,
       Tried, Swept

LEMMA CheckedFix == CommandInv => FixProvenIsEarned
<1> SUFFICES ASSUME CommandInv, Published("check", "FIX_PROVEN_FOR_THIS_CAPSULE")
             PROVE  /\ WitnessIsConfirmed
                    /\ ExactlyOnceEverywhere("candidate") /\ OnOneSchedule("candidate")
                    /\ request.corrected => ExactlyOnceEverywhere("corrected")
  BY DEF FixProvenIsEarned
<1>1. /\ request.command = "check" /\ outcome = "published" /\ verdict \in Conclusive
      /\ verdict = "FIX_PROVEN_FOR_THIS_CAPSULE"
  BY DEF Published, Conclusive, CrashVerdict
<1>2. EffectiveObservation(evidence, "candidate") = "EXACTLY_ONCE"
  BY <1>1, CheckedMeans DEF Claim
<1>3. ExactlyOnceEverywhere("candidate")
  BY <1>1, <1>2, CheckedMeans, PublishedMeans, EffectiveFix
<1>4. OnOneSchedule("candidate")
  BY <1>1, CheckedMeans, PublishedMeans, VerdictOnMeans, SchedulesAgree
<1> QED
  BY <1>1, <1>3, <1>4, CheckedMeans

\* A published fix rests on a confirmed witness, on a candidate that is exactly
\* once wherever it is killed, on its census's schedule, and on its control.
THEOREM FixProvenHolds == Spec => []FixProvenIsEarned
BY CommandInvHolds, CheckedFix, PTL

LEMMA CheckedFailure == CommandInv => FailedPatchIsWitnessed
<1> SUFFICES ASSUME CommandInv, NEW claim \in PatchFailed, Published("check", claim)
             PROVE  /\ WitnessIsConfirmed
                    /\ \E receipt \in AttemptsOf("candidate") \union SweepOf("candidate") :
                          Shows(receipt, Claim(claim))
                    /\ request.corrected => ExactlyOnceEverywhere("corrected")
  BY DEF FailedPatchIsWitnessed
<1>1. /\ request.command = "check" /\ outcome = "published" /\ verdict \in Conclusive
      /\ verdict = claim /\ Claim(claim) \in {"DUPLICATE_EFFECT", "INVARIANT_FAILED"}
  BY DEF Published, Conclusive, CrashVerdict, PatchFailed, Claim
<1>2. \E receipt \in AttemptsOf("candidate") \union SweepOf("candidate") :
          Shows(receipt, Claim(claim))
  BY <1>1, CheckedMeans, PublishedMeans, EffectiveFailure
<1> QED
  BY <1>1, <1>2, CheckedMeans

\* A published failure is shown by a completed world of that very candidate.
THEOREM FailedPatchHolds == Spec => []FailedPatchIsWitnessed
BY CommandInvHolds, CheckedFailure, PTL

\* What every conclusive verdict of a replay rests on.
LEMMA ReplayedMeans ==
    ASSUME CommandInv, request.command = "replay", outcome = "published", verdict \in Conclusive
    PROVE  /\ Tried = {role} /\ role \in Role
           /\ role = "base" <=> verdict = "BUG_REPRODUCED"
           /\ role # "base" => verdict = VerdictOn(role)
           /\ EffectiveObservation(evidence, role) =
                  IF role = "base" THEN "DUPLICATE_EFFECT" ELSE Claim(verdict)
<1>1. /\ Tried = {role} /\ role \in Role
      /\ role = "base" => verdict = "BUG_REPRODUCED"
      /\ role # "base" => verdict # "BUG_REPRODUCED" /\ verdict = VerdictOn(role)
  BY DEF CommandInv, ConclusionIsJudged, TypeOK
<1>2. EffectiveObservation(evidence, role) =
          IF role = "base" THEN "DUPLICATE_EFFECT" ELSE Claim(verdict)
  <2>1. ~({"base", "candidate"} \subseteq DOMAIN evidence.attempts)
    BY <1>1 DEF Tried
  <2> QED
    BY <1>1, <2>1, PublishedMeans DEF ObservationsSupport, Tried
<1> QED
  BY <1>1, <1>2

LEMMA ReplayedVerdict == CommandInv => ReplayVerdictIsEarned
<1> SUFFICES ASSUME CommandInv PROVE ReplayVerdictIsEarned
  OBVIOUS
<1>1. ASSUME Published("replay", "FIX_PROVEN_FOR_THIS_CAPSULE")
      PROVE  role # "base" /\ ExactlyOnceEverywhere(role) /\ OnOneSchedule(role)
  <2>1. /\ request.command = "replay" /\ outcome = "published" /\ verdict \in Conclusive
        /\ verdict = "FIX_PROVEN_FOR_THIS_CAPSULE"
    BY <1>1 DEF Published, Conclusive, CrashVerdict
  <2>2. role # "base" /\ role \in Tried /\ EffectiveObservation(evidence, role) = "EXACTLY_ONCE"
    BY <2>1, ReplayedMeans DEF Claim
  <2>3. ExactlyOnceEverywhere(role)
    BY <2>1, <2>2, PublishedMeans, EffectiveFix
  <2>4. OnOneSchedule(role)
    BY <2>1, <2>2, ReplayedMeans, PublishedMeans, VerdictOnMeans, SchedulesAgree
  <2> QED
    BY <2>2, <2>3, <2>4
<1>2. ASSUME Published("replay", "BUG_REPRODUCED")
      PROVE  /\ role = "base" /\ Len(evidence.attempts[role]) = Confirmations
             /\ \A receipt \in AttemptsOf(role) :
                   receipt.status = "COMPLETED" /\ receipt.observation = "DUPLICATE_EFFECT"
  <2>1. /\ request.command = "replay" /\ outcome = "published" /\ verdict \in Conclusive
        /\ verdict = "BUG_REPRODUCED"
    BY <1>2 DEF Published, Conclusive, CrashVerdict
  <2>2. /\ role = "base" /\ role \in Tried
        /\ EffectiveObservation(evidence, role) = "DUPLICATE_EFFECT"
    BY <2>1, ReplayedMeans
  <2>3. \A receipt \in AttemptsOf("base") : Reproduced(receipt)
    BY <2>1, <2>2, PublishedMeans, EffectiveBase DEF WorldsCompleted, Tried
  <2> QED
    BY <2>1, <2>2, <2>3, PublishedMeans DEF Reproduced, Completed
<1>3. ASSUME NEW claim \in PatchFailed, Published("replay", claim)
      PROVE  /\ role # "base"
             /\ \E receipt \in AttemptsOf(role) \union SweepOf(role) :
                   receipt.status = "COMPLETED" /\ receipt.observation = Claim(claim)
  <2>1. /\ request.command = "replay" /\ outcome = "published" /\ verdict \in Conclusive
        /\ verdict = claim /\ verdict # "BUG_REPRODUCED"
        /\ Claim(claim) \in {"DUPLICATE_EFFECT", "INVARIANT_FAILED"}
    BY <1>3 DEF Published, Conclusive, CrashVerdict, PatchFailed, Claim
  <2>2. role # "base" /\ role \in Tried /\ EffectiveObservation(evidence, role) = Claim(claim)
    BY <2>1, ReplayedMeans
  <2>3. \E receipt \in AttemptsOf(role) \union SweepOf(role) : Shows(receipt, Claim(claim))
    BY <2>1, <2>2, PublishedMeans, EffectiveFailure
  <2> QED
    BY <2>2, <2>3 DEF Shows, Completed
<1> QED
  BY <1>1, <1>2, <1>3 DEF ReplayVerdictIsEarned

\* A replay proves a fix, fails one or reproduces the bug on completed worlds
\* that show it, and never judges a base.
THEOREM ReplayVerdictHolds == Spec => []ReplayVerdictIsEarned
BY CommandInvHolds, ReplayedVerdict, PTL

----------------------------------------------------------------------------
(* What is refused, and that a replay is refused where check would be.     *)

\* The witness a check would have, granted to a replay of a candidate.
LEMMA GrantedMeans ==
    ASSUME IsEvidence(evidence)
    PROVE  /\ DOMAIN Granted = DOMAIN evidence
           /\ DOMAIN Granted.attempts = Tried \union {"base"}
           /\ \A who \in Tried \ {"base"} : Granted.attempts[who] = evidence.attempts[who]
           /\ Len(Granted.attempts["base"]) = Confirmations
           /\ AllCompleted(Granted.attempts["base"])
           /\ EffectiveObservation(Granted, "base") = "DUPLICATE_EFFECT"
           /\ Granted.sweeps = evidence.sweeps /\ Granted.unresolved = evidence.unresolved
           /\ Granted.hunt # <<>> /\ HuntIsConclusive(Granted.hunt)
           /\ Granted.control # <<>> /\ FaultIsNecessary(Granted.control)
<1> DEFINE witness == ReceiptOf("DUPLICATE_EFFECT", <<>>)
           control == ReceiptOf("EXACTLY_ONCE", <<>>)
           wave == [i \in 1..Confirmations |-> witness]
<1>1. /\ DOMAIN Granted = DOMAIN evidence
      /\ Granted.attempts = Extend(evidence.attempts, "base", wave)
      /\ Granted.sweeps = evidence.sweeps /\ Granted.unresolved = evidence.unresolved
      /\ Granted.hunt = <<witness, witness>> /\ Granted.control = <<control, control>>
  BY DEF Granted, IsEvidence
<1>2. <<>> \in Seq(Operations)
  OBVIOUS
<1>3. /\ witness \in Receipt /\ Completed(witness) /\ witness.observation = "DUPLICATE_EFFECT"
      /\ control \in Receipt /\ Completed(control) /\ control.observation = "EXACTLY_ONCE"
  BY <1>2, ReceiptOfTypes DEF ReceiptOf, CrashObservation
<1> HIDE DEF witness, control
<1>4. /\ DOMAIN Granted.attempts = Tried \union {"base"}
      /\ \A who \in Tried \ {"base"} : Granted.attempts[who] = evidence.attempts[who]
      /\ Granted.attempts["base"] = wave
  BY <1>1 DEF Extend, Tried
<1>5. wave \in Seq(Receipt) /\ Len(wave) = Confirmations /\ 1 \in DOMAIN wave
  BY <1>3, EvidenceAssumption
<1>6. /\ AllCompleted(wave) /\ Saw(wave) = {"DUPLICATE_EFFECT"}
      /\ wave[1].observation = "DUPLICATE_EFFECT"
  <2>1. DOMAIN wave = 1..Confirmations /\ \A i \in DOMAIN wave : wave[i] = witness
    OBVIOUS
  <2> HIDE DEF wave
  <2>2. AllCompleted(wave) /\ wave[1].observation = "DUPLICATE_EFFECT"
    BY <1>3, <1>5, <2>1 DEF AllCompleted
  <2>3. Saw(wave) = {"DUPLICATE_EFFECT"}
    BY <1>3, <1>5, <2>1 DEF Saw
  <2> QED
    BY <2>2, <2>3
<1> HIDE DEF wave
<1>7. EffectiveObservation(Granted, "base") = "DUPLICATE_EFFECT"
  BY <1>4, <1>6, OneRole DEF EffectiveObservation
<1>8. HuntIsConclusive(<<witness, witness>>)
  BY <1>3 DEF HuntIsConclusive, AllCompleted, Reproduced
<1>9. FaultIsNecessary(<<control, control>>)
  <2>1. Len(<<control, control>>) = 2 /\ DOMAIN <<control, control>> = 1..2
    OBVIOUS
  <2>2. \A i \in 1..2 : <<control, control>>[i] = control
    OBVIOUS
  <2>3. Saw(<<control, control>>) = {"EXACTLY_ONCE"}
    BY <1>3, <2>1, <2>2 DEF Saw
  <2> QED
    BY <1>3, <2>1, <2>2, <2>3 DEF FaultIsNecessary, AllCompleted
<1> QED
  BY <1>1, <1>4, <1>5, <1>6, <1>7, <1>8, <1>9

LEMMA ReplayedAsChecked == CommandInv => ReplayAgreesWithCheck
<1> SUFFICES ASSUME CommandInv, request.command = "replay", role = "candidate",
                    "candidate" \in Tried, outcome \in {"published", "refused"}
             PROVE  outcome = "published" <=> Publishable(verdict, Granted)
  BY DEF ReplayAgreesWithCheck, Tried
<1>1. outcome = "published" <=> Publishable(verdict, evidence)
  BY DEF CommandInv, ValidatorsAgree
<1>2. /\ IsEvidence(evidence) /\ Tried = {"candidate"} /\ Swept \subseteq Tried
      /\ evidence.hunt = <<>> /\ evidence.control = <<>> /\ evidence.unresolved = "none"
  BY DEF CommandInv, TypeOK, ReplayIsOfOneRole
<1>3. verdict \in Conclusive => verdict # "BUG_REPRODUCED"
  BY DEF CommandInv, ConclusionIsJudged
<1> DEFINE granted == Granted
<1>4. /\ DOMAIN granted.attempts = {"base", "candidate"}
      /\ granted.attempts["candidate"] = evidence.attempts["candidate"]
      /\ Len(granted.attempts["base"]) = Confirmations
      /\ AllCompleted(granted.attempts["base"])
      /\ EffectiveObservation(granted, "base") = "DUPLICATE_EFFECT"
      /\ granted.sweeps = evidence.sweeps /\ granted.unresolved = "none"
      /\ granted.hunt # <<>> /\ HuntIsConclusive(granted.hunt)
      /\ granted.control # <<>> /\ FaultIsNecessary(granted.control)
  BY <1>2, GrantedMeans
<1> HIDE DEF granted
<1>5. DOMAIN evidence.attempts = {"candidate"} /\ DOMAIN evidence.sweeps \subseteq {"candidate"}
  BY <1>2 DEF Tried, Swept
<1>6. /\ ResolutionIsCoherent(verdict, evidence) /\ ResolutionIsCoherent(verdict, granted)
      /\ LinksAreCoherent(evidence) /\ LinksAreCoherent(granted)
  BY <1>2, <1>4, <1>5 DEF ResolutionIsCoherent, LinksAreCoherent, HuntIsConclusive
<1>7. SweepsAreCoherent(evidence) <=> SweepsAreCoherent(granted)
  BY <1>4, <1>5 DEF SweepsAreCoherent
<1>8. WorldsCompleted(evidence) <=> WorldsCompleted(granted)
  BY <1>4, <1>5 DEF WorldsCompleted
<1>9. EffectiveObservation(evidence, "candidate") = EffectiveObservation(granted, "candidate")
  BY <1>4 DEF EffectiveObservation
<1>10. verdict # "BUG_REPRODUCED" =>
           (ObservationsSupport(verdict, evidence) <=> ObservationsSupport(verdict, granted))
  <2>1. \A any : /\ ~({"base", "candidate"} \subseteq {"candidate"})
                 /\ {"base", "candidate"} \notin {{"candidate"}, {"corrected"}}
                 /\ "corrected" \notin {"base", "candidate"}
    OBVIOUS
  <2> QED
    BY <1>4, <1>5, <1>9, <2>1 DEF ObservationsSupport
<1>11. verdict # "BUG_REPRODUCED" =>
           (VerdictIsCoherent(verdict, evidence) <=> VerdictIsCoherent(verdict, granted))
  BY <1>2, <1>4, <1>5, <1>8, <1>10, OneRole DEF VerdictIsCoherent
<1>12. Publishable(verdict, evidence) <=> Publishable(verdict, granted)
  BY <1>3, <1>6, <1>7, <1>11 DEF Publishable
<1> QED
  BY <1>1, <1>12 DEF granted

\* The orchestrator and the validators disagree in one case alone, and a replay
\* is refused just where a check would be.
THEOREM OnlyACensusHolds == Spec => []OnlyACensusIsRefused
<1>1. CommandInv => OnlyACensusIsRefused
  BY ReplayedAsChecked DEF CommandInv, ValidatorsAgree, OnlyACensusIsRefused
<1> QED
  BY <1>1, CommandInvHolds, PTL

----------------------------------------------------------------------------
(* A map beside the check of the same tree.                                *)

\* Each window that completed is named as the census names its commit.
LEMMA WindowsAreTheCensus ==
    ASSUME NEW sweep, ASweep(sweep), ~ScheduleSplit(sweep.kills, sweep.census),
           Completed(sweep.census), NEW kill \in DOMAIN sweep.kills, Completed(sweep.kills[kill])
    PROVE  Window(sweep, kill) = sweep.census.ops[kill]
<1> DEFINE own == sweep.kills[kill].ops
<1>1. sweep.census.ops \in Seq(Operations) /\ Len(sweep.census.ops) \in Nat
  BY DEF ASweep, Judgeable, Receipt
<1>2. IsPrefix(own, sweep.census.ops)
  BY DEF ScheduleSplit, Splits, Completed
<1>3. Len(own) = kill
  BY DEF ASweep, IsKilledAfter
<1>4. kill \in 1..Len(sweep.census.ops)
  BY DEF ASweep, KillPoints
<1>5. own = SubSeq(sweep.census.ops, 1, kill)
  BY <1>2, <1>3 DEF IsPrefix
<1>6. SubSeq(sweep.census.ops, 1, kill)[kill] = sweep.census.ops[kill]
  BY <1>1, <1>4
<1> HIDE DEF own
<1>7. Window(sweep, kill) = own[kill]
  BY <1>3, <1>4 DEF Window, own
<1> QED
  BY <1>5, <1>6, <1>7

\* A sweep whose worlds all completed observes something.
LEMMA CompletedSweepObserves ==
    ASSUME NEW sweep, ASweep(sweep), Completed(sweep.census), AllCompleted(sweep.kills)
    PROVE  SweepObservation(sweep.census, sweep.kills) \in CrashObservation \ {"NOT_OBSERVED"}
<1>1. /\ sweep.census \in Receipt /\ sweep.kills \in Seq(Receipt)
      /\ Len(sweep.census.ops) \in Nat
  BY DEF ASweep, Judgeable, Receipt
<1>2. sweep.kills # <<>>
  <2>1. Len(sweep.census.ops) \in Nat \ {0}
    <3>1. sweep.census.ops \in Seq(Operations) /\ sweep.census.ops # <<>>
      BY <1>1 DEF ASweep, Receipt
    <3> QED
      BY <1>1, <3>1, EmptySeq
  <2>2. 1 \in DOMAIN sweep.kills
    BY <2>1 DEF ASweep, KillPoints
  <2> QED
    BY <2>2
<1>3. /\ sweep.census.observation # "NOT_OBSERVED"
      /\ \A i \in DOMAIN sweep.kills : sweep.kills[i].observation # "NOT_OBSERVED"
  BY DEF ASweep, Judgeable, AllCompleted
<1> QED
  BY <1>1, <1>2, <1>3, SweepMeans

\* A sweep that is exactly once is so in each kill world, one for each commit.
LEMMA ExactlyOnceSweep ==
    ASSUME NEW sweep, ASweep(sweep),
           SweepObservation(sweep.census, sweep.kills) = "EXACTLY_ONCE"
    PROVE  /\ Len(sweep.kills) = Len(sweep.census.ops)
           /\ \A kill \in DOMAIN sweep.kills : Shows(sweep.kills[kill], "EXACTLY_ONCE")
<1>1. sweep.census \in Receipt /\ sweep.kills \in Seq(Receipt)
  BY DEF ASweep, Judgeable
<1>2. /\ Completed(sweep.census) /\ AllCompleted(sweep.kills)
      /\ \A i \in DOMAIN sweep.kills : sweep.kills[i].observation = "EXACTLY_ONCE"
  BY <1>1, SweepMeans
<1>3. DOMAIN sweep.kills = 1..Len(sweep.census.ops)
  BY <1>2 DEF ASweep, KillPoints
<1>4. /\ DOMAIN sweep.kills = 1..Len(sweep.kills)
      /\ Len(sweep.kills) \in Nat /\ Len(sweep.census.ops) \in Nat
  BY <1>1 DEF Receipt
<1>5. Len(sweep.kills) = Len(sweep.census.ops)
  BY <1>3, <1>4
<1> QED
  BY <1>2, <1>5 DEF Shows, AllCompleted

\* The worlds at a boundary are a wave of judgeable worlds.
LEMMA BoundaryWaves ==
    ASSUME NEW at \in FaultBoundary, NEW wave \in [1..Confirmations -> Attempts(at)]
    PROVE  AWave(wave)
<1>1. \A r \in Attempts(at) : Judgeable(r)
  BY WorldsAreJudgeable
<1>2. wave \in [1..Confirmations -> Receipt]
  BY <1>1 DEF Judgeable
<1> QED
  BY <1>1, <1>2, EvidenceAssumption DEF AWave

\* A map that swept, and the boundary worlds of a check of the same tree.
Compared(wave) ==
    /\ CommandInv /\ request.command = "map" /\ role \in Swept /\ AWave(wave)

LEMMA ComparedMeans ==
    ASSUME NEW wave, Compared(wave)
    PROVE  LET given == AsCandidate(wave)
               sweep == evidence.sweeps[role]
               seen  == ConfirmedObservation(wave)
           IN  /\ DOMAIN given.attempts = {"base", "candidate"}
               /\ given.attempts["candidate"] = wave
               /\ Len(given.attempts["base"]) = Confirmations
               /\ AllCompleted(given.attempts["base"])
               /\ EffectiveObservation(given, "base") = "DUPLICATE_EFFECT"
               /\ given.unresolved = "none" /\ given.hunt # <<>>
               /\ HuntIsConclusive(given.hunt) /\ FaultIsNecessary(given.control)
               /\ seen = "EXACTLY_ONCE" =>
                      DOMAIN given.sweeps = {"candidate"} /\ given.sweeps["candidate"] = sweep
               /\ seen # "EXACTLY_ONCE" => DOMAIN given.sweeps = {}
               /\ ASweep(sweep)
               /\ \E escaped \in BOOLEAN : outcome = Tell(sweep, escaped)
<1> DEFINE given == AsCandidate(wave)
           sweep == evidence.sweeps[role]
           seen  == ConfirmedObservation(wave)
           granted == Granted
<1>1. /\ IsEvidence(evidence) /\ role = "candidate" /\ Swept = {role} /\ Tried = {}
      /\ evidence.unresolved = "none" /\ ASweep(sweep)
      /\ \E escaped \in BOOLEAN : outcome = Tell(sweep, escaped)
  BY DEF Compared, CommandInv, TypeOK, MapTold
<1>2. /\ DOMAIN granted = {"hunt", "control", "attempts", "sweeps", "unresolved"}
      /\ DOMAIN granted.attempts = {"base"}
      /\ Len(granted.attempts["base"]) = Confirmations
      /\ AllCompleted(granted.attempts["base"])
      /\ EffectiveObservation(granted, "base") = "DUPLICATE_EFFECT"
      /\ granted.sweeps = evidence.sweeps /\ granted.unresolved = "none"
      /\ granted.hunt # <<>> /\ HuntIsConclusive(granted.hunt)
      /\ FaultIsNecessary(granted.control)
  BY <1>1, GrantedMeans DEF IsEvidence
<1>3. given = [granted EXCEPT
                  !.attempts = Extend(@, "candidate", wave),
                  !.sweeps = IF seen = "EXACTLY_ONCE" THEN @ ELSE <<>>]
  BY DEF AsCandidate
<1> HIDE DEF given, granted
<1>4. /\ given.attempts = Extend(granted.attempts, "candidate", wave)
      /\ given.sweeps = IF seen = "EXACTLY_ONCE" THEN evidence.sweeps ELSE <<>>
      /\ given.hunt = granted.hunt /\ given.control = granted.control
      /\ given.unresolved = "none"
  BY <1>2, <1>3
<1>5. /\ DOMAIN given.attempts = {"base", "candidate"}
      /\ given.attempts["candidate"] = wave
      /\ given.attempts["base"] = granted.attempts["base"]
  BY <1>2, <1>4 DEF Extend
<1>6. EffectiveObservation(given, "base") = EffectiveObservation(granted, "base")
  BY <1>5 DEF EffectiveObservation
<1>7. /\ seen = "EXACTLY_ONCE" =>
             DOMAIN given.sweeps = {"candidate"} /\ given.sweeps["candidate"] = sweep
      /\ seen # "EXACTLY_ONCE" => DOMAIN given.sweeps = {}
  BY <1>1, <1>4 DEF Swept
<1> QED
  BY <1>1, <1>2, <1>4, <1>5, <1>6, <1>7 DEF given

\* The verdict that check would come to.
LEMMA ComparedVerdict ==
    ASSUME NEW wave, Compared(wave)
    PROVE  LET claim == VerdictIn(AsCandidate(wave), "candidate")
               sweep == evidence.sweeps[role]
               seen  == ConfirmedObservation(wave)
           IN  /\ seen = "EXACTLY_ONCE" =>
                      claim = ClaimedFixVerdict(SweepObservation(sweep.census, sweep.kills),
                                                wave, TRUE, sweep.census)
               /\ seen # "EXACTLY_ONCE" =>
                      claim = ClaimedFixVerdict(seen, wave, FALSE, SetupFailure)
<1> DEFINE given == AsCandidate(wave)
<1> HIDE DEF given
<1>1. /\ given.attempts["candidate"] = wave
      /\ ConfirmedObservation(wave) = "EXACTLY_ONCE" =>
             /\ DOMAIN given.sweeps = {"candidate"}
             /\ given.sweeps["candidate"] = evidence.sweeps[role]
      /\ ConfirmedObservation(wave) # "EXACTLY_ONCE" => DOMAIN given.sweeps = {}
  BY ComparedMeans DEF given
<1>2. ASSUME ConfirmedObservation(wave) = "EXACTLY_ONCE"
      PROVE  VerdictIn(given, "candidate") =
                 ClaimedFixVerdict(SweepObservation(evidence.sweeps[role].census,
                                                    evidence.sweeps[role].kills),
                                   wave, TRUE, evidence.sweeps[role].census)
  <2>1. ("candidate" \in DOMAIN given.sweeps) = TRUE
    BY <1>1, <1>2
  <2> QED
    BY <1>1, <1>2, <2>1 DEF VerdictIn, ObservedIn
<1>3. ASSUME ConfirmedObservation(wave) # "EXACTLY_ONCE"
      PROVE  VerdictIn(given, "candidate") =
                 ClaimedFixVerdict(ConfirmedObservation(wave), wave, FALSE, SetupFailure)
  <2>1. ("candidate" \in DOMAIN given.sweeps) = FALSE
    BY <1>1, <1>3
  <2> QED
    BY <1>1, <1>3, <2>1 DEF VerdictIn, ObservedIn
<1> QED
  BY <1>2, <1>3 DEF given

\* The validators pass a conclusive verdict on worlds that all completed.
LEMMA ComparedIsPublishable ==
    ASSUME NEW wave, Compared(wave), VerdictIn(AsCandidate(wave), "candidate") \in Conclusive,
           ConfirmedObservation(wave) = "EXACTLY_ONCE" => AllCompleted(evidence.sweeps[role].kills)
    PROVE  Publishable(VerdictIn(AsCandidate(wave), "candidate"), AsCandidate(wave))
<1> DEFINE given == AsCandidate(wave)
           claim == VerdictIn(AsCandidate(wave), "candidate")
           sweep == evidence.sweeps[role]
           seen  == ConfirmedObservation(wave)
           swept == SweepObservation(sweep.census, sweep.kills)
<1>1. /\ DOMAIN given.attempts = {"base", "candidate"} /\ given.attempts["candidate"] = wave
      /\ Len(given.attempts["base"]) = Confirmations /\ AllCompleted(given.attempts["base"])
      /\ EffectiveObservation(given, "base") = "DUPLICATE_EFFECT"
      /\ given.unresolved = "none" /\ given.hunt # <<>>
      /\ HuntIsConclusive(given.hunt) /\ FaultIsNecessary(given.control)
      /\ seen = "EXACTLY_ONCE" =>
             DOMAIN given.sweeps = {"candidate"} /\ given.sweeps["candidate"] = sweep
      /\ seen # "EXACTLY_ONCE" => DOMAIN given.sweeps = {}
      /\ ASweep(sweep)
  BY ComparedMeans
<1>2. /\ claim \in CrashVerdict \ {"BUG_REPRODUCED"} /\ claim # "EVIDENCE_INCOMPLETE"
      /\ Claim(claim) # "NOT_OBSERVED"
      /\ seen = "EXACTLY_ONCE" => swept = Claim(claim)
      /\ seen # "EXACTLY_ONCE" => seen = Claim(claim)
  <2>1. /\ claim \in Conclusive
        /\ seen = "EXACTLY_ONCE" => claim = ClaimedFixVerdict(swept, wave, TRUE, sweep.census)
        /\ seen # "EXACTLY_ONCE" => claim = ClaimedFixVerdict(seen, wave, FALSE, SetupFailure)
    BY ComparedVerdict
  <2>2. claim \in CrashVerdict /\ claim # "EVIDENCE_INCOMPLETE"
    BY <2>1 DEF Conclusive
  <2> HIDE DEF claim, seen, swept, sweep
  <2>3. CASE seen = "EXACTLY_ONCE"
    BY <2>1, <2>2, <2>3, ClaimMeans DEF ClaimedFixVerdict, Claim
  <2>4. CASE seen # "EXACTLY_ONCE"
    BY <2>1, <2>2, <2>4, ClaimMeans DEF ClaimedFixVerdict, Claim
  <2> QED
    BY <2>3, <2>4
<1>3. wave \in Seq(Receipt)
  BY WaveConfirms DEF Compared
<1>4. seen # "NOT_OBSERVED"
  BY <1>2
<1>5. /\ Len(wave) = Confirmations /\ AllCompleted(wave)
      /\ Saw(wave) = {seen} /\ Cardinality(Saw(wave)) = 1 /\ wave[1].observation = seen
  BY <1>3, <1>4, ConfirmedMeans
<1>6. seen = "EXACTLY_ONCE" => Completed(sweep.census) /\ AllCompleted(sweep.kills)
  BY <1>1, <1>2, SweepMeans DEF ASweep, Judgeable
<1> HIDE DEF given, claim, seen, swept, sweep
<1>7. EffectiveObservation(given, "candidate") = Claim(claim)
  <2>1. CASE seen = "EXACTLY_ONCE"
    BY <1>1, <1>2, <1>5, <2>1 DEF EffectiveObservation, swept
  <2>2. CASE seen # "EXACTLY_ONCE"
    <3>1. {seen} # {"EXACTLY_ONCE"}
      BY <2>2
    <3> QED
      BY <1>1, <1>2, <1>5, <2>2, <3>1 DEF EffectiveObservation
  <2> QED
    BY <2>1, <2>2
<1>8. WorldsCompleted(given)
  BY <1>1, <1>5, <1>6 DEF WorldsCompleted
<1>9. ObservationsSupport(claim, given)
  BY <1>1, <1>2, <1>5, <1>7 DEF ObservationsSupport
<1>10. VerdictIsCoherent(claim, given)
  BY <1>1, <1>8, <1>9 DEF VerdictIsCoherent
<1>11. ResolutionIsCoherent(claim, given) /\ LinksAreCoherent(given) /\ SweepsAreCoherent(given)
  BY <1>1 DEF ResolutionIsCoherent, LinksAreCoherent, SweepsAreCoherent, HuntIsConclusive, ASweep
<1>12. Publishable(claim, given)
  BY <1>10, <1>11 DEF Publishable
<1> QED
  BY <1>12 DEF claim, given

LEMMA DepartsOnlyThere == CommandInv => MapDepartsFromCheckOnlyHere
<1> SUFFICES ASSUME CommandInv, request.command = "map", role \in Swept
             PROVE  MapDepartsFromCheckOnlyHere
  BY DEF MapDepartsFromCheckOnlyHere, Swept
<1> DEFINE sweep == evidence.sweeps[role]
<1>1. ASweep(sweep) /\ \E escaped \in BOOLEAN : outcome = Tell(sweep, escaped)
  BY DEF CommandInv, MapTold
<1>2. outcome = "unattributed" =>
          ~Completed(sweep.census) \/ ScheduleSplit(sweep.kills, sweep.census)
  BY <1>1 DEF Tell
<1>3. outcome = "mapped" => Completed(sweep.census) /\ ~ScheduleSplit(sweep.kills, sweep.census)
  BY <1>1 DEF Tell
<1>4. ASSUME NEW at \in FaultBoundary, NEW wave \in [1..Confirmations -> Attempts(at)]
      PROVE  LET seen  == ConfirmedObservation(wave)
                 given == CheckGives(wave)
             IN  /\ outcome = "unattributed" /\ given \in Conclusive =>
                        \/ seen # "EXACTLY_ONCE"
                        \/ /\ Completed(sweep.census)
                           /\ ScheduleSplit(sweep.kills, sweep.census)
                 /\ outcome = "mapped" /\ given \notin Conclusive =>
                        \/ seen = "NOT_OBSERVED"
                        \/ /\ seen = "EXACTLY_ONCE"
                           /\ \/ ScheduleSplit(wave, sweep.census)
                              \/ ~AllCompleted(sweep.kills)
                 /\ given = "FIX_PROVEN_FOR_THIS_CAPSULE" =>
                        /\ Len(sweep.kills) = Len(sweep.census.ops)
                        /\ \A kill \in DOMAIN sweep.kills :
                              Shows(sweep.kills[kill], "EXACTLY_ONCE")
  <2> DEFINE seen  == ConfirmedObservation(wave)
             given == CheckGives(wave)
             claim == VerdictIn(AsCandidate(wave), "candidate")
             swept == SweepObservation(sweep.census, sweep.kills)
  <2>1. AWave(wave) /\ Compared(wave)
    BY <1>4, BoundaryWaves DEF Compared
  <2>2. given = IF Publishable(claim, AsCandidate(wave)) THEN claim ELSE "none"
    BY DEF CheckGives
  <2>3. "none" \notin Conclusive /\ "FIX_PROVEN_FOR_THIS_CAPSULE" # "none"
    BY DEF Conclusive, CrashVerdict
  <2>4. /\ seen = "EXACTLY_ONCE" => claim = ClaimedFixVerdict(swept, wave, TRUE, sweep.census)
        /\ seen # "EXACTLY_ONCE" => claim = ClaimedFixVerdict(seen, wave, FALSE, SetupFailure)
    BY <2>1, ComparedVerdict
  <2>5. seen \in CrashObservation
    BY <2>1, WaveConfirms
  <2>6. ASSUME outcome = "unattributed", given \in Conclusive, seen = "EXACTLY_ONCE"
        PROVE  Completed(sweep.census) /\ ScheduleSplit(sweep.kills, sweep.census)
    <3>1. claim \in Conclusive /\ Publishable(claim, AsCandidate(wave))
      BY <2>2, <2>3, <2>6
    <3>2. WorldsCompleted(AsCandidate(wave))
      BY <3>1 DEF Publishable, VerdictIsCoherent
    <3>3. /\ DOMAIN AsCandidate(wave).sweeps = {"candidate"}
          /\ AsCandidate(wave).sweeps["candidate"] = sweep
      BY <2>1, <2>6, ComparedMeans
    <3>4. Completed(sweep.census)
      BY <3>2, <3>3 DEF WorldsCompleted
    <3> QED
      BY <1>2, <2>6, <3>4
  <2>7. ASSUME outcome = "mapped", given \notin Conclusive, seen # "NOT_OBSERVED",
               seen = "EXACTLY_ONCE" =>
                   ~ScheduleSplit(wave, sweep.census) /\ AllCompleted(sweep.kills)
        PROVE  FALSE
    <3>1. Completed(sweep.census)
      BY <1>3, <2>7
    <3>2. claim \in Conclusive
      <4>1. CASE seen = "EXACTLY_ONCE"
        <5>1. swept \in CrashObservation \ {"NOT_OBSERVED"}
          BY <1>1, <2>7, <3>1, <4>1, CompletedSweepObserves
        <5> QED
          BY <2>4, <2>7, <4>1, <5>1
             DEF ClaimedFixVerdict, Conclusive, CrashVerdict, CrashObservation
      <4>2. CASE seen # "EXACTLY_ONCE"
        BY <2>4, <2>5, <2>7, <4>2
           DEF ClaimedFixVerdict, Conclusive, CrashVerdict, CrashObservation
      <4> QED
        BY <4>1, <4>2
    <3>3. Publishable(claim, AsCandidate(wave))
      BY <2>1, <2>7, <3>2, ComparedIsPublishable
    <3> QED
      BY <2>2, <2>7, <3>2, <3>3
  <2>8. ASSUME given = "FIX_PROVEN_FOR_THIS_CAPSULE"
        PROVE  /\ Len(sweep.kills) = Len(sweep.census.ops)
               /\ \A kill \in DOMAIN sweep.kills : Shows(sweep.kills[kill], "EXACTLY_ONCE")
    <3>1. claim = "FIX_PROVEN_FOR_THIS_CAPSULE"
      BY <2>2, <2>3, <2>8
    <3>2. swept = "EXACTLY_ONCE"
      BY <2>4, <3>1 DEF ClaimedFixVerdict
    <3> QED
      BY <1>1, <3>2, ExactlyOnceSweep
  <2> HIDE DEF seen, given, sweep
  <2>9. outcome = "mapped" /\ given \notin Conclusive =>
            \/ seen = "NOT_OBSERVED"
            \/ /\ seen = "EXACTLY_ONCE"
               /\ ScheduleSplit(wave, sweep.census) \/ ~AllCompleted(sweep.kills)
    BY <2>7
  <2> QED
    BY <2>6, <2>8, <2>9 DEF seen, given, sweep
<1>5. ASSUME outcome = "mapped", NEW kill \in DOMAIN sweep.kills, Completed(sweep.kills[kill])
      PROVE  Window(sweep, kill) = sweep.census.ops[kill]
  BY <1>1, <1>3, <1>5, WindowsAreTheCensus
<1> QED
  BY <1>4, <1>5 DEF MapDepartsFromCheckOnlyHere

\* What a map refuses and shows, against what check makes of the same tree: they
\* depart from one another in the cases that are named, and in no other.
THEOREM MapDepartsHolds == Spec => []MapDepartsFromCheckOnlyHere
BY CommandInvHolds, DepartsOnlyThere, PTL
=============================================================================
