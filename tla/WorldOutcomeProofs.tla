------------------------- MODULE WorldOutcomeProofs -------------------------
(***************************************************************************)
(* What a finished world may claim: theorems about CrashWorld that need    *)
(* more than the ledger.  Over the invariant of CrashWorldProofs another   *)
(* is built from four parts, one for each promise: the exits and the       *)
(* observation a validator will ask for (ReceiptIsReady), the commit a     *)
(* delivery is killed at (KillIsDue), the entries a redelivery could read  *)
(* (RedeliveryIsClean), and the SQL committed around an open store         *)
(* (SqlIsSeen), which rests on what messages a worker can have sent        *)
(* (MessagesFit).  Then every step of a world is a step of WorldPromise,   *)
(* and the receipt a world returns is one of those over which Evidence     *)
(* lets the commands be judged.                                            *)
(***************************************************************************)
EXTENDS CrashWorldProofs, SequenceTheorems, FunctionTheorems

\* The first delivery was killed, or ran to its end.
FirstIsOver ==
    \/ pc \in {"postkill", "between"} \/ delivery = 2
    \/ pc \in {"spawn", "reread"} /\ delivery = 1

\* The exits a receipt tells, the verdict it repeats, and that no validator
\* will refuse them.
ReceiptIsReady ==
    /\ status = "COMPLETED" => integrity = "VALID"
    /\ pc \in Ended /\ status = "COMPLETED" => observation = Classification
    /\ Attempt /\ delivery = 2 => first = checkpoint
    /\ FirstIsOver => exit[1] = IF Attempt THEN "killed" ELSE "zero"
    /\ pc = "reread" => exit[delivery] = "zero"
    /\ pc = "judge" \/ (pc \in Ended /\ status = "COMPLETED") => exit[2] = "zero"
    /\ pc \in {"reread", "between", "judge"} => worker = "gone"
    /\ pc = "spawn" /\ delivery = 1 => worker = "gone"
    /\ pc \in Ended /\ status = "COMPLETED" => worker = "gone"
    /\ ReceiptIsCoherent

\* Until it is killed no commit of the first delivery was one to kill at.
NotDueBefore(n) ==
    plan.kill = 0 =>
        \A k \in 1..n : ~CheckpointReached(After(SubSeq(ops[1], 1, k)), plan.boundary)

KillIsDue ==
    /\ Attempt /\ delivery = 1 /\ pc \in {"hello", "drive"} => NotDueBefore(Len(ops[1]))
    /\ Attempt /\ (pc = "kill" \/ FirstIsOver) =>
          checkpoint = After(ops[1]) /\ KilledAt(ops[1], plan.boundary, plan.kill)

\* Where a world looks for entries before its redelivery.
Looked == IF Attempt THEN {"world", "tree"} ELSE {"world"}

RedeliveryIsClean ==
    /\ FirstIsOver /\ delivery = 1 /\ ~strays => helpers = {}
    /\ pc = "spawn" /\ delivery = 1 /\ ~strays => litter \intersect Looked = {}
    /\ delivery < 2 => carried = {}
    /\ carried \intersect Looked = {}

\* What a worker has sent and nobody read: its greeting, and one message more.
Letters(kinds) ==
    {<<>>, <<"hello">>} \union {<<m>> : m \in kinds} \union {<<"hello", m>> : m \in kinds}

SentBy(state) ==
    CASE state = "paused"                  -> Operations
      [] state \in {"returned", "closing"} -> {"done"}
      [] state = "failing"                 -> {"exception", "refusal"}
      [] state = "gone"                    -> Message \ {"hello"}
      [] OTHER                             -> {}

MessagesFit ==
    /\ inbox \in Letters(SentBy(worker))
    /\ worker \in {"none", "starting"} => inbox = <<>>
    /\ worker = "paused" /\ outbox = "continue" => inbox \in Letters({})
    /\ outbox = "continue" => worker \in {"paused", "gone"}
    /\ pc \in {"exit", "reread"} =>
          inbox = <<>> /\ worker \in {"returned", "closing", "gone"}

Unread(kinds) == \E i \in DOMAIN inbox : inbox[i] \in kinds

\* The worker cannot report done any more: its last audit would fail.
AuditWillFail ==
    /\ pc \in {"hello", "drive"}
    /\ audit.own \/ audit.other
    /\ worker \in {"handling", "paused", "failing", "gone"}
    /\ ~Unread({"done"})

\* The database has a commit the ledger has not, and no commit is to come
\* that could take it over.
ReadWillFail ==
    /\ db.hidden > ledger.hidden
    /\ worker \in {"returned", "closing", "gone"}
    /\ ~Unread(Operations)

SqlIsSeen ==
    /\ db.hidden >= ledger.hidden
    /\ around \subseteq 1..delivery
    /\ Finishing /\ delivery \in around /\ pc \in {"hello", "drive", "exit", "reread"} =>
          AuditWillFail \/ ReadWillFail
    /\ ~Attempt /\ (delivery = 2 \/ pc \in {"between", "spawn"}) => 1 \notin around
    /\ pc = "judge" \/ (pc \in Ended /\ status = "COMPLETED") => 2 \notin around

OutcomeInv ==
    /\ IInv /\ ReceiptIsReady /\ KillIsDue /\ RedeliveryIsClean /\ MessagesFit /\ SqlIsSeen

----------------------------------------------------------------------------
(* What candidate code can do about its exit.                              *)

\* Only the running worker's exit can come out one way or the other.
LEMMA CandidateExits ==
    ASSUME Candidate
    PROVE  /\ worker \in {"none", "gone"} => exit' = exit
           /\ \A d : d # delivery => exit'[d] = exit[d]
<1> USE DEF process, world, Misbehaves
<1>1. CASE Hello
  BY <1>1 DEF Hello
<1>2. CASE OpenStore
  BY <1>2 DEF OpenStore
<1>3. CASE \E op \in Operations : StoreCommit(op)
  BY <1>3 DEF StoreCommit
<1>4. CASE Resume
  BY <1>4 DEF Resume
<1>5. CASE HandlerReturns \/ HandlerRaises
  BY <1>5 DEF HandlerReturns, HandlerRaises
<1>6. CASE WorkerCloses
  BY <1>6 DEF WorkerCloses
<1>7. CASE WorkerExits
  BY <1>7 DEF WorkerExits
<1>8. CASE WorkerDies
  BY <1>8 DEF WorkerDies
<1>9. CASE ForeignSql \/ OwnSql
  BY <1>9 DEF ForeignSql, OwnSql
<1>10. CASE \E place \in {"world", "tree"} : WriteEntry(place) \/ TidyEntry(place)
  BY <1>10 DEF WriteEntry, TidyEntry
<1>11. CASE \E helper \in Helper : LeaveHelper(helper)
  BY <1>11 DEF LeaveHelper
<1>12. CASE HelperExits
  BY <1>12 DEF HelperExits
<1> QED
  BY <1>1, <1>2, <1>3, <1>4, <1>5, <1>6, <1>7, <1>8, <1>9, <1>10, <1>11, <1>12 DEF Candidate

----------------------------------------------------------------------------
(* The receipt: what its validators ask for is there when it is sealed.    *)

\* The rule reads the two snapshots and the kind of the world.
LEMMA ClassificationIsOf ==
    UNCHANGED <<plan, first, final>> => Classification' = Classification
BY DEF Classification, Attempt

LEMMA CandidateReceipt == IInv /\ ReceiptIsReady /\ Candidate => ReceiptIsReady'
<1> SUFFICES ASSUME IInv, ReceiptIsReady, Candidate PROVE ReceiptIsReady'
  OBVIOUS
<1>1. UNCHANGED <<plan, pc, sealed, ledger, ops, checkpoint, first, final, status, integrity,
                  observation, delivery>>
  BY CandidateFrame DEF evidence, verdict
<1>2. worker = "gone" => worker' = "gone" /\ exit' = exit
  BY CandidateIsStill, CandidateExits
<1>3. delivery = 2 => exit'[1] = exit[1]
  BY CandidateExits
<1>4. pc = "postkill" => worker = "gone"
  BY DEF IInv, CrashIsFrozen
<1>5. Classification' = Classification
  BY <1>1, ClassificationIsOf
<1> HIDE DEF Classification
<1> QED
  BY <1>1, <1>2, <1>3, <1>4, <1>5
     DEF ReceiptIsReady, FirstIsOver, ReceiptIsCoherent, Attempt, Ended

\* A completed world that reached its end has all its validator compares.
LEMMA CompletedIsCoherent ==
    ASSUME IInv, ReceiptIsReady, pc = "seal", status = "COMPLETED"
    PROVE  IF Attempt THEN AttemptIsCoherent ELSE ops[1] # <<>> => NoFaultIsCoherent
<1>1. /\ delivery = 2 /\ integrity = "VALID" /\ observation = Classification
      /\ final # NoSnapshot /\ first # NoSnapshot
      /\ exit[2] = "zero" /\ exit[1] = IF Attempt THEN "killed" ELSE "zero"
      /\ Attempt => first = checkpoint
  BY DEF IInv, SnapshotsAreTaken, ReceiptIsReady, FirstIsOver, Ended
<1>2. exit = <<exit[1], exit[2]>>
  BY DEF IInv, TypeOK
<1> QED
  BY <1>1, <1>2 DEF AttemptIsCoherent, NoFaultIsCoherent, Classification

LEMMA ControllerReceipt == IInv /\ ReceiptIsReady /\ Controller => ReceiptIsReady'
<1> SUFFICES ASSUME IInv, ReceiptIsReady, Controller PROVE ReceiptIsReady'
  OBVIOUS
<1>0. /\ delivery \in 0..2 /\ exit \in [1..2 -> Exit]
      /\ refusal # "COMPLETED"
      /\ Progress /\ CrashIsFrozen /\ SnapshotsAreTaken
  BY DEF IInv, TypeOK
<1>c. UNCHANGED <<plan, first, final>> => Classification' = Classification
  BY ClassificationIsOf
<1> HIDE DEF Classification
<1> USE DEF ReceiptIsReady, FirstIsOver, ReceiptIsCoherent, Progress, Ended, evidence, verdict,
            process, Fail, GoTo, Attempt
<1>1. CASE Prepare
  BY <1>0, <1>c, <1>1 DEF Prepare
<1>2. CASE Spawn
  BY <1>0, <1>c, <1>2 DEF Spawn, CrashIsFrozen
<1>3. CASE ExpectHello
  BY <1>0, <1>c, <1>3 DEF ExpectHello
<1>4. CASE AcceptCommit
  BY <1>0, <1>c, <1>4 DEF AcceptCommit, Finishing
<1>5. CASE RefuseCommit
  BY <1>0, <1>c, <1>5 DEF RefuseCommit
<1>6. CASE DeliveryFails
  BY <1>0, <1>c, <1>6 DEF DeliveryFails, StoreRefusal
<1>7. CASE ChannelCloses
  BY <1>0, <1>c, <1>7 DEF ChannelCloses
<1>8. CASE KillWorker
  BY <1>0, <1>c, <1>8 DEF KillWorker
<1>9. CASE ProbeTheCrash
  BY <1>0, <1>c, <1>9 DEF ProbeTheCrash, CrashIsFrozen
<1>10. CASE ReceiveDone
  BY <1>0, <1>c, <1>10 DEF ReceiveDone
<1>11. CASE AwaitExit
  BY <1>0, <1>c, <1>11 DEF AwaitExit, Finishing
<1>12. CASE ReadAfterExit
  BY <1>0, <1>c, <1>12 DEF ReadAfterExit, Finishing
<1>13. CASE BetweenDeliveries
  BY <1>0, <1>c, <1>13 DEF BetweenDeliveries
<1>14. CASE Judge
  BY <1>0, <1>c, <1>14 DEF Judge
<1>15. CASE StepFails
  BY <1>0, <1>c, <1>15 DEF StepFails, StepFailures
<1>16. CASE Cleanup
  BY <1>0, <1>c, <1>16 DEF Cleanup, AfterCleanup, SnapshotsAreTaken, Exit
<1>17. CASE Seal
  BY <1>0, <1>c, <1>17, CompletedIsCoherent DEF Seal
<1> QED
  BY <1>1, <1>2, <1>3, <1>4, <1>5, <1>6, <1>7, <1>8, <1>9, <1>10, <1>11, <1>12, <1>13,
     <1>14, <1>15, <1>16, <1>17 DEF Controller

----------------------------------------------------------------------------
(* The kill: at the commit it was asked for, and at no earlier one.        *)

\* What was sent before a commit is what comes before it in the schedule.
LEMMA PrefixOfAppend ==
    ASSUME NEW s \in Seq(Operations), NEW op \in Operations
    PROVE  /\ Len(Append(s, op)) = Len(s) + 1
           /\ SubSeq(Append(s, op), 1, Len(s) + 1) = Append(s, op)
           /\ \A k \in 1..Len(s) : SubSeq(Append(s, op), 1, k) = SubSeq(s, 1, k)
OBVIOUS

\* A schedule alone makes of the seed what it and an empty one do.
LEMMA AfterAlone ==
    ASSUME NEW s \in Seq(Operations)
    PROVE  After(s) = StateAfter(EffectsIn(s) + EffectsIn(<<>>), MarksIn(s) + MarksIn(<<>>))
<1>1. EffectsIn(s) \in Nat /\ MarksIn(s) \in Nat
  <2>1. "mark" \in Operations
    BY DEF Operations, MarkOps
  <2> QED
    BY <2>1, CountAppend DEF EffectsIn, MarksIn
<1>2. EffectsIn(<<>>) = 0 /\ MarksIn(<<>>) = 0
  BY CountEmpty DEF EffectsIn, MarksIn
<1> QED
  BY <1>1, <1>2 DEF After

LEMMA CandidateKill == KillIsDue /\ Candidate => KillIsDue'
<1> SUFFICES ASSUME KillIsDue, Candidate PROVE KillIsDue'
  OBVIOUS
<1>1. UNCHANGED <<plan, pc, ops, checkpoint, delivery>>
  BY CandidateFrame DEF evidence
<1> QED
  BY <1>1 DEF KillIsDue, NotDueBefore, FirstIsOver, Attempt

\* The commit that is accepted is killed at if it is due, and was the first.
LEMMA AcceptKills ==
    ASSUME IInv, IInv', KillIsDue, AcceptCommit, Attempt, delivery = 1
    PROVE  /\ pc' = "drive" => NotDueBefore(Len(ops[1]))'
           /\ pc' = "kill" =>
                 checkpoint' = After(ops'[1]) /\ KilledAt(ops'[1], plan.boundary, plan.kill)
<1> DEFINE op == Head(inbox)
           schedule == Append(ops[1], op)
<1>1. /\ op \in Operations /\ ops[1] \in Seq(Operations)
      /\ plan.kill \in Nat
  BY WorldAssumption DEF AcceptCommit, Receive, IInv, TypeOK
<1>2. /\ ops'[1] = schedule /\ ledger' = db /\ plan' = plan /\ delivery' = 1
      /\ pc = "drive"
  BY DEF AcceptCommit, IInv, TypeOK, process
<1>3. /\ pc' = "kill" => checkpoint' = db.state /\ KillDue(schedule, db.state)
      /\ pc' = "drive" => ~KillDue(schedule, db.state)
  BY DEF AcceptCommit, GoTo, Fail, Finishing
<1>4. schedule \in Seq(Operations)
  BY <1>1
<1> HIDE DEF op
<1>5. /\ Len(schedule) = Len(ops[1]) + 1 /\ Len(ops[1]) \in Nat
      /\ SubSeq(schedule, 1, Len(schedule)) = schedule
      /\ \A k \in 1..Len(ops[1]) : SubSeq(schedule, 1, k) = SubSeq(ops[1], 1, k)
  BY <1>1, PrefixOfAppend
<1> HIDE DEF schedule
<1>6. db.state = After(schedule)
  <2>1. ledger'.state = StateAfter(EffectsIn(schedule) + EffectsIn(<<>>),
                                   MarksIn(schedule) + MarksIn(<<>>))
    BY <1>2 DEF IInv, LedgerIsExplained, Effects, Marks
  <2> QED
    BY <1>2, <1>4, <2>1, AfterAlone
<1>7. NotDueBefore(Len(ops[1]))
  BY <1>2 DEF KillIsDue
<1>8. plan.kill = 0 =>
         \A k \in 1..Len(ops[1]) : ~CheckpointReached(After(SubSeq(schedule, 1, k)), plan.boundary)
  BY <1>5, <1>7 DEF NotDueBefore
<1>9. CASE pc' = "drive"
  <2>1. plan.kill = 0 => ~CheckpointReached(After(schedule), plan.boundary)
    BY <1>3, <1>6, <1>9 DEF KillDue
  <2>2. plan.kill = 0 =>
           \A k \in 1..Len(schedule) :
               ~CheckpointReached(After(SubSeq(schedule, 1, k)), plan.boundary)
    <3> SUFFICES ASSUME plan.kill = 0, NEW k \in 1..Len(schedule)
                 PROVE  ~CheckpointReached(After(SubSeq(schedule, 1, k)), plan.boundary)
      OBVIOUS
    <3>1. k \in 1..Len(ops[1]) \/ k = Len(schedule)
      BY <1>5
    <3> QED
      BY <1>5, <1>8, <2>1, <3>1
  <2> QED
    BY <1>2, <1>9, <2>2 DEF NotDueBefore
<1>10. CASE pc' = "kill"
  <2>1. KillDue(schedule, After(schedule))
    BY <1>3, <1>6, <1>10
  <2>2. CASE plan.kill > 0
    BY <1>2, <1>3, <1>6, <1>10, <2>1, <2>2 DEF KillDue, KilledAt
  <2>3. CASE plan.kill = 0
    <3>1. CheckpointReached(After(schedule), plan.boundary)
      BY <1>1, <2>1, <2>3 DEF KillDue
    <3>2. 1..(Len(schedule) - 1) = 1..Len(ops[1])
      BY <1>5
    <3>3. KilledAt(schedule, plan.boundary, plan.kill)
      BY <1>8, <2>3, <3>1, <3>2 DEF KilledAt
    <3> QED
      BY <1>2, <1>3, <1>6, <1>10, <3>3
  <2> QED
    BY <1>1, <2>2, <2>3
<1> QED
  BY <1>9, <1>10

LEMMA ControllerKill == IInv /\ IInv' /\ KillIsDue /\ Controller => KillIsDue'
<1> SUFFICES ASSUME IInv, IInv', KillIsDue, Controller PROVE KillIsDue'
  OBVIOUS
<1>0. /\ delivery \in 0..2
      /\ Progress /\ Progress'
  BY DEF IInv, TypeOK
<1>a. ASSUME UNCHANGED <<plan, ops, checkpoint, delivery>>,
             pc' \in Ended \/ pc' = pc \/ (pc' = "drive" /\ pc = "hello")
                \/ (pc' = "postkill" /\ pc = "kill") \/ (pc' = "spawn" /\ pc = "postkill")
                \/ ~Attempt \/ delivery = 2
      PROVE  KillIsDue'
  <2> USE <1>0, <1>a DEF KillIsDue, NotDueBefore, FirstIsOver, Attempt, Ended, Progress, Finishing
  <2>1. CASE ~Attempt
    BY <2>1
  <2>2. CASE delivery = 2
    BY <2>2
  <2>3. CASE Attempt /\ delivery # 2
    BY <2>3
  <2> QED
    BY <2>1, <2>2, <2>3
<1> USE DEF evidence, verdict, process, Fail, GoTo
<1>1. CASE Prepare
  BY <1>0, <1>1 DEF Prepare, KillIsDue, FirstIsOver, Progress, Attempt
<1>2. CASE Spawn
  <2>1. /\ pc = "spawn" /\ pc' = "hello" /\ delivery' = delivery + 1
        /\ UNCHANGED <<plan, ops, checkpoint>>
    BY <1>2 DEF Spawn
  <2>2. CASE delivery = 0
    <3>1. ops'[1] = <<>>
      BY <2>1, <2>2 DEF IInv, LedgerIsExplained
    <3>2. NotDueBefore(Len(ops[1]))'
      BY <3>1 DEF NotDueBefore
    <3> QED
      BY <2>1, <2>2, <3>2 DEF KillIsDue, FirstIsOver
  <2>3. CASE delivery = 1
    BY <2>1, <2>3 DEF KillIsDue, FirstIsOver, Attempt
  <2> QED
    BY <1>0, <2>1, <2>2, <2>3 DEF Progress
<1>3. CASE ExpectHello
  BY <1>a, <1>3 DEF ExpectHello
<1>4. CASE AcceptCommit
  <2>1. /\ pc = "drive" /\ pc' \in {"kill", "drive", "cleanup"}
        /\ UNCHANGED <<plan, delivery>> /\ delivery \in {1, 2}
        /\ pc' = "kill" => Attempt /\ delivery = 1
    BY <1>0, <1>4 DEF AcceptCommit, Finishing, Progress
  <2>2. CASE Attempt /\ delivery = 1
    BY <2>1, <2>2, <1>4, AcceptKills DEF KillIsDue, FirstIsOver, Attempt
  <2>3. CASE Attempt /\ delivery = 2
    <3>1. ops'[1] = ops[1] /\ checkpoint' = checkpoint
      BY <1>4, <2>3 DEF AcceptCommit, Finishing, IInv, TypeOK
    <3> QED
      BY <2>1, <2>3, <3>1 DEF KillIsDue, FirstIsOver, Attempt
  <2>4. CASE ~Attempt
    BY <2>1, <2>4 DEF KillIsDue, Attempt
  <2> QED
    BY <2>1, <2>2, <2>3, <2>4
<1>5. CASE RefuseCommit
  BY <1>a, <1>5 DEF RefuseCommit, Ended
<1>6. CASE DeliveryFails
  BY <1>a, <1>6 DEF DeliveryFails, Ended
<1>7. CASE ChannelCloses
  BY <1>a, <1>7 DEF ChannelCloses, Ended
<1>8. CASE KillWorker
  BY <1>a, <1>8 DEF KillWorker, Ended
<1>9. CASE ProbeTheCrash
  BY <1>a, <1>9 DEF ProbeTheCrash, Ended
<1>10. CASE ReceiveDone
  BY <1>0, <1>a, <1>10 DEF ReceiveDone, Finishing
<1>11. CASE AwaitExit
  BY <1>0, <1>a, <1>11 DEF AwaitExit, Progress, Finishing
<1>12. CASE ReadAfterExit
  BY <1>0, <1>a, <1>12 DEF ReadAfterExit, Progress, Finishing
<1>13. CASE BetweenDeliveries
  BY <1>0, <1>a, <1>13 DEF BetweenDeliveries, Progress
<1>14. CASE Judge
  BY <1>a, <1>14 DEF Judge, Ended
<1>15. CASE StepFails
  BY <1>a, <1>15 DEF StepFails, Ended
<1>16. CASE Cleanup
  BY <1>a, <1>16 DEF Cleanup, Ended
<1>17. CASE Seal
  BY <1>a, <1>17 DEF Seal, Ended
<1> QED
  BY <1>1, <1>2, <1>3, <1>4, <1>5, <1>6, <1>7, <1>8, <1>9, <1>10, <1>11, <1>12, <1>13,
     <1>14, <1>15, <1>16, <1>17 DEF Controller

----------------------------------------------------------------------------
(* The entries: what a redelivery could read was looked for.               *)

LEMMA CandidateEntries == IInv /\ ReceiptIsReady /\ RedeliveryIsClean /\ Candidate
                              => RedeliveryIsClean'
<1> SUFFICES ASSUME IInv, ReceiptIsReady, RedeliveryIsClean, Candidate
             PROVE  RedeliveryIsClean'
  OBVIOUS
<1>1. UNCHANGED <<plan, pc, delivery, strays, carried>>
  BY CandidateFrame
<1>2. worker = "gone" /\ helpers = {} => helpers' = {} /\ litter' = litter
  <2> SUFFICES ASSUME worker = "gone", helpers = {} PROVE helpers' = {} /\ litter' = litter
    OBVIOUS
  <2> USE DEF process, world, Misbehaves, CandidateRuns
  <2>1. CASE Hello \/ OpenStore \/ Resume \/ HandlerReturns \/ HandlerRaises
             \/ WorkerCloses \/ WorkerExits \/ WorkerDies
    BY <2>1 DEF Hello, OpenStore, Resume, HandlerReturns, HandlerRaises, WorkerCloses,
                WorkerExits, WorkerDies
  <2>2. CASE \E op \in Operations : StoreCommit(op)
    BY <2>2 DEF StoreCommit
  <2>3. CASE ForeignSql \/ OwnSql
    BY <2>3 DEF ForeignSql, OwnSql
  <2>4. CASE \E place \in {"world", "tree"} : WriteEntry(place) \/ TidyEntry(place)
    BY <2>4 DEF WriteEntry, TidyEntry
  <2>5. CASE \E helper \in Helper : LeaveHelper(helper)
    BY <2>5 DEF LeaveHelper
  <2>6. CASE HelperExits
    BY <2>6 DEF HelperExits
  <2> QED
    BY <2>1, <2>2, <2>3, <2>4, <2>5, <2>6 DEF Candidate
<1>3. FirstIsOver /\ delivery = 1 => worker = "gone"
  BY DEF FirstIsOver, ReceiptIsReady, IInv, CrashIsFrozen, Progress
<1> QED
  BY <1>1, <1>2, <1>3 DEF RedeliveryIsClean, FirstIsOver, Looked, Attempt

LEMMA ControllerEntries == IInv /\ RedeliveryIsClean /\ Controller => RedeliveryIsClean'
<1> SUFFICES ASSUME IInv, RedeliveryIsClean, Controller PROVE RedeliveryIsClean'
  OBVIOUS
<1>0. delivery \in 0..2 /\ Progress /\ CrashIsFrozen
  BY DEF IInv, TypeOK
<1> USE DEF RedeliveryIsClean, FirstIsOver, Looked, Progress, Ended, evidence, verdict, process,
            world, history, Fail, GoTo, Attempt
<1>1. CASE Prepare
  BY <1>0, <1>1 DEF Prepare
<1>2. CASE Spawn
  BY <1>0, <1>2 DEF Spawn
<1>3. CASE ExpectHello
  BY <1>0, <1>3 DEF ExpectHello
<1>4. CASE AcceptCommit
  BY <1>0, <1>4 DEF AcceptCommit
<1>5. CASE RefuseCommit
  BY <1>0, <1>5 DEF RefuseCommit
<1>6. CASE DeliveryFails
  BY <1>0, <1>6 DEF DeliveryFails
<1>7. CASE ChannelCloses
  BY <1>0, <1>7 DEF ChannelCloses
<1>8. CASE KillWorker
  BY <1>0, <1>8 DEF KillWorker, SurviveKill, IInv, TypeOK, Helper
<1>9. CASE ProbeTheCrash
  BY <1>0, <1>9 DEF ProbeTheCrash, OnlyTheStoreWrote, TreeIsBound
<1>10. CASE ReceiveDone
  BY <1>0, <1>10 DEF ReceiveDone
<1>11. CASE AwaitExit
  <2>1. /\ pc' \in {"reread", "cleanup"} /\ UNCHANGED <<plan, delivery, litter, carried>>
        /\ pc' = "reread" => helpers' = helpers
        /\ strays' = (helpers # {})
    BY <1>11 DEF AwaitExit
  <2>2. pc' = "reread" /\ ~strays' => helpers' = {}
    BY <2>1, Zenon
  <2>3. delivery \in {1, 2}
    BY <1>0, <1>11 DEF AwaitExit
  <2> QED
    BY <2>1, <2>2, <2>3
<1>12. CASE ReadAfterExit
  BY <1>0, <1>12 DEF ReadAfterExit
<1>13. CASE BetweenDeliveries
  BY <1>0, <1>13 DEF BetweenDeliveries, OnlyTheStoreWrote
<1>14. CASE Judge
  BY <1>0, <1>14 DEF Judge
<1>15. CASE StepFails
  BY <1>0, <1>15 DEF StepFails
<1>16. CASE Cleanup
  BY <1>0, <1>16 DEF Cleanup
<1>17. CASE Seal
  BY <1>0, <1>17 DEF Seal
<1> QED
  BY <1>1, <1>2, <1>3, <1>4, <1>5, <1>6, <1>7, <1>8, <1>9, <1>10, <1>11, <1>12, <1>13,
     <1>14, <1>15, <1>16, <1>17 DEF Controller

----------------------------------------------------------------------------
(* The messages a worker can have sent.                                    *)

LEMMA GreetingFirst == \A m : Append(<<"hello">>, m) = <<"hello", m>>
<1> TAKE m
<1> DEFINE either == {"hello", m}
<1>1. <<"hello">> \in Seq(either) /\ <<"hello", m>> \in Seq(either) /\ m \in either
  OBVIOUS
<1>2. /\ Append(<<"hello">>, m) \in Seq(either) /\ Len(Append(<<"hello">>, m)) = 2
      /\ Append(<<"hello">>, m)[1] = "hello" /\ Append(<<"hello">>, m)[2] = m
  <2> HIDE DEF either
  <2> QED
    BY <1>1
<1>3. Len(<<"hello", m>>) = 2 /\ <<"hello", m>>[1] = "hello" /\ <<"hello", m>>[2] = m
  OBVIOUS
<1> DEFINE long == Append(<<"hello">>, m)
           same == <<"hello", m>>
<1>4. /\ long \in Seq(either) /\ same \in Seq(either) /\ Len(long) = 2 /\ Len(same) = 2
      /\ \A i \in 1..2 : long[i] = same[i]
  BY <1>1, <1>2, <1>3
<1> HIDE DEF either, long, same
<1>5. long = same
  BY <1>4, SeqEqual
<1> QED
  BY <1>5 DEF long, same

\* One message joins what has at most a greeting in it; of what is read, the
\* greeting comes first and nothing is left after anything else.
LEMMA LettersMove ==
    ASSUME NEW kinds, NEW box \in Letters(kinds), "hello" \notin kinds
    PROVE  /\ \A wider : kinds \subseteq wider => box \in Letters(wider)
           /\ kinds = {} => \A wider : \A m \in wider : Append(box, m) \in Letters(wider)
           /\ box # <<>> =>
                 /\ Tail(box) \in Letters(kinds)
                 /\ Head(box) # "hello" => Head(box) \in kinds /\ Tail(box) = <<>>
           /\ <<>> \in Letters(kinds)
<1>1. CASE box = <<>>
  BY <1>1 DEF Letters
<1>2. CASE box = <<"hello">>
  <2>1. \A m : Append(<<"hello">>, m) = <<"hello", m>>
    BY GreetingFirst
  <2>2. Tail(<<"hello">>) = <<>> /\ Head(<<"hello">>) = "hello"
    OBVIOUS
  <2>3. \A wider : \A m \in wider : <<"hello", m>> \in Letters(wider)
    BY Zenon DEF Letters
  <2>4. \A wider : {<<>>, <<"hello">>} \subseteq Letters(wider)
    BY Zenon DEF Letters
  <2> HIDE DEF Letters
  <2> QED
    BY <1>2, <2>1, <2>2, <2>3, <2>4
<1>3. CASE \E m \in kinds : box = <<m>>
  BY <1>3 DEF Letters
<1>4. CASE \E m \in kinds : box = <<"hello", m>>
  BY <1>4 DEF Letters
<1> QED
  BY <1>1, <1>2, <1>3, <1>4 DEF Letters

\* No worker greets twice, and a commit is told by a worker that waits.
LEMMA SentByFacts ==
    /\ \A state : "hello" \notin SentBy(state) /\ SentBy(state) \subseteq Message \ {"hello"}
    /\ \A state : SentBy(state) \intersect Operations # {} => state \in {"paused", "gone"}
    /\ \A state : "done" \in SentBy(state) => state \in {"returned", "closing", "gone"}
    /\ SentBy("paused") = Operations /\ SentBy("returned") = {"done"}
    /\ SentBy("closing") = {"done"} /\ SentBy("failing") = {"exception", "refusal"}
    /\ SentBy("gone") = Message \ {"hello"}
    /\ SentBy("none") = {} /\ SentBy("starting") = {}
    /\ SentBy("importing") = {} /\ SentBy("handling") = {}
BY DEF SentBy, Message, Operations, EffectOps, MarkOps

LEMMA CandidateMessages == TypeOK /\ MessagesFit /\ Candidate => MessagesFit'
<1> SUFFICES ASSUME TypeOK, MessagesFit, Candidate PROVE MessagesFit'
  OBVIOUS
<1>0. /\ pc' = pc /\ inbox \in Letters(SentBy(worker))
      /\ "hello" \notin SentBy(worker) /\ SentBy(worker) \subseteq Message \ {"hello"}
  BY CandidateFrame, SentByFacts DEF MessagesFit
<1>1. \A wider : SentBy(worker) \subseteq wider => inbox \in Letters(wider)
  BY <1>0, LettersMove
<1>2. ASSUME SentBy(worker) = {}
      PROVE  \A wider : \A m \in wider : Append(inbox, m) \in Letters(wider)
  BY <1>0, <1>2, LettersMove
<1> HIDE DEF Letters, SentBy
<1> USE SentByFacts DEF MessagesFit, WorkerSends, channel, process, world
<1>3. CASE Hello
  <2>1. inbox' = <<"hello">> /\ worker' = "importing" /\ UNCHANGED outbox /\ worker = "starting"
    BY <1>3 DEF Hello
  <2>2. <<"hello">> \in Letters({})
    BY DEF Letters
  <2> QED
    BY <1>0, <2>1, <2>2
<1>4. CASE OpenStore
  BY <1>0, <1>4 DEF OpenStore
<1>5. CASE \E op \in Operations : StoreCommit(op)
  BY <1>0, <1>2, <1>5 DEF StoreCommit
<1>6. CASE Resume
  BY <1>0, <1>6 DEF Resume
<1>7. CASE HandlerReturns
  <2>1. \/ worker' = "failing" /\ inbox' = Append(inbox, "refusal")
        \/ worker' = "returned" /\ inbox' = Append(inbox, "done")
    BY <1>7 DEF HandlerReturns
  <2>2. worker = "handling" /\ outbox' = outbox
    BY <1>7 DEF HandlerReturns
  <2>3. SentBy(worker) = {}
    BY <2>2
  <2>4. \A wider : \A m \in wider : Append(inbox, m) \in Letters(wider)
    BY <1>2, <2>3
  <2>5. CASE worker' = "failing" /\ inbox' = Append(inbox, "refusal")
    BY <1>0, <2>2, <2>4, <2>5
  <2>6. CASE worker' = "returned" /\ inbox' = Append(inbox, "done")
    BY <1>0, <2>2, <2>4, <2>6
  <2> QED
    BY <2>1, <2>5, <2>6
<1>8. CASE HandlerRaises
  BY <1>0, <1>2, <1>8 DEF HandlerRaises
<1>9. CASE WorkerCloses
  BY <1>0, <1>9 DEF WorkerCloses
<1>10. CASE WorkerExits \/ WorkerDies
  BY <1>0, <1>1, <1>10 DEF WorkerExits, WorkerDies
<1>11. CASE ForeignSql \/ OwnSql
  BY <1>0, <1>11 DEF ForeignSql, OwnSql, Misbehaves
<1>12. CASE \E place \in {"world", "tree"} : WriteEntry(place) \/ TidyEntry(place)
  BY <1>0, <1>12 DEF WriteEntry, TidyEntry, Misbehaves
<1>13. CASE \E helper \in Helper : LeaveHelper(helper)
  BY <1>0, <1>13 DEF LeaveHelper, Misbehaves
<1>14. CASE HelperExits
  BY <1>0, <1>14 DEF HelperExits
<1> QED
  BY <1>3, <1>4, <1>5, <1>6, <1>7, <1>8, <1>9, <1>10, <1>11, <1>12, <1>13, <1>14
     DEF Candidate

LEMMA ControllerMessages == TypeOK /\ Progress /\ MessagesFit /\ Controller => MessagesFit'
<1> SUFFICES ASSUME TypeOK, Progress, MessagesFit, Controller PROVE MessagesFit'
  OBVIOUS
<1>0. /\ inbox \in Letters(SentBy(worker))
      /\ "hello" \notin SentBy(worker) /\ SentBy(worker) \subseteq Message \ {"hello"}
      /\ "hello" \notin Operations
  BY SentByFacts DEF MessagesFit, Operations, EffectOps, MarkOps
<1>1. /\ \A wider : SentBy(worker) \subseteq wider => inbox \in Letters(wider)
      /\ \A kinds : <<>> \in Letters(kinds)
  BY <1>0, LettersMove DEF Letters
<1>2. ASSUME NEW kinds, Receive(kinds)
      PROVE  /\ inbox' \in Letters(SentBy(worker)) /\ worker \notin {"none", "starting"}
             /\ "hello" \notin kinds =>
                   inbox' = <<>> /\ SentBy(worker) \intersect kinds # {}
             /\ inbox \in Letters({}) => inbox' \in Letters({})
  <2>1. inbox # <<>> /\ Head(inbox) \in kinds /\ inbox' = Tail(inbox)
    BY <1>2 DEF Receive
  <2>2. /\ inbox' \in Letters(SentBy(worker))
        /\ Head(inbox) # "hello" => Head(inbox) \in SentBy(worker) /\ inbox' = <<>>
    BY <1>0, <2>1, LettersMove
  <2>3. inbox \in Letters({}) => inbox' \in Letters({})
    BY <2>1, LettersMove
  <2> QED
    BY <2>1, <2>2, <2>3 DEF MessagesFit
<1> HIDE DEF Letters, SentBy
<1> USE SentByFacts DEF MessagesFit, channel, process, Fail, GoTo
<1>3. CASE Prepare
  BY <1>0, <1>3 DEF Prepare
<1>4. CASE Spawn
  BY <1>1, <1>4 DEF Spawn
<1>5. CASE ExpectHello
  BY <1>0, <1>2, <1>5 DEF ExpectHello
<1>6. CASE AcceptCommit
  <2>1. inbox' = <<>> /\ worker \in {"paused", "gone"}
    BY <1>0, <1>2, <1>6 DEF AcceptCommit
  <2>2. /\ worker' = worker /\ pc' \in {"kill", "drive", "cleanup"}
        /\ outbox' \in {outbox, "continue"}
    BY <1>6 DEF AcceptCommit
  <2> QED
    BY <1>1, <2>1, <2>2
<1>7. CASE RefuseCommit
  <2>1. inbox' = <<>>
    BY <1>0, <1>2, <1>7 DEF RefuseCommit
  <2> QED
    BY <1>1, <1>7, <2>1 DEF RefuseCommit
<1>8. CASE DeliveryFails
  <2>1. inbox' = <<>>
    BY <1>2, <1>8 DEF DeliveryFails
  <2> QED
    BY <1>1, <1>8, <2>1 DEF DeliveryFails
<1>9. CASE ChannelCloses
  BY <1>0, <1>9 DEF ChannelCloses
<1>10. CASE KillWorker
  BY <1>0, <1>1, <1>10 DEF KillWorker
<1>11. CASE ProbeTheCrash
  BY <1>0, <1>11 DEF ProbeTheCrash
<1>12. CASE ReceiveDone
  <2>1. inbox' = <<>> /\ "done" \in SentBy(worker)
    BY <1>2, <1>12 DEF ReceiveDone
  <2>2. worker' = worker /\ pc' \in {"exit", "cleanup"} /\ outbox' \in {outbox, "release"}
    BY <1>12 DEF ReceiveDone
  <2> QED
    BY <1>1, <2>1, <2>2
<1>13. CASE AwaitExit
  BY <1>0, <1>13 DEF AwaitExit
<1>14. CASE ReadAfterExit
  BY <1>0, <1>14 DEF ReadAfterExit
<1>15. CASE BetweenDeliveries
  BY <1>0, <1>15 DEF BetweenDeliveries
<1>16. CASE Judge
  BY <1>0, <1>16 DEF Judge
<1>17. CASE StepFails
  BY <1>0, <1>17 DEF StepFails
<1>18. CASE Cleanup
  BY <1>0, <1>1, <1>18 DEF Cleanup
<1>19. CASE Seal
  BY <1>0, <1>19 DEF Seal
<1> QED
  BY <1>3, <1>4, <1>5, <1>6, <1>7, <1>8, <1>9, <1>10, <1>11, <1>12, <1>13, <1>14, <1>15,
     <1>16, <1>17, <1>18, <1>19 DEF Controller

----------------------------------------------------------------------------
(* SQL around the open store: what sees it.                                *)

\* What is unread was sent.
LEMMA UnreadWasSent ==
    ASSUME NEW kinds, NEW sought, inbox \in Letters(kinds), kinds \intersect sought = {},
           "hello" \notin sought
    PROVE  ~Unread(sought)
<1>1. CASE inbox = <<>>
  BY <1>1 DEF Unread
<1>2. CASE inbox = <<"hello">>
  BY <1>2 DEF Unread
<1>3. CASE \E m \in kinds : inbox = <<m>>
  BY <1>3 DEF Unread
<1>4. CASE \E m \in kinds : inbox = <<"hello", m>>
  BY <1>4 DEF Unread
<1> QED
  BY <1>1, <1>2, <1>3, <1>4 DEF Letters

\* What is unread after a message was read was unread before.
LEMMA UnreadShrinks ==
    ASSUME TypeOK, NEW kinds, Receive(kinds), NEW sought
    PROVE  /\ ~Unread(sought) => ~Unread(sought)'
           /\ ~Unread(sought) => Head(inbox) \notin sought
<1>1. inbox \in Seq(Message) /\ inbox # <<>> /\ inbox' = Tail(inbox)
  BY DEF TypeOK, Receive
<1>2. \A i \in DOMAIN inbox' : i + 1 \in DOMAIN inbox /\ inbox'[i] = inbox[i + 1]
  BY <1>1
<1>3. 1 \in DOMAIN inbox /\ Head(inbox) = inbox[1]
  BY <1>1
<1> QED
  BY <1>2, <1>3 DEF Unread

\* What a worker has to say about the audits it cannot escape.
LEMMA UnreadByState ==
    ASSUME MessagesFit
    PROVE  /\ worker \in {"handling", "paused", "failing"} => ~Unread({"done"})
           /\ worker \in {"returned", "closing"} => ~Unread(Operations)
<1>1. inbox \in Letters(SentBy(worker)) /\ "hello" \notin Operations \union {"done"}
  BY DEF MessagesFit, Operations, EffectOps, MarkOps
<1>2. worker \in {"handling", "paused", "failing"} => SentBy(worker) \intersect {"done"} = {}
  BY DEF SentBy, Operations, EffectOps, MarkOps
<1>3. worker \in {"returned", "closing"} => SentBy(worker) \intersect Operations = {}
  BY DEF SentBy, Operations, EffectOps, MarkOps
<1> QED
  BY <1>1, <1>2, <1>3, UnreadWasSent

\* The same, of what a worker that fails or pauses has just sent.
LEMMA FailingSaysNotDone ==
    MessagesFit' /\ worker' \in {"paused", "failing"} => ~Unread({"done"})'
<1> SUFFICES ASSUME MessagesFit', worker' \in {"paused", "failing"} PROVE ~Unread({"done"})'
  OBVIOUS
<1> DEFINE box == inbox'
           sent == SentBy(worker')
<1>1. box \in Letters(sent)
  BY DEF MessagesFit
<1>2. "done" \notin sent
  BY SentByFacts DEF Operations, EffectOps, MarkOps
<1>3. \A i \in DOMAIN box : box[i] # "done"
  <2> HIDE DEF sent, box
  <2>1. CASE box = <<>> \/ box = <<"hello">>
    BY <2>1
  <2>2. CASE \E m \in sent : box = <<m>> \/ box = <<"hello", m>>
    BY <1>2, <2>2
  <2> QED
    BY <1>1, <2>1, <2>2 DEF Letters
<1> QED
  BY <1>3 DEF Unread

\* A write around the open store makes an audit fail, or comes when no commit
\* is to be reported any more.
LEMMA WriteIsSeen ==
    ASSUME IInv, MessagesFit, db.hidden >= ledger.hidden,
           pc \in {"hello", "drive", "exit", "reread"},
           worker' = worker, inbox' = inbox, ledger' = ledger, pc' = pc,
           db'.hidden = db.hidden + 1,
           \/ worker = "handling" /\ (audit'.own \/ audit'.other)
           \/ StoreOpen /\ audit'.other
    PROVE  AuditWillFail' \/ ReadWillFail'
<1>1. db.hidden \in Nat /\ ledger.hidden \in Nat
  BY DEF IInv, TypeOK, Database
<1>2. db'.hidden > ledger'.hidden
  BY <1>1
<1>3. CASE worker \in {"handling", "paused"}
  <2>1. pc \in {"hello", "drive"}
    BY <1>3 DEF MessagesFit
  <2>2. ~Unread({"done"})'
    BY <1>3, UnreadByState DEF Unread
  <2> QED
    BY <1>3, <2>1, <2>2 DEF AuditWillFail
<1>4. CASE worker = "returned"
  <2>1. ~Unread(Operations)'
    BY <1>4, UnreadByState DEF Unread
  <2> QED
    BY <1>2, <1>4, <2>1 DEF ReadWillFail
<1> QED
  BY <1>3, <1>4 DEF StoreOpen

LEMMA CandidateSql ==
    IInv /\ ReceiptIsReady /\ MessagesFit /\ SqlIsSeen /\ Candidate => SqlIsSeen'
<1> SUFFICES ASSUME IInv, ReceiptIsReady, MessagesFit, SqlIsSeen, Candidate
             PROVE  SqlIsSeen'
  OBVIOUS
<1>1. UNCHANGED <<plan, pc, ledger, status, delivery>>
  BY CandidateFrame DEF evidence, verdict
<1>2. /\ db.hidden \in Nat /\ ledger.hidden \in Nat /\ delivery \in 0..2
      /\ inbox \in Seq(Message) /\ Progress /\ db.hidden >= ledger.hidden
      /\ db \in Database
  BY DEF IInv, TypeOK, Database, SqlIsSeen
<1>3. ASSUME around' = around, db'.hidden >= db.hidden, db'.hidden \in Nat,
             AuditWillFail => AuditWillFail', ReadWillFail => ReadWillFail'
      PROVE  SqlIsSeen'
  BY <1>1, <1>2, <1>3 DEF SqlIsSeen, Finishing, Attempt, Ended
<1>4. ASSUME around' = around \/ around' = around \union {delivery},
             db'.hidden = db.hidden + 1, UNCHANGED <<worker, inbox>>,
             AuditWillFail => AuditWillFail',
             around' # around => 
                \/ worker = "handling" /\ (audit'.own \/ audit'.other)
                \/ StoreOpen /\ audit'.other
      PROVE  SqlIsSeen'
  <2>1. ReadWillFail => ReadWillFail'
    BY <1>1, <1>2, <1>4 DEF ReadWillFail, Unread
  <2>2. CASE around' = around
    BY <1>2, <1>3, <1>4, <2>1, <2>2
  <2>3. CASE around' # around
    <3>1. worker \in {"handling", "paused", "returned"} /\ delivery \in 1..2
      BY <1>2, <1>4, <2>3 DEF StoreOpen, Progress
    <3>2. ~(pc = "judge" \/ (pc \in Ended /\ status = "COMPLETED"))
          /\ pc # "between" /\ ~(pc = "spawn" /\ delivery = 1)
      BY <3>1 DEF ReceiptIsReady
    <3>3. around' = around \union {delivery} /\ pc # "spawn"
      BY <1>2, <1>4, <2>3, <3>1, <3>2 DEF Progress
    <3>4. pc \in {"hello", "drive", "exit", "reread"} => AuditWillFail' \/ ReadWillFail'
      BY <1>1, <1>2, <1>4, <2>3, WriteIsSeen
    <3> QED
      BY <1>1, <1>2, <1>4, <3>1, <3>2, <3>3, <3>4 DEF SqlIsSeen, Finishing, Attempt, Ended
  <2> QED
    BY <2>2, <2>3
<1> USE DEF process, world, channel, history, Misbehaves
<1>5. CASE Hello
  <2>1. /\ ~AuditWillFail /\ ~ReadWillFail /\ UNCHANGED <<around, db>>
    BY <1>5 DEF Hello, AuditWillFail, ReadWillFail
  <2> QED
    BY <1>2, <1>3, <2>1
<1>6. CASE OpenStore
  <2>1. /\ ~AuditWillFail /\ ~ReadWillFail /\ UNCHANGED <<around, db>>
    BY <1>6 DEF OpenStore, AuditWillFail, ReadWillFail
  <2> QED
    BY <1>2, <1>3, <2>1
<1>7. CASE \E op \in Operations : StoreCommit(op)
  <2> PICK op \in Operations : StoreCommit(op)
    BY <1>7
  <2>1. /\ worker = "handling" /\ worker' = "paused" /\ UNCHANGED <<around, audit>>
        /\ ~ReadWillFail
    BY DEF StoreCommit, ReadWillFail
  <2>2. db'.hidden = db.hidden
    BY <1>2 DEF StoreCommit, Database
  <2>3. MessagesFit'
    BY <1>7, CandidateMessages DEF Candidate, IInv
  <2>5. ~Unread({"done"})'
    BY <2>1, <2>3, FailingSaysNotDone
  <2>6. AuditWillFail => AuditWillFail'
    BY <1>1, <2>1, <2>5 DEF AuditWillFail
  <2> QED
    BY <1>2, <1>3, <2>1, <2>2, <2>6
<1>8. CASE Resume
  <2>1. /\ AuditWillFail => AuditWillFail'
        /\ ~ReadWillFail /\ UNCHANGED <<around, db>>
    BY <1>1, <1>8 DEF Resume, AuditWillFail, ReadWillFail, Unread
  <2> QED
    BY <1>2, <1>3, <2>1
<1>9. CASE HandlerReturns
  <2>1. ~ReadWillFail /\ UNCHANGED <<around, db, audit>>
    BY <1>9 DEF HandlerReturns, ReadWillFail
  <2>2. AuditWillFail => worker' = "failing"
    BY <1>9 DEF HandlerReturns, AuditWillFail
  <2>3. MessagesFit'
    BY <1>9, CandidateMessages DEF Candidate, IInv
  <2>4. AuditWillFail => ~Unread({"done"})'
    BY <2>2, <2>3, FailingSaysNotDone
  <2>5. AuditWillFail => AuditWillFail'
    BY <1>1, <2>1, <2>2, <2>4 DEF AuditWillFail
  <2> QED
    BY <1>2, <1>3, <2>1, <2>5
<1>10. CASE HandlerRaises
  <2>1. ~ReadWillFail /\ UNCHANGED <<around, db, audit>> /\ worker' = "failing"
    BY <1>10 DEF HandlerRaises, ReadWillFail
  <2>2. MessagesFit'
    BY <1>10, CandidateMessages DEF Candidate, IInv
  <2>3. ~Unread({"done"})'
    BY <2>1, <2>2, FailingSaysNotDone
  <2>4. AuditWillFail => AuditWillFail'
    BY <1>1, <2>1, <2>3 DEF AuditWillFail
  <2> QED
    BY <1>2, <1>3, <2>1, <2>4
<1>11. CASE WorkerCloses
  <2>1. ~AuditWillFail /\ UNCHANGED <<around, inbox>> /\ worker' = "closing"
    BY <1>11 DEF WorkerCloses, AuditWillFail
  <2>2. db'.hidden = db.hidden
    BY <1>2, <1>11 DEF WorkerCloses, Database
  <2>3. ReadWillFail => ReadWillFail'
    BY <1>1, <2>1, <2>2 DEF ReadWillFail, Unread
  <2> QED
    BY <1>2, <1>3, <2>1, <2>2, <2>3
<1>12. CASE WorkerExits \/ WorkerDies
  <2>1. UNCHANGED <<around, inbox, db, audit>> /\ worker' = "gone"
    BY <1>12 DEF WorkerExits, WorkerDies
  <2>2. (ReadWillFail => ReadWillFail') /\ (AuditWillFail => AuditWillFail')
    BY <1>1, <2>1 DEF ReadWillFail, AuditWillFail, Unread
  <2> QED
    BY <1>2, <1>3, <2>1, <2>2
<1>13. CASE ForeignSql
  <2>1. /\ around' = around \/ around' = around \union {delivery}
        /\ UNCHANGED <<worker, inbox>> /\ audit' = [audit EXCEPT !.other = TRUE]
        /\ around' # around => StoreOpen
        /\ \E seen \in BOOLEAN :
              db' = [db EXCEPT !.other = seen, !.hidden = db.hidden + 1, !.log = TRUE]
    BY <1>13 DEF ForeignSql
  <2>2. db'.hidden = db.hidden + 1 /\ audit'.other
    BY <1>2, <2>1 DEF Database, IInv, TypeOK
  <2>3. AuditWillFail => AuditWillFail'
    BY <1>1, <2>1, <2>2 DEF AuditWillFail, Unread
  <2> QED
    BY <1>4, <2>1, <2>2, <2>3
<1>14. CASE OwnSql
  <2>1. /\ around' = around \/ around' = around \union {delivery}
        /\ UNCHANGED <<worker, inbox>> /\ audit' = [audit EXCEPT !.own = TRUE]
        /\ worker = "handling"
        /\ \E seen \in BOOLEAN :
              db' = [db EXCEPT !.other = seen, !.hidden = db.hidden + 1, !.log = TRUE]
    BY <1>14 DEF OwnSql
  <2>2. db'.hidden = db.hidden + 1 /\ audit'.own
    BY <1>2, <2>1 DEF Database, IInv, TypeOK
  <2>3. AuditWillFail => AuditWillFail'
    BY <1>1, <2>1, <2>2 DEF AuditWillFail, Unread
  <2> QED
    BY <1>4, <2>1, <2>2, <2>3
<1>15. ASSUME UNCHANGED <<worker, inbox, db, audit, around>>
       PROVE  SqlIsSeen'
  <2>1. (ReadWillFail => ReadWillFail') /\ (AuditWillFail => AuditWillFail')
    BY <1>1, <1>15 DEF ReadWillFail, AuditWillFail, Unread
  <2> QED
    BY <1>2, <1>3, <1>15, <2>1
<1>16. CASE \E place \in {"world", "tree"} : WriteEntry(place) \/ TidyEntry(place)
  BY <1>15, <1>16 DEF WriteEntry, TidyEntry
<1>17. CASE (\E helper \in Helper : LeaveHelper(helper)) \/ HelperExits
  BY <1>15, <1>17 DEF LeaveHelper, HelperExits
<1> QED
  BY <1>5, <1>6, <1>7, <1>8, <1>9, <1>10, <1>11, <1>12, <1>13, <1>14, <1>16, <1>17
     DEF Candidate

LEMMA ControllerSql ==
    IInv /\ ReceiptIsReady /\ MessagesFit /\ SqlIsSeen /\ Controller => SqlIsSeen'
<1> SUFFICES ASSUME IInv, ReceiptIsReady, MessagesFit, SqlIsSeen, Controller
             PROVE  SqlIsSeen'
  OBVIOUS
<1>1. /\ db.hidden \in Nat /\ ledger.hidden \in Nat /\ delivery \in 0..2
      /\ Progress /\ TypeOK /\ db \in Database /\ ledger \in Database
      /\ db.hidden >= ledger.hidden
      /\ around \subseteq 1..delivery /\ refusal # "COMPLETED"
  BY DEF IInv, TypeOK, Database, SqlIsSeen
<1> USE DEF evidence, verdict, process, channel, world, history, Fail, GoTo
\* Steps that leave the database, the ledger and the worker to themselves.
<1>2. ASSUME UNCHANGED <<plan, db, ledger, delivery, around>>,
             pc' \in Ended => pc \in Ended \/ pc = "judge" \/ status' # "COMPLETED",
             pc' \in Ended /\ status' = "COMPLETED" => status = "COMPLETED",
             pc' = "between" => pc = "between",
             pc' = "judge" => pc = "judge",
             pc' = "spawn" => pc \in {"prepare", "between", "postkill"},
             pc' \in {"hello", "drive", "exit", "reread"} /\ Finishing =>
                /\ pc \in {"hello", "drive", "exit", "reread"}
                /\ AuditWillFail => AuditWillFail'
                /\ ReadWillFail => ReadWillFail'
      PROVE  SqlIsSeen'
  BY <1>1, <1>2 DEF SqlIsSeen, Finishing, Attempt, Progress, Ended
<1>3. CASE Prepare
  BY <1>2, <1>3 DEF Prepare, Ended
<1>4. CASE Spawn
  <2>1. /\ delivery' = delivery + 1 /\ pc = "spawn" /\ pc' = "hello"
        /\ UNCHANGED <<plan, db, ledger, around, status>>
    BY <1>4 DEF Spawn
  <2>2. delivery \in {0, 1}
    BY <1>1, <2>1 DEF Progress
  <2>3. delivery' \notin around /\ around \subseteq 1..delivery'
    BY <1>1, <2>1, <2>2
  <2>4. ~Attempt => 1 \notin around
    BY <1>1, <2>1, <2>2 DEF SqlIsSeen
  <2> QED
    BY <1>1, <2>1, <2>3, <2>4 DEF SqlIsSeen, Attempt, Ended
<1>5. CASE ExpectHello
  <2>1. /\ pc = "hello" /\ pc' = "drive" /\ worker' = worker
        /\ UNCHANGED <<plan, db, ledger, delivery, around, status, audit>>
        /\ Receive({"hello"})
    BY <1>5 DEF ExpectHello
  <2>2. (AuditWillFail => AuditWillFail') /\ (ReadWillFail => ReadWillFail')
    BY <1>1, <2>1, UnreadShrinks DEF AuditWillFail, ReadWillFail
  <2> QED
    BY <1>2, <2>1, <2>2 DEF Ended
<1>6. CASE AcceptCommit
  <2>1. /\ pc = "drive" /\ pc' \in {"drive", "kill", "cleanup"} /\ worker' = worker
        /\ UNCHANGED <<plan, db, delivery, around, audit>> /\ ledger' = db
        /\ pc' = "cleanup" => status' # "COMPLETED"
        /\ Receive(Operations) /\ Head(inbox) \in Operations
    BY <1>6 DEF AcceptCommit, Receive
  <2>2. ~ReadWillFail /\ (AuditWillFail /\ pc' = "drive" => AuditWillFail')
    BY <1>1, <2>1, UnreadShrinks DEF AuditWillFail, ReadWillFail
  <2> QED
    BY <1>1, <2>1, <2>2 DEF SqlIsSeen, Finishing, Attempt, Ended
<1>7. CASE RefuseCommit
  BY <1>2, <1>7 DEF RefuseCommit, Ended
<1>8. CASE DeliveryFails
  BY <1>2, <1>8 DEF DeliveryFails, StoreRefusal, Ended
<1>9. CASE ChannelCloses
  BY <1>2, <1>9 DEF ChannelCloses, Ended
<1>10. CASE KillWorker
  BY <1>2, <1>10 DEF KillWorker, Ended
<1>11. CASE ProbeTheCrash
  BY <1>2, <1>11 DEF ProbeTheCrash, Ended
<1>12. CASE ReceiveDone
  <2>1. /\ pc = "drive" /\ pc' \in {"exit", "cleanup"} /\ worker' = worker
        /\ UNCHANGED <<plan, db, ledger, delivery, around, audit>>
        /\ pc' = "cleanup" => status' # "COMPLETED"
        /\ Receive({"done"}) /\ Head(inbox) = "done"
    BY <1>12 DEF ReceiveDone, Receive
  <2>2. ~AuditWillFail /\ (ReadWillFail => ReadWillFail')
    BY <1>1, <2>1, UnreadShrinks DEF AuditWillFail, ReadWillFail
  <2> QED
    BY <1>2, <2>1, <2>2 DEF Ended
<1>13. CASE AwaitExit
  <2>1. /\ pc = "exit" /\ pc' \in {"reread", "cleanup"} /\ UNCHANGED <<worker, inbox>>
        /\ UNCHANGED <<plan, db, ledger, delivery, around>>
    BY <1>13 DEF AwaitExit
  <2>2. pc' = "cleanup" => status' # "COMPLETED"
    BY <1>1, <1>13 DEF AwaitExit
  <2>3. ~AuditWillFail /\ (ReadWillFail => ReadWillFail')
    BY <2>1 DEF AuditWillFail, ReadWillFail, Unread
  <2> QED
    BY <1>2, <2>1, <2>2, <2>3 DEF Ended
<1>14. CASE ReadAfterExit
  <2>1. /\ pc = "reread" /\ UNCHANGED <<plan, db, delivery, around>> /\ delivery \in {1, 2}
        /\ Finishing /\ status = "COMPLETED"
    BY <1>1, <1>14 DEF ReadAfterExit, Progress, Ended
  <2>2. CASE ~ImageIsTheLedgers
    BY <1>2, <1>14, <2>1, <2>2 DEF ReadAfterExit, Ended
  <2>3. CASE ImageIsTheLedgers
    <3>1. /\ ledger' = db /\ pc' = IF delivery = 1 THEN "between" ELSE "judge"
      BY <1>14, <2>1, <2>3 DEF ReadAfterExit
    <3>2. db.hidden = ledger.hidden
      BY <1>1, <2>3 DEF ImageIsTheLedgers, Database
    <3>3. ~AuditWillFail /\ ~ReadWillFail
      BY <1>1, <2>1, <3>2 DEF AuditWillFail, ReadWillFail
    <3>4. delivery \notin around
      BY <2>1, <3>3 DEF SqlIsSeen
    <3> QED
      BY <1>1, <2>1, <3>1, <3>4 DEF SqlIsSeen, Finishing, Attempt, Ended
  <2> QED
    BY <2>2, <2>3
<1>15. CASE BetweenDeliveries
  BY <1>2, <1>15 DEF BetweenDeliveries, Ended
<1>16. CASE Judge
  BY <1>1, <1>2, <1>16 DEF Judge, Ended, Progress
<1>17. CASE StepFails
  <2>1. /\ pc' = "cleanup" /\ status' # "COMPLETED"
        /\ UNCHANGED <<plan, db, ledger, delivery, around>>
    BY <1>17 DEF StepFails, StepFailures
  <2> QED
    BY <1>2, <2>1 DEF Ended
<1>18. CASE Cleanup
  BY <1>2, <1>18 DEF Cleanup, AfterCleanup, Ended
<1>19. CASE Seal
  BY <1>2, <1>19 DEF Seal, Ended
<1> QED
  BY <1>3, <1>4, <1>5, <1>6, <1>7, <1>8, <1>9, <1>10, <1>11, <1>12, <1>13, <1>14, <1>15,
     <1>16, <1>17, <1>18, <1>19 DEF Controller

----------------------------------------------------------------------------
(* The invariant of the outcome, and the promises it keeps.                *)

LEMMA OutcomeInit == Init => OutcomeInv
<1> SUFFICES ASSUME Init PROVE OutcomeInv
  OBVIOUS
<1> USE DEF Init
<1>1. IInv
  BY InvariantInit
<1>2. ReceiptIsReady
  BY DEF ReceiptIsReady, FirstIsOver, ReceiptIsCoherent, Ended
<1>3. KillIsDue
  BY DEF KillIsDue, FirstIsOver
<1>4. RedeliveryIsClean
  BY DEF RedeliveryIsClean, FirstIsOver
<1>5. MessagesFit
  BY DEF MessagesFit, Letters
<1>6. SqlIsSeen
  BY DEF SqlIsSeen, SeededDatabase, Ended, Finishing
<1> QED
  BY <1>1, <1>2, <1>3, <1>4, <1>5, <1>6 DEF OutcomeInv

LEMMA OutcomeStep == OutcomeInv /\ [Next]_vars => OutcomeInv'
<1> SUFFICES ASSUME OutcomeInv, [Next]_vars PROVE OutcomeInv'
  OBVIOUS
<1>0. IInv /\ IInv' /\ TypeOK /\ Progress
  BY InvariantStep DEF OutcomeInv, IInv
<1>1. CASE Candidate
  BY <1>0, <1>1, CandidateReceipt, CandidateKill, CandidateEntries, CandidateMessages,
     CandidateSql DEF OutcomeInv
<1>2. CASE Controller
  BY <1>0, <1>2, ControllerReceipt, ControllerKill, ControllerEntries, ControllerMessages,
     ControllerSql DEF OutcomeInv
<1>3. CASE UNCHANGED vars
  <2> USE <1>3 DEF vars, evidence, verdict, channel, process, world, history
  <2>1. Classification' = Classification
    BY ClassificationIsOf
  <2>2. ReceiptIsReady'
    BY <2>1 DEF OutcomeInv, ReceiptIsReady, FirstIsOver, ReceiptIsCoherent, Attempt, Ended
  <2>3. KillIsDue'
    BY DEF OutcomeInv, KillIsDue, NotDueBefore, FirstIsOver, Attempt
  <2>4. RedeliveryIsClean'
    BY DEF OutcomeInv, RedeliveryIsClean, FirstIsOver, Looked, Attempt
  <2>5. MessagesFit'
    BY DEF OutcomeInv, MessagesFit
  <2>6. SqlIsSeen'
    BY DEF OutcomeInv, SqlIsSeen, AuditWillFail, ReadWillFail, Unread, Finishing, Attempt, Ended
  <2> QED
    BY <1>0, <2>2, <2>3, <2>4, <2>5, <2>6 DEF OutcomeInv
<1> QED
  BY <1>1, <1>2, <1>3 DEF Next

\* What a receipt will be asked for, when a world may be killed, what its
\* redelivery finds and what its audits will see hold at every step.
THEOREM OutcomeInvHolds == Spec => []OutcomeInv
BY OutcomeInit, OutcomeStep, PTL DEF Spec

\* A completed attempt was killed after the commit it was asked to be killed
\* after, or at the first that reached its boundary (_wait_for_checkpoint).
THEOREM KillIsExact == Spec => []KillPointIsExact
<1>1. OutcomeInv => KillPointIsExact
  <2> SUFFICES ASSUME OutcomeInv, Completed, Attempt PROVE KillPointIsExact
    BY DEF KillPointIsExact
  <2>1. delivery = 2
    BY DEF OutcomeInv, IInv, SnapshotsAreTaken, Progress, Ended, Completed
  <2> QED
    BY <2>1 DEF OutcomeInv, KillIsDue, FirstIsOver, KillPointIsExact
<1> QED
  BY <1>1, OutcomeInvHolds, PTL

\* No redelivery of a completed world could read what was left outside the
\* store where the world looks, whether it was removed again or not.
THEOREM EntriesForfeit == Spec => []HiddenEntriesForfeitTheVerdict
<1>1. OutcomeInv => HiddenEntriesForfeitTheVerdict
  BY DEF OutcomeInv, RedeliveryIsClean, Looked, HiddenEntriesForfeitTheVerdict
<1> QED
  BY <1>1, OutcomeInvHolds, PTL

\* SQL around the open store of a delivery that ran to its end leaves no
\* completed receipt, whatever the handler swallowed or undid.
THEOREM SqlIsRefused == Spec => []SqlAroundAFinishedDeliveryIsRefused
<1>1. OutcomeInv => SqlAroundAFinishedDeliveryIsRefused
  <2> SUFFICES ASSUME OutcomeInv, Completed PROVE SqlAroundAFinishedDeliveryIsRefused
    BY DEF SqlAroundAFinishedDeliveryIsRefused
  <2>1. delivery = 2 /\ pc = "finished" /\ status = "COMPLETED"
    BY DEF OutcomeInv, IInv, SnapshotsAreTaken, Progress, Ended, Completed
  <2>2. around \subseteq 1..2 /\ 2 \notin around /\ (~Attempt => 1 \notin around)
    BY <2>1 DEF OutcomeInv, SqlIsSeen, Ended
  <2> QED
    BY <2>2 DEF SqlAroundAFinishedDeliveryIsRefused
<1> QED
  BY <1>1, OutcomeInvHolds, PTL

\* The validators of a receipt reject nothing the controller builds but the
\* census of a handler that never called the store.
THEOREM CoherentReceipts == Spec => []ReceiptIsCoherent
<1>1. OutcomeInv => ReceiptIsCoherent
  BY DEF OutcomeInv, ReceiptIsReady
<1> QED
  BY <1>1, OutcomeInvHolds, PTL

----------------------------------------------------------------------------
(* The promise: a world refines WorldPromise, step by step.                *)

\* The outcome the promise speaks of.
Outcome ==
    IF status # "COMPLETED" \/ sealed = "raised" THEN "refused"
    ELSE IF observation = "NOT_OBSERVED" THEN "open"
    ELSE observation

\* Until the verdict is fixed the outcome is open, and a failure refuses it.
LEMMA OutcomeFacts ==
    ASSUME IInv
    PROVE  /\ pc \notin Ended => Outcome = "open"
           /\ pc \notin Ended /\ status' # "COMPLETED" => Outcome' = "refused"
           /\ UNCHANGED <<status, sealed, observation>> => Outcome' = Outcome
BY DEF IInv, Progress, Ended, Outcome

\* The promise is about the same commits and rules.
LEMMA SameRules ==
    /\ Promise!Seed = Seed /\ Promise!Operations = Operations
    /\ \A s, op : Promise!Apply(s, op) = Apply(s, op)
    /\ \A s, op : Promise!StoreCommits(s, op) <=> StoreCommits(s, op)
    /\ \A s, initial : Promise!ClassifyFinal(s, initial) = ClassifyFinal(s, initial)
    /\ \A f, s, initial : Promise!ClassifyDelivery(f, s, initial) = ClassifyDelivery(f, s, initial)
<1>1. Promise!Seed = Seed
  BY DEF Promise!Seed, Seed
<1>2. Promise!Operations = Operations
  BY DEF Promise!Operations, Operations, Promise!EffectOps, EffectOps, Promise!MarkOps, MarkOps
<1>3. \A s, op : Promise!Apply(s, op) = Apply(s, op)
  BY DEF Promise!Apply, Apply, Promise!EffectOps, EffectOps, Promise!MarkOps, MarkOps
<1>4. \A s, op : Promise!StoreCommits(s, op) <=> StoreCommits(s, op)
  BY DEF Promise!StoreCommits, StoreCommits, Promise!MarkOps, MarkOps
<1>5. \A s, initial : Promise!ClassifyFinal(s, initial) = ClassifyFinal(s, initial)
  BY DEF Promise!ClassifyFinal, ClassifyFinal, Promise!Duplicated, Duplicated,
         Promise!OnceAndMarked, OnceAndMarked
<1>6. \A f, s, initial : Promise!ClassifyDelivery(f, s, initial) = ClassifyDelivery(f, s, initial)
  BY <1>5 DEF Promise!ClassifyDelivery, ClassifyDelivery
<1> QED
  BY <1>1, <1>2, <1>3, <1>4, <1>5, <1>6

LEMMA PromiseInit == Init => Promise!Init
BY SameRules DEF Init, Promise!Init, SeededDatabase, Attempt

\* What candidate code does is a commit of the store, a write around it, or
\* nothing the promise speaks of.
LEMMA CandidatePromises == IInv /\ Candidate => [Promise!Next]_(Promise!promise)
<1> SUFFICES ASSUME IInv, Candidate PROVE Promise!Next \/ UNCHANGED Promise!promise
  OBVIOUS
<1>1. UNCHANGED <<plan, pc, sealed, first, final, status, observation>>
  BY CandidateFrame DEF evidence, verdict
<1>2. UNCHANGED <<first, final>> /\ (~Attempt)' = ~Attempt /\ Outcome' = Outcome
  BY <1>1 DEF Attempt, Outcome
<1>3. db \in Database
  BY DEF IInv, TypeOK
<1>4. ASSUME db'.state = db.state, db'.other \in BOOLEAN
      PROVE  Promise!WriteAround
  BY <1>2, <1>4 DEF Promise!WriteAround, Outcome
<1>5. ASSUME db'.state = db.state, db'.other = db.other
      PROVE  Promise!WriteAround
  BY <1>3, <1>4, <1>5 DEF Database
<1> USE DEF process, world, channel, history, Misbehaves
<1>6. CASE \E op \in Operations : StoreCommit(op)
  <2> PICK op \in Operations : StoreCommit(op)
    BY <1>6
  <2>1. StoreCommits(db.state, op) /\ db'.state = Apply(db.state, op) /\ db'.other = db.other
    BY <1>3 DEF StoreCommit, Database
  <2>2. Promise!Commit(op)
    BY <1>2, <2>1, SameRules DEF Promise!Commit, Outcome
  <2> QED
    BY <2>2, SameRules DEF Promise!Next
<1>7. CASE ForeignSql \/ OwnSql
  <2> PICK seen \in BOOLEAN :
             db' = [db EXCEPT !.other = seen, !.hidden = db.hidden + 1, !.log = TRUE]
    BY <1>7 DEF ForeignSql, OwnSql
  <2>1. db'.state = db.state /\ db'.other \in BOOLEAN
    BY <1>3 DEF Database
  <2> QED
    BY <1>4, <2>1 DEF Promise!Next
<1>8. CASE WorkerCloses
  <2>1. db'.state = db.state /\ db'.other = db.other
    BY <1>3, <1>8 DEF WorkerCloses, Database
  <2> QED
    BY <1>5, <2>1 DEF Promise!Next
<1>9. ASSUME db' = db PROVE Promise!Next
  BY <1>5, <1>9 DEF Promise!Next
<1>10. CASE Hello \/ OpenStore \/ Resume \/ HandlerReturns \/ HandlerRaises \/ WorkerExits
             \/ WorkerDies \/ HelperExits
  BY <1>9, <1>10 DEF Hello, OpenStore, Resume, HandlerReturns, HandlerRaises, WorkerExits,
                     WorkerDies, HelperExits
<1>11. CASE \E place \in {"world", "tree"} : WriteEntry(place) \/ TidyEntry(place)
  BY <1>9, <1>11 DEF WriteEntry, TidyEntry
<1>12. CASE \E helper \in Helper : LeaveHelper(helper)
  BY <1>9, <1>12 DEF LeaveHelper
<1> QED
  BY <1>6, <1>7, <1>8, <1>10, <1>11, <1>12 DEF Candidate

\* What the controller does is a reading, the ruling, a refusal, or nothing
\* the promise speaks of.
LEMMA ControllerPromises == IInv /\ Controller => [Promise!Next]_(Promise!promise)
<1> SUFFICES ASSUME IInv, Controller PROVE Promise!Next \/ UNCHANGED Promise!promise
  OBVIOUS
<1>0. /\ Progress /\ LedgerIsExplained /\ SnapshotsAreTaken /\ delivery \in 0..2
      /\ db \in Database /\ ledger \in Database
      /\ refusal # "COMPLETED"
  BY DEF IInv, TypeOK
<1>o. /\ pc \notin Ended => Outcome = "open"
      /\ pc \notin Ended /\ status' # "COMPLETED" => Outcome' = "refused"
      /\ UNCHANGED <<status, sealed, observation>> => Outcome' = Outcome
  BY OutcomeFacts
<1>c. UNCHANGED plan => (~Attempt)' = ~Attempt
  BY DEF Attempt
<1>1. ASSUME UNCHANGED <<plan, db, first, final, status, sealed, observation>>
      PROVE  UNCHANGED Promise!promise
  BY <1>o, <1>c, <1>1 DEF Promise!promise, Outcome
<1>2. ASSUME UNCHANGED <<plan, db, first, final>>, Outcome # "refused", Outcome' = "refused"
      PROVE  Promise!Refuse
  BY <1>c, <1>2 DEF Promise!Refuse, Outcome
<1>3. ASSUME UNCHANGED <<plan, db, first, final>>, pc \notin Ended, status' # "COMPLETED"
      PROVE  Promise!Next
  BY <1>o, <1>2, <1>3 DEF Promise!Next
<1> USE DEF evidence, verdict, process, channel, world, history, Fail, GoTo
<1>4. CASE Prepare \/ Spawn \/ ExpectHello
  BY <1>1, <1>4 DEF Prepare, Spawn, ExpectHello
<1>5. CASE AcceptCommit
  BY <1>1, <1>3, <1>5 DEF AcceptCommit, Ended
<1>6. CASE RefuseCommit
  BY <1>3, <1>6 DEF RefuseCommit, Ended
<1>7. CASE DeliveryFails
  BY <1>3, <1>7 DEF DeliveryFails, StoreRefusal, Ended
<1>8. CASE ChannelCloses
  BY <1>3, <1>8 DEF ChannelCloses, Ended
<1>9. CASE KillWorker
  BY <1>1, <1>3, <1>9 DEF KillWorker, Ended
<1>10. CASE ProbeTheCrash
  <2>1. /\ pc = "postkill" /\ UNCHANGED <<plan, db, final, sealed>> /\ delivery = 1
    BY <1>0, <1>10 DEF ProbeTheCrash, Progress
  <2>2. CASE ~Unchanged
    BY <1>3, <1>10, <2>1, <2>2 DEF ProbeTheCrash, Ended
  <2>3. CASE Unchanged
    <3>1. first = NoSnapshot /\ ~db.other
      BY <1>0, <2>1, <2>3 DEF SnapshotsAreTaken, Ended, LedgerIsExplained, Unchanged
    <3>2. /\ first' = db.state
          /\ status' # "COMPLETED" \/ UNCHANGED <<status, observation>>
      BY <1>10, <2>3 DEF ProbeTheCrash
    <3>3. Outcome = "open" /\ Outcome' \in {"open", "refused"}
      BY <1>o, <2>1, <3>2 DEF Ended
    <3>4. Promise!ReadFirst
      BY <1>c, <2>1, <3>1, <3>2, <3>3 DEF Promise!ReadFirst, Outcome
    <3> QED
      BY <3>4 DEF Promise!Next
  <2> QED
    BY <2>2, <2>3
<1>11. CASE ReceiveDone
  BY <1>1, <1>3, <1>11 DEF ReceiveDone, Ended
<1>12. CASE AwaitExit
  BY <1>0, <1>1, <1>3, <1>12 DEF AwaitExit, Ended
<1>13. CASE ReadAfterExit
  <2>1. /\ pc = "reread" /\ UNCHANGED <<plan, db, sealed>> /\ delivery \in {1, 2}
    BY <1>0, <1>13 DEF ReadAfterExit, Progress
  <2>2. CASE ~ImageIsTheLedgers
    BY <1>3, <1>13, <2>1, <2>2 DEF ReadAfterExit, Ended
  <2>3. CASE ImageIsTheLedgers
    <3>1. ~db.other
      BY <1>0, <2>3 DEF LedgerIsExplained, ImageIsTheLedgers, Database
    <3>2. Outcome = "open" /\ Outcome' = "open"
      BY <1>o, <1>13, <2>1, <2>3 DEF ReadAfterExit, Ended
    <3>3. final = NoSnapshot
      BY <1>0, <2>1 DEF SnapshotsAreTaken, Ended
    <3>4. CASE delivery = 1
      <4>1. first = NoSnapshot /\ first' = db.state /\ final' = final
        BY <1>0, <1>13, <2>1, <2>3, <3>4 DEF ReadAfterExit, SnapshotsAreTaken, Ended
      <4>2. Promise!ReadFirst
        BY <1>c, <2>1, <3>1, <3>2, <4>1 DEF Promise!ReadFirst, Outcome
      <4> QED
        BY <4>2 DEF Promise!Next
    <3>5. CASE delivery = 2
      <4>1. first # NoSnapshot /\ final' = db.state /\ first' = first
        BY <1>0, <1>13, <2>1, <2>3, <3>5 DEF ReadAfterExit, SnapshotsAreTaken
      <4>2. Promise!ReadFinal
        BY <1>c, <2>1, <3>1, <3>2, <3>3, <4>1 DEF Promise!ReadFinal, Outcome
      <4> QED
        BY <4>2 DEF Promise!Next
    <3> QED
      BY <2>1, <3>4, <3>5
  <2> QED
    BY <2>2, <2>3
<1>14. CASE BetweenDeliveries
  BY <1>1, <1>3, <1>14 DEF BetweenDeliveries, Ended
<1>15. CASE Judge
  <2>1. /\ pc = "judge" /\ UNCHANGED <<plan, db, first, final, sealed>>
        /\ status = "COMPLETED" /\ sealed = "none" /\ final # NoSnapshot
    BY <1>0, <1>15 DEF Judge, Progress, SnapshotsAreTaken, Ended
  <2>2. CASE status' # "COMPLETED"
    BY <1>3, <2>1, <2>2 DEF Ended
  <2>3. CASE status' = "COMPLETED"
    <3>1. observation' = Classification
      BY <1>15, <2>3 DEF Judge
    <3>2. Classification # "NOT_OBSERVED"
      BY ClassifyTypes DEF Classification
    <3>3. Outcome = "open" /\ Outcome' = Classification
      BY <1>o, <2>1, <2>3, <3>1, <3>2 DEF Outcome, Ended
    <3>4. Promise!Rule
      BY <1>c, <2>1, <3>3, SameRules DEF Promise!Rule, Outcome, Classification
    <3> QED
      BY <3>4 DEF Promise!Next
  <2> QED
    BY <2>2, <2>3
<1>16. CASE StepFails
  <2>1. pc \notin Ended /\ status' # "COMPLETED" /\ UNCHANGED <<plan, db, first, final>>
    BY <1>16 DEF StepFails, StepFailures, Ended
  <2> QED
    BY <1>3, <2>1
<1>17. CASE Cleanup
  <2>1. /\ UNCHANGED <<plan, db, first, final, observation, sealed>> /\ sealed = "none"
        /\ status' = status \/ (status = "COMPLETED" /\ status' = "CLEANUP_ERROR")
    BY <1>0, <1>17 DEF Cleanup, AfterCleanup, Progress
  <2>2. CASE status' = status
    BY <1>1, <2>1, <2>2
  <2>3. CASE status = "COMPLETED" /\ status' = "CLEANUP_ERROR"
    <3>1. Outcome # "refused" /\ Outcome' = "refused"
      BY <2>1, <2>3 DEF Outcome, IInv, TypeOK, CrashObservation
    <3> QED
      BY <1>2, <2>1, <3>1 DEF Promise!Next
  <2> QED
    BY <2>1, <2>2, <2>3
<1>18. CASE Seal
  <2>1. /\ UNCHANGED <<plan, db, first, final, observation, status>> /\ sealed = "none"
        /\ sealed' \in {"receipt", "raised"}
    BY <1>0, <1>18 DEF Seal, Progress
  <2>2. Outcome' = Outcome \/ (Outcome # "refused" /\ Outcome' = "refused")
    BY <2>1 DEF Outcome, IInv, TypeOK, CrashObservation
  <2>3. CASE Outcome' = Outcome
    BY <1>c, <2>1, <2>3 DEF Promise!promise, Outcome
  <2>4. CASE Outcome # "refused" /\ Outcome' = "refused"
    BY <1>2, <2>1, <2>4 DEF Promise!Next
  <2> QED
    BY <2>2, <2>3, <2>4
<1> QED
  BY <1>4, <1>5, <1>6, <1>7, <1>8, <1>9, <1>10, <1>11, <1>12, <1>13, <1>14, <1>15, <1>16,
     <1>17, <1>18 DEF Controller

LEMMA PromiseStep == IInv /\ [Next]_vars => [Promise!Next]_(Promise!promise)
<1> SUFFICES ASSUME IInv, [Next]_vars PROVE [Promise!Next]_(Promise!promise)
  OBVIOUS
<1>1. CASE UNCHANGED vars
  BY <1>1 DEF Promise!promise, vars, evidence, verdict, channel, process, world, history, Attempt
<1> QED
  BY <1>1, CandidatePromises, ControllerPromises DEF Next

\* Every world of the code is a world of the promise: it reads the store's own
\* state twice, never over anything else, and rules on those readings.
THEOREM PromiseIsKept == Spec => KeepsThePromise
BY PromiseInit, PromiseStep, InvariantHolds, PTL DEF Spec, KeepsThePromise, Promise!Spec

----------------------------------------------------------------------------
(* What a world returns to the rules.                                      *)

\* The rules of Evidence, for whatever a world may fail of; how many worlds make
\* a wave does not matter here.
Rules == INSTANCE Evidence WITH
    Confirmations <- 1,
    Failures      <- ExecutionStatus \ {"COMPLETED"}

\* The receipt as the rules read it: only a completed one's schedule counts, and a
\* receipt that its validator rejects is replaced by one of a failed setup.
Told ==
    IF sealed = "raised" THEN Rules!SetupFailure
    ELSE [status |-> status, integrity |-> integrity, observation |-> observation,
          ops |-> IF status = "COMPLETED" THEN ops[1] ELSE <<>>]

\* Every world returns one of the receipts that check, replay and map are modelled
\* over (Evidence): of its kind, its boundary and its kill point.
ReturnsWhatTheRulesExpect ==
    pc = "finished" =>
        IF ~Attempt THEN Told \in Rules!NoFaultReplays
        ELSE IF plan.kill = 0 THEN Told \in Rules!Attempts(plan.boundary)
        ELSE Told \in Rules!SweepAttempts /\ Rules!IsKilledAfter(Told, plan.kill)

\* A failure tells the integrity it forfeits, and an observation only if it came
\* after the judgement.
FailureIsTold ==
    /\ status # "COMPLETED" =>
          integrity = (IF status = "INTEGRITY_ERROR" THEN "INVALID" ELSE "INCOMPLETE")
    /\ observation # "NOT_OBSERVED" => status \in {"COMPLETED", "CLEANUP_ERROR"}

\* A reported commit still has room in its schedule.
CommitsAreBounded ==
    /\ \A d \in 1..2 : Len(ops[d]) <= MaxCommits
    /\ (\E i \in DOMAIN inbox : inbox[i] \in Operations) => Len(ops[delivery]) < MaxCommits

\* The census of a handler that never called the store is refused.
CensusCommitted ==
    pc = "finished" =>
        /\ sealed # "none"
        /\ status = "COMPLETED" /\ ~Attempt /\ sealed = "receipt" => ops[1] # <<>>

ReturnInv == FailureIsTold /\ CommitsAreBounded /\ CensusCommitted

----------------------------------------------------------------------------
(* What a world returns: the steps.                                        *)

\* Only Fail and a failed cleanup write a failure, each with what it forfeits.
LEMMA FailuresAreTold == IInv /\ FailureIsTold /\ [Next]_vars => FailureIsTold'
<1> SUFFICES ASSUME IInv, FailureIsTold, [Next]_vars PROVE FailureIsTold'
  OBVIOUS
<1>0. /\ Progress
      /\ status \in ExecutionStatus /\ refusal # "COMPLETED"
  BY DEF IInv, TypeOK
<1>1. CASE UNCHANGED verdict
  BY <1>1 DEF FailureIsTold, verdict
<1>2. ASSUME NEW failure, Fail(failure), failure # "COMPLETED", pc \notin Ended
      PROVE  FailureIsTold'
  BY <1>0, <1>2 DEF FailureIsTold, Fail, Progress
<1>3. CASE Candidate
  BY <1>1, <1>3, CandidateFrame
<1>4. CASE UNCHANGED vars
  BY <1>1, <1>4 DEF vars
<1>5. CASE Prepare \/ Spawn \/ ExpectHello \/ Seal
  BY <1>1, <1>5 DEF Prepare, Spawn, ExpectHello, Seal, GoTo
<1>6. CASE AcceptCommit \/ RefuseCommit \/ DeliveryFails \/ ChannelCloses
  <2>1. StoreRefusal # "COMPLETED"
    BY DEF StoreRefusal
  <2> QED
    BY <1>1, <1>2, <1>6, <2>1
       DEF AcceptCommit, RefuseCommit, DeliveryFails, ChannelCloses, GoTo, Ended
<1>7. CASE KillWorker \/ ProbeTheCrash
  BY <1>1, <1>2, <1>7 DEF KillWorker, ProbeTheCrash, GoTo, Ended
<1>8. CASE ReceiveDone \/ AwaitExit \/ ReadAfterExit \/ BetweenDeliveries
  BY <1>0, <1>1, <1>2, <1>8
     DEF ReceiveDone, AwaitExit, ReadAfterExit, BetweenDeliveries, GoTo, Ended
<1>9. CASE Judge
  BY <1>0, <1>2, <1>9 DEF Judge, Ended, FailureIsTold, Progress
<1>10. CASE StepFails
  <2>1. \A failure \in StepFailures : failure # "COMPLETED" /\ pc \notin Ended
    BY DEF StepFailures, Ended
  <2> QED
    BY <1>2, <1>10, <2>1 DEF StepFails
<1>11. CASE Cleanup
  BY <1>11 DEF Cleanup, AfterCleanup, FailureIsTold
<1> QED
  BY <1>3, <1>4, <1>5, <1>6, <1>7, <1>8, <1>9, <1>10, <1>11 DEF Next, Controller

\* A worker commits once and then waits, so at most one commit is unread.
LEMMA CommitsStayBounded ==
    OutcomeInv /\ CommitsAreBounded /\ [Next]_vars => CommitsAreBounded'
<1> SUFFICES ASSUME OutcomeInv, CommitsAreBounded, [Next]_vars PROVE CommitsAreBounded'
  OBVIOUS
<1>0. /\ inbox \in Seq(Message) /\ ops \in [1..2 -> Seq(Operations)] /\ delivery \in 0..2
      /\ inbox \in Letters(SentBy(worker)) /\ Progress /\ MaxCommits \in Nat
  BY WorldAssumption DEF OutcomeInv, IInv, TypeOK, MessagesFit
<1>1. ASSUME UNCHANGED <<ops, delivery>>, Unread(Operations)' => Unread(Operations)
      PROVE  CommitsAreBounded'
  BY <1>1 DEF CommitsAreBounded, Unread
<1>2. ASSUME UNCHANGED <<inbox, ops, delivery>> PROVE CommitsAreBounded'
  BY <1>1, <1>2 DEF Unread
<1>3. ASSUME NEW kinds, Receive(kinds), UNCHANGED <<ops, delivery>> PROVE CommitsAreBounded'
  <2>1. ~Unread(Operations) => ~Unread(Operations)'
    BY <1>3, UnreadShrinks DEF OutcomeInv, IInv
  <2> QED
    BY <1>1, <1>3, <2>1
<1>4. CASE UNCHANGED vars
  BY <1>2, <1>4 DEF vars, evidence, channel, process
<1>5. ASSUME NEW m \in Message \ Operations, inbox' = Append(inbox, m), UNCHANGED <<ops, delivery>>
      PROVE  CommitsAreBounded'
  <2>1. Unread(Operations)' => Unread(Operations)
    BY <1>0, <1>5 DEF Unread
  <2> QED
    BY <1>1, <1>5, <2>1
<1>6. CASE Candidate
  <2> USE DEF evidence, channel, process, WorkerSends, Misbehaves
  <2>m. {"hello", "done", "exception", "refusal"} \subseteq Message \ Operations
    BY DEF Message, Operations, EffectOps, MarkOps
  <2>1. ASSUME NEW op \in Operations, StoreCommit(op) PROVE CommitsAreBounded'
    BY <2>1 DEF StoreCommit, CommitsAreBounded
  <2>2. CASE Hello \/ HandlerReturns \/ HandlerRaises
    BY <1>5, <2>2, <2>m DEF Hello, HandlerReturns, HandlerRaises
  <2>3. CASE OpenStore \/ Resume \/ WorkerCloses \/ WorkerExits \/ WorkerDies
    BY <1>2, <2>3 DEF OpenStore, Resume, WorkerCloses, WorkerExits, WorkerDies
  <2>4. CASE ForeignSql \/ OwnSql \/ HelperExits
    BY <1>2, <2>4 DEF ForeignSql, OwnSql, HelperExits
  <2>5. ASSUME NEW place, WriteEntry(place) \/ TidyEntry(place) PROVE CommitsAreBounded'
    BY <1>2, <2>5 DEF WriteEntry, TidyEntry
  <2>6. ASSUME NEW helper, LeaveHelper(helper) PROVE CommitsAreBounded'
    BY <1>2, <2>6 DEF LeaveHelper
  <2> QED
    BY <1>6, <2>1, <2>2, <2>3, <2>4, <2>5, <2>6 DEF Candidate
<1>7. CASE Spawn
  BY <1>0, <1>7 DEF Spawn, CommitsAreBounded, evidence
<1>8. CASE AcceptCommit
  <2>1. inbox # <<>> /\ inbox' = Tail(inbox) /\ Head(inbox) \in Operations /\ delivery' = delivery
    BY <1>8 DEF AcceptCommit, Receive, process
  <2>2. delivery \in 1..2
    BY <1>0, <1>8 DEF AcceptCommit, Progress
  <2>3. Len(ops[delivery]) < MaxCommits
    <3>1. 1 \in DOMAIN inbox /\ inbox[1] = Head(inbox)
      BY <1>0, <2>1
    <3> QED
      BY <2>1, <3>1 DEF CommitsAreBounded
  <2>4. inbox' = <<>>
    <3>1. "hello" \notin Operations
      BY DEF Operations, EffectOps, MarkOps
    <3>2. PICK m : inbox = <<m>>
      BY <1>0, <2>1, <3>1 DEF Letters
    <3> QED
      BY <2>1, <3>2
  <2>5. ops' = [ops EXCEPT ![delivery] = Append(ops[delivery], Head(inbox))]
    BY <1>8 DEF AcceptCommit
  <2>6. Len(ops'[delivery]) = Len(ops[delivery]) + 1 /\ Len(ops[delivery]) \in Nat
    BY <1>0, <2>1, <2>2, <2>5
  <2>7. \A d \in 1..2 : d # delivery => ops'[d] = ops[d]
    BY <1>0, <2>5
  <2>8. \A d \in 1..2 : Len(ops'[d]) <= MaxCommits
    BY <1>0, <2>3, <2>6, <2>7 DEF CommitsAreBounded
  <2> QED
    BY <2>4, <2>8 DEF CommitsAreBounded
<1>9. CASE ExpectHello \/ RefuseCommit \/ DeliveryFails \/ ReceiveDone
  BY <1>3, <1>9 DEF ExpectHello, RefuseCommit, DeliveryFails, ReceiveDone, evidence, process
<1>10. CASE Prepare \/ ChannelCloses \/ KillWorker \/ ProbeTheCrash
  BY <1>2, <1>10 DEF Prepare, ChannelCloses, KillWorker, ProbeTheCrash, evidence, channel, process
<1>11. CASE AwaitExit \/ ReadAfterExit \/ BetweenDeliveries \/ Judge
  BY <1>2, <1>11 DEF AwaitExit, ReadAfterExit, BetweenDeliveries, Judge, evidence, channel, process
<1>12. CASE StepFails \/ Cleanup \/ Seal
  BY <1>2, <1>12 DEF StepFails, Cleanup, Seal, evidence, channel, process
<1> QED
  BY <1>4, <1>6, <1>7, <1>8, <1>9, <1>10, <1>11, <1>12 DEF Next, Controller

\* Seal alone finishes a world, and its validator asks a census for a commit.
LEMMA CensusesCommitted == IInv /\ CensusCommitted /\ [Next]_vars => CensusCommitted'
<1> SUFFICES ASSUME IInv, CensusCommitted, [Next]_vars, pc' = "finished" PROVE CensusCommitted'
  BY DEF CensusCommitted
<1>1. CASE UNCHANGED <<plan, pc, sealed, status, ops>>
  BY <1>1 DEF CensusCommitted, Attempt
<1>2. CASE UNCHANGED vars
  BY <1>1, <1>2 DEF vars, evidence, verdict
<1>3. CASE Candidate
  BY <1>1, <1>3, CandidateFrame DEF evidence, verdict
<1>4. CASE Seal
  BY <1>4 DEF Seal, GoTo, CensusCommitted, NoFaultIsCoherent, Attempt, verdict, evidence
<1>5. CASE Controller /\ ~Seal
  BY <1>5 DEF Controller, Prepare, Spawn, ExpectHello, AcceptCommit, RefuseCommit, DeliveryFails,
     ChannelCloses, KillWorker, ProbeTheCrash, ReceiveDone, AwaitExit, ReadAfterExit,
     BetweenDeliveries, Judge, StepFails, Cleanup, GoTo, Fail
<1> QED
  BY <1>2, <1>3, <1>4, <1>5 DEF Next

----------------------------------------------------------------------------
(* What a world returns: the rules.                                        *)

\* Schedules one after the other are counted together.
LEMMA CountConcat ==
    ASSUME NEW s \in Seq(Operations), NEW t \in Seq(Operations), NEW kind
    PROVE  Count(s \o t, kind) = Count(s, kind) + Count(t, kind)
<1> DEFINE n == Len(s)
           m == Len(t)
           whole == s \o t
           left  == {i \in 1..n : s[i] \in kind}
           right == {i \in 1..m : t[i] \in kind}
           moved == {i \in (n + 1)..(n + m) : whole[i] \in kind}
           all   == {i \in 1..(n + m) : whole[i] \in kind}
           shift == [i \in right |-> i + n]
<1>1. /\ n \in Nat /\ m \in Nat /\ Len(whole) = n + m
      /\ \A i \in 1..n : whole[i] = s[i]
      /\ \A i \in 1..m : whole[i + n] = t[i]
  OBVIOUS
<1>2. all = left \union moved /\ left \intersect moved = {}
  BY <1>1
<1>3. IsFiniteSet(left) /\ IsFiniteSet(right)
  <2>1. IsFiniteSet(1..n) /\ IsFiniteSet(1..m)
    BY <1>1, FS_Interval
  <2>2. left \in SUBSET (1..n) /\ right \in SUBSET (1..m)
    OBVIOUS
  <2> HIDE DEF left, right, n, m
  <2> QED
    BY <2>1, <2>2, FS_Subset
<1>4. shift \in Bijection(right, moved)
  <2>1. shift \in [right -> moved]
    BY <1>1
  <2>2. \A i, j \in right : shift[i] = shift[j] => i = j
    BY <1>1
  <2>3. \A k \in moved : \E i \in right : shift[i] = k
    <3> SUFFICES ASSUME NEW k \in moved PROVE \E i \in right : shift[i] = k
      OBVIOUS
    <3>1. k - n \in 1..m /\ (k - n) + n = k
      BY <1>1
    <3>2. k - n \in right
      BY <1>1, <3>1
    <3> QED
      BY <3>1, <3>2
  <2> HIDE DEF shift, moved, right
  <2>4. shift \in Surjection(right, moved)
    BY <2>1, <2>3 DEF Surjection
  <2>5. shift \in Injection(right, moved)
    BY <2>1, <2>2 DEF Injection, IsInjective
  <2> QED
    BY <2>4, <2>5 DEF Bijection
<1>5. IsFiniteSet(moved) /\ Cardinality(moved) = Cardinality(right)
  <2>1. ExistsBijection(right, moved)
    BY <1>4 DEF ExistsBijection
  <2> HIDE DEF right, moved
  <2> QED
    BY <1>3, <2>1, FS_Bijection
<1>6. Cardinality(left) \in Nat /\ Cardinality(right) \in Nat
  BY <1>3, FS_CardinalityType
<1>7. Cardinality(all) = Cardinality(left) + Cardinality(right)
  <2>1. Cardinality(left \union moved) =
            Cardinality(left) + Cardinality(moved) - Cardinality(left \intersect moved)
    BY <1>3, <1>5, FS_Union
  <2>2. Cardinality(left \intersect moved) = 0
    BY <1>2, FS_EmptySet
  <2> HIDE DEF left, right, moved, all
  <2> QED
    BY <1>2, <1>5, <1>6, <2>1, <2>2
<1> QED
  BY <1>1, <1>7 DEF Count

\* The rules are about the same commits.
LEMMA SameCommits ==
    /\ Rules!Operations = Operations
    /\ \A s, kind : Rules!Count(s, kind) = Count(s, kind)
    /\ \A s : Rules!MarksIn(s) = MarksIn(s) /\ Rules!After(s) = After(s)
    /\ \A s, boundary : Rules!CheckpointReached(s, boundary) <=> CheckpointReached(s, boundary)
    /\ \A s, boundary, kill : Rules!KilledAt(s, boundary, kill) <=> KilledAt(s, boundary, kill)
    /\ \A s, initial : Rules!ClassifyFinal(s, initial) = ClassifyFinal(s, initial)
    /\ \A f, s, initial : Rules!ClassifyDelivery(f, s, initial) = ClassifyDelivery(f, s, initial)
<1>1. /\ Rules!EffectOps = EffectOps /\ Rules!MarkOps = MarkOps
      /\ Rules!Operations = Operations
  BY DEF Rules!Operations, Operations, Rules!EffectOps, EffectOps, Rules!MarkOps, MarkOps
<1>2. \A s, kind : Rules!Count(s, kind) = Count(s, kind)
  <2> SUFFICES ASSUME NEW s, NEW kind PROVE Rules!Count(s, kind) = Count(s, kind)
    OBVIOUS
  <2> DEFINE S == {i \in 1..Len(s) : s[i] \in kind}
  <2>1. Rules!Count(s, kind) = Rules!Cardinality(S) /\ Count(s, kind) = Cardinality(S)
    BY Zenon DEF Rules!Count, Count
  <2>2. Rules!Cardinality(S) = Cardinality(S)
    <3> HIDE DEF S
    <3> QED
      BY Zenon DEF Rules!Cardinality, Cardinality
  <2> QED
    BY <2>1, <2>2
<1>3. \A s : Rules!EffectsIn(s) = EffectsIn(s) /\ Rules!MarksIn(s) = MarksIn(s)
  BY <1>1, <1>2 DEF Rules!EffectsIn, EffectsIn, Rules!MarksIn, MarksIn
<1>4. \A s : Rules!After(s) = After(s)
  BY <1>3 DEF Rules!After, After, Rules!StateAfter, StateAfter
<1>5. \A s, boundary : Rules!CheckpointReached(s, boundary) <=> CheckpointReached(s, boundary)
  BY DEF Rules!CheckpointReached, CheckpointReached
<1>6. \A s, boundary, kill : Rules!KilledAt(s, boundary, kill) <=> KilledAt(s, boundary, kill)
  BY <1>4, <1>5 DEF Rules!KilledAt, KilledAt
<1>7. \A s, initial : Rules!ClassifyFinal(s, initial) = ClassifyFinal(s, initial)
  BY DEF Rules!ClassifyFinal, ClassifyFinal, Rules!Duplicated, Duplicated,
         Rules!OnceAndMarked, OnceAndMarked
<1>8. \A f, s, initial : Rules!ClassifyDelivery(f, s, initial) = ClassifyDelivery(f, s, initial)
  BY <1>7 DEF Rules!ClassifyDelivery, ClassifyDelivery
<1> QED
  BY <1>1, <1>2, <1>3, <1>4, <1>5, <1>6, <1>7, <1>8

\* A failure is one of the failed receipts, a refused census among them.
LEMMA FailuresAreExpected ==
    ASSUME OutcomeInv, ReturnInv, sealed = "raised" \/ status # "COMPLETED"
    PROVE  Told \in Rules!FailedReceipts /\ Told.status # "COMPLETED"
<1>1. status \in ExecutionStatus /\ observation \in CrashObservation
  BY DEF OutcomeInv, IInv, TypeOK
<1>2. Rules!CrashObservation = CrashObservation
  BY DEF Rules!CrashObservation, CrashObservation
<1>3. CASE sealed = "raised"
  BY <1>2, <1>3 DEF Told, Rules!SetupFailure, Rules!FailedReceipts, ExecutionStatus,
     CrashObservation
<1>4. CASE sealed # "raised" /\ status # "COMPLETED"
  <2>1. Told = [status |-> status, integrity |-> integrity, observation |-> observation,
                ops |-> <<>>]
    BY <1>4 DEF Told
  <2>2. /\ integrity = (IF status = "INTEGRITY_ERROR" THEN "INVALID" ELSE "INCOMPLETE")
        /\ observation # "NOT_OBSERVED" => status = "CLEANUP_ERROR"
    BY <1>4 DEF ReturnInv, FailureIsTold
  <2>3. Told \in [status : ExecutionStatus \ {"COMPLETED"},
                  integrity : {"INVALID", "INCOMPLETE"},
                  observation : Rules!CrashObservation, ops : {<<>>}]
    BY <1>1, <1>2, <1>4, <2>1, <2>2
  <2> QED
    BY <1>4, <2>1, <2>2, <2>3 DEF Rules!FailedReceipts
<1> QED
  BY <1>3, <1>4

\* The commits of a completed world are legal schedules of two deliveries, and
\* its snapshots are theirs.
LEMMA CompletedSchedules ==
    ASSUME OutcomeInv, ReturnInv, pc = "finished", status = "COMPLETED"
    PROVE  /\ <<ops[1], ops[2]>> \in Rules!Deliveries
           /\ first = After(ops[1]) /\ final = After(ops[1] \o ops[2])
<1>1. /\ ops[1] \in Seq(Operations) /\ ops[2] \in Seq(Operations) /\ MaxCommits \in Nat
      /\ final \in StateSnapshot \union {NoSnapshot}
  BY WorldAssumption DEF OutcomeInv, IInv, TypeOK
<1>2. /\ final # NoSnapshot /\ first # NoSnapshot
      /\ first = StateAfter(Effects(1), Marks(1))
      /\ final = StateAfter(Effects(1) + Effects(2), Marks(1) + Marks(2))
  BY DEF OutcomeInv, IInv, SnapshotsAreTaken, LedgerIsExplained, Ended
<1>3. \A s \in Seq(Operations) : \A kind : Count(s, kind) \in Nat
  <2> SUFFICES ASSUME NEW s \in Seq(Operations), NEW kind PROVE Count(s, kind) \in Nat
    OBVIOUS
  <2>1. Len(s) \in Nat
    OBVIOUS
  <2>2. IsFiniteSet(1..Len(s))
    BY <2>1, FS_Interval
  <2>3. {i \in 1..Len(s) : s[i] \in kind} \in SUBSET (1..Len(s))
    OBVIOUS
  <2>4. IsFiniteSet({i \in 1..Len(s) : s[i] \in kind})
    BY <2>2, <2>3, FS_Subset
  <2> QED
    BY <2>4, FS_CardinalityType DEF Count
<1>4. Marks(1) \in Nat /\ Marks(2) \in Nat
  BY <1>1, <1>3 DEF Marks, MarksIn
<1>5. Marks(1) + Marks(2) <= 1
  BY <1>1, <1>2, <1>4 DEF StateSnapshot, StateAfter
<1>6. /\ MarksIn(ops[1] \o ops[2]) = Marks(1) + Marks(2)
      /\ EffectsIn(ops[1] \o ops[2]) = Effects(1) + Effects(2)
  BY <1>1, CountConcat DEF Marks, MarksIn, Effects, EffectsIn
<1>7. \A d \in 1..2 : ops[d] \in Rules!Schedules(MaxCommits)
  <2> SUFFICES ASSUME NEW d \in 1..2 PROVE ops[d] \in Rules!Schedules(MaxCommits)
    OBVIOUS
  <2>1. ops[d] \in [1..Len(ops[d]) -> Operations] /\ Len(ops[d]) \in 0..MaxCommits
    BY <1>1 DEF ReturnInv, CommitsAreBounded
  <2>2. MarksIn(ops[d]) <= 1
    BY <1>4, <1>5 DEF Marks
  <2> QED
    BY <2>1, <2>2, SameCommits DEF Rules!Schedules
<1>8. <<ops[1], ops[2]>> \in Rules!Deliveries
  BY <1>5, <1>6, <1>7, SameCommits DEF Rules!Deliveries
<1> QED
  BY <1>2, <1>6, <1>8 DEF After, Effects, Marks

\* A completed receipt is one of those its schedules make.
LEMMA CompletedIsExpected ==
    ASSUME OutcomeInv, ReturnInv, pc = "finished", sealed # "raised", status = "COMPLETED"
    PROVE  ReturnsWhatTheRulesExpect
<1> DEFINE d == <<ops[1], ops[2]>>
<1>1. d \in Rules!Deliveries /\ first = After(d[1]) /\ final = After(d[1] \o d[2])
  BY CompletedSchedules
<1>2. Told = Rules!ReceiptOf(Classification, d[1])
  BY DEF Told, Rules!ReceiptOf, OutcomeInv, ReceiptIsReady, Ended
<1>3. plan.kill \in Nat /\ plan.boundary \in FaultBoundary
  BY WorldAssumption DEF OutcomeInv, IInv, TypeOK
<1>4. CASE ~Attempt
  <2>1. d[1] # <<>>
    BY <1>4 DEF ReturnInv, CensusCommitted, OutcomeInv, IInv, TypeOK
  <2>2. Classification = Rules!ClassifyDelivery(Rules!After(d[1]), Rules!After(d[1] \o d[2]),
                                                InitialTotal)
    BY <1>1, <1>4, SameCommits DEF Classification
  <2>3. Told \in Rules!NoFaultReplays
    <3> HIDE DEF d
    <3> QED
      BY <1>1, <1>2, <2>1, <2>2 DEF Rules!NoFaultReplays
  <2> QED
    BY <1>4, <2>3 DEF ReturnsWhatTheRulesExpect
<1>5. CASE Attempt
  <2>1. KilledAt(d[1], plan.boundary, plan.kill)
    <3>1. delivery = 2
      BY DEF OutcomeInv, IInv, SnapshotsAreTaken, Ended
    <3> QED
      BY <1>5, <3>1 DEF OutcomeInv, KillIsDue, FirstIsOver
  <2>2. Classification = Rules!ClassifyFinal(Rules!After(d[1] \o d[2]), InitialTotal)
    BY <1>1, <1>5, SameCommits DEF Classification
  <2>3. CASE plan.kill = 0
    <3>1. Rules!KilledAt(d[1], plan.boundary, 0)
      BY <2>1, <2>3, SameCommits
    <3>2. Told \in Rules!CompletedAttempts(plan.boundary)
      <4> HIDE DEF d
      <4> QED
        BY <1>1, <1>2, <2>2, <3>1 DEF Rules!CompletedAttempts
    <3>3. Told \in Rules!Attempts(plan.boundary)
      BY <1>3, <3>2 DEF Rules!Attempts, Rules!EffectAttempts, Rules!MarkerAttempts,
         FaultBoundary
    <3> QED
      BY <1>5, <2>3, <3>3 DEF ReturnsWhatTheRulesExpect
  <2>4. CASE plan.kill # 0
    <3>1. Len(d[1]) = plan.kill
      BY <1>3, <2>1, <2>4 DEF KilledAt
    <3>2. Told \in Rules!SweepAttempts
      <4> HIDE DEF d
      <4> QED
        BY <1>1, <1>2, <2>2 DEF Rules!SweepAttempts
    <3>3. Rules!IsKilledAfter(Told, plan.kill)
      BY <1>2, <3>1 DEF Rules!IsKilledAfter, Rules!ReceiptOf
    <3> QED
      BY <1>5, <2>4, <3>2, <3>3 DEF ReturnsWhatTheRulesExpect
  <2> QED
    BY <2>3, <2>4
<1> QED
  BY <1>4, <1>5

\* A world starts completed, unobserved and without a commit.
LEMMA ReturnInit == Init => ReturnInv
<1> SUFFICES ASSUME Init PROVE ReturnInv
  OBVIOUS
<1>1. FailureIsTold /\ CensusCommitted
  BY DEF Init, FailureIsTold, CensusCommitted
<1>2. CommitsAreBounded
  <2>1. MaxCommits \in Nat /\ inbox = <<>> /\ \A d \in 1..2 : ops[d] = <<>>
    BY WorldAssumption DEF Init
  <2> QED
    BY <2>1 DEF CommitsAreBounded
<1> QED
  BY <1>1, <1>2 DEF ReturnInv

\* The three parts are kept together, from what keeps the outcome.
LEMMA ReturnStep == OutcomeInv /\ ReturnInv /\ [Next]_vars => ReturnInv'
BY FailuresAreTold, CommitsStayBounded, CensusesCommitted DEF ReturnInv, OutcomeInv

\* Every world returns one of the receipts over which check, replay and map are
\* modelled: for any handler, plan and number of commits, Evidence assumes of a
\* world's receipt no more than execute_attempt and execute_no_fault_replay keep.
THEOREM WorldsReturnWhatTheRulesExpect == Spec => []ReturnsWhatTheRulesExpect
<1>1. Spec => []ReturnInv
  BY ReturnInit, ReturnStep, OutcomeInvHolds, PTL DEF Spec
<1>2. OutcomeInv /\ ReturnInv => ReturnsWhatTheRulesExpect
  <2> SUFFICES ASSUME OutcomeInv, ReturnInv, pc = "finished" PROVE ReturnsWhatTheRulesExpect
    BY DEF ReturnsWhatTheRulesExpect
  <2>1. CASE sealed = "raised" \/ status # "COMPLETED"
    <3>1. Told \in Rules!FailedReceipts /\ Told.status # "COMPLETED"
      BY <2>1, FailuresAreExpected
    <3> QED
      BY <3>1 DEF ReturnsWhatTheRulesExpect, Rules!NoFaultReplays, Rules!Attempts,
         Rules!EffectAttempts, Rules!MarkerAttempts, Rules!SweepAttempts,
         Rules!IsKilledAfter, Rules!Completed
  <2>2. CASE sealed # "raised" /\ status = "COMPLETED"
    BY <2>2, CompletedIsExpected
  <2> QED
    BY <2>1, <2>2
<1> QED
  BY <1>1, <1>2, OutcomeInvHolds, PTL
=============================================================================
