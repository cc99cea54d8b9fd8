-------------------------- MODULE CrashWorldProofs --------------------------
(***************************************************************************)
(* Theorems about CrashWorld for every scenario, every set of plans and    *)
(* any number of commits and of acts outside the store.  One inductive     *)
(* invariant carries them: where the controller is (Progress), what its    *)
(* ledger and snapshots stand for (LedgerIsExplained, SnapshotsAreTaken),  *)
(* that nothing moves between the kill and the redelivery (CrashIsFrozen), *)
(* and that the receipt is written once, over dead processes               *)
(* (EndIsQuiet).                                                           *)
(***************************************************************************)
EXTENDS CrashWorld, FiniteSetTheorems, TLAPS

Ended == {"cleanup", "seal", "finished"}

\* Which delivery each stage belongs to, and that a verdict's fields are
\* written only at the end.
Progress ==
    /\ pc = "prepare" => delivery = 0
    /\ pc = "spawn" => delivery \in {0, 1}
    /\ pc \in {"hello", "drive", "exit", "reread"} => delivery \in {1, 2}
    /\ pc \in {"exit", "reread"} => Finishing
    /\ pc \in {"kill", "postkill"} => Attempt /\ delivery = 1
    /\ pc = "between" => ~Attempt /\ delivery = 1
    /\ pc = "judge" => delivery = 2
    /\ worker = "none" <=> delivery = 0
    /\ pc \notin Ended => status = "COMPLETED" /\ observation = "NOT_OBSERVED"
    /\ pc # "finished" => sealed = "none"

\* The ledger is what the reported commits make of the seed.
LedgerIsExplained ==
    /\ ledger.state = StateAfter(Effects(1) + Effects(2), Marks(1) + Marks(2))
    /\ ~ledger.other
    /\ delivery = 0 => ops[1] = <<>>
    /\ delivery < 2 => ops[2] = <<>>

\* The snapshots judged are the ledger's, of the deliveries they name.
SnapshotsAreTaken ==
    /\ first # NoSnapshot => first = StateAfter(Effects(1), Marks(1))
    /\ delivery = 0 => first = NoSnapshot
    /\ delivery = 1 /\ pc \notin Ended \union {"spawn", "between"} => first = NoSnapshot
    /\ pc = "between" => first # NoSnapshot
    /\ pc = "spawn" /\ delivery = 1 => first # NoSnapshot
    /\ delivery = 2 => first # NoSnapshot
    /\ final # NoSnapshot => final = ledger.state /\ pc \in {"judge"} \union Ended
    /\ pc = "judge" => final # NoSnapshot
    /\ pc \in Ended /\ status = "COMPLETED" => final # NoSnapshot /\ delivery = 2

\* From the kill to the redelivery nothing moves but what has escaped.
CrashIsFrozen ==
    /\ pc \in {"kill", "postkill"} => checkpoint = ledger.state
    /\ pc = "postkill" => worker = "gone" /\ (~strays => helpers = {})
    /\ Attempt /\ pc = "spawn" /\ delivery = 1 =>
          /\ worker = "gone" /\ first = checkpoint
          /\ ~strays => helpers = {} /\ db = ledger
    /\ Attempt /\ delivery = 2 /\ worker = "starting" /\ ~strays =>
          helpers = {} /\ db = ledger /\ first = checkpoint

\* Nothing of the candidate's that could be killed runs when the receipt is
\* built.
EndIsQuiet == NothingOutlivesTheWorld

IInv ==
    /\ TypeOK /\ Progress /\ LedgerIsExplained /\ SnapshotsAreTaken /\ CrashIsFrozen
    /\ EndIsQuiet

----------------------------------------------------------------------------
(* Lemmas about the operators of CrashModels.                              *)

\* One more reported operation counts once, in its own kinds.
LEMMA CountAppend ==
    ASSUME NEW schedule \in Seq(Operations), NEW op \in Operations, NEW kind
    PROVE  /\ Count(schedule, kind) \in Nat
           /\ Count(Append(schedule, op), kind) =
                 Count(schedule, kind) + (IF op \in kind THEN 1 ELSE 0)
<1> DEFINE n == Len(schedule)
           longer == Append(schedule, op)
           old == {i \in 1..n : schedule[i] \in kind}
           new == {i \in 1..(n + 1) : longer[i] \in kind}
<1>1. n \in Nat /\ Len(longer) = n + 1 /\ longer[n + 1] = op
           /\ \A i \in 1..n : longer[i] = schedule[i]
  OBVIOUS
<1>2. IsFiniteSet(old)
  <2>1. IsFiniteSet(1..n)
    BY <1>1, FS_Interval
  <2> QED
    BY <2>1, FS_Subset
<1>3. Cardinality(old) \in Nat
  BY <1>2, FS_CardinalityType
<1>4. CASE op \in kind
  <2>1. new = old \union {n + 1}
    BY <1>1, <1>4
  <2>2. n + 1 \notin old
    BY <1>1
  <2>3. Cardinality(new) = Cardinality(old) + 1
    BY <1>2, <2>1, <2>2, FS_AddElement
  <2> QED
    BY <1>1, <1>3, <1>4, <2>3 DEF Count
<1>5. CASE op \notin kind
  <2>1. new = old
    BY <1>1, <1>5
  <2>2. Cardinality(new) = Cardinality(old) + 0
    <3> HIDE DEF new, old
    <3> QED
      BY <1>3, <2>1
  <2> QED
    BY <1>1, <1>3, <1>5, <2>2 DEF Count
<1> QED
  BY <1>4, <1>5

\* Nothing reported, nothing counted.
LEMMA CountEmpty == \A kind : Count(<<>>, kind) = 0
<1> SUFFICES ASSUME NEW kind PROVE Count(<<>>, kind) = 0
  OBVIOUS
<1>1. {i \in 1..Len(<<>>) : <<>>[i] \in kind} = {}
  OBVIOUS
<1> QED
  BY <1>1, FS_EmptySet DEF Count

\* A store that starts seeded and commits only what its guard allows keeps a
\* snapshot's type, the marker's bound included.
LEMMA SnapshotTypes ==
    /\ Seed \in StateSnapshot
    /\ \A s \in StateSnapshot, op \in Operations :
          StoreCommits(s, op) => Apply(s, op) \in StateSnapshot
BY ScenarioAssumption
   DEF Seed, StateSnapshot, StoreCommits, Apply, Operations, EffectOps, MarkOps

\* Applying an operation to a counted state counts it.
LEMMA ApplyCounts ==
    ASSUME NEW e \in Nat, NEW m \in Nat, NEW op \in Operations
    PROVE  Apply(StateAfter(e, m), op) =
             StateAfter(e + (IF op \in EffectOps THEN 1 ELSE 0),
                        m + (IF op \in MarkOps THEN 1 ELSE 0))
BY ScenarioAssumption DEF Apply, StateAfter, Operations, EffectOps, MarkOps

\* Every final state is classified, and never as unobserved.
LEMMA ClassifyTypes ==
    \A f, g, initial :
        /\ ClassifyFinal(g, initial) \in CrashObservation \ {"NOT_OBSERVED"}
        /\ ClassifyDelivery(f, g, initial) \in CrashObservation \ {"NOT_OBSERVED"}
BY DEF ClassifyFinal, ClassifyDelivery, CrashObservation

----------------------------------------------------------------------------
(* What candidate code cannot reach.                                       *)

\* No act of the worker, of the handler or of a child it left touches the
\* controller's stage, evidence or verdict, or makes a worker out of nothing.
LEMMA CandidateFrame ==
    ASSUME Candidate
    PROVE  /\ UNCHANGED <<plan, pc, sealed, evidence, verdict, delivery, strays, carried>>
           /\ worker' = "none" <=> worker = "none"
<1> USE DEF evidence, verdict, process, channel, world, history, WorkerSends, Misbehaves
<1>1. CASE Hello
  BY <1>1 DEF Hello
<1>2. CASE OpenStore
  BY <1>2 DEF OpenStore
<1>3. CASE Resume
  BY <1>3 DEF Resume
<1>4. CASE HandlerReturns
  BY <1>4 DEF HandlerReturns
<1>5. CASE HandlerRaises
  BY <1>5 DEF HandlerRaises
<1>6. CASE WorkerCloses
  BY <1>6 DEF WorkerCloses
<1>7. CASE WorkerExits
  BY <1>7 DEF WorkerExits
<1>8. CASE WorkerDies
  BY <1>8 DEF WorkerDies
<1>9. CASE ForeignSql
  BY <1>9 DEF ForeignSql
<1>10. CASE OwnSql
  BY <1>10 DEF OwnSql
<1>11. CASE \E op \in Operations : StoreCommit(op)
  BY <1>11 DEF StoreCommit
<1>12. CASE \E place \in {"world", "tree"} : WriteEntry(place) \/ TidyEntry(place)
  BY <1>12 DEF WriteEntry, TidyEntry
<1>13. CASE \E helper \in Helper : LeaveHelper(helper)
  BY <1>13 DEF LeaveHelper
<1>14. CASE HelperExits
  BY <1>14 DEF HelperExits
<1> QED
  BY <1>1, <1>2, <1>3, <1>4, <1>5, <1>6, <1>7, <1>8, <1>9, <1>10, <1>11, <1>12, <1>13, <1>14 DEF Candidate

----------------------------------------------------------------------------
(* Types.                                                                  *)

\* What is sent joins the unread messages, what is received leaves them.
LEMMA MessageTypes ==
    ASSUME inbox \in Seq(Message)
    PROVE  /\ \A m \in Message : WorkerSends(m) => inbox' \in Seq(Message)
           /\ \A kinds : Receive(kinds) => inbox' \in Seq(Message)
BY DEF WorkerSends, Receive

\* A write around the store leaves a database, whatever it shows.
LEMMA WriteAroundTypes ==
    ASSUME db \in Database, NEW seen \in BOOLEAN
    PROVE  [db EXCEPT !.other = seen, !.hidden = db.hidden + 1, !.log = TRUE] \in Database
<1> DEFINE commits == db.hidden + 1
<1>1. commits \in Nat
  BY DEF Database
<1> HIDE DEF commits
<1>2. [db EXCEPT !.other = seen, !.hidden = commits, !.log = TRUE] \in Database
  BY <1>1, Zenon DEF Database
<1> QED
  BY <1>2 DEF commits

\* The audits stay two flags.
LEMMA AuditTypes ==
    ASSUME audit \in [own : BOOLEAN, other : BOOLEAN]
    PROVE  /\ [audit EXCEPT !.own = TRUE] \in [own : BOOLEAN, other : BOOLEAN]
           /\ [audit EXCEPT !.other = TRUE] \in [own : BOOLEAN, other : BOOLEAN]
OBVIOUS

\* Each act of the candidate keeps every variable in its type.
LEMMA CandidateTypes == TypeOK /\ Progress /\ Candidate => TypeOK'
<1> SUFFICES ASSUME TypeOK, Progress, Candidate PROVE TypeOK'
  OBVIOUS
<1> USE DEF TypeOK, evidence, verdict, process, channel, world, history, WorkerState
<1>1. CASE Hello
  <2>1. inbox' \in Seq(Message)
    BY <1>1, MessageTypes DEF Hello, Message
  <2> QED
    BY <1>1, <2>1 DEF Hello, WorkerSends
<1>2. CASE OpenStore
  BY <1>2 DEF OpenStore
<1>3. CASE \E op \in Operations : StoreCommit(op)
  <2> PICK op \in Operations : StoreCommit(op)
    BY <1>3
  <2>1. Apply(db.state, op) \in StateSnapshot
    BY SnapshotTypes DEF StoreCommit, Database
  <2>2. db' \in Database
    BY <2>1 DEF StoreCommit, Database
  <2>3. inbox' \in Seq(Message)
    BY MessageTypes DEF StoreCommit, Message
  <2> QED
    BY <2>2, <2>3 DEF StoreCommit, WorkerSends
<1>4. CASE Resume
  BY <1>4 DEF Resume
<1>5. CASE HandlerReturns
  <2>1. inbox' \in Seq(Message)
    BY <1>5, MessageTypes DEF HandlerReturns, Message
  <2> QED
    BY <1>5, <2>1 DEF HandlerReturns, WorkerSends
<1>6. CASE HandlerRaises
  <2>1. inbox' \in Seq(Message)
    BY <1>6, MessageTypes DEF HandlerRaises, Message
  <2> QED
    BY <1>6, <2>1 DEF HandlerRaises, WorkerSends
<1>7. CASE WorkerCloses
  <2>1. db' \in Database
    BY <1>7 DEF WorkerCloses, Database
  <2> QED
    BY <1>7, <2>1 DEF WorkerCloses
<1>8. CASE WorkerExits
  <2>1. exit' \in [1..2 -> Exit]
    BY <1>8 DEF WorkerExits, Exit
  <2> QED
    BY <1>8, <2>1 DEF WorkerExits
<1>9. CASE WorkerDies
  <2>1. exit' \in [1..2 -> Exit]
    BY <1>9 DEF WorkerDies, Exit
  <2> QED
    BY <1>9, <2>1 DEF WorkerDies
<1>10. CASE ForeignSql
  <2>1. db' \in Database
    BY <1>10, WriteAroundTypes DEF ForeignSql
  <2>2. audit' \in [own : BOOLEAN, other : BOOLEAN]
    BY <1>10, AuditTypes DEF ForeignSql
  <2>3. around' \subseteq 1..2
    BY <1>10 DEF ForeignSql, Progress, StoreOpen
  <2>4. /\ mischief' \in Nat
        /\ UNCHANGED <<plan, pc, sealed, evidence, verdict, channel, process, strays, carried,
                       helpers, litter>>
    BY <1>10 DEF ForeignSql, Misbehaves
  <2> QED
    BY <2>1, <2>2, <2>3, <2>4
<1>11. CASE OwnSql
  <2>1. db' \in Database
    BY <1>11, WriteAroundTypes DEF OwnSql
  <2>2. audit' \in [own : BOOLEAN, other : BOOLEAN]
    BY <1>11, AuditTypes DEF OwnSql
  <2>3. around' \subseteq 1..2
    BY <1>11 DEF OwnSql, Progress
  <2> QED
    BY <1>11, <2>1, <2>2, <2>3 DEF OwnSql, Misbehaves
<1>12. CASE \E place \in {"world", "tree"} : WriteEntry(place) \/ TidyEntry(place)
  <2> PICK place \in {"world", "tree"} : WriteEntry(place) \/ TidyEntry(place)
    BY <1>12
  <2>1. CASE WriteEntry(place)
    BY <2>1 DEF WriteEntry, Misbehaves
  <2>2. CASE TidyEntry(place)
    BY <2>2 DEF TidyEntry, Misbehaves
  <2> QED
    BY <2>1, <2>2
<1>13. CASE \E helper \in Helper : LeaveHelper(helper)
  BY <1>13 DEF LeaveHelper, Misbehaves
<1>14. CASE HelperExits
  BY <1>14 DEF HelperExits
<1> QED
  BY <1>1, <1>2, <1>3, <1>4, <1>5, <1>6, <1>7, <1>8, <1>9, <1>10, <1>11, <1>12, <1>13,
     <1>14 DEF Candidate

\* So does each step of the controller.
LEMMA ControllerTypes == TypeOK /\ Progress /\ Controller => TypeOK'
<1> SUFFICES ASSUME TypeOK, Progress, Controller PROVE TypeOK'
  OBVIOUS
<1> USE DEF TypeOK, evidence, verdict, process, channel, world, history, Fail, GoTo,
            WorkerState, Stage, ExecutionStatus, IntegrityStatus
<1>0. \A kinds : Receive(kinds) => inbox' \in Seq(Message)
  BY MessageTypes
<1>1. CASE Prepare
  BY <1>1 DEF Prepare
<1>2. CASE Spawn
  <2>1. delivery' \in 0..2 /\ exit' \in [1..2 -> Exit]
    BY <1>2 DEF Spawn, Progress, Exit
  <2> QED
    BY <1>2, <2>1 DEF Spawn
<1>3. CASE ExpectHello
  BY <1>0, <1>3 DEF ExpectHello
<1>4. CASE AcceptCommit
  <2> DEFINE op == Head(inbox)
  <2>1. op \in Operations
    BY <1>4 DEF AcceptCommit, Receive
  <2>2. ops' \in [1..2 -> Seq(Operations)]
    BY <1>4, <2>1 DEF AcceptCommit, Progress
  <2>3. checkpoint' \in StateSnapshot \union {NoSnapshot}
    BY <1>4 DEF AcceptCommit, Database
  <2>4. inbox' \in Seq(Message)
    BY <1>0, <1>4 DEF AcceptCommit
  <2> QED
    BY <1>4, <2>2, <2>3, <2>4 DEF AcceptCommit
<1>5. CASE RefuseCommit
  BY <1>0, <1>5 DEF RefuseCommit
<1>6. CASE DeliveryFails
  <2>1. inbox' \in Seq(Message)
    BY <1>0, <1>6 DEF DeliveryFails
  <2>2. status' \in ExecutionStatus /\ integrity' \in IntegrityStatus
    BY <1>6 DEF DeliveryFails, StoreRefusal
  <2> QED
    BY <1>6, <2>1, <2>2 DEF DeliveryFails
<1>7. CASE ChannelCloses
  BY <1>7 DEF ChannelCloses
<1>8. CASE KillWorker
  <2>1. exit' \in [1..2 -> Exit]
    BY <1>8 DEF KillWorker, Exit
  <2> QED
    BY <1>8, <2>1 DEF KillWorker, SurviveKill
<1>9. CASE ProbeTheCrash
  <2>1. first' \in StateSnapshot \union {NoSnapshot}
    BY <1>9 DEF ProbeTheCrash, Database
  <2> QED
    BY <1>9, <2>1 DEF ProbeTheCrash
<1>10. CASE ReceiveDone
  BY <1>0, <1>10 DEF ReceiveDone
<1>11. CASE AwaitExit
  BY <1>11 DEF AwaitExit, SurviveKill
<1>12. CASE ReadAfterExit
  <2>1. {first', final'} \subseteq StateSnapshot \union {NoSnapshot}
    BY <1>12 DEF ReadAfterExit, Database
  <2> QED
    BY <1>12, <2>1 DEF ReadAfterExit
<1>13. CASE BetweenDeliveries
  BY <1>13 DEF BetweenDeliveries
<1>14. CASE Judge
  <2>1. Classification \in CrashObservation
    BY ClassifyTypes DEF Classification
  <2> QED
    BY <1>14, <2>1 DEF Judge
<1>15. CASE StepFails
  BY <1>15 DEF StepFails, StepFailures
<1>16. CASE Cleanup
  <2>1. exit' \in [1..2 -> Exit]
    BY <1>16 DEF Cleanup, Exit
  <2> QED
    BY <1>16, <2>1 DEF Cleanup, AfterCleanup, SurviveKill
<1>17. CASE Seal
  BY <1>17 DEF Seal
<1> QED
  BY <1>1, <1>2, <1>3, <1>4, <1>5, <1>6, <1>7, <1>8, <1>9, <1>10, <1>11, <1>12, <1>13,
     <1>14, <1>15, <1>16, <1>17 DEF Controller

----------------------------------------------------------------------------
(* A dead worker with no child left is still.                              *)

\* No process starts a worker or comes back, and where none runs nothing is
\* written.
LEMMA CandidateIsStill ==
    ASSUME Candidate
    PROVE  /\ worker \in {"none", "gone"} => worker' = worker /\ helpers' \subseteq helpers
           /\ worker' = "starting" => worker = "starting"
           /\ worker \in {"none", "starting", "gone"} /\ helpers = {} =>
                 helpers' = {} /\ db' = db
<1> USE DEF process, world, Misbehaves
<1>1. CASE Hello
  BY <1>1 DEF Hello
<1>2. CASE OpenStore
  BY <1>2 DEF OpenStore
<1>3. CASE \E op \in Operations : StoreCommit(op)
  BY <1>3 DEF StoreCommit
<1>4. CASE Resume
  BY <1>4 DEF Resume
<1>5. CASE HandlerReturns
  BY <1>5 DEF HandlerReturns
<1>6. CASE HandlerRaises
  BY <1>6 DEF HandlerRaises
<1>7. CASE WorkerCloses
  BY <1>7 DEF WorkerCloses
<1>8. CASE WorkerExits
  BY <1>8 DEF WorkerExits
<1>9. CASE WorkerDies
  BY <1>9 DEF WorkerDies
<1>10. CASE ForeignSql
  BY <1>10 DEF ForeignSql, CandidateRuns
<1>11. CASE OwnSql
  BY <1>11 DEF OwnSql
<1>12. CASE \E place \in {"world", "tree"} : WriteEntry(place) \/ TidyEntry(place)
  BY <1>12 DEF WriteEntry, TidyEntry
<1>13. CASE \E helper \in Helper : LeaveHelper(helper)
  BY <1>13 DEF LeaveHelper, CandidateRuns
<1>14. CASE HelperExits
  BY <1>14 DEF HelperExits
<1> QED
  BY <1>1, <1>2, <1>3, <1>4, <1>5, <1>6, <1>7, <1>8, <1>9, <1>10, <1>11, <1>12, <1>13,
     <1>14 DEF Candidate

\* The candidate keeps the whole invariant.
LEMMA CandidateStep == IInv /\ Candidate => IInv'
<1> SUFFICES ASSUME IInv, Candidate PROVE IInv'
  OBVIOUS
<1> USE CandidateFrame, CandidateIsStill DEF IInv
<1>1. TypeOK'
  BY CandidateTypes
<1>2. Progress'
  BY DEF Progress, verdict, Finishing, Attempt
<1>3. LedgerIsExplained'
  BY DEF LedgerIsExplained, evidence, Effects, Marks, EffectsIn, MarksIn
<1>4. SnapshotsAreTaken'
  BY DEF SnapshotsAreTaken, evidence, verdict, Effects, Marks, EffectsIn, MarksIn
<1>5. CrashIsFrozen'
  BY DEF CrashIsFrozen, evidence, Attempt
<1>6. EndIsQuiet'
  BY DEF EndIsQuiet, NothingOutlivesTheWorld
<1> QED
  BY <1>1, <1>2, <1>3, <1>4, <1>5, <1>6

----------------------------------------------------------------------------
(* The controller, one part of the invariant at a time.                    *)

\* Stages follow one another as execute_attempt and execute_no_fault_replay
\* lay them out.
LEMMA ControllerProgress == TypeOK /\ Progress /\ Controller => Progress'
<1> SUFFICES ASSUME TypeOK, Progress, Controller PROVE Progress'
  OBVIOUS
<1> USE DEF Progress, Ended, evidence, verdict, process, channel, world, Fail, GoTo, Finishing,
            Attempt
<1>0. delivery \in 0..2
  BY DEF TypeOK
<1>1. CASE Prepare
  BY <1>0, <1>1 DEF Prepare
<1>2. CASE Spawn
  BY <1>0, <1>2 DEF Spawn
<1>3. CASE ExpectHello
  BY <1>0, <1>3 DEF ExpectHello
<1>4. CASE AcceptCommit
  BY <1>0, <1>4 DEF AcceptCommit
<1>5. CASE RefuseCommit
  BY <1>0, <1>5 DEF RefuseCommit
<1>6. CASE DeliveryFails
  BY <1>0, <1>6 DEF DeliveryFails
<1>7. CASE ChannelCloses
  BY <1>0, <1>7 DEF ChannelCloses
<1>8. CASE KillWorker
  BY <1>0, <1>8 DEF KillWorker
<1>9. CASE ProbeTheCrash
  BY <1>0, <1>9 DEF ProbeTheCrash
<1>10. CASE ReceiveDone
  BY <1>0, <1>10 DEF ReceiveDone
<1>11. CASE AwaitExit
  BY <1>0, <1>11 DEF AwaitExit
<1>12. CASE ReadAfterExit
  BY <1>0, <1>12 DEF ReadAfterExit
<1>13. CASE BetweenDeliveries
  BY <1>0, <1>13 DEF BetweenDeliveries
<1>14. CASE Judge
  BY <1>0, <1>14 DEF Judge
<1>15. CASE StepFails
  BY <1>0, <1>15 DEF StepFails, StepFailures
<1>16. CASE Cleanup
  BY <1>0, <1>16 DEF Cleanup, AfterCleanup
<1>17. CASE Seal
  BY <1>0, <1>17 DEF Seal
<1> QED
  BY <1>1, <1>2, <1>3, <1>4, <1>5, <1>6, <1>7, <1>8, <1>9, <1>10, <1>11, <1>12, <1>13,
     <1>14, <1>15, <1>16, <1>17 DEF Controller

\* A reported commit that the probe explains is counted once.
LEMMA AcceptCounts ==
    ASSUME TypeOK, Progress, LedgerIsExplained, AcceptCommit
    PROVE  LedgerIsExplained'
<1> DEFINE op == Head(inbox)
           d == delivery
           schedule == Append(ops[d], op)
<1>1. op \in Operations /\ ledger' = db /\ ops' = [ops EXCEPT ![d] = schedule]
      /\ db.state = Apply(ledger.state, op) /\ db.other = ledger.other
      /\ delivery' = delivery
  BY DEF AcceptCommit, Receive, Explained, process
<1>2. d \in {1, 2} /\ ops \in [1..2 -> Seq(Operations)]
  BY DEF AcceptCommit, Progress, TypeOK
<1>3. \A k \in 1..2 : \A kind : Count(ops[k], kind) \in Nat
  BY <1>1, <1>2, CountAppend
<1>4. \A kind : Count(schedule, kind) = Count(ops[d], kind) + (IF op \in kind THEN 1 ELSE 0)
  <2> TAKE kind
  <2>1. op \in Operations /\ ops[d] \in Seq(Operations)
    BY <1>1, <1>2
  <2> HIDE DEF op, d
  <2> QED
    BY <2>1, CountAppend
<1> DEFINE e == Effects(1) + Effects(2)
           m == Marks(1) + Marks(2)
<1>5. e \in Nat /\ m \in Nat
  BY <1>3 DEF Effects, Marks, EffectsIn, MarksIn
<1>6. (Effects(1) + Effects(2))' = e + (IF op \in EffectOps THEN 1 ELSE 0)
  <2>1. CASE d = 1
    <3>1. ops'[1] = schedule /\ ops'[2] = ops[2]
      BY <1>1, <1>2, <2>1
    <3> QED
      BY <1>3, <1>4, <2>1, <3>1 DEF Effects, EffectsIn
  <2>2. CASE d = 2
    <3>1. ops'[2] = schedule /\ ops'[1] = ops[1]
      BY <1>1, <1>2, <2>2
    <3> QED
      BY <1>3, <1>4, <2>2, <3>1 DEF Effects, EffectsIn
  <2> QED
    BY <1>2, <2>1, <2>2
<1>7. (Marks(1) + Marks(2))' = m + (IF op \in MarkOps THEN 1 ELSE 0)
  <2>1. CASE d = 1
    <3>1. ops'[1] = schedule /\ ops'[2] = ops[2]
      BY <1>1, <1>2, <2>1
    <3> QED
      BY <1>3, <1>4, <2>1, <3>1 DEF Marks, MarksIn
  <2>2. CASE d = 2
    <3>1. ops'[2] = schedule /\ ops'[1] = ops[1]
      BY <1>1, <1>2, <2>2
    <3> QED
      BY <1>3, <1>4, <2>2, <3>1 DEF Marks, MarksIn
  <2> QED
    BY <1>2, <2>1, <2>2
<1>8. ledger'.state = StateAfter((Effects(1) + Effects(2))', (Marks(1) + Marks(2))')
  <2>1. Apply(StateAfter(e, m), op) =
          StateAfter(e + (IF op \in EffectOps THEN 1 ELSE 0),
                     m + (IF op \in MarkOps THEN 1 ELSE 0))
    BY <1>1, <1>5, ApplyCounts
  <2> QED
    BY <1>1, <1>6, <1>7, <2>1 DEF LedgerIsExplained
<1>9. ~ledger'.other
  BY <1>1 DEF LedgerIsExplained
<1>10. delivery' # 0 /\ (delivery' < 2 => ops'[2] = <<>>)
  BY <1>1, <1>2 DEF LedgerIsExplained
<1> QED
  BY <1>8, <1>9, <1>10 DEF LedgerIsExplained

\* The controller never lets into the ledger what the reports do not explain.
LEMMA ControllerLedger ==
    TypeOK /\ Progress /\ LedgerIsExplained /\ Controller => LedgerIsExplained'
<1> SUFFICES ASSUME TypeOK, Progress, LedgerIsExplained, Controller
             PROVE  LedgerIsExplained'
  OBVIOUS
<1> USE DEF LedgerIsExplained, Effects, Marks, EffectsIn, MarksIn, evidence, process
<1>1. CASE Prepare
  BY <1>1 DEF Prepare
<1>2. CASE Spawn
  BY <1>2 DEF Spawn, Progress
<1>3. CASE ExpectHello
  BY <1>3 DEF ExpectHello
<1>4. CASE AcceptCommit
  BY <1>4, AcceptCounts
<1>5. CASE RefuseCommit
  BY <1>5 DEF RefuseCommit
<1>6. CASE DeliveryFails
  BY <1>6 DEF DeliveryFails
<1>7. CASE ChannelCloses
  BY <1>7 DEF ChannelCloses
<1>8. CASE KillWorker
  BY <1>8 DEF KillWorker
<1>9. CASE ProbeTheCrash
  BY <1>9 DEF ProbeTheCrash
<1>10. CASE ReceiveDone
  BY <1>10 DEF ReceiveDone
<1>11. CASE AwaitExit
  BY <1>11 DEF AwaitExit
<1>12. CASE ReadAfterExit
  <2>1. UNCHANGED <<ops, delivery>>
    BY <1>12 DEF ReadAfterExit
  <2>2. ledger'.state = ledger.state /\ ledger'.other = ledger.other
    BY <1>12 DEF ReadAfterExit, ImageIsTheLedgers, TypeOK, Database
  <2> QED
    BY <2>1, <2>2
<1>13. CASE BetweenDeliveries
  BY <1>13 DEF BetweenDeliveries
<1>14. CASE Judge
  BY <1>14 DEF Judge
<1>15. CASE StepFails
  BY <1>15 DEF StepFails
<1>16. CASE Cleanup
  BY <1>16 DEF Cleanup
<1>17. CASE Seal
  BY <1>17 DEF Seal
<1> QED
  BY <1>1, <1>2, <1>3, <1>4, <1>5, <1>6, <1>7, <1>8, <1>9, <1>10, <1>11, <1>12, <1>13,
     <1>14, <1>15, <1>16, <1>17 DEF Controller

\* With nothing reported by a second worker, the ledger is the first's work.
LEMMA FirstDeliveryAlone ==
    ASSUME TypeOK, LedgerIsExplained, delivery = 1
    PROVE  ledger.state = StateAfter(Effects(1), Marks(1))
<1>1. Effects(1) \in Nat /\ Marks(1) \in Nat
  <2>1. ops[1] \in Seq(Operations)
    BY DEF TypeOK
  <2>2. CASE ops[1] = <<>>
    BY <2>2, CountEmpty DEF Effects, Marks, EffectsIn, MarksIn
  <2>3. \A op \in Operations : Effects(1) \in Nat /\ Marks(1) \in Nat
    BY <2>1, CountAppend DEF Effects, Marks, EffectsIn, MarksIn
  <2>4. "mark" \in Operations
    BY DEF Operations, MarkOps
  <2> QED
    BY <2>3, <2>4
<1>2. Effects(2) = 0 /\ Marks(2) = 0
  BY CountEmpty DEF LedgerIsExplained, Effects, Marks, EffectsIn, MarksIn
<1> QED
  BY <1>1, <1>2 DEF LedgerIsExplained

\* A snapshot is taken from the ledger, once, and only its own delivery's
\* commits come before it.
LEMMA ControllerSnapshots ==
    TypeOK /\ Progress /\ LedgerIsExplained /\ SnapshotsAreTaken /\ Controller
        => SnapshotsAreTaken'
<1> SUFFICES ASSUME TypeOK, Progress, LedgerIsExplained, SnapshotsAreTaken, Controller
             PROVE  SnapshotsAreTaken'
  OBVIOUS
<1> USE DEF SnapshotsAreTaken, Progress, Ended, Effects, Marks, EffectsIn, MarksIn, evidence, verdict, process,
            Fail, GoTo
<1>0. delivery \in 0..2 /\ NoSnapshot \notin StateSnapshot /\ db.state \in StateSnapshot
  BY WorldAssumption DEF TypeOK, Database
<1>1. CASE Prepare
  BY <1>0, <1>1 DEF Prepare
<1>2. CASE Spawn
  BY <1>0, <1>2 DEF Spawn
<1>3. CASE ExpectHello
  BY <1>0, <1>3 DEF ExpectHello
<1>4. CASE AcceptCommit
  <2>1. /\ pc = "drive" /\ delivery \in {1, 2} /\ UNCHANGED <<first, final, delivery>>
        /\ pc' \in {"drive", "kill", "cleanup"}
        /\ pc' = "cleanup" => status' = "IPC_ERROR"
    BY <1>4 DEF AcceptCommit
  <2>2. delivery = 2 => ops'[1] = ops[1]
    BY <1>4 DEF AcceptCommit, TypeOK
  <2>3. final = NoSnapshot
    BY <2>1
  <2> QED
    BY <2>1, <2>2, <2>3
<1>5. CASE RefuseCommit
  BY <1>0, <1>5 DEF RefuseCommit
<1>6. CASE DeliveryFails
  BY <1>0, <1>6 DEF DeliveryFails, StoreRefusal
<1>7. CASE ChannelCloses
  BY <1>0, <1>7 DEF ChannelCloses
<1>8. CASE KillWorker
  BY <1>0, <1>8 DEF KillWorker
<1>9. CASE ProbeTheCrash
  <2>1. /\ delivery = 1 /\ UNCHANGED <<ops, final, delivery>>
        /\ pc' \in {"spawn", "cleanup"}
        /\ pc' = "cleanup" => status' # "COMPLETED"
        /\ pc' = "spawn" => first' = db.state
        /\ first' # first => first' = db.state /\ db = ledger
    BY <1>9 DEF ProbeTheCrash, Unchanged
  <2>2. final = NoSnapshot
    BY <1>9 DEF ProbeTheCrash
  <2>3. ledger.state = StateAfter(Effects(1), Marks(1))
    BY <2>1, FirstDeliveryAlone
  <2> QED
    BY <1>0, <2>1, <2>2, <2>3
<1>10. CASE ReceiveDone
  BY <1>0, <1>10 DEF ReceiveDone
<1>11. CASE AwaitExit
  <2>1. refusal # "COMPLETED"
    BY DEF TypeOK
  <2> QED
    BY <1>0, <1>11, <2>1 DEF AwaitExit
<1>12. CASE ReadAfterExit
  <2>1. pc = "reread" /\ delivery \in {1, 2} /\ UNCHANGED <<ops, delivery>> /\ final = NoSnapshot
    BY <1>12 DEF ReadAfterExit
  <2>2. CASE ~ImageIsTheLedgers
    BY <1>12, <2>1, <2>2 DEF ReadAfterExit
  <2>3. CASE ImageIsTheLedgers /\ delivery = 1
    <3>1. first' = db.state /\ pc' = "between" /\ UNCHANGED final
      BY <1>12, <2>3 DEF ReadAfterExit
    <3>2. db.state = StateAfter(Effects(1), Marks(1))
      BY <2>3, FirstDeliveryAlone DEF ImageIsTheLedgers, TypeOK, Database
    <3> QED
      BY <1>0, <2>1, <2>3, <3>1, <3>2
  <2>4. CASE ImageIsTheLedgers /\ delivery = 2
    <3>1. final' = db.state /\ ledger' = db /\ pc' = "judge" /\ UNCHANGED first
      BY <1>12, <2>4 DEF ReadAfterExit
    <3> QED
      BY <1>0, <2>1, <2>4, <3>1
  <2> QED
    BY <2>1, <2>2, <2>3, <2>4
<1>13. CASE BetweenDeliveries
  BY <1>0, <1>13 DEF BetweenDeliveries
<1>14. CASE Judge
  BY <1>0, <1>14 DEF Judge
<1>15. CASE StepFails
  BY <1>0, <1>15 DEF StepFails, StepFailures
<1>16. CASE Cleanup
  BY <1>0, <1>16 DEF Cleanup, AfterCleanup
<1>17. CASE Seal
  BY <1>0, <1>17 DEF Seal
<1> QED
  BY <1>1, <1>2, <1>3, <1>4, <1>5, <1>6, <1>7, <1>8, <1>9, <1>10, <1>11, <1>12, <1>13,
     <1>14, <1>15, <1>16, <1>17 DEF Controller

\* The kill, the probe and the respawn leave the crashed database alone.
LEMMA ControllerCrash ==
    TypeOK /\ Progress /\ CrashIsFrozen /\ Controller => CrashIsFrozen'
<1> SUFFICES ASSUME TypeOK, Progress, CrashIsFrozen, Controller PROVE CrashIsFrozen'
  OBVIOUS
<1> USE DEF CrashIsFrozen, Progress, Ended, evidence, verdict, process, world, history, Fail, GoTo,
            Attempt
<1>0. delivery \in 0..2
  BY DEF TypeOK
<1>1. CASE Prepare
  BY <1>0, <1>1 DEF Prepare
<1>2. CASE Spawn
  BY <1>0, <1>2 DEF Spawn
<1>3. CASE ExpectHello
  BY <1>0, <1>3 DEF ExpectHello
<1>4. CASE AcceptCommit
  <2>1. /\ pc = "drive" /\ UNCHANGED <<plan, delivery, worker, strays, helpers, db, first>>
        /\ ledger' = db /\ pc' \in {"drive", "kill", "cleanup"}
        /\ pc' = "kill" => checkpoint' = db.state
        /\ delivery = 2 => checkpoint' = checkpoint
    BY <1>4 DEF AcceptCommit, Finishing
  <2> QED
    BY <1>0, <2>1
<1>5. CASE RefuseCommit
  BY <1>0, <1>5 DEF RefuseCommit
<1>6. CASE DeliveryFails
  BY <1>0, <1>6 DEF DeliveryFails
<1>7. CASE ChannelCloses
  BY <1>0, <1>7 DEF ChannelCloses
<1>8. CASE KillWorker
  BY <1>0, <1>8 DEF KillWorker, SurviveKill, TypeOK, Helper
<1>9. CASE ProbeTheCrash
  BY <1>0, <1>9 DEF ProbeTheCrash, Unchanged
<1>10. CASE ReceiveDone
  BY <1>0, <1>10 DEF ReceiveDone
<1>11. CASE AwaitExit
  BY <1>0, <1>11 DEF AwaitExit
<1>12. CASE ReadAfterExit
  BY <1>0, <1>12 DEF ReadAfterExit
<1>13. CASE BetweenDeliveries
  BY <1>0, <1>13 DEF BetweenDeliveries
<1>14. CASE Judge
  BY <1>0, <1>14 DEF Judge
<1>15. CASE StepFails
  BY <1>0, <1>15 DEF StepFails
<1>16. CASE Cleanup
  BY <1>0, <1>16 DEF Cleanup
<1>17. CASE Seal
  BY <1>0, <1>17 DEF Seal
<1> QED
  BY <1>1, <1>2, <1>3, <1>4, <1>5, <1>6, <1>7, <1>8, <1>9, <1>10, <1>11, <1>12, <1>13,
     <1>14, <1>15, <1>16, <1>17 DEF Controller

\* Cleanup kills every group before the receipt is built.
LEMMA ControllerEnd == TypeOK /\ Progress /\ EndIsQuiet /\ Controller => EndIsQuiet'
<1> SUFFICES ASSUME TypeOK, Progress, EndIsQuiet, Controller PROVE EndIsQuiet'
  OBVIOUS
<1> USE DEF EndIsQuiet, NothingOutlivesTheWorld, Progress, verdict, process, world, Fail, GoTo
<1>1. CASE Prepare
  BY <1>1 DEF Prepare
<1>2. CASE Spawn
  BY <1>2 DEF Spawn
<1>3. CASE ExpectHello
  BY <1>3 DEF ExpectHello
<1>4. CASE AcceptCommit
  BY <1>4 DEF AcceptCommit
<1>5. CASE RefuseCommit
  BY <1>5 DEF RefuseCommit
<1>6. CASE DeliveryFails
  BY <1>6 DEF DeliveryFails
<1>7. CASE ChannelCloses
  BY <1>7 DEF ChannelCloses
<1>8. CASE KillWorker
  BY <1>8 DEF KillWorker
<1>9. CASE ProbeTheCrash
  BY <1>9 DEF ProbeTheCrash
<1>10. CASE ReceiveDone
  BY <1>10 DEF ReceiveDone
<1>11. CASE AwaitExit
  BY <1>11 DEF AwaitExit
<1>12. CASE ReadAfterExit
  BY <1>12 DEF ReadAfterExit
<1>13. CASE BetweenDeliveries
  BY <1>13 DEF BetweenDeliveries
<1>14. CASE Judge
  BY <1>14 DEF Judge
<1>15. CASE StepFails
  BY <1>15 DEF StepFails
<1>16. CASE Cleanup
  BY <1>16 DEF Cleanup, SurviveKill
<1>17. CASE Seal
  BY <1>17 DEF Seal
<1> QED
  BY <1>1, <1>2, <1>3, <1>4, <1>5, <1>6, <1>7, <1>8, <1>9, <1>10, <1>11, <1>12, <1>13,
     <1>14, <1>15, <1>16, <1>17 DEF Controller

----------------------------------------------------------------------------
(* The inductive invariant and what follows from it.                       *)

LEMMA InvariantInit == Init => IInv
<1> SUFFICES ASSUME Init PROVE IInv
  OBVIOUS
<1> USE DEF Init
<1>1. Seed \in StateSnapshot
  BY SnapshotTypes
<1>2. TypeOK
  <2>1. db \in Database /\ ledger \in Database
    BY <1>1 DEF Database, SeededDatabase
  <2>2. audit \in [own : BOOLEAN, other : BOOLEAN]
    OBVIOUS
  <2>3. exit \in [1..2 -> Exit] /\ ops \in [1..2 -> Seq(Operations)]
    BY DEF Exit
  <2>4. /\ plan \in Plans
        /\ pc \in Stage /\ worker \in WorkerState
        /\ outbox \in {"none", "continue", "release"}
        /\ refusal \in {"none", "PROBE_ERROR", "INTEGRITY_ERROR"}
        /\ sealed \in {"none", "receipt", "raised"}
        /\ strays \in BOOLEAN
    BY DEF Stage, WorkerState
  <2>5. delivery \in 0..2 /\ mischief \in Nat
    OBVIOUS
  <2>6. inbox \in Seq(Message)
    OBVIOUS
  <2>7. /\ helpers \subseteq Helper
        /\ litter \subseteq {"world", "tree"} /\ carried \subseteq {"world", "tree"}
        /\ around \subseteq 1..2
    OBVIOUS
  <2>8. {checkpoint, first, final} \subseteq StateSnapshot \union {NoSnapshot}
    OBVIOUS
  <2>9. /\ status \in ExecutionStatus /\ integrity \in IntegrityStatus
        /\ observation \in CrashObservation
    BY DEF ExecutionStatus, IntegrityStatus, CrashObservation
  <2> QED
    BY <2>1, <2>2, <2>3, <2>4, <2>5, <2>6, <2>7, <2>8, <2>9 DEF TypeOK
<1>3. Progress
  BY DEF Progress, Ended
<1>4. LedgerIsExplained
  <2>1. Effects(1) = 0 /\ Effects(2) = 0 /\ Marks(1) = 0 /\ Marks(2) = 0
    BY CountEmpty DEF Effects, Marks, EffectsIn, MarksIn
  <2>2. StateAfter(0, 0) = Seed
    BY ScenarioAssumption DEF StateAfter, Seed
  <2> QED
    BY <2>1, <2>2 DEF LedgerIsExplained, SeededDatabase
<1>5. SnapshotsAreTaken
  BY DEF SnapshotsAreTaken, Ended
<1>6. CrashIsFrozen /\ EndIsQuiet
  BY DEF CrashIsFrozen, EndIsQuiet, NothingOutlivesTheWorld
<1> QED
  BY <1>2, <1>3, <1>4, <1>5, <1>6 DEF IInv

LEMMA InvariantStep == IInv /\ [Next]_vars => IInv'
<1> SUFFICES ASSUME IInv, [Next]_vars PROVE IInv'
  OBVIOUS
<1>1. CASE Candidate
  BY <1>1, CandidateStep
<1>2. CASE Controller
  BY <1>2, ControllerTypes, ControllerProgress, ControllerLedger, ControllerSnapshots,
     ControllerCrash, ControllerEnd DEF IInv
<1>3. CASE UNCHANGED vars
  BY <1>3 DEF IInv, TypeOK, Progress, LedgerIsExplained, SnapshotsAreTaken, CrashIsFrozen,
              EndIsQuiet, NothingOutlivesTheWorld, Finishing, Attempt, Effects, Marks, EffectsIn, MarksIn, vars,
              evidence, verdict, channel, process, world, history
<1> QED
  BY <1>1, <1>2, <1>3 DEF Next

\* Every variable keeps its type, and the invariant above holds, in every
\* world the runner can be asked for.
THEOREM InvariantHolds == Spec => []IInv
BY InvariantInit, InvariantStep, PTL DEF Spec

\* Every variable keeps its type.
THEOREM TypeCorrect == Spec => []TypeOK
<1>1. IInv => TypeOK
  BY DEF IInv
<1> QED
  BY <1>1, InvariantHolds, PTL

\* Whatever the handler does, a completed receipt judges exactly the state
\* that the store commits its two workers reported make of the seed.
THEOREM VerdictJudgesTheStore == Spec => []JudgedStateIsTheStoresOwn
<1>1. IInv => JudgedStateIsTheStoresOwn
  <2> SUFFICES ASSUME IInv, Completed PROVE JudgedStateIsTheStoresOwn
    BY DEF JudgedStateIsTheStoresOwn
  <2>1. pc = "finished" /\ status = "COMPLETED"
    BY DEF IInv, Progress, Completed
  <2>2. final # NoSnapshot /\ delivery = 2
    BY <2>1 DEF IInv, SnapshotsAreTaken, Ended
  <2>3. first # NoSnapshot
    BY <2>2 DEF IInv, SnapshotsAreTaken
  <2> QED
    BY <2>2, <2>3 DEF IInv, SnapshotsAreTaken, LedgerIsExplained, JudgedStateIsTheStoresOwn
<1> QED
  BY <1>1, InvariantHolds, PTL

\* The redelivery starts from the database the kill left and the probe read.
THEOREM ReplayIsFaithful == Spec => []ReplayStartsFromTheCrash
<1>1. IInv => ReplayStartsFromTheCrash
  BY DEF IInv, CrashIsFrozen, ReplayStartsFromTheCrash
<1> QED
  BY <1>1, InvariantHolds, PTL

\* No worker and no child of its group outlives the world.
THEOREM WorldIsContained == Spec => []NothingOutlivesTheWorld
<1>1. IInv => NothingOutlivesTheWorld
  BY DEF IInv, EndIsQuiet
<1> QED
  BY <1>1, InvariantHolds, PTL

\* The first failure of a world is the one its receipt tells.
THEOREM FirstFailureStands == Spec => FailureIsNeverHidden
<1>1. IInv /\ [Next]_vars => [status # "COMPLETED" => UNCHANGED <<status, integrity>>]_vars
  <2> SUFFICES ASSUME IInv, Next, status # "COMPLETED"
               PROVE  UNCHANGED <<status, integrity>>
    OBVIOUS
  <2>1. pc \in Ended
    BY DEF IInv, Progress
  <2>2. CASE Candidate
    BY <2>2, CandidateFrame DEF verdict
  <2>3. CASE Controller
    BY <2>1, <2>3 DEF Controller, Ended, Prepare, Spawn, ExpectHello, AcceptCommit, RefuseCommit,
                      DeliveryFails, ChannelCloses, KillWorker, ProbeTheCrash, ReceiveDone,
                      AwaitExit, ReadAfterExit, BetweenDeliveries, Judge, StepFails, StepFailures,
                      Cleanup, AfterCleanup, Seal, GoTo, verdict
  <2> QED
    BY <2>2, <2>3 DEF Next
<1> QED
  BY <1>1, InvariantHolds, PTL DEF Spec, FailureIsNeverHidden
=============================================================================
