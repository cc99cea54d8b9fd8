------------------------------ MODULE RedTeam ------------------------------
(***************************************************************************)
(* The red team's comparison (redteam.run): `check` judges a generated     *)
(* handler, statement by statement in every world it runs, and the oracle  *)
(* judges the sequence of its statements.  The handler is deterministic,   *)
(* so the worlds of the confirmation wave are one world told Confirmations *)
(* times.  No world runs out of time: redteam counts such a case as        *)
(* unknown.                                                                *)
(*                                                                         *)
(* The engine's side is what CrashWorld and Check do with such a handler;  *)
(* the base is the packaged one, whose bug is witnessed.                   *)
(***************************************************************************)
EXTENDS Evidence, Oracle

CONSTANT Handlers   \* the generated handlers

ASSUME HandlersAssumption == \A ops \in Handlers : ops \in Seq(Ops)

VARIABLES
    handler,    \* its statements
    wave,       \* the worlds that run: "boundary", "census", "sweep"; then "judge", "done"
    kill,       \* the commit a world of the sweep is killed after
    world,      \* the world that runs
    receipts,   \* what each wave returned
    verdict,
    outcome     \* "none", "published" or "refused" by the validators

vars == <<handler, wave, kill, world, receipts, verdict, outcome>>

\* The delivery and its next statement; the database's rows and whether it
\* holds anything else; the files; the controller's ledger, and as it was after
\* the first delivery; the commits of this delivery and of the first.
World == [delivery : {1, 2}, at : Nat, db : StateSnapshot, other : BOOLEAN,
          files : SUBSET FileOps, ledger : StateSnapshot, first : StateSnapshot,
          ops : Seq(Operations), schedule : Seq(Operations)]

Seeded == [delivery |-> 1, at |-> 1, db |-> Seed, other |-> FALSE, files |-> {},
           ledger |-> Seed, first |-> Seed, ops |-> <<>>, schedule |-> <<>>]

TypeOK ==
    /\ handler \in Handlers
    /\ wave \in {"boundary", "census", "sweep", "judge", "done"}
    /\ kill \in 0..Len(handler)
    /\ world \in World /\ world.at \in 1..(Len(handler) + 1)
    /\ DOMAIN receipts = {"boundary", "census", "sweep"}
    /\ \A w \in DOMAIN receipts : receipts[w] \in Seq(Receipt)
    /\ verdict \in CrashVerdict
    /\ outcome \in {"none", "published", "refused"}

Init ==
    /\ handler \in Handlers
    /\ wave = "boundary" /\ kill = 0
    /\ world = Seeded
    /\ receipts = [boundary |-> <<>>, census |-> <<>>, sweep |-> <<>>]
    /\ verdict = "EVIDENCE_INCOMPLETE"
    /\ outcome = "none"

----------------------------------------------------------------------------
(* How a delivery and a world end.                                         *)

Continue(next) ==
    world' = next /\ UNCHANGED <<handler, wave, kill, receipts, verdict, outcome>>

NeverReached(attempts) == \A i \in DOMAIN attempts : attempts[i].status = "CHECKPOINT_NOT_REACHED"

\* A wave that is exactly once is swept, and one that never reached the effect
\* is, to be described.
IsSwept(attempts) == ConfirmedObservation(attempts) = "EXACTLY_ONCE" \/ NeverReached(attempts)

\* The receipt joins its wave; a census without a commit has none of its own.
\* Then a fresh world runs, if one is left to run.
Return(receipt) ==
    LET told == IF wave = "census" /\ Completed(receipt) /\ receipt.ops = <<>>
                THEN SetupFailure ELSE receipt
        returned == [receipts EXCEPT ![wave] =
                        IF wave = "boundary" THEN [i \in 1..Confirmations |-> told]
                        ELSE Append(@, told)]
    IN  /\ receipts' = returned
        /\ world' = Seeded
        /\ IF wave = "boundary"
           THEN wave' = (IF IsSwept(returned.boundary) THEN "census" ELSE "judge") /\ kill' = 0
           ELSE IF kill + 1 \in KillPoints(returned.census[1])
           THEN wave' = "sweep" /\ kill' = kill + 1
           ELSE wave' = "judge" /\ kill' = kill
        /\ UNCHANGED <<handler, verdict, outcome>>

FailWorld(failure) ==
    Return([status |-> failure, observation |-> "NOT_OBSERVED", ops |-> <<>>,
            integrity |-> IF failure = "INTEGRITY_ERROR" THEN "INVALID" ELSE "INCOMPLETE"])

\* The database holds what the ledger explains, and nothing else.
IsExplained(w) == ~w.other /\ w.db = w.ledger

\* After the kill, between the deliveries of a census and at the end, the
\* database and the world are compared; then the event is delivered again, or
\* the world is judged.
End(w) ==
    IF ~IsExplained(w) \/ w.files # {} THEN FailWorld("INTEGRITY_ERROR")
    ELSE IF w.delivery = 1
    THEN Continue([w EXCEPT !.delivery = 2, !.at = 1, !.first = w.ledger,
                            !.schedule = w.ops, !.ops = <<>>])
    ELSE Return(ReceiptOf(IF wave = "census"
                          THEN ClassifyDelivery(w.first, w.ledger, InitialTotal)
                          ELSE ClassifyFinal(w.ledger, InitialTotal), w.schedule))

\* Fault: the boundary is the first commit, whatever it made durable.
KillAtFirstCommit(w) ==
    w.delivery = 1 /\ \/ wave = "boundary" /\ Len(w.ops) = 1
                      \/ wave = "sweep" /\ Len(w.ops) = kill

\* The controller does not answer this commit but kills.
KillDue(w) ==
    w.delivery = 1 /\ \/ wave = "boundary" /\ CheckpointReached(w.ledger, "effect-commit")
                      \/ wave = "sweep" /\ Len(w.ops) = kill

----------------------------------------------------------------------------
(* One statement of the handler.                                           *)

Runs == wave \in {"boundary", "census", "sweep"}
Here == IF world.at <= Len(handler) THEN handler[world.at] ELSE "return"
Further == [world EXCEPT !.at = @ + 1]

StoreOp == [effect |-> "effect", mark |-> "mark", try_mark |-> "mark", atomic |-> "effect_and_mark"]

Acts == Runs /\ Here \in DOMAIN StoreOp /\ StoreCommits(world.db, StoreOp[Here])

\* The store commits; the controller explains it, then kills or answers.
StoreCommit ==
    /\ Acts
    /\ LET op == StoreOp[Here]
           after == [Further EXCEPT !.db = Apply(@, op), !.ledger = Apply(@, op),
                                    !.ops = Append(@, op)]
       IN  IF ~IsExplained(after) THEN FailWorld("INTEGRITY_ERROR")
           ELSE IF KillDue(after) THEN End(after)
           ELSE Continue(after)

\* The marker is there: the atomic call returns, a second marker is swallowed.
StorePasses ==
    /\ Runs /\ Here \in {"atomic", "try_mark"} /\ ~StoreCommits(world.db, StoreOp[Here])
    /\ Continue(Further)

\* A second marker raises.  Before the kill that is a checkpoint not reached.
MarkRaises ==
    /\ Runs /\ Here = "mark" /\ ~StoreCommits(world.db, StoreOp[Here])
    /\ FailWorld(IF world.delivery = 1 /\ wave # "census" THEN "CHECKPOINT_NOT_REACHED"
                 ELSE "REPLAY_ERROR")

GuardPasses == Runs /\ Here = "guard" /\ world.db.marker = 0 /\ Continue(Further)

\* The handler returns, at its guard or at its end.
HandlerReturns ==
    /\ Runs
    /\ Here = "return" \/ (Here = "guard" /\ world.db.marker = 1)
    /\ IF world.delivery = 1 /\ wave # "census" THEN FailWorld("CHECKPOINT_NOT_REACHED")
       ELSE End(world)

TouchFiles ==
    /\ Runs /\ Here \in FileOps \union {"delete_file"}
    /\ Continue([Further EXCEPT !.files = IF Here = "delete_file" THEN @ \ {"raw_file"}
                                        ELSE @ \union {Here}])

\* The store's own rows, through another connection.
RawSql ==
    Runs /\ Here = "raw_sql" /\ Continue([Further EXCEPT !.db = Apply(@, "effect")])

\* A change of the database file that leaves the event's numbers alone; there
\* is nothing to re-point before the first effect.
ChangeDatabase ==
    /\ Runs /\ Here \in {"table", "repoint"}
    /\ Continue([Further EXCEPT !.other = @ \/ Here = "table" \/ world.db.effects > 0])

----------------------------------------------------------------------------
(* The verdict.                                                            *)

Census == receipts.census[1]
Swept  == receipts.census # <<>>

Gathered ==
    LET witness == ReceiptOf("DUPLICATE_EFFECT", <<>>)
        control == ReceiptOf("EXACTLY_ONCE", <<>>)
    IN  [hunt |-> <<witness, witness>>, control |-> <<control, control>>,
         attempts |-> [base |-> [i \in 1..Confirmations |-> witness],
                       candidate |-> receipts.boundary],
         sweeps |-> IF Swept THEN [candidate |-> [census |-> Census, kills |-> receipts.sweep]]
                    ELSE <<>>,
         unresolved |-> "none"]

Judged ==
    IF ConfirmedObservation(receipts.boundary) = "NOT_OBSERVED" THEN "EVIDENCE_INCOMPLETE"
    ELSE IF Swept
    THEN ClaimedFixVerdict(SweepObservation(Census, receipts.sweep), receipts.boundary, TRUE, Census)
    ELSE ClaimedFixVerdict(ConfirmedObservation(receipts.boundary), receipts.boundary, FALSE,
                           SetupFailure)

Judge ==
    /\ wave = "judge"
    /\ wave' = "done"
    /\ verdict' = Judged
    /\ outcome' = IF Publishable(Judged, Gathered) THEN "published" ELSE "refused"
    /\ UNCHANGED <<handler, kill, world, receipts>>

Next ==
    \/ StoreCommit \/ StorePasses \/ MarkRaises \/ GuardPasses \/ HandlerReturns
    \/ TouchFiles \/ RawSql \/ ChangeDatabase \/ Judge

Spec == Init /\ [][Next]_vars
----------------------------------------------------------------------------
(* What the comparison promises.                                           *)

\* What the engine judges of a generated handler is what the oracle expects.  It
\* raises, instead of publishing, only of a handler the oracle fails for what it
\* did without a crash, when a world of its sweep did not complete:
\* <<"guard", "atomic", "raw_file", "effect", "delete_file">> is one.
VerdictIsTheOracles ==
    /\ outcome \in {"published", "refused"} => verdict = Expected(handler)
    /\ outcome = "refused" =>
          /\ Classify(Redelivered(handler, BoundaryCommit(handler))) = "EXACTLY_ONCE"
          /\ verdict \notin {"FIX_PROVEN_FOR_THIS_CAPSULE", "EVIDENCE_INCOMPLETE"}
          /\ \E n \in KillPoints(Census) : ~Judgeable(Redelivered(handler, n))

\* A proven fix is one event exactly once however often it is killed, at
\* whichever commits, before a delivery runs to its end; check kills once.
ProvenSurvivesEveryCrash ==
    outcome = "published" /\ verdict = "FIX_PROVEN_FOR_THIS_CAPSULE" =>
        \A kills \in UNION {[1..n -> 1..Len(handler)] : n \in 0..3} :
            LET last == AfterCrashes(handler, kills)
            IN  last.end = "done" /\ Classify(last) = "EXACTLY_ONCE"
=============================================================================
