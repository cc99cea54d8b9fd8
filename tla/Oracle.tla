------------------------------- MODULE Oracle -------------------------------
(***************************************************************************)
(* The red team's oracle (redteam.oracle): the verdict a handler deserves, *)
(* from the sequence of its operations alone.  A world is an effect count  *)
(* and a marker; a write around the store is seen when the kernel looks.   *)
(*                                                                         *)
(* A handler is a sequence of Ops.  home_file stands for every change of   *)
(* the world that cannot be tidied away (parent_file, tmp_file,            *)
(* home_chmod, home_rmdir), table for every write inside the database file *)
(* that no row shows (pragma, header_flag, tail_bytes).  retry_effect is   *)
(* an effect here, and detect does nothing.                                *)
(***************************************************************************)
EXTENDS Integers, Sequences

Seqs == INSTANCE SequencesExt

StoreOps == {"guard", "effect", "mark", "atomic", "try_mark"}
FileOps  == {"raw_file", "home_file"}
HazardOps == FileOps \union {"delete_file", "raw_sql", "table", "repoint"}
Ops == StoreOps \union HazardOps

\* end tells how the last delivery ended: "running" until then.
Fresh == [effects |-> 0, marker |-> 0, files |-> {}, raw_db |-> FALSE, raw_seen |-> FALSE,
          trace |-> <<>>, end |-> "running"]

\* A commit is a probe of the database and a kill point.
Commit(world, kill) ==
    LET trace == Append(world.trace, world.effects)
    IN  [world EXCEPT !.trace = trace,
                      !.raw_seen = @ \/ world.raw_db,
                      !.end = IF Len(trace) = kill THEN "killed" ELSE "running"]

\* One statement of a running delivery.
Statement(world, op, kill) ==
    LET credited == [world EXCEPT !.effects = @ + 1]
        marked   == [world EXCEPT !.marker = 1]
        again    == world.marker = 1
    IN  CASE op = "guard"      -> [world EXCEPT !.end = IF again THEN "done" ELSE "running"]
          [] op = "effect"     -> Commit(credited, kill)
          [] op = "mark"       -> IF again THEN [world EXCEPT !.end = "error"]
                                  ELSE Commit(marked, kill)
          [] op = "try_mark"   -> IF again THEN world ELSE Commit(marked, kill)
          [] op = "atomic"     -> IF again THEN world
                                  ELSE Commit([credited EXCEPT !.marker = 1], kill)
          [] op \in FileOps    -> [world EXCEPT !.files = @ \union {op}]
          [] op = "delete_file" -> [world EXCEPT !.files = @ \ {"raw_file"}]
          [] op = "raw_sql"    -> [credited EXCEPT !.raw_db = TRUE]
          [] op = "table"      -> [world EXCEPT !.raw_db = TRUE]
          [] op = "repoint"    -> [world EXCEPT !.raw_db = @ \/ world.effects > 0]

\* Nothing follows the end of a delivery.
Step(world, op, kill) == IF world.end = "running" THEN Statement(world, op, kill) ELSE world

\* A delivery after each of its statements.
Course(world, ops, kill) ==
    LET course[n \in 0..Len(ops)] ==
            IF n = 0 THEN [world EXCEPT !.trace = <<>>, !.end = "running"]
            ELSE Step(course[n - 1], ops[n], kill)
    IN  course

\* One delivery, killed at its commit number kill (0: never).
Delivery(world, ops, kill) ==
    [Course(world, ops, kill)[Len(ops)] EXCEPT !.end = IF @ = "running" THEN "done" ELSE @]

\* The kernel scans after a kill and after a completed delivery, never after
\* an error.
Scan(world) ==
    IF world.end \in {"killed", "done"}
    THEN [world EXCEPT !.raw_seen = @ \/ world.files # {} \/ world.raw_db]
    ELSE world

Deliver(world, ops, kill) == Scan(Delivery(world, ops, kill))

\* A world killed at a commit, or never, and delivered again.
Redelivered(ops, kill) == Deliver(Deliver(Fresh, ops, kill), ops, 0)

Classify(world) ==
    IF world.effects = 2 THEN "DUPLICATE_EFFECT"
    ELSE IF world.effects = 1 /\ world.marker = 1 THEN "EXACTLY_ONCE"
    ELSE "INVARIANT_FAILED"

\* The first commit at which one effect is durable; 0 if there is none.
BoundaryCommit(ops) ==
    Seqs!SelectInSeq(Delivery(Fresh, ops, 0).trace, LAMBDA effects : effects = 1)

Judgeable(world) == ~world.raw_seen /\ world.end = "done"

Failed(observation) ==
    IF observation = "DUPLICATE_EFFECT" THEN "PATCH_FAILED_STILL_REPRODUCES"
    ELSE "PATCH_FAILED_INVARIANT_BROKEN"

\* What the checker must say: of the boundary worlds, unless they end exactly
\* once; then of the census; and at last of a kill after every commit.
Expected(ops) ==
    LET boundary == BoundaryCommit(ops)
        replayed == Redelivered(ops, boundary)
        first    == Deliver(Fresh, ops, 0)
        final    == Deliver(first, ops, 0)
        points   == 1..Len(first.trace)
        swept    == [n \in points |-> Redelivered(ops, n)]
        seen     == {Classify(swept[n]) : n \in points}
    IN  IF boundary = 0 \/ ~Judgeable(replayed) THEN "EVIDENCE_INCOMPLETE"
        ELSE IF Classify(replayed) # "EXACTLY_ONCE" THEN Failed(Classify(replayed))
        ELSE IF ~Judgeable(first) \/ ~Judgeable(final) THEN "EVIDENCE_INCOMPLETE"
        ELSE IF Classify(final) # "EXACTLY_ONCE" THEN Failed(Classify(final))
        ELSE IF Classify(first) # "EXACTLY_ONCE" THEN "PATCH_FAILED_INVARIANT_BROKEN"
        ELSE IF \E n \in points : ~Judgeable(swept[n]) THEN "EVIDENCE_INCOMPLETE"
        ELSE IF "DUPLICATE_EFFECT" \in seen THEN "PATCH_FAILED_STILL_REPRODUCES"
        ELSE IF "INVARIANT_FAILED" \in seen THEN "PATCH_FAILED_INVARIANT_BROKEN"
        ELSE "FIX_PROVEN_FOR_THIS_CAPSULE"

\* A world after each of its deliveries, killed one after the other.
Crashes(ops, kills) ==
    LET crashes[n \in 0..Len(kills)] ==
            IF n = 0 THEN Fresh ELSE Deliver(crashes[n - 1], ops, kills[n])
    IN  crashes

\* A world whose deliveries are killed one after the other, and the last not.
AfterCrashes(ops, kills) == Deliver(Crashes(ops, kills)[Len(kills)], ops, 0)
=============================================================================
