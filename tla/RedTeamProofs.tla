--------------------------- MODULE RedTeamProofs ---------------------------
(***************************************************************************)
(* The red team's promises for every generated handler, however long.      *)
(*                                                                         *)
(* A course is a function from the number of statements to the world after *)
(* them.  What holds of each of its worlds is proved by induction over the *)
(* set of the numbers it holds at (InductionUpTo), which rests on the least*)
(* element of a set of numbers.                                            *)
(*                                                                         *)
(* First the oracle by itself: what a delivery leaves, where it commits,   *)
(* that a killed one is the free one up to its kill, and that a handler    *)
(* the oracle proves survives any number of crashes.  Then the engine: its *)
(* world and the oracle's hold the same after every statement, so that its *)
(* receipts tell what the oracle's worlds would, and its rules make of     *)
(* them what the oracle expects.                                           *)
(***************************************************************************)
EXTENDS RedTeam, FiniteSetTheorems, WellFoundedInduction, TLAPS

----------------------------------------------------------------------------
(* Induction, over a set of numbers rather than a predicate.               *)

\* A set of numbers has a least one.
LEMMA LeastNatural ==
    ASSUME NEW T \in SUBSET Nat, T # {}
    PROVE  \E m \in T : \A k \in T : m <= k
<1> DEFINE R == {ss \in Nat \X Nat : ss[1] < ss[2]}
<1>1. IsWellFoundedOn(R, Nat)
  BY NatLessThanWellFounded, Zenon DEF OpToRel
<1>2. \E x \in T : \A y \in T : ~(<<y, x>> \in R)
  <2> HIDE DEF R
  <2> QED
    BY <1>1, WFMin
<1>3. PICK x \in T : \A y \in T : ~(<<y, x>> \in R)
  BY <1>2
<1>4. \A k \in T : x <= k
  <2> SUFFICES ASSUME NEW k \in T PROVE x <= k
    OBVIOUS
  <2>1. x \in Nat /\ k \in Nat /\ ~(k < x)
    BY <1>3
  <2> QED
    BY <2>1
<1> QED
  BY <1>4

\* What holds of the first number, and of each number's successor, holds up to any.
LEMMA InductionUpTo ==
    ASSUME NEW a \in Nat, NEW b \in Nat, NEW S,
           a \in S, \A n \in a..(b - 1) : n \in S => n + 1 \in S
    PROVE  a..b \subseteq S
<1> SUFFICES ASSUME NEW c \in a..b, c \notin S PROVE FALSE
  OBVIOUS
<1> DEFINE T == {n \in a..b : n \notin S}
<1>1. T \in SUBSET Nat /\ T # {}
  OBVIOUS
<1>2. PICK m \in T : \A k \in T : m <= k
  <2> HIDE DEF T
  <2> QED
    BY <1>1, LeastNatural
<1>3. m \in a..b /\ m \notin S /\ m # a
  OBVIOUS
<1>4. m - 1 \in a..(b - 1)
  BY <1>3
<1>5. m - 1 \notin T
  BY <1>2, <1>4
<1>6. m - 1 \in S
  BY <1>4, <1>5
<1> QED
  BY <1>3, <1>4, <1>6

----------------------------------------------------------------------------
(* The course of a delivery.                                               *)

\* Where a delivery starts.
Start(w) == [w EXCEPT !.trace = <<>>, !.end = "running"]

\* A course starts with the world and goes on statement by statement.
LEMMA CourseSteps ==
    ASSUME NEW w, NEW ops \in Seq(Ops), NEW k
    PROVE  /\ Course(w, ops, k)[0] = Start(w)
           /\ \A n \in 1..Len(ops) : Course(w, ops, k)[n] =
                  Step(Course(w, ops, k)[n - 1], ops[n], k)
<1> DEFINE start == Start(w)
           Is(f, n) == f = [i \in 0..n |-> IF i = 0 THEN start ELSE Step(f[i - 1], ops[i], k)]
           S == {n \in Nat : \E f : Is(f, n)}
<1>1. Len(ops) \in Nat
  OBVIOUS
<1>2. 0 \in S
  <2> DEFINE f == [i \in 0..0 |-> start]
  <2>1. Is(f, 0)
    OBVIOUS
  <2> QED
    BY <2>1
<1>3. \A n \in Nat : n \in S => n + 1 \in S
  <2> SUFFICES ASSUME NEW n \in Nat, n \in S PROVE n + 1 \in S
    OBVIOUS
  <2>1. PICK f : Is(f, n)
    OBVIOUS
  <2> HIDE DEF start
  <2> DEFINE g == [i \in 0..(n + 1) |-> IF i <= n THEN f[i] ELSE Step(f[n], ops[n + 1], k)]
  <2>2. Is(g, n + 1)
    <3>1. \A i \in 0..(n + 1) :
              g[i] = IF i = 0 THEN start ELSE Step(g[i - 1], ops[i], k)
      <4> SUFFICES ASSUME NEW i \in 0..(n + 1)
                   PROVE  g[i] = IF i = 0 THEN start ELSE Step(g[i - 1], ops[i], k)
        OBVIOUS
      <4>1. CASE i = 0
        BY <2>1, <4>1
      <4>2. CASE i \in 1..n
        BY <2>1, <4>2
      <4>3. CASE i = n + 1
        BY <2>1, <4>3
      <4> QED
        BY <4>1, <4>2, <4>3
    <3> QED
      BY <3>1
  <2>3. \E f1 : Is(f1, n + 1)
    <3> HIDE DEF Is, g
    <3> QED
      BY <2>2
  <2> HIDE DEF Is
  <2> QED
    BY <2>3
<1>4. Len(ops) \in S
  <2> HIDE DEF S
  <2>1. 0..Len(ops) \subseteq S
    BY <1>1, <1>2, <1>3, InductionUpTo
  <2> QED
    BY <1>1, <2>1
<1>5. Is(Course(w, ops, k), Len(ops))
  BY <1>4 DEF Course, Start
<1> QED
  BY <1>1, <1>5

----------------------------------------------------------------------------
(* The statements of the oracle.                                           *)

OracleWorld ==
    [effects : Nat, marker : {0, 1}, files : SUBSET FileOps, raw_db : BOOLEAN,
     raw_seen : BOOLEAN, trace : Seq(Nat), end : {"running", "done", "error", "killed"}]

\* What a world of the oracle holds.
LEMMA WorldTypes ==
    ASSUME NEW w \in OracleWorld
    PROVE  /\ w.effects \in Nat /\ w.marker \in {0, 1} /\ w.marker \in Nat
           /\ w.trace \in Seq(Nat) /\ Len(w.trace) \in Nat
           /\ w.raw_db \in BOOLEAN /\ w.raw_seen \in BOOLEAN
           /\ w.files \subseteq FileOps
           /\ w.end \in {"running", "done", "error", "killed"}
BY DEF OracleWorld

\* The kinds of statements.
LEMMA OpsCases ==
    ASSUME NEW op \in Ops
    PROVE  \/ op = "guard" \/ op = "effect" \/ op = "mark" \/ op = "try_mark" \/ op = "atomic"
           \/ op \in FileOps \/ op = "delete_file" \/ op = "raw_sql" \/ op = "table"
           \/ op = "repoint"
BY DEF Ops, StoreOps, HazardOps, FileOps

\* What a commit does.
LEMMA CommitFields ==
    ASSUME NEW w \in OracleWorld, NEW k \in Nat
    PROVE  LET c == Commit(w, k)
           IN  /\ c \in OracleWorld
               /\ c.effects = w.effects /\ c.marker = w.marker
               /\ c.files = w.files /\ c.raw_db = w.raw_db
               /\ c.raw_seen = (w.raw_seen \/ w.raw_db)
               /\ c.trace = Append(w.trace, w.effects)
               /\ c.end = IF Len(c.trace) = k THEN "killed" ELSE "running"
<1> DEFINE trace == Append(w.trace, w.effects)
<1>1. trace \in Seq(Nat)
  BY DEF OracleWorld
<1>2. Commit(w, k) = [w EXCEPT !.trace = trace, !.raw_seen = @ \/ w.raw_db,
                               !.end = IF Len(trace) = k THEN "killed" ELSE "running"]
  BY DEF Commit
<1>3. /\ Commit(w, k) \in OracleWorld /\ Commit(w, k).trace = trace
      /\ Commit(w, k).end = IF Len(trace) = k THEN "killed" ELSE "running"
  <2> HIDE DEF trace
  <2> QED
    BY <1>1, <1>2 DEF OracleWorld
<1>4. /\ Commit(w, k).effects = w.effects /\ Commit(w, k).marker = w.marker
      /\ Commit(w, k).files = w.files /\ Commit(w, k).raw_db = w.raw_db
      /\ Commit(w, k).raw_seen = (w.raw_seen \/ w.raw_db)
  <2> HIDE DEF trace
  <2> QED
    BY <1>1, <1>2 DEF OracleWorld
<1> QED
  BY <1>3, <1>4

\* The statements that commit, that credit and that mark.
CommitsOn(w, op) == op = "effect" \/ (op \in {"mark", "try_mark", "atomic"} /\ w.marker # 1)
CreditsOn(w, op) == op \in {"effect", "raw_sql"} \/ (op = "atomic" /\ w.marker # 1)
MarksOn(w, op)   == op \in {"mark", "try_mark", "atomic"}

\* What a statement does.
IsAfter(u, w, op, k) ==
    /\ u.effects = IF CreditsOn(w, op) THEN w.effects + 1 ELSE w.effects
    /\ u.marker = IF MarksOn(w, op) THEN 1 ELSE w.marker
    /\ u.files = IF op \in FileOps THEN w.files \union {op}
                 ELSE IF op = "delete_file" THEN w.files \ {"raw_file"} ELSE w.files
    /\ u.raw_db = (w.raw_db \/ op \in {"raw_sql", "table"} \/ (op = "repoint" /\ w.effects > 0))
    /\ u.raw_seen = (w.raw_seen \/ (CommitsOn(w, op) /\ w.raw_db))
    /\ u.trace = IF CommitsOn(w, op) THEN Append(w.trace, u.effects) ELSE w.trace
    /\ u.end = IF CommitsOn(w, op) /\ Len(w.trace) + 1 = k THEN "killed"
               ELSE IF op = "guard" /\ w.marker = 1 THEN "done"
               ELSE IF op = "mark" /\ w.marker = 1 THEN "error"
               ELSE "running"

\* A statement of a running delivery does no more and no less.
LEMMA StatementFields ==
    ASSUME NEW w \in OracleWorld, w.end = "running", NEW op \in Ops, NEW k \in Nat
    PROVE  Statement(w, op, k) \in OracleWorld /\ IsAfter(Statement(w, op, k), w, op, k)
<1> DEFINE credited == [w EXCEPT !.effects = @ + 1]
           marked == [w EXCEPT !.marker = 1]
           both == [credited EXCEPT !.marker = 1]
           u == Statement(w, op, k)
           Same(v) == /\ v.files = w.files /\ v.raw_db = w.raw_db /\ v.raw_seen = w.raw_seen
                      /\ v.trace = w.trace /\ v.end = w.end
<1> SUFFICES u \in OracleWorld /\ IsAfter(u, w, op, k)
  OBVIOUS
<1> USE DEF CommitsOn, CreditsOn, MarksOn
<1>1. credited \in OracleWorld /\ marked \in OracleWorld /\ both \in OracleWorld
  <2>1. credited \in OracleWorld
    <3>1. w.effects + 1 \in Nat
      BY DEF OracleWorld
    <3> QED
      BY <3>1 DEF OracleWorld
  <2>2. marked \in OracleWorld
    BY DEF OracleWorld
  <2>3. both \in OracleWorld
    <3> HIDE DEF credited
    <3> QED
      BY <2>1 DEF OracleWorld
  <2> QED
    BY <2>1, <2>2, <2>3
<1>2. /\ Same(credited) /\ credited.effects = w.effects + 1 /\ credited.marker = w.marker
      /\ Same(marked) /\ marked.effects = w.effects /\ marked.marker = 1
      /\ Same(both) /\ both.effects = w.effects + 1 /\ both.marker = 1
  <2>1. Same(credited) /\ credited.effects = w.effects + 1 /\ credited.marker = w.marker
    BY DEF OracleWorld
  <2>2. Same(marked) /\ marked.effects = w.effects /\ marked.marker = 1
    BY DEF OracleWorld
  <2>3. Same(both) /\ both.effects = w.effects + 1 /\ both.marker = 1
    <3> HIDE DEF credited
    <3> QED
      BY <1>1, <2>1 DEF OracleWorld
  <2> QED
    BY <2>1, <2>2, <2>3
<1>3. ASSUME NEW v \in OracleWorld, Same(v), u = Commit(v, k), CommitsOn(w, op),
             v.effects = IF CreditsOn(w, op) THEN w.effects + 1 ELSE w.effects,
             v.marker = IF MarksOn(w, op) THEN 1 ELSE w.marker
      PROVE  u \in OracleWorld /\ IsAfter(u, w, op, k)
  <2>1. Len(Append(w.trace, v.effects)) = Len(w.trace) + 1
    BY <1>3 DEF OracleWorld
  <2>2. op \notin FileOps /\ op \notin {"delete_file", "guard", "raw_sql", "table", "repoint"}
        /\ (op = "mark" => w.marker # 1)
    BY <1>3 DEF FileOps
  <2>3. /\ u \in OracleWorld
        /\ u.effects = v.effects /\ u.marker = v.marker
        /\ u.files = w.files /\ u.raw_db = w.raw_db
        /\ u.raw_seen = (w.raw_seen \/ w.raw_db)
        /\ u.trace = Append(w.trace, v.effects)
        /\ u.end = IF Len(w.trace) + 1 = k THEN "killed" ELSE "running"
    <3> DEFINE c == Commit(v, k)
    <3>1. /\ c \in OracleWorld
          /\ c.effects = v.effects /\ c.marker = v.marker
          /\ c.files = v.files /\ c.raw_db = v.raw_db
          /\ c.raw_seen = (v.raw_seen \/ v.raw_db)
          /\ c.trace = Append(v.trace, v.effects)
          /\ c.end = IF Len(c.trace) = k THEN "killed" ELSE "running"
      BY <1>3, CommitFields
    <3> HIDE DEF u, c
    <3>2. u = c
      BY <1>3 DEF c
    <3>3. c.trace = Append(w.trace, v.effects)
      BY <1>3, <3>1
    <3> QED
      BY <1>3, <2>1, <3>1, <3>2, <3>3
  <2>4. w.raw_seen \in BOOLEAN /\ w.raw_db \in BOOLEAN
    BY DEF OracleWorld
  <2> HIDE DEF u, CommitsOn, CreditsOn, MarksOn
  <2> QED
    BY <1>3, <2>2, <2>3, <2>4 DEF IsAfter
<1>4. CASE op = "effect"
  <2>1. u = Commit(credited, k)
    BY <1>4 DEF Statement, FileOps
  <2> HIDE DEF credited, u
  <2> QED
    BY <1>1, <1>2, <1>3, <1>4, <2>1
<1>5. CASE op \in {"mark", "try_mark"} /\ w.marker # 1
  <2>1. u = Commit(marked, k)
    BY <1>5 DEF Statement, FileOps
  <2> HIDE DEF marked, u
  <2> QED
    BY <1>1, <1>2, <1>3, <1>5, <2>1
<1>6. CASE op = "atomic" /\ w.marker # 1
  <2>1. u = Commit(both, k)
    BY <1>6 DEF Statement, FileOps
  <2> HIDE DEF both, u
  <2> QED
    BY <1>1, <1>2, <1>3, <1>6, <2>1
<1>7. CASE op \in {"try_mark", "atomic"} /\ w.marker = 1
  <2>1. u = w
    BY <1>7 DEF Statement, FileOps
  <2> QED
    BY <1>7, <2>1 DEF IsAfter, FileOps, OracleWorld
<1>8. CASE op = "mark" /\ w.marker = 1
  <2>1. u = [w EXCEPT !.end = "error"]
    BY <1>8 DEF Statement, FileOps
  <2> HIDE DEF u
  <2> QED
    BY <1>8, <2>1 DEF IsAfter, FileOps, OracleWorld
<1>9. CASE op = "guard"
  <2>1. u = [w EXCEPT !.end = IF w.marker = 1 THEN "done" ELSE "running"]
    BY <1>9 DEF Statement, FileOps
  <2> HIDE DEF u
  <2> QED
    BY <1>9, <2>1 DEF IsAfter, FileOps, OracleWorld
<1>10. CASE op \in FileOps
  <2>1. u = [w EXCEPT !.files = @ \union {op}]
    BY <1>10 DEF Statement, FileOps
  <2>2. op \notin {"effect", "raw_sql", "atomic", "mark", "try_mark", "table", "repoint", "guard"}
    BY <1>10 DEF FileOps
  <2> HIDE DEF u
  <2> QED
    BY <1>10, <2>1, <2>2 DEF IsAfter, OracleWorld
<1>11. CASE op = "delete_file"
  <2>1. u = [w EXCEPT !.files = @ \ {"raw_file"}]
    BY <1>11 DEF Statement, FileOps
  <2> HIDE DEF u
  <2> QED
    BY <1>11, <2>1 DEF IsAfter, FileOps, OracleWorld
<1>12. CASE op = "raw_sql"
  <2>1. u = [credited EXCEPT !.raw_db = TRUE]
    BY <1>12 DEF Statement, FileOps
  <2> HIDE DEF u, credited
  <2> QED
    BY <1>1, <1>2, <1>12, <2>1 DEF IsAfter, FileOps, OracleWorld
<1>13. CASE op = "table"
  <2>1. u = [w EXCEPT !.raw_db = TRUE]
    BY <1>13 DEF Statement, FileOps
  <2> HIDE DEF u
  <2> QED
    BY <1>13, <2>1 DEF IsAfter, FileOps, OracleWorld
<1>14. CASE op = "repoint"
  <2>1. u = [w EXCEPT !.raw_db = @ \/ w.effects > 0]
    BY <1>14 DEF Statement, FileOps
  <2> HIDE DEF u
  <2> QED
    BY <1>14, <2>1 DEF IsAfter, FileOps, OracleWorld
<1> QED
  BY <1>4, <1>5, <1>6, <1>7, <1>8, <1>9, <1>10, <1>11, <1>12, <1>13, <1>14, OpsCases
----------------------------------------------------------------------------
(* The course of a delivery, statement by statement.                       *)

\* What was done stays done: effects and markers, the commits, and that the
\* kernel saw a write.
Extends(v, u) ==
    /\ u.effects >= v.effects /\ u.marker >= v.marker
    /\ v.raw_seen => u.raw_seen
    /\ v.raw_db => u.raw_db
    /\ Len(u.trace) >= Len(v.trace)
    /\ \A j \in 1..Len(v.trace) : u.trace[j] = v.trace[j]

\* The order of the counters.
LEMMA AtLeastIsTransitive ==
    \A a, b, e \in Nat : b >= a /\ e >= b => e >= a
  OBVIOUS

\* Worlds that extend one another do so in turn.
LEMMA ExtendsIsTransitive ==
    ASSUME NEW v \in OracleWorld, NEW u \in OracleWorld, NEW x \in OracleWorld,
           Extends(v, u), Extends(u, x)
    PROVE  Extends(v, x)
<1>1. /\ v.effects \in Nat /\ u.effects \in Nat /\ x.effects \in Nat
      /\ v.marker \in Nat /\ u.marker \in Nat /\ x.marker \in Nat
      /\ Len(v.trace) \in Nat /\ Len(u.trace) \in Nat /\ Len(x.trace) \in Nat
  BY DEF OracleWorld
<1>2. x.effects >= v.effects /\ x.marker >= v.marker
  <2>1. /\ u.effects >= v.effects /\ u.marker >= v.marker
        /\ x.effects >= u.effects /\ x.marker >= u.marker
    BY DEF Extends
  <2> QED
    BY <1>1, <2>1, AtLeastIsTransitive
<1>3. (v.raw_seen => x.raw_seen) /\ (v.raw_db => x.raw_db)
  BY Zenon DEF Extends
<1>4. Len(u.trace) >= Len(v.trace) /\ Len(x.trace) >= Len(u.trace)
  BY DEF Extends
<1>5. Len(x.trace) >= Len(v.trace)
  BY <1>1, <1>4, AtLeastIsTransitive
<1>6. ASSUME NEW j \in 1..Len(v.trace) PROVE x.trace[j] = v.trace[j]
  <2>1. j \in 1..Len(u.trace)
    BY <1>1, <1>4
  <2>2. u.trace[j] = v.trace[j]
    BY Zenon DEF Extends
  <2>3. x.trace[j] = u.trace[j]
    BY <2>1, Zenon DEF Extends
  <2> QED
    BY <2>2, <2>3
<1> QED
  BY <1>2, <1>3, <1>5, <1>6, Zenon DEF Extends

\* A statement only adds; when it commits it makes something durable, and it may
\* be the last.
LEMMA StatementExtends ==
    ASSUME NEW v \in OracleWorld, NEW u \in OracleWorld, NEW op \in Ops, NEW k \in Nat,
           IsAfter(u, v, op, k)
    PROVE  /\ Extends(v, u)
           /\ ~CommitsOn(v, op) => Len(u.trace) = Len(v.trace) /\ u.end # "killed"
           /\ CommitsOn(v, op) =>
                 /\ Len(u.trace) = Len(v.trace) + 1
                 /\ u.trace[Len(u.trace)] = u.effects
                 /\ u.effects + u.marker > v.effects + v.marker
                 /\ u.end = IF Len(u.trace) = k THEN "killed" ELSE "running"
<1>1. /\ v.effects \in Nat /\ u.effects \in Nat /\ v.marker \in {0, 1} /\ u.marker \in {0, 1}
      /\ v.trace \in Seq(Nat) /\ Len(v.trace) \in Nat
      /\ v.raw_seen \in BOOLEAN /\ v.raw_db \in BOOLEAN
  BY DEF OracleWorld
<1>2. CommitsOn(v, op) \in BOOLEAN
  BY DEF CommitsOn
<1>3. /\ u.effects >= v.effects /\ u.marker >= v.marker
      /\ v.raw_seen => u.raw_seen
      /\ v.raw_db => u.raw_db
  BY <1>1 DEF IsAfter
<1>4. CASE CommitsOn(v, op)
  <2>1. u.trace = Append(v.trace, u.effects)
    BY <1>4 DEF IsAfter
  <2>2. /\ Len(u.trace) = Len(v.trace) + 1
        /\ u.trace[Len(u.trace)] = u.effects
        /\ \A j \in 1..Len(v.trace) : u.trace[j] = v.trace[j]
    BY <1>1, <2>1
  <2>3. op # "guard" /\ ~(op = "mark" /\ v.marker = 1)
    BY <1>4 DEF CommitsOn
  <2>4. u.end = IF Len(u.trace) = k THEN "killed" ELSE "running"
    BY <1>4, <2>2, <2>3 DEF IsAfter
  <2>5. u.effects + u.marker > v.effects + v.marker
    BY <1>1, <1>4 DEF IsAfter, CommitsOn, CreditsOn, MarksOn
  <2> QED
    BY <1>1, <1>3, <1>4, <2>2, <2>4, <2>5 DEF Extends
<1>5. CASE ~CommitsOn(v, op)
  <2>1. u.trace = v.trace /\ u.end # "killed"
    BY <1>5 DEF IsAfter
  <2> QED
    BY <1>1, <1>3, <1>5, <2>1 DEF Extends
<1> QED
  BY <1>4, <1>5

\* A delivery starts from the world as it was left.
LEMMA StartFields ==
    ASSUME NEW w \in OracleWorld
    PROVE  /\ Start(w) \in OracleWorld
           /\ Start(w).effects = w.effects /\ Start(w).marker = w.marker
           /\ Start(w).files = w.files /\ Start(w).raw_db = w.raw_db
           /\ Start(w).raw_seen = w.raw_seen
           /\ Start(w).trace = <<>> /\ Start(w).end = "running"
<1>1. <<>> \in Seq(Nat)
  OBVIOUS
<1> DEFINE empty == <<>>
<1> HIDE DEF empty
<1>2. Start(w) = [w EXCEPT !.trace = empty, !.end = "running"]
  BY DEF Start, empty
<1>3. empty \in Seq(Nat)
  BY <1>1 DEF empty
<1>4. /\ Start(w) \in OracleWorld
      /\ Start(w).effects = w.effects /\ Start(w).marker = w.marker
      /\ Start(w).files = w.files /\ Start(w).raw_db = w.raw_db
      /\ Start(w).raw_seen = w.raw_seen
      /\ Start(w).trace = empty /\ Start(w).end = "running"
  BY <1>2, <1>3 DEF OracleWorld
<1> QED
  BY <1>4 DEF empty

\* Every world on the way is a world, and follows from the one before it.
LEMMA CourseWorlds ==
    ASSUME NEW w \in OracleWorld, NEW ops \in Seq(Ops), NEW k \in Nat
    PROVE  LET c == Course(w, ops, k)
           IN  /\ c[0] = Start(w)
               /\ \A n \in 0..Len(ops) : c[n] \in OracleWorld
               /\ \A n \in 1..Len(ops) :
                     /\ ops[n] \in Ops
                     /\ c[n - 1].end # "running" => c[n] = c[n - 1]
                     /\ c[n - 1].end = "running" => IsAfter(c[n], c[n - 1], ops[n], k)
<1> DEFINE c == Course(w, ops, k)
<1>1. c[0] = Start(w) /\ \A n \in 1..Len(ops) : c[n] = Step(c[n - 1], ops[n], k)
  BY CourseSteps
<1>2. Len(ops) \in Nat /\ \A n \in 1..Len(ops) : ops[n] \in Ops
  OBVIOUS
<1> HIDE DEF c
<1>3. \A n \in 1..Len(ops) : c[n - 1] \in OracleWorld =>
          /\ c[n] \in OracleWorld
          /\ c[n - 1].end # "running" => c[n] = c[n - 1]
          /\ c[n - 1].end = "running" => IsAfter(c[n], c[n - 1], ops[n], k)
  <2> SUFFICES ASSUME NEW n \in 1..Len(ops), c[n - 1] \in OracleWorld
               PROVE  /\ c[n] \in OracleWorld
                      /\ c[n - 1].end # "running" => c[n] = c[n - 1]
                      /\ c[n - 1].end = "running" => IsAfter(c[n], c[n - 1], ops[n], k)
    OBVIOUS
  <2>1. CASE c[n - 1].end = "running"
    <3>1. c[n] = Statement(c[n - 1], ops[n], k)
      BY <1>1, <2>1 DEF Step
    <3> QED
      BY <1>2, <2>1, <3>1, StatementFields
  <2>2. CASE c[n - 1].end # "running"
    BY <1>1, <2>2 DEF Step
  <2> QED
    BY <2>1, <2>2
<1> DEFINE S == {n \in Nat : c[n] \in OracleWorld}
<1>4. 0..Len(ops) \subseteq S
  <2>1. 0 \in S
    BY <1>1, StartFields
  <2>2. \A n \in 0..(Len(ops) - 1) : n \in S => n + 1 \in S
    <3> SUFFICES ASSUME NEW n \in 0..(Len(ops) - 1), c[n] \in OracleWorld
                 PROVE  c[n + 1] \in OracleWorld
      OBVIOUS
    <3>1. n + 1 \in 1..Len(ops) /\ (n + 1) - 1 = n
      BY <1>2
    <3> QED
      BY <1>3, <3>1
  <2> HIDE DEF S
  <2> QED
    BY <1>2, <2>1, <2>2, InductionUpTo
<1>5. \A n \in 0..Len(ops) : c[n] \in OracleWorld
  BY <1>4
<1>6. \A n \in 1..Len(ops) : n - 1 \in 0..Len(ops)
  BY <1>2
<1> QED
  BY <1>1, <1>2, <1>3, <1>5, <1>6 DEF c

\* A later world of a delivery extends an earlier one, and is the same once the
\* delivery has ended.
LEMMA CourseExtends ==
    ASSUME NEW w \in OracleWorld, NEW ops \in Seq(Ops), NEW k \in Nat,
           NEW m \in 0..Len(ops), NEW n \in m..Len(ops)
    PROVE  LET c == Course(w, ops, k)
           IN  /\ Extends(c[m], c[n])
               /\ c[m].end # "running" => c[n] = c[m]
<1> DEFINE c == Course(w, ops, k)
           S == {i \in Nat : Extends(c[m], c[i]) /\ (c[m].end # "running" => c[i] = c[m])}
<1>1. /\ \A i \in 0..Len(ops) : c[i] \in OracleWorld
      /\ \A i \in 1..Len(ops) :
            /\ ops[i] \in Ops
            /\ c[i - 1].end # "running" => c[i] = c[i - 1]
            /\ c[i - 1].end = "running" => IsAfter(c[i], c[i - 1], ops[i], k)
  BY CourseWorlds
<1>2. Len(ops) \in Nat /\ m \in Nat
  OBVIOUS
<1> HIDE DEF c
<1>3. \A v \in OracleWorld : Extends(v, v)
  BY DEF Extends, OracleWorld
<1>4. m \in S
  BY <1>1, <1>3
<1>5. \A i \in m..(Len(ops) - 1) : i \in S => i + 1 \in S
  <2> SUFFICES ASSUME NEW i \in m..(Len(ops) - 1), i \in S PROVE i + 1 \in S
    OBVIOUS
  <2>1. /\ i + 1 \in 1..Len(ops) /\ (i + 1) - 1 = i /\ i \in 0..Len(ops)
        /\ i + 1 \in 0..Len(ops) /\ i + 1 \in Nat
    BY <1>2
  <2>2. c[i] \in OracleWorld /\ c[i + 1] \in OracleWorld /\ c[m] \in OracleWorld
    BY <1>1, <2>1
  <2>3. Extends(c[m], c[i]) /\ (c[m].end # "running" => c[i] = c[m])
    OBVIOUS
  <2>4. CASE c[i].end # "running"
    <3>1. c[i + 1] = c[i]
      BY <1>1, <2>1, <2>4
    <3> QED
      BY <2>1, <2>3, <3>1
  <2>5. CASE c[i].end = "running"
    <3>1. IsAfter(c[i + 1], c[i], ops[i + 1], k) /\ ops[i + 1] \in Ops
      BY <1>1, <2>1, <2>5
    <3>2. Extends(c[i], c[i + 1])
      BY <2>2, <3>1, StatementExtends
    <3>3. Extends(c[m], c[i + 1])
      BY <2>2, <2>3, <3>2, ExtendsIsTransitive
    <3>4. c[m].end = "running"
      BY <2>3, <2>5
    <3> QED
      BY <2>1, <3>3, <3>4
  <2> QED
    BY <2>4, <2>5
<1>6. m..Len(ops) \subseteq S
  <2> HIDE DEF S
  <2> QED
    BY <1>2, <1>4, <1>5, InductionUpTo
<1> QED
  BY <1>6 DEF c

\* A delivery that is never killed is not killed; one that is has committed so
\* often, and no delivery goes on after the commit it is killed at.
LEMMA CourseKilled ==
    ASSUME NEW w \in OracleWorld, NEW ops \in Seq(Ops), NEW k \in Nat, NEW n \in 0..Len(ops)
    PROVE  LET c == Course(w, ops, k)
           IN  /\ c[n].end = "killed" <=> (k # 0 /\ Len(c[n].trace) = k)
               /\ k # 0 => Len(c[n].trace) <= k
<1> DEFINE c == Course(w, ops, k)
           Told(v) == /\ v.end = "killed" <=> (k # 0 /\ Len(v.trace) = k)
                      /\ k # 0 => Len(v.trace) <= k
           S == {i \in Nat : Told(c[i])}
<1>1. /\ c[0] = Start(w)
      /\ \A i \in 0..Len(ops) : c[i] \in OracleWorld
      /\ \A i \in 1..Len(ops) :
            /\ ops[i] \in Ops
            /\ c[i - 1].end # "running" => c[i] = c[i - 1]
            /\ c[i - 1].end = "running" => IsAfter(c[i], c[i - 1], ops[i], k)
  BY CourseWorlds
<1>2. Len(ops) \in Nat
  OBVIOUS
<1> HIDE DEF c
<1>3. 0 \in S
  <2>1. c[0].trace = <<>> /\ c[0].end = "running"
    BY <1>1, StartFields
  <2>2. Len(c[0].trace) = 0
    BY <2>1
  <2> QED
    BY <2>1, <2>2
<1>4. \A i \in 0..(Len(ops) - 1) : i \in S => i + 1 \in S
  <2> SUFFICES ASSUME NEW i \in 0..(Len(ops) - 1), Told(c[i]) PROVE Told(c[i + 1])
    OBVIOUS
  <2>1. i + 1 \in 1..Len(ops) /\ (i + 1) - 1 = i /\ i \in 0..Len(ops) /\ i + 1 \in 0..Len(ops)
    BY <1>2
  <2>2. c[i] \in OracleWorld /\ c[i + 1] \in OracleWorld
    BY <1>1, <2>1
  <2>3. Len(c[i].trace) \in Nat /\ Len(c[i + 1].trace) \in Nat
    BY <2>2 DEF OracleWorld
  <2>4. CASE c[i].end # "running"
    BY <1>1, <2>1, <2>4
  <2>5. CASE c[i].end = "running"
    <3>1. IsAfter(c[i + 1], c[i], ops[i + 1], k) /\ ops[i + 1] \in Ops
      BY <1>1, <2>1, <2>5
    <3>2. k # 0 => Len(c[i].trace) < k
      BY <2>3, <2>5
    <3>3. CASE CommitsOn(c[i], ops[i + 1])
      <4>1. Len(c[i + 1].trace) = Len(c[i].trace) + 1
            /\ c[i + 1].end = IF Len(c[i + 1].trace) = k THEN "killed" ELSE "running"
        BY <2>2, <3>1, <3>3, StatementExtends
      <4> QED
        BY <2>3, <3>2, <4>1
    <3>4. CASE ~CommitsOn(c[i], ops[i + 1])
      <4>1. Len(c[i + 1].trace) = Len(c[i].trace) /\ c[i + 1].end # "killed"
        BY <2>2, <3>1, <3>4, StatementExtends
      <4> QED
        BY <2>3, <3>2, <4>1
    <3> QED
      BY <3>3, <3>4
  <2> QED
    BY <2>4, <2>5
<1>5. 0..Len(ops) \subseteq S
  <2> HIDE DEF S
  <2> QED
    BY <1>2, <1>3, <1>4, InductionUpTo
<1> QED
  BY <1>5 DEF c

\* A world holds more once it held no less and then more.
LEMMA WorldGrows ==
    ASSUME NEW w \in OracleWorld, NEW v \in OracleWorld, NEW u \in OracleWorld,
           \/ /\ v.effects >= w.effects /\ v.marker >= w.marker
              /\ u.effects + u.marker > v.effects + v.marker
           \/ /\ v.effects + v.marker > w.effects + w.marker
              /\ u.effects >= v.effects /\ u.marker >= v.marker
    PROVE  u.effects + u.marker > w.effects + w.marker
<1>1. /\ w.effects \in Nat /\ w.marker \in Nat /\ v.effects \in Nat /\ v.marker \in Nat
      /\ u.effects \in Nat /\ u.marker \in Nat
  BY WorldTypes
<1> QED
  BY <1>1

\* Each commit has its place among the statements; whatever commits leaves more
\* behind than there was before the delivery.
IsPlaced(c, n) ==
    \A j \in 1..Len(c[n].trace) :
        \E p \in 1..n : /\ Len(c[p].trace) = j /\ Len(c[p - 1].trace) = j - 1
                        /\ c[p - 1].end = "running"

\* Of every delivery, of any world.
LEMMA CommitPlaces ==
    ASSUME NEW w \in OracleWorld, NEW ops \in Seq(Ops), NEW k \in Nat, NEW n \in 0..Len(ops)
    PROVE  LET c == Course(w, ops, k)
           IN  /\ IsPlaced(c, n)
               /\ Len(c[n].trace) > 0 => c[n].effects + c[n].marker > w.effects + w.marker
<1> DEFINE c == Course(w, ops, k)
           Placed(i) == \A j \in 1..Len(c[i].trace) :
                            \E p \in 1..i : /\ Len(c[p].trace) = j
                                            /\ Len(c[p - 1].trace) = j - 1
                                            /\ c[p - 1].end = "running"
           More(i) == Len(c[i].trace) > 0 => c[i].effects + c[i].marker > w.effects + w.marker
           S == {i \in Nat : Placed(i) /\ More(i)}
<1>1. /\ c[0] = Start(w)
      /\ \A i \in 0..Len(ops) : c[i] \in OracleWorld
      /\ \A i \in 1..Len(ops) :
            /\ ops[i] \in Ops
            /\ c[i - 1].end # "running" => c[i] = c[i - 1]
            /\ c[i - 1].end = "running" => IsAfter(c[i], c[i - 1], ops[i], k)
  BY CourseWorlds
<1>2. Len(ops) \in Nat /\ w.effects \in Nat /\ w.marker \in Nat
  BY DEF OracleWorld
<1>3. \A i \in 0..Len(ops) :
          c[i].effects >= w.effects /\ c[i].marker >= w.marker
  <2> SUFFICES ASSUME NEW i \in 0..Len(ops)
               PROVE  c[i].effects >= w.effects /\ c[i].marker >= w.marker
    OBVIOUS
  <2>1. 0 \in 0..Len(ops)
    BY <1>2
  <2>2. Extends(c[0], c[i])
    BY <2>1, CourseExtends
  <2>3. c[0].effects = w.effects /\ c[0].marker = w.marker
    BY <1>1, StartFields
  <2> QED
    BY <2>2, <2>3 DEF Extends
<1> HIDE DEF c
<1>4. 0 \in S
  <2>1. c[0].trace = <<>>
    BY <1>1, StartFields
  <2>2. Len(c[0].trace) = 0
    BY <2>1
  <2> QED
    BY <2>2
<1>5. \A i \in 0..(Len(ops) - 1) : i \in S => i + 1 \in S
  <2> SUFFICES ASSUME NEW i \in 0..(Len(ops) - 1), Placed(i), More(i)
               PROVE  Placed(i + 1) /\ More(i + 1)
    OBVIOUS
  <2>1. i + 1 \in 1..Len(ops) /\ (i + 1) - 1 = i /\ i \in 0..Len(ops) /\ i + 1 \in 0..Len(ops)
    BY <1>2
  <2>2. c[i] \in OracleWorld /\ c[i + 1] \in OracleWorld
    BY <1>1, <2>1
  <2>3. /\ Len(c[i].trace) \in Nat /\ Len(c[i + 1].trace) \in Nat
        /\ c[i].effects \in Nat /\ c[i].marker \in Nat
        /\ c[i + 1].effects \in Nat /\ c[i + 1].marker \in Nat
    BY <2>2, WorldTypes
  <2>4. \A p \in 1..i : p \in 1..(i + 1)
    BY <2>1
  <2>5. CASE c[i].end # "running"
    <3>1. c[i + 1] = c[i]
      BY <1>1, <2>1, <2>5
    <3> QED
      BY <2>4, <3>1
  <2>6. CASE c[i].end = "running"
    <3>1. IsAfter(c[i + 1], c[i], ops[i + 1], k) /\ ops[i + 1] \in Ops
      BY <1>1, <2>1, <2>6
    <3>2. CASE CommitsOn(c[i], ops[i + 1])
      <4>1. /\ Len(c[i + 1].trace) = Len(c[i].trace) + 1
            /\ c[i + 1].effects + c[i + 1].marker > c[i].effects + c[i].marker
        BY <2>2, <3>1, <3>2, StatementExtends
      <4>2. More(i + 1)
        <5>1. c[i].effects >= w.effects /\ c[i].marker >= w.marker
          BY <1>3, <2>1
        <5>2. c[i + 1].effects + c[i + 1].marker > w.effects + w.marker
          BY <2>2, <4>1, <5>1, WorldGrows
        <5> QED
          BY <5>2
      <4>3. Placed(i + 1)
        <5> SUFFICES ASSUME NEW j \in 1..Len(c[i + 1].trace)
                     PROVE  \E p \in 1..(i + 1) : /\ Len(c[p].trace) = j
                                                  /\ Len(c[p - 1].trace) = j - 1
                                                  /\ c[p - 1].end = "running"
          OBVIOUS
        <5>1. CASE j = Len(c[i].trace) + 1
          <6>1. i + 1 \in 1..(i + 1) /\ (i + 1) - 1 = i
            BY <2>1
          <6>2. Len(c[i + 1].trace) = j
            BY <4>1, <5>1
          <6>3. Len(c[(i + 1) - 1].trace) = j - 1 /\ c[(i + 1) - 1].end = "running"
            <7>1. Len(c[i].trace) = j - 1
              BY <2>3, <5>1
            <7> QED
              BY <2>6, <6>1, <7>1, Zenon
          <6> WITNESS i + 1 \in 1..(i + 1)
          <6> QED
            BY <6>2, <6>3
        <5>2. CASE j # Len(c[i].trace) + 1
          <6>1. j \in 1..Len(c[i].trace)
            <7>1. \A m \in Nat : \A x \in 1..(m + 1) : x # m + 1 => x \in 1..m
              OBVIOUS
            <7>2. j \in 1..(Len(c[i].trace) + 1)
              BY <4>1
            <7> QED
              BY <2>3, <5>2, <7>1, <7>2, Zenon
          <6>2. PICK p \in 1..i : /\ Len(c[p].trace) = j /\ Len(c[p - 1].trace) = j - 1
                                  /\ c[p - 1].end = "running"
            BY <6>1, Zenon
          <6> QED
            BY <2>4, <6>2, Zenon
        <5> QED
          BY <5>1, <5>2
      <4> QED
        BY <4>2, <4>3
    <3>3. CASE ~CommitsOn(c[i], ops[i + 1])
      <4>1. Len(c[i + 1].trace) = Len(c[i].trace)
        BY <2>2, <3>1, <3>3, StatementExtends
      <4>2. c[i + 1].effects >= c[i].effects /\ c[i + 1].marker >= c[i].marker
        BY <2>2, <3>1, StatementExtends DEF Extends
      <4>3. More(i + 1)
        <5>1. Len(c[i + 1].trace) > 0 => c[i].effects + c[i].marker > w.effects + w.marker
          BY <4>1
        <5>2. ASSUME Len(c[i + 1].trace) > 0
              PROVE  c[i + 1].effects + c[i + 1].marker > w.effects + w.marker
          BY <2>2, <4>2, <5>1, <5>2, WorldGrows
        <5> QED
          BY <5>2
      <4> QED
        BY <2>4, <4>1, <4>3
    <3> QED
      BY <3>2, <3>3
  <2> QED
    BY <2>5, <2>6
<1>6. 0..Len(ops) \subseteq S
  <2> HIDE DEF S
  <2> QED
    BY <1>2, <1>4, <1>5, InductionUpTo
<1>7. Placed(n) /\ More(n)
  <2>1. n \in 0..Len(ops)
    OBVIOUS
  <2> HIDE DEF Placed, More
  <2> QED
    BY <1>6, <2>1
<1> QED
  BY <1>7 DEF c, IsPlaced

\* A world is told by its fields.
LEMMA WorldsEqual ==
    ASSUME NEW u \in OracleWorld, NEW v \in OracleWorld,
           u.effects = v.effects, u.marker = v.marker, u.files = v.files,
           u.raw_db = v.raw_db, u.raw_seen = v.raw_seen, u.trace = v.trace, u.end = v.end
    PROVE  u = v
BY DEF OracleWorld

\* What a statement does to the effects, the marker and the commits, and how it
\* ends, does not depend on the writes around the store.
Alike(u, v) ==
    u.effects = v.effects /\ u.marker = v.marker /\ u.trace = v.trace /\ u.end = v.end

\* So a delivery does to both the same.
LEMMA CourseIsBlind ==
    ASSUME NEW w \in OracleWorld, NEW x \in OracleWorld,
           w.effects = x.effects, w.marker = x.marker,
           NEW ops \in Seq(Ops), NEW k \in Nat, NEW n \in 0..Len(ops)
    PROVE  Alike(Course(w, ops, k)[n], Course(x, ops, k)[n])
<1> DEFINE c == Course(w, ops, k)
           d == Course(x, ops, k)
           S == {i \in Nat : Alike(c[i], d[i])}
<1>1. /\ c[0] = Start(w)
      /\ \A i \in 0..Len(ops) : c[i] \in OracleWorld
      /\ \A i \in 1..Len(ops) :
            /\ ops[i] \in Ops
            /\ c[i - 1].end # "running" => c[i] = c[i - 1]
            /\ c[i - 1].end = "running" => IsAfter(c[i], c[i - 1], ops[i], k)
  BY CourseWorlds
<1>2. /\ d[0] = Start(x)
      /\ \A i \in 0..Len(ops) : d[i] \in OracleWorld
      /\ \A i \in 1..Len(ops) :
            /\ ops[i] \in Ops
            /\ d[i - 1].end # "running" => d[i] = d[i - 1]
            /\ d[i - 1].end = "running" => IsAfter(d[i], d[i - 1], ops[i], k)
  BY CourseWorlds
<1>3. Len(ops) \in Nat
  OBVIOUS
<1> HIDE DEF c, d
<1>4. 0 \in S
  BY <1>1, <1>2, StartFields DEF Alike
<1>5. \A i \in 0..(Len(ops) - 1) : i \in S => i + 1 \in S
  <2> SUFFICES ASSUME NEW i \in 0..(Len(ops) - 1), Alike(c[i], d[i])
               PROVE  Alike(c[i + 1], d[i + 1])
    OBVIOUS
  <2>1. i + 1 \in 1..Len(ops) /\ (i + 1) - 1 = i
    BY <1>3
  <2>2. CASE c[i].end # "running"
    <3>1. c[i + 1] = c[i] /\ d[i + 1] = d[i]
      BY <1>1, <1>2, <2>1, <2>2 DEF Alike
    <3> QED
      BY <3>1
  <2>3. CASE c[i].end = "running"
    <3>1. /\ IsAfter(c[i + 1], c[i], ops[i + 1], k)
          /\ IsAfter(d[i + 1], d[i], ops[i + 1], k)
      BY <1>1, <1>2, <2>1, <2>3 DEF Alike
    <3>2. /\ CommitsOn(c[i], ops[i + 1]) <=> CommitsOn(d[i], ops[i + 1])
          /\ CreditsOn(c[i], ops[i + 1]) <=> CreditsOn(d[i], ops[i + 1])
      BY DEF Alike, CommitsOn, CreditsOn
    <3>3. c[i + 1].effects = d[i + 1].effects /\ c[i + 1].marker = d[i + 1].marker
      BY <3>1 DEF Alike, IsAfter, CreditsOn, MarksOn
    <3>4. c[i + 1].trace = d[i + 1].trace
      BY <3>1, <3>2, <3>3 DEF Alike, IsAfter
    <3>5. c[i + 1].end = d[i + 1].end
      BY <3>1, <3>2 DEF Alike, IsAfter
    <3> QED
      BY <3>3, <3>4, <3>5 DEF Alike
  <2> QED
    BY <2>2, <2>3
<1>6. 0..Len(ops) \subseteq S
  <2> HIDE DEF S
  <2> QED
    BY <1>3, <1>4, <1>5, InductionUpTo
<1> QED
  BY <1>6 DEF c, d

\* A delivery that is killed is the one that is not, up to the commit it is
\* killed at.
IsStopped(killed, free, k, n) ==
    /\ Len(free[n].trace) < k => killed[n] = free[n]
    /\ Len(free[n].trace) >= k =>
          \E p \in 1..n : /\ Len(free[p].trace) = k /\ Len(free[p - 1].trace) = k - 1
                          /\ free[p - 1].end = "running"
                          /\ killed[n] = [free[p] EXCEPT !.end = "killed"]

\* That is so after each of its statements.
LEMMA KilledCourse ==
    ASSUME NEW w \in OracleWorld, NEW ops \in Seq(Ops), NEW k \in Nat \ {0},
           NEW n \in 0..Len(ops)
    PROVE  IsStopped(Course(w, ops, k), Course(w, ops, 0), k, n)
<1> DEFINE c == Course(w, ops, 0)
           d == Course(w, ops, k)
           Stopped(i) == \E p \in 1..i :
                             /\ Len(c[p].trace) = k /\ Len(c[p - 1].trace) = k - 1
                             /\ c[p - 1].end = "running"
                             /\ d[i] = [c[p] EXCEPT !.end = "killed"]
           S == {i \in Nat : /\ Len(c[i].trace) < k => d[i] = c[i]
                             /\ Len(c[i].trace) >= k => Stopped(i)}
<1>0. 0 \in Nat /\ k \in Nat
  OBVIOUS
<1>1. /\ c[0] = Start(w)
      /\ \A i \in 0..Len(ops) : c[i] \in OracleWorld
      /\ \A i \in 1..Len(ops) :
            /\ ops[i] \in Ops
            /\ c[i - 1].end # "running" => c[i] = c[i - 1]
            /\ c[i - 1].end = "running" => IsAfter(c[i], c[i - 1], ops[i], 0)
  BY <1>0, CourseWorlds
<1>2. /\ d[0] = Start(w)
      /\ \A i \in 0..Len(ops) : d[i] \in OracleWorld
      /\ \A i \in 1..Len(ops) :
            /\ ops[i] \in Ops
            /\ d[i - 1].end # "running" => d[i] = d[i - 1]
            /\ d[i - 1].end = "running" => IsAfter(d[i], d[i - 1], ops[i], k)
  BY <1>0, CourseWorlds
<1>3. Len(ops) \in Nat
  OBVIOUS
<1> HIDE DEF c, d
<1>4. 0 \in S
  <2>1. c[0].trace = <<>> /\ d[0] = c[0]
    BY <1>1, <1>2, StartFields
  <2>2. Len(c[0].trace) = 0
    BY <2>1
  <2> QED
    BY <2>1, <2>2
<1>5. \A i \in 0..(Len(ops) - 1) : i \in S => i + 1 \in S
  <2> SUFFICES ASSUME NEW i \in 0..(Len(ops) - 1), i \in S PROVE i + 1 \in S
    OBVIOUS
  <2>1. /\ i + 1 \in 1..Len(ops) /\ (i + 1) - 1 = i /\ i \in 0..Len(ops)
        /\ i + 1 \in 0..Len(ops) /\ i + 1 \in Nat
    BY <1>3
  <2>2. /\ c[i] \in OracleWorld /\ c[i + 1] \in OracleWorld
        /\ d[i] \in OracleWorld /\ d[i + 1] \in OracleWorld
    BY <1>1, <1>2, <2>1
  <2>3. Len(c[i].trace) \in Nat /\ Len(c[i + 1].trace) \in Nat
    BY <2>2, WorldTypes
  <2>4. \A p \in 1..i : p \in 1..(i + 1) /\ p \in 0..Len(ops)
    BY <2>1
  <2>5. CASE Len(c[i].trace) >= k
    <3>1. Stopped(i)
      BY <2>5
    <3>2. PICK p \in 1..i : /\ Len(c[p].trace) = k /\ Len(c[p - 1].trace) = k - 1
                            /\ c[p - 1].end = "running"
                            /\ d[i] = [c[p] EXCEPT !.end = "killed"]
      BY <3>1
    <3>3. c[p] \in OracleWorld
      BY <1>1, <2>4
    <3>4. d[i].end = "killed"
      BY <3>2, <3>3 DEF OracleWorld
    <3>5. d[i + 1] = d[i]
      BY <1>2, <2>1, <3>4
    <3>6. Len(c[i + 1].trace) >= k
      <4>1. CASE c[i].end # "running"
        BY <1>1, <2>1, <2>5, <4>1
      <4>2. CASE c[i].end = "running"
        <5>1. Extends(c[i], c[i + 1])
          <6>1. IsAfter(c[i + 1], c[i], ops[i + 1], 0) /\ ops[i + 1] \in Ops
            BY <1>1, <2>1, <4>2
          <6> QED
            BY <1>0, <2>2, <6>1, StatementExtends
        <5>2. Len(c[i + 1].trace) >= Len(c[i].trace)
          BY <5>1 DEF Extends
        <5> QED
          BY <1>0, <2>3, <2>5, <5>2, AtLeastIsTransitive
      <4> QED
        BY <4>1, <4>2
    <3>7. Stopped(i + 1)
      BY <2>4, <3>2, <3>5
    <3> HIDE DEF Stopped
    <3> QED
      BY <1>0, <2>1, <2>3, <3>6, <3>7
  <2>6. CASE Len(c[i].trace) < k
    <3>1. d[i] = c[i]
      BY <2>6
    <3>2. CASE c[i].end # "running"
      <4>1. c[i + 1] = c[i] /\ d[i + 1] = d[i]
        BY <1>1, <1>2, <2>1, <3>1, <3>2
      <4>2. d[i + 1] = c[i + 1] /\ Len(c[i + 1].trace) < k
        BY <2>6, <3>1, <4>1
      <4> HIDE DEF Stopped
      <4> QED
        BY <1>0, <2>1, <2>3, <4>2
    <3>3. CASE c[i].end = "running"
      <4>1. /\ IsAfter(c[i + 1], c[i], ops[i + 1], 0)
            /\ IsAfter(d[i + 1], c[i], ops[i + 1], k)
            /\ ops[i + 1] \in Ops
        BY <1>1, <1>2, <2>1, <3>1, <3>3
      <4>2. /\ d[i + 1].effects = c[i + 1].effects /\ d[i + 1].marker = c[i + 1].marker
            /\ d[i + 1].files = c[i + 1].files /\ d[i + 1].raw_db = c[i + 1].raw_db
            /\ d[i + 1].raw_seen = c[i + 1].raw_seen /\ d[i + 1].trace = c[i + 1].trace
        BY <4>1 DEF IsAfter
      <4>3. CASE CommitsOn(c[i], ops[i + 1]) /\ Len(c[i].trace) + 1 = k
        <5>1. d[i + 1].end = "killed" /\ Len(c[i + 1].trace) = k
          <6>1. Len(c[i + 1].trace) = Len(c[i].trace) + 1
            BY <1>0, <2>2, <4>1, <4>3, StatementExtends
          <6>2. d[i + 1].end = "killed"
            BY <4>1, <4>3, Zenon DEF IsAfter
          <6> QED
            BY <4>3, <6>1, <6>2
        <5>2. d[i + 1] = [c[i + 1] EXCEPT !.end = "killed"]
          <6> DEFINE v == [c[i + 1] EXCEPT !.end = "killed"]
          <6>1. /\ v \in OracleWorld
                /\ v.effects = c[i + 1].effects /\ v.marker = c[i + 1].marker
                /\ v.files = c[i + 1].files /\ v.raw_db = c[i + 1].raw_db
                /\ v.raw_seen = c[i + 1].raw_seen /\ v.trace = c[i + 1].trace
                /\ v.end = "killed"
            BY <2>2 DEF OracleWorld
          <6> HIDE DEF v
          <6>2. d[i + 1] = v
            BY <2>2, <4>2, <5>1, <6>1, WorldsEqual
          <6> QED
            BY <6>2 DEF v
        <5>3. Stopped(i + 1)
          <6>1. Len(c[(i + 1) - 1].trace) = k - 1 /\ c[(i + 1) - 1].end = "running"
            <7>1. Len(c[i].trace) = k - 1
              BY <1>0, <2>3, <4>3
            <7> QED
              BY <2>1, <3>3, <7>1, Zenon
          <6>2. i + 1 \in 1..(i + 1)
            BY <2>1
          <6> QED
            BY <5>1, <5>2, <6>1, <6>2
        <5> HIDE DEF Stopped
        <5> QED
          BY <1>0, <2>1, <5>1, <5>3
      <4>4. CASE ~(CommitsOn(c[i], ops[i + 1]) /\ Len(c[i].trace) + 1 = k)
        <5>1. d[i + 1].end = c[i + 1].end
          <6>1. Len(c[i].trace) + 1 # 0
            BY <2>3
          <6> QED
            BY <4>1, <4>4, <6>1 DEF IsAfter
        <5>2. d[i + 1] = c[i + 1]
          BY <2>2, <4>2, <5>1, WorldsEqual
        <5>3. Len(c[i + 1].trace) < k
          <6>1. \/ CommitsOn(c[i], ops[i + 1]) /\ Len(c[i + 1].trace) = Len(c[i].trace) + 1
                \/ ~CommitsOn(c[i], ops[i + 1]) /\ Len(c[i + 1].trace) = Len(c[i].trace)
            BY <1>0, <2>2, <4>1, StatementExtends
          <6>2. Len(c[i].trace) + 1 # k => Len(c[i].trace) + 1 < k
            BY <1>0, <2>3, <2>6
          <6>3. CASE CommitsOn(c[i], ops[i + 1])
            BY <4>4, <6>1, <6>2, <6>3
          <6>4. CASE ~CommitsOn(c[i], ops[i + 1])
            BY <2>6, <6>1, <6>4
          <6> QED
            BY <6>3, <6>4
        <5> HIDE DEF Stopped
        <5> QED
          BY <1>0, <2>1, <2>3, <5>2, <5>3
      <4> QED
        BY <4>3, <4>4
    <3> QED
      BY <3>2, <3>3
  <2> QED
    BY <1>0, <2>3, <2>5, <2>6
<1>6. 0..Len(ops) \subseteq S
  <2> HIDE DEF S
  <2> QED
    BY <1>3, <1>4, <1>5, InductionUpTo
<1> QED
  BY <1>6 DEF c, d, IsStopped

----------------------------------------------------------------------------
(* Deliveries, and worlds delivered again and again.                       *)

Last(w, ops, k) == Course(w, ops, k)[Len(ops)]

\* A delivery leaves what its last statement did; the kernel has looked at it
\* unless it raised.
LEMMA DeliverLeaves ==
    ASSUME NEW w \in OracleWorld, NEW ops \in Seq(Ops), NEW k \in Nat
    PROVE  LET d == Deliver(w, ops, k)
               l == Last(w, ops, k)
           IN  /\ d \in OracleWorld /\ l \in OracleWorld
               /\ d.effects = l.effects /\ d.marker = l.marker /\ d.files = l.files
               /\ d.raw_db = l.raw_db /\ d.trace = l.trace
               /\ d.end = IF l.end = "running" THEN "done" ELSE l.end
               /\ d.raw_seen = (l.raw_seen \/ (d.end # "error" /\ (l.files # {} \/ l.raw_db)))
<1> DEFINE l == Last(w, ops, k)
           e == Delivery(w, ops, k)
           d == Deliver(w, ops, k)
<1>1. l \in OracleWorld
  <2>1. Len(ops) \in 0..Len(ops)
    OBVIOUS
  <2> QED
    BY <2>1, CourseWorlds DEF Last
<1>2. e = [l EXCEPT !.end = IF @ = "running" THEN "done" ELSE @]
  BY DEF Delivery, Last
<1>3. d = IF e.end \in {"killed", "done"}
          THEN [e EXCEPT !.raw_seen = @ \/ e.files # {} \/ e.raw_db] ELSE e
  BY DEF Deliver, Scan
<1> HIDE DEF l, e, d
<1>4. /\ e \in OracleWorld
      /\ e.effects = l.effects /\ e.marker = l.marker /\ e.files = l.files
      /\ e.raw_db = l.raw_db /\ e.trace = l.trace /\ e.raw_seen = l.raw_seen
      /\ e.end = IF l.end = "running" THEN "done" ELSE l.end
      /\ e.end \in {"done", "error", "killed"}
  <2>1. l.end \in {"running", "done", "error", "killed"}
    BY <1>1, WorldTypes
  <2> DEFINE end == IF l.end = "running" THEN "done" ELSE l.end
  <2>2. end \in {"done", "error", "killed"}
    BY <2>1
  <2>3. e = [l EXCEPT !.end = end]
    BY <1>2
  <2> HIDE DEF end
  <2>4. e \in OracleWorld
    BY <1>1, <2>2, <2>3 DEF OracleWorld
  <2>5. e.end = end
    BY <1>1, <2>3 DEF OracleWorld
  <2>6. /\ e.effects = l.effects /\ e.marker = l.marker /\ e.files = l.files
        /\ e.raw_db = l.raw_db /\ e.trace = l.trace /\ e.raw_seen = l.raw_seen
    BY <1>1, <2>3 DEF OracleWorld
  <2> QED
    BY <2>2, <2>4, <2>5, <2>6 DEF end
<1>5. /\ d \in OracleWorld
      /\ d.effects = e.effects /\ d.marker = e.marker /\ d.files = e.files
      /\ d.raw_db = e.raw_db /\ d.trace = e.trace /\ d.end = e.end
      /\ d.raw_seen = (e.raw_seen \/ (e.end # "error" /\ (e.files # {} \/ e.raw_db)))
  <2>1. e.raw_seen \in BOOLEAN /\ e.raw_db \in BOOLEAN
    BY <1>4, WorldTypes
  <2>2. CASE e.end \in {"killed", "done"}
    <3> DEFINE seen == e.raw_seen \/ e.files # {} \/ e.raw_db
    <3>1. d = [e EXCEPT !.raw_seen = seen]
      BY <1>3, <2>2
    <3>2. seen \in BOOLEAN
      OBVIOUS
    <3>3. /\ d \in OracleWorld
          /\ d.effects = e.effects /\ d.marker = e.marker /\ d.files = e.files
          /\ d.raw_db = e.raw_db /\ d.trace = e.trace /\ d.end = e.end
          /\ d.raw_seen = seen
      <4> HIDE DEF seen
      <4> QED
        BY <1>4, <3>1, <3>2 DEF OracleWorld
    <3> QED
      BY <2>2, <3>3
  <2>3. CASE e.end = "error"
    BY <1>3, <1>4, <2>1, <2>3
  <2> QED
    BY <1>4, <2>2, <2>3
<1> QED
  BY <1>1, <1>4, <1>5 DEF l, d

\* What it leaves, and how it ends.
LEMMA DeliverFields ==
    ASSUME NEW w \in OracleWorld, NEW ops \in Seq(Ops), NEW k \in Nat
    PROVE  /\ Deliver(w, ops, k) \in OracleWorld
           /\ Last(w, ops, k) \in OracleWorld
           /\ Deliver(w, ops, k).effects = Last(w, ops, k).effects
           /\ Deliver(w, ops, k).marker = Last(w, ops, k).marker
           /\ Deliver(w, ops, k).files = Last(w, ops, k).files
           /\ Deliver(w, ops, k).raw_db = Last(w, ops, k).raw_db
           /\ Deliver(w, ops, k).trace = Last(w, ops, k).trace
           /\ Deliver(w, ops, k).end = IF Last(w, ops, k).end = "running" THEN "done"
                                       ELSE Last(w, ops, k).end
  BY DeliverLeaves, Zenon

\* What the kernel has seen by then.
LEMMA DeliverSeen ==
    ASSUME NEW w \in OracleWorld, NEW ops \in Seq(Ops), NEW k \in Nat
    PROVE  Deliver(w, ops, k).raw_seen =
              (\/ Last(w, ops, k).raw_seen
               \/ /\ Deliver(w, ops, k).end # "error"
                  /\ Last(w, ops, k).files # {} \/ Last(w, ops, k).raw_db)
  BY DeliverLeaves, Zenon

\* A fresh world.
LEMMA FreshFields ==
    /\ Fresh \in OracleWorld
    /\ Fresh.effects = 0 /\ Fresh.marker = 0 /\ Fresh.files = {} /\ ~Fresh.raw_db
    /\ ~Fresh.raw_seen /\ Fresh.trace = <<>> /\ Fresh.end = "running"
<1>1. <<>> \in Seq(Nat)
  OBVIOUS
<1> DEFINE empty == <<>>
<1>2. empty \in Seq(Nat)
  BY <1>1
<1>3. Fresh = [effects |-> 0, marker |-> 0, files |-> {}, raw_db |-> FALSE, raw_seen |-> FALSE,
               trace |-> empty, end |-> "running"]
  BY DEF Fresh
<1> HIDE DEF empty
<1>4. Fresh \in OracleWorld
  BY <1>2, <1>3 DEF OracleWorld
<1>5. /\ Fresh.effects = 0 /\ Fresh.marker = 0 /\ Fresh.files = {} /\ ~Fresh.raw_db
      /\ ~Fresh.raw_seen /\ Fresh.trace = empty /\ Fresh.end = "running"
  BY <1>3
<1> QED
  BY <1>4, <1>5 DEF empty

\* Which commit a delivery is killed at, if any, depends on the effects and the
\* marker alone; so do what it leaves of them and how it ends.
LEMMA DeliverIsBlind ==
    ASSUME NEW w \in OracleWorld, NEW x \in OracleWorld,
           w.effects = x.effects, w.marker = x.marker,
           NEW ops \in Seq(Ops), NEW k \in Nat
    PROVE  Alike(Deliver(w, ops, k), Deliver(x, ops, k))
<1>1. Len(ops) \in 0..Len(ops)
  OBVIOUS
<1>2. Alike(Last(w, ops, k), Last(x, ops, k))
  BY <1>1, CourseIsBlind DEF Last
<1>3. /\ Deliver(w, ops, k).effects = Last(w, ops, k).effects
      /\ Deliver(w, ops, k).marker = Last(w, ops, k).marker
      /\ Deliver(w, ops, k).trace = Last(w, ops, k).trace
      /\ Deliver(w, ops, k).end = IF Last(w, ops, k).end = "running" THEN "done"
                                  ELSE Last(w, ops, k).end
  BY DeliverFields
<1>4. /\ Deliver(x, ops, k).effects = Last(x, ops, k).effects
      /\ Deliver(x, ops, k).marker = Last(x, ops, k).marker
      /\ Deliver(x, ops, k).trace = Last(x, ops, k).trace
      /\ Deliver(x, ops, k).end = IF Last(x, ops, k).end = "running" THEN "done"
                                  ELSE Last(x, ops, k).end
  BY DeliverFields
<1> QED
  BY <1>2, <1>3, <1>4 DEF Alike

\* What a killed delivery leaves is what one that is not killed leaves, or lies
\* on the way there, after a commit.
LEMMA KilledLeavesLess ==
    ASSUME NEW w \in OracleWorld, NEW ops \in Seq(Ops), NEW k \in Nat
    PROVE  LET d == Deliver(w, ops, k)
               f == Deliver(w, ops, 0)
           IN  /\ w.effects <= d.effects /\ w.marker <= d.marker
               /\ d.effects <= f.effects /\ d.marker <= f.marker
               /\ \/ d = f
                  \/ /\ k \in 1..Len(f.trace)
                     /\ d.effects + d.marker > w.effects + w.marker
<1> DEFINE c == Course(w, ops, 0)
           d == Deliver(w, ops, k)
           f == Deliver(w, ops, 0)
           n == Len(ops)
<1>1. n \in Nat /\ n \in 0..n /\ 0 \in 0..n /\ 0 \in Nat
  OBVIOUS
<1>2. /\ \A i \in 0..n : c[i] \in OracleWorld
      /\ c[0].effects = w.effects /\ c[0].marker = w.marker
  BY <1>1, CourseWorlds, StartFields
<1>3. \A i \in 0..n : Extends(c[0], c[i]) /\ Extends(c[i], c[n])
  BY <1>1, CourseExtends
<1>4. /\ f \in OracleWorld
      /\ f.effects = c[n].effects /\ f.marker = c[n].marker /\ f.trace = c[n].trace
  BY <1>1, DeliverFields DEF Last
<1>5. CASE k = 0
  <2>1. d = f
    BY <1>5
  <2> HIDE DEF c, d, f
  <2>2. c[n] \in OracleWorld /\ Extends(c[0], c[n])
    BY <1>1, <1>2, <1>3
  <2>3. f.effects \in Nat /\ f.marker \in Nat
    BY <1>4, WorldTypes
  <2> QED
    BY <1>2, <1>4, <2>1, <2>2, <2>3 DEF Extends, d, f
<1>6. CASE k # 0
  <2> DEFINE g == Course(w, ops, k)
  <2>1. /\ Len(c[n].trace) < k => g[n] = c[n]
        /\ Len(c[n].trace) >= k =>
              \E p \in 1..n : /\ Len(c[p].trace) = k /\ Len(c[p - 1].trace) = k - 1
                              /\ c[p - 1].end = "running"
                              /\ g[n] = [c[p] EXCEPT !.end = "killed"]
    <3>1. k \in Nat \ {0}
      BY <1>6
    <3>2. IsStopped(g, c, k, n)
      BY <1>1, <3>1, KilledCourse
    <3> HIDE DEF c, g, n
    <3> QED
      BY <3>2 DEF IsStopped
  <2>2. Len(c[n].trace) \in Nat
    BY <1>1, <1>2, WorldTypes
  <2>3. CASE Len(c[n].trace) < k
    <3>1. Last(w, ops, k) = Last(w, ops, 0)
      BY <2>1, <2>3 DEF Last
    <3>2. d = f
      BY <3>1 DEF Deliver, Delivery, Last
    <3> HIDE DEF c, d, f, g
    <3>3. c[n] \in OracleWorld /\ Extends(c[0], c[n])
      BY <1>1, <1>2, <1>3
    <3>4. f.effects \in Nat /\ f.marker \in Nat
      BY <1>4, WorldTypes
    <3> QED
      BY <1>2, <1>4, <3>2, <3>3, <3>4 DEF Extends, d, f
  <2>4. CASE Len(c[n].trace) >= k
    <3>1. PICK p \in 1..n : /\ Len(c[p].trace) = k
                            /\ g[n] = [c[p] EXCEPT !.end = "killed"]
      BY <2>1, <2>4
    <3>2. p \in 0..n
      OBVIOUS
    <3>3. c[p] \in OracleWorld
      BY <1>2, <3>2
    <3>4. c[p].effects + c[p].marker > w.effects + w.marker
      <4>1. Len(c[p].trace) > 0
        BY <1>6, <3>1
      <4> QED
        BY <1>1, <3>2, <4>1, CommitPlaces
    <3>5. d.effects = c[p].effects /\ d.marker = c[p].marker
      <4>1. g[n].effects = c[p].effects /\ g[n].marker = c[p].marker
        BY <3>1, <3>3 DEF OracleWorld
      <4> QED
        BY <4>1, DeliverFields DEF Last
    <3>6. Extends(c[0], c[p]) /\ Extends(c[p], c[n])
      BY <1>3, <3>2
    <3>7. k \in 1..Len(f.trace)
      BY <1>4, <1>6, <2>2, <2>4
    <3> HIDE DEF c, d, f, g
    <3> QED
      BY <1>2, <1>4, <3>4, <3>5, <3>6, <3>7 DEF Extends, d, f
  <2> QED
    BY <2>2, <2>3, <2>4
<1> QED
  BY <1>5, <1>6

\* A world is crashed in one delivery after the other.
LEMMA CrashesSteps ==
    ASSUME NEW ops, NEW kills \in Seq(Nat)
    PROVE  /\ Crashes(ops, kills)[0] = Fresh
           /\ \A n \in 1..Len(kills) : Crashes(ops, kills)[n] =
                  Deliver(Crashes(ops, kills)[n - 1], ops, kills[n])
<1> DEFINE Is(f, n) ==
               f = [i \in 0..n |-> IF i = 0 THEN Fresh ELSE Deliver(f[i - 1], ops, kills[i])]
           S == {n \in Nat : \E f : Is(f, n)}
<1>1. Len(kills) \in Nat
  OBVIOUS
<1>2. 0 \in S
  <2> DEFINE f == [i \in 0..0 |-> Fresh]
  <2>1. Is(f, 0)
    OBVIOUS
  <2> QED
    BY <2>1
<1>3. \A n \in Nat : n \in S => n + 1 \in S
  <2> SUFFICES ASSUME NEW n \in Nat, n \in S PROVE n + 1 \in S
    OBVIOUS
  <2>1. PICK f : Is(f, n)
    OBVIOUS
  <2> DEFINE g == [i \in 0..(n + 1) |-> IF i <= n THEN f[i] ELSE Deliver(f[n], ops, kills[n + 1])]
  <2>2. Is(g, n + 1)
    <3>1. \A i \in 0..(n + 1) :
              g[i] = IF i = 0 THEN Fresh ELSE Deliver(g[i - 1], ops, kills[i])
      <4> SUFFICES ASSUME NEW i \in 0..(n + 1)
                   PROVE  g[i] = IF i = 0 THEN Fresh ELSE Deliver(g[i - 1], ops, kills[i])
        OBVIOUS
      <4>1. CASE i = 0
        BY <2>1, <4>1
      <4>2. CASE i \in 1..n
        BY <2>1, <4>2
      <4>3. CASE i = n + 1
        BY <2>1, <4>3
      <4> QED
        BY <4>1, <4>2, <4>3
    <3> QED
      BY <3>1
  <2>3. \E f1 : Is(f1, n + 1)
    <3> HIDE DEF Is, g
    <3> QED
      BY <2>2
  <2> HIDE DEF Is
  <2> QED
    BY <2>3
<1>4. Len(kills) \in S
  <2> HIDE DEF S
  <2>1. \A n \in 0..(Len(kills) - 1) : n \in S => n + 1 \in S
    BY <1>1, <1>3
  <2>2. 0..Len(kills) \subseteq S
    BY <1>1, <1>2, <2>1, InductionUpTo
  <2> QED
    BY <1>1, <2>2
<1>5. Is(Crashes(ops, kills), Len(kills))
  BY <1>4 DEF Crashes
<1>6. Crashes(ops, kills) = [i \in 0..Len(kills) |->
                               IF i = 0 THEN Fresh
                               ELSE Deliver(Crashes(ops, kills)[i - 1], ops, kills[i])]
  BY <1>5, Zenon
<1> QED
  BY <1>1, <1>6, SMTT(40)

\* One event exactly once, with its marker.
Once(w) == w.effects = 1 /\ w.marker = 1

\* What the oracle has seen of a handler it proves: the two deliveries of the
\* census, and a crash after every commit.
LEMMA ProvenWasTried ==
    ASSUME NEW ops \in Seq(Ops), Expected(ops) = "FIX_PROVEN_FOR_THIS_CAPSULE"
    PROVE  LET first == Deliver(Fresh, ops, 0)
               final == Deliver(first, ops, 0)
           IN  /\ first.end = "done" /\ Once(first)
               /\ final.end = "done" /\ Once(final)
               /\ \A n \in 1..Len(first.trace) :
                     Redelivered(ops, n).end = "done" /\ Once(Redelivered(ops, n))
<1> DEFINE boundary == BoundaryCommit(ops)
           replayed == Redelivered(ops, boundary)
           first    == Deliver(Fresh, ops, 0)
           final    == Deliver(first, ops, 0)
           points   == 1..Len(first.trace)
           swept    == [n \in points |-> Redelivered(ops, n)]
           seen     == {Classify(swept[n]) : n \in points}
<1>1. "FIX_PROVEN_FOR_THIS_CAPSULE" =
         IF boundary = 0 \/ ~Judgeable(replayed) THEN "EVIDENCE_INCOMPLETE"
         ELSE IF Classify(replayed) # "EXACTLY_ONCE" THEN Failed(Classify(replayed))
         ELSE IF ~Judgeable(first) \/ ~Judgeable(final) THEN "EVIDENCE_INCOMPLETE"
         ELSE IF Classify(final) # "EXACTLY_ONCE" THEN Failed(Classify(final))
         ELSE IF Classify(first) # "EXACTLY_ONCE" THEN "PATCH_FAILED_INVARIANT_BROKEN"
         ELSE IF \E n \in points : ~Judgeable(swept[n]) THEN "EVIDENCE_INCOMPLETE"
         ELSE IF "DUPLICATE_EFFECT" \in seen THEN "PATCH_FAILED_STILL_REPRODUCES"
         ELSE IF "INVARIANT_FAILED" \in seen THEN "PATCH_FAILED_INVARIANT_BROKEN"
         ELSE "FIX_PROVEN_FOR_THIS_CAPSULE"
  BY Zenon DEF Expected
<1>2. \A o : Failed(o) # "FIX_PROVEN_FOR_THIS_CAPSULE"
  BY DEF Failed
<1>3. \A v : Classify(v) = "EXACTLY_ONCE" => Once(v)
  BY DEF Classify, Once
<1>4. \A v : Classify(v) \in {"DUPLICATE_EFFECT", "EXACTLY_ONCE", "INVARIANT_FAILED"}
  BY DEF Classify
<1> HIDE DEF boundary, replayed, first, final
<1>5. /\ Judgeable(first) /\ Judgeable(final)
      /\ Classify(first) = "EXACTLY_ONCE" /\ Classify(final) = "EXACTLY_ONCE"
      /\ \A n \in points : Judgeable(swept[n])
      /\ "DUPLICATE_EFFECT" \notin seen /\ "INVARIANT_FAILED" \notin seen
  <2> HIDE DEF points, swept, seen
  <2> QED
    BY <1>1, <1>2
<1>6. ASSUME NEW n \in points
      PROVE  Redelivered(ops, n).end = "done" /\ Once(Redelivered(ops, n))
  <2>1. swept[n] = Redelivered(ops, n) /\ Classify(swept[n]) \in seen
    OBVIOUS
  <2>2. Classify(swept[n]) = "EXACTLY_ONCE" /\ Judgeable(swept[n])
    <3> HIDE DEF swept, seen
    <3> QED
      BY <1>4, <1>5, <2>1
  <2> QED
    BY <1>3, <2>1, <2>2 DEF Judgeable
<1> QED
  BY <1>3, <1>5, <1>6 DEF Judgeable, first, final

\* A handler the oracle proves makes one event of any number of crashes, each
\* after any commit: a crash leaves nothing, or one of the worlds the oracle has
\* seen delivered again, or what a delivery of one of those leaves.
LEMMA ProvenSurvives ==
    ASSUME NEW ops \in Seq(Ops), Expected(ops) = "FIX_PROVEN_FOR_THIS_CAPSULE",
           NEW kills \in Seq(Nat)
    PROVE  AfterCrashes(ops, kills).end = "done" /\ Once(AfterCrashes(ops, kills))
<1> DEFINE first == Deliver(Fresh, ops, 0)
           final == Deliver(first, ops, 0)
           c == Crashes(ops, kills)
           Untouched(w) == w.effects = 0 /\ w.marker = 0
           Settles(w) == /\ w.effects + w.marker > 0
                         /\ Deliver(w, ops, 0).end = "done" /\ Once(Deliver(w, ops, 0))
           Safe(w) == w \in OracleWorld /\ (Untouched(w) \/ Settles(w))
<1>1. /\ first.end = "done" /\ Once(first)
      /\ final.end = "done" /\ Once(final)
      /\ \A n \in 1..Len(first.trace) :
            Redelivered(ops, n).end = "done" /\ Once(Redelivered(ops, n))
  BY ProvenWasTried
<1>2. Fresh \in OracleWorld /\ Untouched(Fresh) /\ first \in OracleWorld
  BY FreshFields, DeliverFields
<1>3. ASSUME NEW w \in OracleWorld, Once(w)
      PROVE  Settles(w)
  <2>1. Alike(Deliver(w, ops, 0), final)
    BY <1>1, <1>2, <1>3, DeliverIsBlind DEF Once
  <2> QED
    BY <1>1, <1>3, <2>1 DEF Alike, Once
<1>4. ASSUME NEW w, Safe(w)
      PROVE  Deliver(w, ops, 0).end = "done" /\ Once(Deliver(w, ops, 0))
  <2>1. CASE Untouched(w)
    <3>1. w.effects = Fresh.effects /\ w.marker = Fresh.marker
      BY <2>1, FreshFields
    <3>2. Alike(Deliver(w, ops, 0), first)
      BY <1>2, <1>4, <3>1, DeliverIsBlind
    <3> QED
      BY <1>1, <3>2 DEF Alike, Once
  <2>2. CASE Settles(w)
    BY <2>2
  <2> QED
    BY <1>4, <2>1, <2>2
<1>5. ASSUME NEW w, Safe(w), NEW k \in Nat
      PROVE  Safe(Deliver(w, ops, k))
  <2> DEFINE d == Deliver(w, ops, k)
             f == Deliver(w, ops, 0)
  <2>1. d \in OracleWorld /\ f \in OracleWorld
    BY <1>5, DeliverFields
  <2>2. f.end = "done" /\ Once(f)
    BY <1>4, <1>5
  <2>3. /\ w.effects <= d.effects /\ w.marker <= d.marker
        /\ d.effects <= f.effects /\ d.marker <= f.marker
        /\ \/ d = f
           \/ /\ k \in 1..Len(f.trace)
              /\ d.effects + d.marker > w.effects + w.marker
    BY <1>5, KilledLeavesLess
  <2>4. CASE Once(d)
    BY <1>3, <2>1, <2>4
  <2>5. CASE ~Once(d) /\ Settles(w)
    <3>1. d.effects + d.marker > w.effects + w.marker
      BY <2>2, <2>3, <2>5
    <3>2. /\ d.effects \in Nat /\ d.marker \in Nat /\ w.effects \in Nat /\ w.marker \in Nat
      BY <1>5, <2>1, WorldTypes
    <3>3. d.effects <= 1 /\ d.marker <= 1
      BY <2>2, <2>3 DEF Once
    <3>4. w.effects + w.marker > 0
      BY <2>5
    <3>5. d.effects = 1 /\ d.marker = 1
      <4> HIDE DEF d, f
      <4> QED
        BY <3>1, <3>2, <3>3, <3>4
    <3> QED
      BY <2>5, <3>5 DEF Once
  <2>6. CASE ~Once(d) /\ Untouched(w)
    <3>1. k \in 1..Len(f.trace) /\ d.effects + d.marker > 0
      BY <2>2, <2>3, <2>6
    <3>2. w.effects = Fresh.effects /\ w.marker = Fresh.marker
      BY <2>6, FreshFields
    <3>3. Alike(d, Deliver(Fresh, ops, k)) /\ Alike(f, first)
      BY <1>2, <1>5, <3>2, DeliverIsBlind
    <3>4. Deliver(Fresh, ops, k) \in OracleWorld
      BY <1>2, DeliverFields
    <3>5. Alike(Deliver(d, ops, 0), Redelivered(ops, k))
      BY <2>1, <3>3, <3>4, DeliverIsBlind DEF Alike, Redelivered
    <3>6. Redelivered(ops, k).end = "done" /\ Once(Redelivered(ops, k))
      BY <1>1, <3>1, <3>3 DEF Alike
    <3>7. Settles(d)
      BY <3>1, <3>5, <3>6 DEF Alike, Once
    <3> QED
      BY <2>1, <3>7
  <2> QED
    BY <1>5, <2>4, <2>5, <2>6
<1> DEFINE S == {n \in Nat : Safe(c[n])}
<1>6. Len(kills) \in Nat /\ \A n \in 1..Len(kills) : kills[n] \in Nat
  OBVIOUS
<1>7. c[0] = Fresh /\ \A n \in 1..Len(kills) : c[n] = Deliver(c[n - 1], ops, kills[n])
  BY CrashesSteps
<1> HIDE DEF c, Safe
<1>8. 0..Len(kills) \subseteq S
  <2>1. 0 \in S
    BY <1>2, <1>7 DEF Safe
  <2>2. \A n \in 0..(Len(kills) - 1) : n \in S => n + 1 \in S
    <3> SUFFICES ASSUME NEW n \in 0..(Len(kills) - 1), Safe(c[n]) PROVE Safe(c[n + 1])
      OBVIOUS
    <3>1. n + 1 \in 1..Len(kills) /\ (n + 1) - 1 = n
      BY <1>6
    <3>2. c[n + 1] = Deliver(c[n], ops, kills[n + 1]) /\ kills[n + 1] \in Nat
      BY <1>6, <1>7, <3>1
    <3> QED
      BY <1>5, <3>2
  <2> HIDE DEF S
  <2> QED
    BY <1>6, <2>1, <2>2, InductionUpTo
<1>9. Safe(c[Len(kills)])
  BY <1>6, <1>8
<1> QED
  BY <1>4, <1>9 DEF AfterCrashes, c

----------------------------------------------------------------------------
(* The engine's worlds and the oracle's.                                   *)

\* The first delivery when nothing kills it.
Free(ops) == Course(Fresh, ops, 0)

\* The commits of the first delivery, and what the store reports of the first n.
Commits(ops) == Len(Deliver(Fresh, ops, 0).trace)
PlaceOf(ops, j) ==
    CHOOSE p \in 1..Len(ops) : /\ Len(Free(ops)[p].trace) = j
                               /\ Len(Free(ops)[p - 1].trace) = j - 1
Made(ops, n) == [j \in 1..n |-> StoreOp[ops[PlaceOf(ops, j)]]]

\* The engine's world and the oracle's hold the same; the controller's ledger
\* knows of no effect that is not there, and explains the database until
\* something is written around the store.
Holds(w, o) ==
    /\ ~o.raw_seen
    /\ w.db = StateAfter(o.effects, o.marker)
    /\ w.files = o.files
    /\ \E l \in Nat : l <= o.effects /\ w.ledger = StateAfter(l, o.marker)
    /\ o.raw_db <=> ~IsExplained(w)

\* The commit the world that runs is killed after; 0: none.
KillCommit ==
    IF wave = "boundary" THEN BoundaryCommit(handler) ELSE IF wave = "sweep" THEN kill ELSE 0

\* The oracle's course of a delivery of the world that runs.
RanFrom(delivery) == IF delivery = 1 THEN Fresh ELSE Deliver(Fresh, handler, KillCommit)
RanKill(delivery) == IF delivery = 1 THEN KillCommit ELSE 0
Ran(delivery) == Course(RanFrom(delivery), handler, RanKill(delivery))

\* What the engine's world w has kept of its deliveries, o being the oracle's.
Kept(w, o) ==
    LET first == Deliver(Fresh, handler, KillCommit)
    IN  /\ w.delivery = 1 => w.ops = Made(handler, Len(o.trace))
        /\ w.delivery = 2 =>
              /\ w.schedule = Made(handler, Len(first.trace))
              /\ wave = "boundary" => KillCommit # 0
              /\ wave = "census" =>
                    Judgeable(first) /\ w.first = StateAfter(first.effects, first.marker)

WorldFits(w) ==
    LET o == Ran(w.delivery)[w.at - 1]
    IN  o.end = "running" /\ Holds(w, o) /\ Kept(w, o)

\* The receipt of a world the oracle would judge, and of one it would not.
Fits(receipt, judgeable, observation, n) ==
    /\ judgeable => receipt = ReceiptOf(observation, Made(handler, n))
    /\ ~judgeable => /\ receipt \in Receipt /\ receipt.status # "COMPLETED"
                     /\ receipt.observation = "NOT_OBSERVED" /\ receipt.ops = <<>>

BoundaryFits(receipt) ==
    LET boundary == BoundaryCommit(handler)
        replayed == Redelivered(handler, boundary)
    IN  Fits(receipt, boundary # 0 /\ Judgeable(replayed), Classify(replayed), boundary)

CensusObservation(first, final) ==
    IF Classify(final) = "EXACTLY_ONCE" /\ Classify(first) # "EXACTLY_ONCE"
    THEN "INVARIANT_FAILED" ELSE Classify(final)

CensusFits(receipt) ==
    LET first == Deliver(Fresh, handler, 0)
        final == Deliver(first, handler, 0)
    IN  Fits(receipt, Commits(handler) # 0 /\ Judgeable(first) /\ Judgeable(final),
             CensusObservation(first, final), Commits(handler))

SweepFits(receipt, n) ==
    Fits(receipt, Judgeable(Redelivered(handler, n)), Classify(Redelivered(handler, n)), n)

SweptUpTo(n) ==
    /\ IsSwept(receipts.boundary)
    /\ Len(receipts.census) = 1 /\ CensusFits(receipts.census[1])
    /\ DOMAIN receipts.sweep = 1..n
    /\ \A i \in 1..n : SweepFits(receipts.sweep[i], i)

ReceiptsFit ==
    /\ wave \in {"boundary", "census"} =>
          kill = 0 /\ receipts.census = <<>> /\ receipts.sweep = <<>>
    /\ wave = "boundary" => receipts.boundary = <<>>
    /\ wave # "boundary" =>
          /\ receipts.boundary = [i \in 1..Confirmations |-> receipts.boundary[1]]
          /\ BoundaryFits(receipts.boundary[1])
    /\ wave = "census" => IsSwept(receipts.boundary)
    /\ wave = "sweep" => kill \in KillPoints(receipts.census[1]) /\ SweptUpTo(kill - 1)
    /\ wave \in {"judge", "done"} =>
          \/ /\ ~IsSwept(receipts.boundary)
             /\ receipts.census = <<>> /\ receipts.sweep = <<>>
          \/ /\ receipts.census # <<>>
             /\ \E n \in Nat : KillPoints(receipts.census[1]) = 1..n /\ SweptUpTo(n)

RedTeamInv ==
    /\ TypeOK
    /\ Runs => WorldFits(world)
    /\ ReceiptsFit
    /\ wave # "done" => outcome = "none"
    /\ VerdictIsTheOracles

----------------------------------------------------------------------------
(* The store's reports.                                                    *)

\* A commit of the first delivery has the one place it was made at.
LEMMA PlaceIs ==
    ASSUME NEW ops \in Seq(Ops), NEW p \in 1..Len(ops),
           Len(Free(ops)[p].trace) = Len(Free(ops)[p - 1].trace) + 1
    PROVE  PlaceOf(ops, Len(Free(ops)[p].trace)) = p
<1> DEFINE c == Free(ops)
           j == Len(c[p].trace)
           Is(q) == Len(c[q].trace) = j /\ Len(c[q - 1].trace) = j - 1
<1>1. Len(ops) \in Nat /\ 0 \in Nat /\ \A q \in 1..Len(ops) : q - 1 \in 0..Len(ops)
  OBVIOUS
<1>2. \A q \in 0..Len(ops) : Len(c[q].trace) \in Nat
  BY <1>1, FreshFields, CourseWorlds, WorldTypes DEF Free
<1>3. \A m \in 0..Len(ops) : \A n \in m..Len(ops) : Len(c[n].trace) >= Len(c[m].trace)
  BY <1>1, FreshFields, CourseExtends DEF Free, Extends
<1> HIDE DEF c
<1>4. j \in Nat /\ Is(p)
  BY <1>1, <1>2 DEF c
<1>5. ASSUME NEW q \in 1..Len(ops), Is(q), q < p
      PROVE  FALSE
  <2>1. p - 1 \in q..Len(ops) /\ q \in 0..Len(ops)
    BY <1>1, <1>5
  <2>2. Len(c[p - 1].trace) >= Len(c[q].trace)
    BY <1>3, <2>1
  <2>3. Len(c[p - 1].trace) = j - 1 /\ Len(c[q].trace) = j
    BY <1>4, <1>5
  <2>4. ~(j - 1 >= j)
    BY <1>4
  <2> QED
    BY <2>2, <2>3, <2>4
<1>6. ASSUME NEW q \in 1..Len(ops), Is(q), p < q
      PROVE  FALSE
  <2>1. q - 1 \in p..Len(ops) /\ p \in 0..Len(ops)
    BY <1>1, <1>6
  <2>2. Len(c[q - 1].trace) >= Len(c[p].trace)
    BY <1>3, <2>1
  <2>3. Len(c[q - 1].trace) = j - 1 /\ Len(c[p].trace) = j
    BY <1>4, <1>6
  <2>4. ~(j - 1 >= j)
    BY <1>4
  <2> QED
    BY <2>2, <2>3, <2>4
<1>7. \A q \in 1..Len(ops) : Is(q) => q = p
  BY <1>1, <1>5, <1>6
<1>8. (CHOOSE q \in 1..Len(ops) : Is(q)) = p
  <2> HIDE DEF Is
  <2> QED
    BY <1>4, <1>7
<1> QED
  BY <1>8 DEF PlaceOf, c

\* The statements that may commit, and what the store calls them.
LEMMA StoreOpIs ==
    /\ DOMAIN StoreOp = {"effect", "mark", "try_mark", "atomic"}
    /\ StoreOp["effect"] = "effect" /\ StoreOp["mark"] = "mark"
    /\ StoreOp["try_mark"] = "mark" /\ StoreOp["atomic"] = "effect_and_mark"
    /\ \A op \in DOMAIN StoreOp : StoreOp[op] \in Operations
    /\ \A w, op : CommitsOn(w, op) => op \in DOMAIN StoreOp
BY DEF StoreOp, Operations, EffectOps, MarkOps, CommitsOn

\* The reports of a delivery's commits, one by one.
LEMMA MadeGrows ==
    ASSUME NEW ops \in Seq(Ops), NEW p \in 1..Len(ops),
           Len(Free(ops)[p].trace) = Len(Free(ops)[p - 1].trace) + 1
    PROVE  Made(ops, Len(Free(ops)[p].trace)) =
               Append(Made(ops, Len(Free(ops)[p - 1].trace)), StoreOp[ops[p]])
<1> DEFINE n == Len(Free(ops)[p - 1].trace)
           op == StoreOp[ops[p]]
           F(j) == StoreOp[ops[PlaceOf(ops, j)]]
<1>1. n \in Nat
  <2>1. p - 1 \in 0..Len(ops)
    OBVIOUS
  <2> QED
    BY <2>1, FreshFields, CourseWorlds, WorldTypes DEF Free
<1>2. F(n + 1) = op
  BY PlaceIs
<1> HIDE DEF n, op, F
<1>3. Append([j \in 1..n |-> F(j)], op) = [j \in 1..(n + 1) |-> F(j)]
  BY <1>1, <1>2
<1> QED
  BY <1>3 DEF Made, n, op, F

\* The reports of as many commits as there are: operations of the store.
LEMMA MadeTypes ==
    ASSUME NEW ops \in Seq(Ops), NEW n \in 0..Commits(ops)
    PROVE  Made(ops, n) \in Seq(Operations) /\ Len(Made(ops, n)) = n
<1> DEFINE c == Free(ops)
           N == Len(ops)
<1>1. N \in Nat /\ N \in 0..N /\ 0 \in Nat
  OBVIOUS
<1>2. Commits(ops) = Len(c[N].trace) /\ Commits(ops) \in Nat
  <2>1. Deliver(Fresh, ops, 0).trace = c[N].trace /\ c[N] \in OracleWorld
    BY <1>1, FreshFields, DeliverFields DEF Free, Last
  <2> QED
    BY <2>1, WorldTypes DEF Commits
<1>3. ASSUME NEW j \in 1..n PROVE StoreOp[ops[PlaceOf(ops, j)]] \in Operations
  <2>1. j \in 1..Len(c[N].trace)
    BY <1>2
  <2>0. IsPlaced(c, N)
    BY <1>1, FreshFields, CommitPlaces DEF Free
  <2>2. PICK p \in 1..N : /\ Len(c[p].trace) = j /\ Len(c[p - 1].trace) = j - 1
                          /\ c[p - 1].end = "running"
    BY <2>0, <2>1 DEF IsPlaced
  <2>3. Len(c[p].trace) = Len(c[p - 1].trace) + 1
    BY <2>2
  <2>4. PlaceOf(ops, j) = p
    BY <2>2, <2>3, PlaceIs
  <2>5. /\ IsAfter(c[p], c[p - 1], ops[p], 0) /\ ops[p] \in Ops
        /\ c[p] \in OracleWorld /\ c[p - 1] \in OracleWorld
    <3>1. p - 1 \in 0..N /\ p \in 0..N
      BY <1>1
    <3> QED
      BY <1>1, <2>2, <3>1, FreshFields, CourseWorlds DEF Free
  <2> HIDE DEF c
  <2>6. CommitsOn(c[p - 1], ops[p])
    <3>1. Len(c[p - 1].trace) \in Nat
      BY <2>5, WorldTypes
    <3>2. ~CommitsOn(c[p - 1], ops[p]) => Len(c[p].trace) = Len(c[p - 1].trace)
      BY <1>1, <2>5, StatementExtends
    <3> QED
      BY <2>3, <3>1, <3>2
  <2> QED
    BY <2>4, <2>6, StoreOpIs
<1> QED
  BY <1>2, <1>3 DEF Made

----------------------------------------------------------------------------
(* One statement of the engine and of the oracle.                          *)

\* A commit adds to the counts of effects and markers.
LEMMA ApplyCounts ==
    ASSUME NEW e \in Nat, NEW m \in Nat, NEW op \in Operations
    PROVE  Apply(StateAfter(e, m), op) =
             StateAfter(e + (IF op \in EffectOps THEN 1 ELSE 0),
                        m + (IF op \in MarkOps THEN 1 ELSE 0))
BY ScenarioAssumption DEF Apply, StateAfter, Operations, EffectOps, MarkOps

\* The counts of a snapshot, and what tells two snapshots apart.
LEMMA StateFields ==
    ASSUME NEW e, NEW m
    PROVE  /\ StateAfter(e, m).effects = e /\ StateAfter(e, m).marker = m
           /\ \A l : StateAfter(e, m) = StateAfter(l, m) <=> e = l
BY DEF StateAfter

\* Counts make a snapshot.
LEMMA SnapshotOf ==
    ASSUME NEW e \in Nat, NEW m \in {0, 1}
    PROVE  StateAfter(e, m) \in StateSnapshot
BY ScenarioAssumption DEF StateAfter, StateSnapshot

\* The store commits what the oracle counts as a commit; the controller explains
\* it, unless something was written around the store.
LEMMA CommitHolds ==
    ASSUME NEW o \in OracleWorld, NEW u \in OracleWorld, NEW op \in DOMAIN StoreOp, NEW k \in Nat,
           IsAfter(u, o, op, k), NEW w, NEW x, Holds(w, o),
           StoreCommits(w.db, StoreOp[op]),
           x.db = Apply(w.db, StoreOp[op]), x.ledger = Apply(w.ledger, StoreOp[op]),
           x.files = w.files, x.other = w.other
    PROVE  /\ CommitsOn(o, op)
           /\ IsExplained(x) => Holds(x, u)
           /\ ~IsExplained(x) => u.raw_seen
<1>1. /\ o.effects \in Nat /\ o.marker \in {0, 1} /\ o.marker \in Nat
      /\ u.effects \in Nat /\ u.marker \in {0, 1}
      /\ o.raw_db \in BOOLEAN /\ o.raw_seen \in BOOLEAN
      /\ u.raw_db \in BOOLEAN /\ u.raw_seen \in BOOLEAN
  BY WorldTypes
<1>2. PICK l \in Nat : l <= o.effects /\ w.ledger = StateAfter(l, o.marker)
  BY DEF Holds
<1> DEFINE s == StoreOp[op]
           e == IF s \in EffectOps THEN 1 ELSE 0
           m == IF s \in MarkOps THEN 1 ELSE 0
<1>3. s \in Operations /\ op \in {"effect", "mark", "try_mark", "atomic"}
  BY StoreOpIs
<1>4. w.db = StateAfter(o.effects, o.marker) /\ w.db.marker = o.marker
  BY StateFields DEF Holds
<1>5. /\ s \in EffectOps <=> op \in {"effect", "atomic"}
      /\ s \in MarkOps <=> op \in {"mark", "try_mark", "atomic"}
  BY <1>3, StoreOpIs DEF EffectOps, MarkOps
<1>6. op \in {"mark", "try_mark", "atomic"} => o.marker = 0
  BY <1>4, <1>5 DEF StoreCommits
<1>7. CommitsOn(o, op)
  BY <1>3, <1>6 DEF CommitsOn
<1>8. /\ u.effects = o.effects + e /\ u.marker = o.marker + m
      /\ u.files = o.files /\ u.raw_db = o.raw_db /\ u.raw_seen = (o.raw_seen \/ o.raw_db)
  <2>1. u.effects = o.effects + e
    BY <1>1, <1>3, <1>5, <1>6 DEF IsAfter, CreditsOn
  <2>2. u.marker = o.marker + m
    BY <1>1, <1>3, <1>5, <1>6 DEF IsAfter, MarksOn
  <2>3. u.files = o.files
    BY <1>3 DEF IsAfter, FileOps
  <2>4. u.raw_db = o.raw_db
    BY <1>1, <1>3 DEF IsAfter
  <2>5. u.raw_seen = (o.raw_seen \/ o.raw_db)
    BY <1>1, <1>7 DEF IsAfter
  <2> QED
    BY <2>1, <2>2, <2>3, <2>4, <2>5
<1>9. /\ x.db = StateAfter(o.effects + e, o.marker + m)
      /\ x.ledger = StateAfter(l + e, o.marker + m)
  BY <1>1, <1>2, <1>3, <1>4, ApplyCounts
<1>10. e \in Nat /\ m \in Nat
  OBVIOUS
<1> HIDE DEF e, m, s
<1>11. IsExplained(x) <=> IsExplained(w)
  <2>1. x.db = x.ledger <=> o.effects + e = l + e
    BY <1>9, StateFields
  <2>2. w.db = w.ledger <=> o.effects = l
    BY <1>2, <1>4, StateFields
  <2>3. x.db = x.ledger <=> w.db = w.ledger
    BY <1>1, <1>10, <2>1, <2>2
  <2> QED
    BY <2>3 DEF IsExplained
<1>12. l + e \in Nat /\ l + e <= o.effects + e
  BY <1>1, <1>2, <1>10
<1>13. o.raw_db <=> ~IsExplained(w)
  BY DEF Holds
<1>14. x.files = u.files /\ ~o.raw_seen
  BY <1>8 DEF Holds
<1>15. IsExplained(x) => Holds(x, u)
  BY <1>1, <1>8, <1>9, <1>11, <1>12, <1>13, <1>14 DEF Holds
<1> QED
  BY <1>7, <1>8, <1>11, <1>13, <1>15

\* What the engine does with a statement that does not commit.
IsPassed(x, w, op) ==
    /\ x.db = IF op = "raw_sql" THEN Apply(w.db, "effect") ELSE w.db
    /\ x.ledger = w.ledger
    /\ x.files = IF op \in FileOps THEN w.files \union {op}
                 ELSE IF op = "delete_file" THEN w.files \ {"raw_file"} ELSE w.files
    /\ x.other <=> w.other \/ op = "table" \/ (op = "repoint" /\ w.db.effects > 0)

\* Every other statement leaves the engine's world as it leaves the oracle's.
LEMMA PassHolds ==
    ASSUME NEW o \in OracleWorld, NEW u \in OracleWorld, NEW op \in Ops, NEW k \in Nat,
           IsAfter(u, o, op, k), ~CommitsOn(o, op), NEW w, NEW x, Holds(w, o),
           IsPassed(x, w, op)
    PROVE  Holds(x, u) /\ u.trace = o.trace
<1> USE DEF IsPassed
<1>1. /\ o.effects \in Nat /\ o.marker \in {0, 1} /\ o.marker \in Nat
      /\ u.effects \in Nat /\ u.marker \in {0, 1}
      /\ o.raw_db \in BOOLEAN /\ o.raw_seen \in BOOLEAN
      /\ u.raw_db \in BOOLEAN /\ u.raw_seen \in BOOLEAN
  BY WorldTypes
<1>2. PICK l \in Nat : l <= o.effects /\ w.ledger = StateAfter(l, o.marker)
  BY DEF Holds
<1>3. /\ w.db = StateAfter(o.effects, o.marker) /\ w.db.effects = o.effects
      /\ ~o.raw_seen /\ w.files = o.files /\ (o.raw_db <=> ~IsExplained(w))
  BY StateFields DEF Holds
<1> DEFINE credit == IF op = "raw_sql" THEN 1 ELSE 0
<1>4. u.effects = o.effects + credit
  BY <1>1 DEF IsAfter, CreditsOn, CommitsOn
<1>5. u.marker = o.marker
  BY <1>1 DEF IsAfter, MarksOn, CommitsOn
<1>6. x.files = u.files
  BY <1>3 DEF IsAfter
<1>7. ~u.raw_seen /\ u.trace = o.trace
  BY <1>3 DEF IsAfter
<1>8. u.raw_db <=> o.raw_db \/ op \in {"raw_sql", "table"} \/ (op = "repoint" /\ o.effects > 0)
  BY DEF IsAfter
<1>9. x.db = StateAfter(u.effects, u.marker)
  <2>1. CASE op = "raw_sql"
    <3>1. "effect" \in Operations /\ "effect" \in EffectOps /\ "effect" \notin MarkOps
      BY DEF Operations, EffectOps, MarkOps
    <3>2. Apply(w.db, "effect") = StateAfter(o.effects + 1, o.marker + 0)
      BY <1>1, <1>3, <3>1, ApplyCounts
    <3>3. o.marker + 0 = o.marker /\ credit = 1
      BY <1>1, <2>1
    <3> QED
      BY <1>4, <1>5, <2>1, <3>2, <3>3
  <2>2. CASE op # "raw_sql"
    <3>1. u.effects = o.effects
      BY <1>1, <1>4, <2>2
    <3> QED
      BY <1>3, <1>5, <2>2, <3>1
  <2> QED
    BY <2>1, <2>2
<1>10. credit \in Nat /\ l <= o.effects + credit
  BY <1>1, <1>2
<1>11. x.ledger = StateAfter(l, u.marker) /\ l <= u.effects
  BY <1>2, <1>4, <1>5, <1>10
<1>12. x.db = x.ledger <=> l = o.effects + credit
  BY <1>4, <1>5, <1>9, <1>11, StateFields
<1>13. w.db = w.ledger <=> l = o.effects
  BY <1>2, <1>3, StateFields
<1>14. u.raw_db <=> ~IsExplained(x)
  <2>1. CASE op = "raw_sql"
    <3>1. l # o.effects + credit
      BY <1>1, <1>2, <2>1
    <3> QED
      BY <1>8, <1>12, <2>1, <3>1 DEF IsExplained
  <2>2. CASE op # "raw_sql"
    <3>1. x.db = x.ledger <=> w.db = w.ledger
      BY <2>2
    <3> QED
      BY <1>3, <1>8, <2>2, <3>1 DEF IsExplained
  <2> QED
    BY <2>1, <2>2
<1> QED
  BY <1>6, <1>7, <1>9, <1>11, <1>14 DEF Holds

\* The engine and the oracle classify alike.
LEMMA ClassifyAgrees ==
    ASSUME NEW o \in OracleWorld
    PROVE  ClassifyFinal(StateAfter(o.effects, o.marker), InitialTotal) = Classify(o)
<1>1. o.effects \in Nat /\ o.marker \in {0, 1}
  BY WorldTypes
<1>2. Duplicated(StateAfter(o.effects, o.marker), InitialTotal) <=> o.effects = 2
  BY <1>1, ScenarioAssumption DEF Duplicated, StateAfter
<1>3. OnceAndMarked(StateAfter(o.effects, o.marker), InitialTotal)
          <=> o.effects = 1 /\ o.marker = 1
  BY <1>1, ScenarioAssumption DEF OnceAndMarked, StateAfter
<1> QED
  BY <1>2, <1>3 DEF ClassifyFinal, Classify

\* The controller knows the checkpoint when it sees one effect.
LEMMA CheckpointIs ==
    ASSUME NEW e \in Nat, NEW m \in {0, 1}
    PROVE  CheckpointReached(StateAfter(e, m), "effect-commit") <=> e = 1
BY ScenarioAssumption DEF CheckpointReached, StateAfter

----------------------------------------------------------------------------
(* How a delivery of the oracle ends.                                      *)

\* A delivery that has ended stays so; what the kernel saw it saw.
LEMMA CourseEnds ==
    ASSUME NEW w \in OracleWorld, NEW ops \in Seq(Ops), NEW k \in Nat, NEW n \in 0..Len(ops)
    PROVE  LET c == Course(w, ops, k)
           IN  /\ c[n].end # "running" => Last(w, ops, k) = c[n]
               /\ c[n].raw_seen => Deliver(w, ops, k).raw_seen
<1> DEFINE c == Course(w, ops, k)
           l == Last(w, ops, k)
           d == Deliver(w, ops, k)
<1>1. Len(ops) \in n..Len(ops)
  OBVIOUS
<1>2. Extends(c[n], l) /\ (c[n].end # "running" => l = c[n])
  BY <1>1, CourseExtends DEF Last
<1>3. /\ l \in OracleWorld
      /\ d.raw_seen = (l.raw_seen \/ (d.end # "error" /\ (l.files # {} \/ l.raw_db)))
  BY DeliverFields, DeliverSeen, Zenon
<1> HIDE DEF c, l, d
<1>4. c[n].raw_seen => d.raw_seen
  BY <1>2, <1>3 DEF Extends
<1> QED
  BY <1>2, <1>4 DEF c, l, d

\* What the kernel saw in one delivery spoils the next.
LEMMA SeenStays ==
    ASSUME NEW w \in OracleWorld, w.raw_seen, NEW ops \in Seq(Ops), NEW k \in Nat
    PROVE  Deliver(w, ops, k).raw_seen
<1>1. Course(w, ops, k)[0].raw_seen
  BY CourseWorlds, StartFields
<1>2. 0 \in 0..Len(ops)
  OBVIOUS
<1> QED
  BY <1>1, <1>2, CourseEnds

\* As long as it runs, a delivery that will be killed is the one that will not.
LEMMA KilledStep ==
    ASSUME NEW ops \in Seq(Ops), NEW k \in Nat, NEW p \in 0..Len(ops),
           Course(Fresh, ops, k)[p].end = "running"
    PROVE  /\ Course(Fresh, ops, k)[p] = Free(ops)[p]
           /\ p < Len(ops) => Course(Fresh, ops, k)[p + 1].trace = Free(ops)[p + 1].trace
<1> DEFINE c == Free(ops)
           d == Course(Fresh, ops, k)
<1>1. CASE k = 0
  BY <1>1 DEF Free
<1>2. CASE k # 0
  <2>1. k \in Nat \ {0} /\ 0 \in Nat /\ Fresh \in OracleWorld
    BY <1>2, FreshFields
  <2>2. IsStopped(d, c, k, p)
    BY <2>1, KilledCourse DEF Free
  <2>3. \A i \in 0..Len(ops) : c[i] \in OracleWorld /\ d[i] \in OracleWorld
    BY <2>1, CourseWorlds DEF Free
  <2> HIDE DEF c, d
  <2>4. d[p].end = "running"
    BY DEF d
  <2>5. Len(c[p].trace) \in Nat
    BY <2>3, WorldTypes
  <2>6. ~(Len(c[p].trace) >= k)
    <3> SUFFICES ASSUME Len(c[p].trace) >= k PROVE FALSE
      OBVIOUS
    <3>1. PICK q \in 1..p : d[p] = [c[q] EXCEPT !.end = "killed"]
      BY <2>2 DEF IsStopped
    <3>2. c[q] \in OracleWorld
      BY <2>3
    <3>3. d[p].end = "killed"
      BY <3>1, <3>2 DEF OracleWorld
    <3> QED
      BY <2>4, <3>3
  <2>7. d[p] = c[p]
    BY <2>1, <2>2, <2>5, <2>6 DEF IsStopped
  <2>8. ASSUME p < Len(ops) PROVE d[p + 1].trace = c[p + 1].trace
    <3>1. p + 1 \in 1..Len(ops) /\ (p + 1) - 1 = p
      BY <2>8
    <3>2. /\ IsAfter(d[p + 1], d[p], ops[p + 1], k)
          /\ IsAfter(c[p + 1], c[p], ops[p + 1], 0)
      BY <2>1, <2>4, <2>7, <3>1, CourseWorlds DEF c, d, Free
    <3>3. d[p + 1].effects = c[p + 1].effects
      BY <2>7, <3>2 DEF IsAfter
    <3> QED
      BY <2>7, <3>2, <3>3 DEF IsAfter
  <2> QED
    BY <2>7, <2>8 DEF c, d
<1> QED
  BY <1>1, <1>2

\* A delivery is killed at the commit it is to be killed at, if it gets there.
LEMMA KillReached ==
    ASSUME NEW ops \in Seq(Ops), NEW k \in 0..Commits(ops)
    PROVE  /\ Commits(ops) \in Nat
           /\ k # 0 => /\ Last(Fresh, ops, k).end = "killed"
                       /\ Len(Deliver(Fresh, ops, k).trace) = k
           /\ k = 0 => Last(Fresh, ops, k).end # "killed"
<1> DEFINE n == Len(ops)
           c == Free(ops)
           d == Course(Fresh, ops, k)
<1>1. n \in 0..n /\ 0 \in Nat /\ Fresh \in OracleWorld
  BY FreshFields
<1>2. Commits(ops) = Len(c[n].trace) /\ c[n] \in OracleWorld
  BY <1>1, DeliverFields DEF Commits, Free, Last
<1>3. Commits(ops) \in Nat /\ k \in Nat
  BY <1>2, WorldTypes
<1>4. /\ d[n].end = "killed" <=> (k # 0 /\ Len(d[n].trace) = k)
      /\ Deliver(Fresh, ops, k).trace = d[n].trace
  <2>1. d[n].end = "killed" <=> (k # 0 /\ Len(d[n].trace) = k)
    BY <1>1, <1>3, CourseKilled
  <2>2. Deliver(Fresh, ops, k).trace = d[n].trace
    BY <1>1, <1>3, DeliverFields DEF Last
  <2> QED
    BY <2>1, <2>2
<1>5. CASE k # 0
  <2>1. IsStopped(d, c, k, n)
    BY <1>1, <1>3, <1>5, KilledCourse DEF Free
  <2>2. \A i \in 0..n : c[i] \in OracleWorld
    BY <1>1, CourseWorlds DEF Free
  <2> HIDE DEF c, d, n
  <2>3. Len(c[n].trace) >= k
    BY <1>2, <1>3
  <2>4. PICK q \in 1..n : d[n] = [c[q] EXCEPT !.end = "killed"]
    BY <2>1, <2>3 DEF IsStopped
  <2>5. q \in 0..n
    BY <1>1
  <2>6. d[n].end = "killed"
    BY <2>2, <2>4, <2>5 DEF OracleWorld
  <2> QED
    BY <1>3, <1>4, <1>5, <2>6 DEF Last, n, d
<1>6. CASE k = 0
  BY <1>3, <1>4, <1>6 DEF Last
<1> QED
  BY <1>5, <1>6

\* The boundary is the first commit that leaves one effect.
LEMMA BoundaryIs ==
    ASSUME NEW ops \in Seq(Ops)
    PROVE  LET trace == Deliver(Fresh, ops, 0).trace
               b == BoundaryCommit(ops)
           IN  /\ b \in 0..Commits(ops)
               /\ b # 0 => trace[b] = 1
               /\ \A j \in 1..Commits(ops) : trace[j] = 1 => b # 0 /\ b <= j
<1> DEFINE trace == Deliver(Fresh, ops, 0).trace
           I == {i \in 1..Len(trace) : trace[i] = 1}
           b == BoundaryCommit(ops)
<1>1. trace = Delivery(Fresh, ops, 0).trace
  <2>1. trace = Last(Fresh, ops, 0).trace /\ Last(Fresh, ops, 0) \in OracleWorld
    BY FreshFields, DeliverFields
  <2>2. Delivery(Fresh, ops, 0) =
            [Last(Fresh, ops, 0) EXCEPT !.end = IF @ = "running" THEN "done" ELSE @]
    BY DEF Delivery, Last
  <2>3. Delivery(Fresh, ops, 0).trace = Last(Fresh, ops, 0).trace
    BY <2>1, <2>2 DEF OracleWorld
  <2> QED
    BY <2>1, <2>3
<1>2. b = IF I # {} THEN Seqs!Min(I) ELSE 0
  BY <1>1 DEF BoundaryCommit, Seqs!SelectInSeq
<1>3. Len(trace) = Commits(ops) /\ Commits(ops) \in Nat
  <2>1. 0 \in Nat /\ Fresh \in OracleWorld
    BY FreshFields
  <2>2. Deliver(Fresh, ops, 0) \in OracleWorld
    BY <2>1, DeliverFields
  <2> QED
    BY <2>2, WorldTypes DEF Commits
<1> HIDE DEF trace, b
<1>4. CASE I = {}
  BY <1>2, <1>3, <1>4 DEF b, trace
<1>5. CASE I # {}
  <2>1. I \in SUBSET Nat
    OBVIOUS
  <2>2. PICK m \in I : \A i \in I : m <= i
    <3> HIDE DEF I
    <3> QED
      BY <1>5, <2>1, LeastNatural
  <2>3. b = CHOOSE x \in I : \A y \in I : x <= y
    BY <1>2, <1>5 DEF Seqs!Min
  <2>4. b \in I /\ \A i \in I : b <= i
    <3> HIDE DEF I
    <3> QED
      BY <2>2, <2>3
  <2> QED
    BY <1>3, <2>4 DEF b, trace
<1> QED
  BY <1>4, <1>5

----------------------------------------------------------------------------
(* The world that runs.                                                    *)

\* The commits a census finds are those of the oracle's first delivery.
LEMMA CensusPoints ==
    ASSUME NEW r, handler \in Seq(Ops), CensusFits(r)
    PROVE  \/ KillPoints(r) = {} /\ ~Completed(r)
           \/ KillPoints(r) = 1..Commits(handler) /\ Commits(handler) # 0 /\ Completed(r)
<1> DEFINE first == Deliver(Fresh, handler, 0)
           final == Deliver(first, handler, 0)
           judgeable == Commits(handler) # 0 /\ Judgeable(first) /\ Judgeable(final)
<1>1. Fits(r, judgeable, CensusObservation(first, final), Commits(handler))
  BY DEF CensusFits
<1>2. CASE judgeable
  <2>1. r = ReceiptOf(CensusObservation(first, final), Made(handler, Commits(handler)))
    BY <1>1, <1>2 DEF Fits
  <2>2. Completed(r) /\ r.ops = Made(handler, Commits(handler))
    BY <2>1 DEF ReceiptOf, Completed
  <2>3. Commits(handler) \in Nat
    <3>1. first \in OracleWorld
      BY FreshFields, DeliverFields
    <3> QED
      BY <3>1, WorldTypes DEF Commits
  <2>4. Commits(handler) \in 0..Commits(handler)
    BY <2>3
  <2>5. Len(r.ops) = Commits(handler)
    BY <2>2, <2>4, MadeTypes
  <2> QED
    BY <1>2, <2>2, <2>5 DEF KillPoints
<1>3. CASE ~judgeable
  BY <1>1, <1>3 DEF Fits, KillPoints, Completed
<1> QED
  BY <1>2, <1>3

\* The commit to kill after is one of the first delivery's; a sweep always kills.
LEMMA KillCommitIs ==
    ASSUME RedTeamInv
    PROVE  /\ handler \in Seq(Ops) /\ Len(handler) \in Nat
           /\ KillCommit \in 0..Commits(handler) /\ Commits(handler) \in Nat
           /\ wave = "sweep" => KillCommit = kill /\ kill # 0
           /\ wave = "boundary" => KillCommit = BoundaryCommit(handler)
           /\ wave = "census" => KillCommit = 0 /\ kill = 0
<1>1. handler \in Seq(Ops) /\ Len(handler) \in Nat
  BY HandlersAssumption DEF RedTeamInv, TypeOK
<1>2. Commits(handler) \in Nat
  <2>1. Deliver(Fresh, handler, 0) \in OracleWorld
    BY <1>1, FreshFields, DeliverFields
  <2> QED
    BY <2>1, WorldTypes DEF Commits
<1>3. CASE wave = "boundary"
  BY <1>1, <1>2, <1>3, BoundaryIs DEF KillCommit
<1>4. CASE wave = "sweep"
  <2>1. kill \in KillPoints(receipts.census[1]) /\ CensusFits(receipts.census[1])
    BY <1>4 DEF RedTeamInv, ReceiptsFit, SweptUpTo
  <2>2. kill \in 1..Commits(handler)
    BY <1>1, <2>1, CensusPoints
  <2> QED
    BY <1>1, <1>2, <1>4, <2>2 DEF KillCommit
<1>5. CASE wave \notin {"boundary", "sweep"}
  <2>1. KillCommit = 0
    BY <1>5 DEF KillCommit
  <2>2. wave = "census" => kill = 0
    BY DEF RedTeamInv, ReceiptsFit
  <2> QED
    BY <1>1, <1>2, <1>5, <2>1, <2>2
<1> QED
  BY <1>3, <1>4, <1>5

\* Both deliveries of the world that runs.
LEMMA RanIs ==
    ASSUME RedTeamInv, NEW delivery \in {1, 2}
    PROVE  LET c == Ran(delivery)
           IN  /\ RanFrom(delivery) \in OracleWorld /\ RanKill(delivery) \in Nat
               /\ c[0] = Start(RanFrom(delivery))
               /\ \A n \in 0..Len(handler) : c[n] \in OracleWorld
               /\ \A n \in 1..Len(handler) :
                     c[n - 1].end = "running" =>
                         IsAfter(c[n], c[n - 1], handler[n], RanKill(delivery))
<1>1. /\ handler \in Seq(Ops) /\ Len(handler) \in Nat
      /\ KillCommit \in 0..Commits(handler) /\ Commits(handler) \in Nat
  BY KillCommitIs
<1>2. KillCommit \in Nat
  BY <1>1
<1>3. RanFrom(delivery) \in OracleWorld /\ RanKill(delivery) \in Nat
  BY <1>1, <1>2, FreshFields, DeliverFields DEF RanFrom, RanKill
<1> QED
  BY <1>1, <1>3, CourseWorlds DEF Ran

\* The world that runs and its next statement.
LEMMA HereIs ==
    ASSUME RedTeamInv, Runs
    PROVE  LET c == Ran(world.delivery)
               o == c[world.at - 1]
               u == c[world.at]
           IN  /\ world \in World /\ world.delivery \in {1, 2}
               /\ world.at \in 1..(Len(handler) + 1)
               /\ world.at - 1 \in 0..Len(handler)
               /\ o \in OracleWorld /\ o.end = "running" /\ Holds(world, o) /\ Kept(world, o)
               /\ \/ world.at = Len(handler) + 1 /\ Here = "return" /\ Here \notin Ops
                  \/ /\ world.at \in 1..Len(handler) /\ Here = handler[world.at] /\ Here \in Ops
                     /\ Here # "return"
                     /\ u \in OracleWorld /\ IsAfter(u, o, Here, RanKill(world.delivery))
<1> DEFINE c == Ran(world.delivery)
           o == c[world.at - 1]
<1>1. /\ handler \in Seq(Ops) /\ Len(handler) \in Nat
  BY KillCommitIs
<1>2. world \in World /\ world.at \in 1..(Len(handler) + 1)
  BY DEF RedTeamInv, TypeOK
<1>3. world.delivery \in {1, 2}
  BY <1>2 DEF World
<1>4. world.at - 1 \in 0..Len(handler)
  BY <1>1, <1>2
<1>5. /\ \A n \in 0..Len(handler) : c[n] \in OracleWorld
      /\ \A n \in 1..Len(handler) :
            c[n - 1].end = "running" =>
                IsAfter(c[n], c[n - 1], handler[n], RanKill(world.delivery))
  BY <1>3, RanIs
<1>6. o.end = "running" /\ Holds(world, o) /\ Kept(world, o)
  BY DEF RedTeamInv, WorldFits
<1>7. "return" \notin Ops
  BY DEF Ops, StoreOps, HazardOps, FileOps
<1>8. CASE world.at = Len(handler) + 1
  <2>1. Here = "return"
    BY <1>1, <1>8 DEF Here
  <2> HIDE DEF c
  <2> QED
    BY <1>2, <1>3, <1>4, <1>5, <1>6, <1>7, <1>8, <2>1 DEF c
<1>9. CASE world.at \in 1..Len(handler)
  <2>1. Here = handler[world.at] /\ Here \in Ops
    BY <1>1, <1>9 DEF Here
  <2>2. world.at \in 0..Len(handler)
    BY <1>1, <1>9
  <2> QED
    BY <1>2, <1>3, <1>4, <1>5, <1>6, <1>7, <1>9, <2>1, <2>2
<1> QED
  BY <1>1, <1>2, <1>8, <1>9

\* A statement that does not end its world keeps the invariant, if the world it
\* leaves is the oracle's.
LEMMA ContinueKeeps ==
    ASSUME RedTeamInv, Runs, NEW x \in World, Continue(x),
           x.at \in 1..(Len(handler) + 1), WorldFits(x)
    PROVE  RedTeamInv'
<1> USE DEF Continue
<1>1. TypeOK'
  BY DEF RedTeamInv, TypeOK
<1>2. (Runs => WorldFits(world))'
  BY DEF WorldFits, Ran, RanFrom, RanKill, KillCommit, Kept
<1>3. ReceiptsFit'
  BY DEF RedTeamInv, ReceiptsFit, SweptUpTo, SweepFits, CensusFits, BoundaryFits, Fits
<1>4. (wave # "done" => outcome = "none")' /\ VerdictIsTheOracles'
  BY DEF RedTeamInv, VerdictIsTheOracles, Census
<1> QED
  BY <1>1, <1>2, <1>3, <1>4 DEF RedTeamInv

\* Whether the oracle judges the world that runs, and of what.
Final == Deliver(Deliver(Fresh, handler, KillCommit), handler, 0)

WorldJudgeable ==
    /\ wave = "boundary" => KillCommit # 0
    /\ wave = "census" => Judgeable(Deliver(Fresh, handler, KillCommit))
    /\ Judgeable(Final)

WorldObservation ==
    IF wave = "census" THEN CensusObservation(Deliver(Fresh, handler, KillCommit), Final)
    ELSE Classify(Final)

WorldReceiptFits(receipt) ==
    Fits(receipt, WorldJudgeable, WorldObservation,
         Len(Deliver(Fresh, handler, KillCommit).trace))

\* The receipt that joins its wave.
Told(receipt) ==
    IF wave = "census" /\ Completed(receipt) /\ receipt.ops = <<>> THEN SetupFailure ELSE receipt

\* A receipt that tells of its world what the oracle would fits its wave.
LEMMA ToldFits ==
    ASSUME RedTeamInv, Runs, NEW r \in Receipt, WorldReceiptFits(r)
    PROVE  /\ Told(r) \in Receipt
           /\ wave = "boundary" => Told(r) = r /\ BoundaryFits(r)
           /\ wave = "census" => CensusFits(Told(r))
           /\ wave = "sweep" => Told(r) = r /\ SweepFits(r, kill)
<1> DEFINE first == Deliver(Fresh, handler, KillCommit)
<1>1. /\ handler \in Seq(Ops)
      /\ KillCommit \in 0..Commits(handler) /\ Commits(handler) \in Nat
      /\ wave = "sweep" => KillCommit = kill /\ kill # 0
      /\ wave = "boundary" => KillCommit = BoundaryCommit(handler)
      /\ wave = "census" => KillCommit = 0
  BY KillCommitIs
<1>2. KillCommit # 0 => Len(first.trace) = KillCommit
  BY <1>1, KillReached
<1>3. SetupFailure \in Receipt
  <2>1. <<>> \in Seq(Operations)
    OBVIOUS
  <2> QED
    BY <2>1 DEF SetupFailure, Receipt, ExecutionStatus, IntegrityStatus, CrashObservation
<1>4. Told(r) \in Receipt
  BY <1>3 DEF Told
<1>5. Redelivered(handler, KillCommit) = Final
  BY DEF Redelivered, Final
<1>6. CASE wave = "boundary"
  <2>1. Told(r) = r
    BY <1>6 DEF Told
  <2>2. CASE KillCommit = 0
    <3>1. ~WorldJudgeable
      BY <1>6, <2>2 DEF WorldJudgeable
    <3> QED
      BY <1>1, <1>4, <1>6, <2>1, <2>2, <3>1 DEF WorldReceiptFits, BoundaryFits, Fits
  <2>3. CASE KillCommit # 0
    <3>1. /\ WorldJudgeable <=> Judgeable(Final)
          /\ WorldObservation = Classify(Final)
      BY <1>6, <2>3 DEF WorldJudgeable, WorldObservation
    <3> QED
      BY <1>1, <1>2, <1>4, <1>5, <1>6, <2>1, <2>3, <3>1 DEF WorldReceiptFits, BoundaryFits, Fits
  <2> QED
    BY <2>2, <2>3
<1>7. CASE wave = "sweep"
  <2>1. Told(r) = r
    BY <1>7 DEF Told
  <2>2. /\ WorldJudgeable <=> Judgeable(Final)
        /\ WorldObservation = Classify(Final)
    BY <1>7 DEF WorldJudgeable, WorldObservation
  <2> QED
    BY <1>1, <1>2, <1>4, <1>5, <1>7, <2>1, <2>2 DEF WorldReceiptFits, SweepFits, Fits
<1>8. CASE wave = "census"
  <2>1. Final = Deliver(first, handler, 0) /\ first = Deliver(Fresh, handler, 0)
    BY <1>1, <1>8 DEF Final
  <2>2. /\ WorldJudgeable <=> Judgeable(first) /\ Judgeable(Final)
        /\ WorldObservation = CensusObservation(first, Final)
        /\ Len(first.trace) = Commits(handler)
    BY <1>8, <2>1 DEF WorldJudgeable, WorldObservation, Commits
  <2> DEFINE judgeable == Judgeable(first) /\ Judgeable(Final)
             n == Commits(handler)
             full == n # 0 /\ judgeable
             seen == CensusObservation(first, Final)
  <2>3. Fits(r, judgeable, seen, n)
    BY <2>2 DEF WorldReceiptFits
  <2>4. CensusFits(Told(r)) <=> Fits(Told(r), full, seen, n)
    BY <2>1 DEF CensusFits
  <2>5. Len(Made(handler, n)) = n /\ Made(handler, n) \in Seq(Operations)
    BY <1>1, MadeTypes
  <2> HIDE DEF first, n, seen
  <2>6. CASE judgeable
    <3>1. r = ReceiptOf(seen, Made(handler, n))
      BY <2>3, <2>6 DEF Fits
    <3>2. Completed(r) /\ r.ops = Made(handler, n)
      BY <3>1 DEF ReceiptOf, Completed
    <3>3. CASE n = 0
      <4>1. r.ops = <<>>
        BY <2>5, <3>2, <3>3
      <4>2. Told(r) = SetupFailure
        BY <1>8, <3>2, <4>1 DEF Told
      <4> QED
        BY <1>3, <1>8, <1>4, <2>4, <3>3, <4>2 DEF Fits, SetupFailure
    <3>4. CASE n # 0
      <4>1. r.ops # <<>>
        BY <2>5, <3>2, <3>4
      <4>2. Told(r) = r
        BY <4>1 DEF Told
      <4> QED
        BY <1>8, <1>4, <2>4, <2>6, <3>1, <3>4, <4>2 DEF Fits
    <3> QED
      BY <3>3, <3>4
  <2>7. CASE ~judgeable
    <3>1. /\ r \in Receipt /\ r.status # "COMPLETED"
          /\ r.observation = "NOT_OBSERVED" /\ r.ops = <<>>
      BY <2>3, <2>7 DEF Fits
    <3>2. Told(r) = r
      BY <3>1 DEF Told, Completed
    <3> QED
      BY <1>8, <1>4, <2>4, <2>7, <3>1, <3>2 DEF Fits
  <2> QED
    BY <2>6, <2>7
<1> QED
  BY <1>4, <1>6, <1>7, <1>8 DEF Runs

\* No statement commits more than once.
LEMMA CommitsBounded ==
    ASSUME NEW ops \in Seq(Ops)
    PROVE  Commits(ops) \in 0..Len(ops)
<1> DEFINE c == Free(ops)
           N == Len(ops)
           S == {n \in Nat : Len(c[n].trace) <= n}
<1>1. N \in Nat /\ 0 \in Nat /\ Fresh \in OracleWorld
  BY FreshFields
<1>2. /\ c[0] = Start(Fresh)
      /\ \A n \in 0..N : c[n] \in OracleWorld
      /\ \A n \in 1..N :
            /\ ops[n] \in Ops
            /\ c[n - 1].end # "running" => c[n] = c[n - 1]
            /\ c[n - 1].end = "running" => IsAfter(c[n], c[n - 1], ops[n], 0)
  BY <1>1, CourseWorlds DEF Free
<1>3. Commits(ops) = Len(c[N].trace)
  BY <1>1, DeliverFields DEF Commits, Free, Last
<1>4. Len(c[0].trace) = 0
  <2>1. c[0].trace = <<>>
    BY <1>1, <1>2, StartFields
  <2> QED
    BY <2>1
<1> HIDE DEF c, N
<1>5. \A n \in 0..(N - 1) : n \in S => n + 1 \in S
  <2> SUFFICES ASSUME NEW n \in 0..(N - 1), Len(c[n].trace) <= n
               PROVE  Len(c[n + 1].trace) <= n + 1
    BY <1>1
  <2>1. n + 1 \in 1..N /\ (n + 1) - 1 = n /\ n \in 0..N /\ n + 1 \in 0..N
    BY <1>1
  <2>2. c[n] \in OracleWorld /\ c[n + 1] \in OracleWorld /\ ops[n + 1] \in Ops
    BY <1>2, <2>1
  <2>3. Len(c[n].trace) \in Nat
    BY <2>2, WorldTypes
  <2>4. CASE c[n].end # "running"
    <3>1. c[n + 1] = c[n]
      BY <1>2, <2>1, <2>4
    <3> QED
      BY <2>1, <2>3, <3>1
  <2>5. CASE c[n].end = "running"
    <3>1. IsAfter(c[n + 1], c[n], ops[n + 1], 0)
      BY <1>2, <2>1, <2>5
    <3>2. \/ Len(c[n + 1].trace) = Len(c[n].trace)
          \/ Len(c[n + 1].trace) = Len(c[n].trace) + 1
      BY <1>1, <2>2, <3>1, StatementExtends
    <3> QED
      BY <2>1, <2>3, <3>2
  <2> QED
    BY <2>4, <2>5
<1>6. 0 \in S
  BY <1>4
<1>7. 0..N \subseteq S
  <2> HIDE DEF S
  <2> QED
    BY <1>1, <1>5, <1>6, InductionUpTo
<1>8. N \in 0..N
  BY <1>1
<1>9. Len(c[N].trace) <= N /\ c[N] \in OracleWorld
  BY <1>2, <1>7, <1>8
<1>10. Len(c[N].trace) \in Nat
  BY <1>9, WorldTypes
<1> QED
  BY <1>1, <1>3, <1>9, <1>10 DEF N

\* A fresh world is the oracle's.
LEMMA SeededHolds ==
    ASSUME NEW ops \in Seq(Ops), NEW k \in Nat
    PROVE  LET o == Course(Fresh, ops, k)[0]
           IN  /\ o.end = "running" /\ Holds(Seeded, o) /\ Len(o.trace) = 0
               /\ Seeded.ops = Made(ops, 0)
               /\ Seeded \in World /\ Seeded.delivery = 1 /\ Seeded.at = 1
<1> DEFINE o == Course(Fresh, ops, k)[0]
           empty == <<>>
<1>1. /\ o.effects = 0 /\ o.marker = 0 /\ o.files = {} /\ ~o.raw_db /\ ~o.raw_seen
      /\ o.trace = <<>> /\ o.end = "running"
  BY FreshFields, CourseWorlds, StartFields
<1>2. Len(o.trace) = 0
  BY <1>1
<1>3. Seed = StateAfter(0, 0)
  BY ScenarioAssumption DEF Seed, StateAfter
<1>4. Seed \in StateSnapshot
  BY <1>3, SnapshotOf
<1>5. empty \in Seq(Operations) /\ empty = Made(ops, 0)
  BY DEF Made
<1> HIDE DEF o, empty
<1>6. Seeded = [delivery |-> 1, at |-> 1, db |-> Seed, other |-> FALSE, files |-> {},
                ledger |-> Seed, first |-> Seed, ops |-> empty, schedule |-> empty]
  BY DEF Seeded, empty
<1>7. Seeded \in World
  BY <1>4, <1>5, <1>6 DEF World
<1>8. /\ Seeded.delivery = 1 /\ Seeded.at = 1 /\ Seeded.ops = empty
      /\ Seeded.db = Seed /\ Seeded.ledger = Seed /\ Seeded.files = {} /\ Seeded.other = FALSE
  BY <1>6
<1>9. 0 \in Nat /\ 0 <= 0
  OBVIOUS
<1>10. Holds(Seeded, o)
  BY <1>1, <1>3, <1>8, <1>9 DEF Holds, IsExplained
<1> QED
  BY <1>1, <1>2, <1>5, <1>7, <1>8, <1>10 DEF o

\* The receipt of a world joins its wave, and the next world is fresh.
LEMMA ReturnKeeps ==
    ASSUME RedTeamInv, Runs, NEW r \in Receipt, WorldReceiptFits(r), Return(r)
    PROVE  RedTeamInv'
<1> DEFINE told == Told(r)
           wave0 == [i \in 1..Confirmations |-> told]
           returned == [receipts EXCEPT ![wave] =
                           IF wave = "boundary" THEN wave0 ELSE Append(@, told)]
<1>1. /\ receipts' = returned /\ world' = Seeded
      /\ IF wave = "boundary"
         THEN wave' = (IF IsSwept(returned.boundary) THEN "census" ELSE "judge") /\ kill' = 0
         ELSE IF kill + 1 \in KillPoints(returned.census[1])
         THEN wave' = "sweep" /\ kill' = kill + 1
         ELSE wave' = "judge" /\ kill' = kill
      /\ handler' = handler /\ verdict' = verdict /\ outcome' = outcome
  BY DEF Return, Told
<1>2. /\ handler \in Seq(Ops) /\ Len(handler) \in Nat /\ Commits(handler) \in Nat
      /\ wave = "sweep" => kill # 0
      /\ wave = "census" => kill = 0
  BY KillCommitIs
<1>3. /\ told \in Receipt
      /\ wave = "boundary" => told = r /\ BoundaryFits(r)
      /\ wave = "census" => CensusFits(told)
      /\ wave = "sweep" => told = r /\ SweepFits(r, kill)
  BY ToldFits
<1>4. /\ handler \in Handlers /\ kill \in 0..Len(handler) /\ verdict \in CrashVerdict
      /\ DOMAIN receipts = {"boundary", "census", "sweep"}
      /\ \A w \in DOMAIN receipts : receipts[w] \in Seq(Receipt)
      /\ outcome = "none"
  BY DEF RedTeamInv, TypeOK, Runs
<1>5. wave \in DOMAIN receipts /\ wave \in {"boundary", "census", "sweep"}
  BY <1>4 DEF Runs
<1>6. wave0 \in Seq(Receipt) /\ wave0[1] = told /\ wave0 = [i \in 1..Confirmations |-> wave0[1]]
  BY <1>3, EvidenceAssumption
<1> HIDE DEF told, wave0
<1>7. /\ DOMAIN returned = {"boundary", "census", "sweep"}
      /\ returned[wave] = IF wave = "boundary" THEN wave0 ELSE Append(receipts[wave], told)
      /\ \A w \in {"boundary", "census", "sweep"} : w # wave => returned[w] = receipts[w]
  BY <1>4, <1>5
<1>8. \A w \in {"boundary", "census", "sweep"} : returned[w] \in Seq(Receipt)
  BY <1>3, <1>4, <1>5, <1>6, <1>7
<1> HIDE DEF returned
<1> DEFINE b == receipts'.boundary
<1>0. PICK n : n = IF wave = "boundary" THEN 0 ELSE kill
  OBVIOUS
<1>9. /\ b \in Seq(Receipt) /\ b = [i \in 1..Confirmations |-> b[1]]
      /\ BoundaryFits(b[1])
  <2>1. CASE wave = "boundary"
    BY <1>1, <1>3, <1>6, <1>7, <1>8, <2>1
  <2>2. CASE wave # "boundary"
    <3>1. b = receipts.boundary
      BY <1>1, <1>7, <2>2
    <3> QED
      BY <1>1, <1>8, <2>2, <3>1 DEF RedTeamInv, ReceiptsFit
  <2> QED
    BY <2>1, <2>2
<1>10. wave = "boundary" => receipts'.census = <<>> /\ receipts'.sweep = <<>>
  BY <1>1, <1>7 DEF RedTeamInv, ReceiptsFit
<1>11. wave # "boundary" =>
          /\ n \in Nat
          /\ IsSwept(b) /\ receipts'.census # <<>>
          /\ Len(receipts'.census) = 1 /\ CensusFits(receipts'.census[1])
          /\ DOMAIN receipts'.sweep = 1..n
          /\ \A i \in 1..n : SweepFits(receipts'.sweep[i], i)
          /\ kill = 0 \/ kill \in KillPoints(receipts'.census[1])
  <2>1. CASE wave = "census"
    <3>1. /\ receipts.census = <<>> /\ receipts.sweep = <<>> /\ IsSwept(receipts.boundary)
          /\ n = 0
      BY <1>0, <1>2, <2>1 DEF RedTeamInv, ReceiptsFit
    <3>2. /\ receipts'.census = Append(<<>>, told) /\ receipts'.sweep = <<>>
          /\ b = receipts.boundary
      BY <1>1, <1>7, <2>1, <3>1
    <3>3. Len(receipts'.census) = 1 /\ receipts'.census[1] = told
      BY <3>2
    <3>4. DOMAIN receipts'.sweep = 1..0
      BY <3>2
    <3> QED
      BY <1>2, <1>3, <2>1, <3>1, <3>2, <3>3, <3>4
  <2>2. CASE wave = "sweep"
    <3>1. SweptUpTo(kill - 1) /\ kill \in KillPoints(receipts.census[1]) /\ n = kill
      BY <1>0, <2>2 DEF RedTeamInv, ReceiptsFit
    <3>2. /\ receipts'.census = receipts.census /\ b = receipts.boundary
          /\ receipts'.sweep = Append(receipts.sweep, told)
      BY <1>1, <1>7, <2>2
    <3>3. /\ receipts.sweep \in Seq(Receipt) /\ Len(receipts.sweep) = kill - 1
          /\ kill \in Nat
      <4>1. DOMAIN receipts.sweep = 1..(kill - 1) /\ receipts.sweep \in Seq(Receipt)
        BY <1>4, <3>1 DEF SweptUpTo
      <4>2. kill \in Nat \ {0}
        BY <1>2, <1>4, <2>2
      <4> QED
        BY <4>1, <4>2
    <3>4. /\ DOMAIN receipts'.sweep = 1..kill
          /\ receipts'.sweep[kill] = told
          /\ \A i \in 1..(kill - 1) : receipts'.sweep[i] = receipts.sweep[i]
      BY <3>2, <3>3
    <3>5. \A i \in 1..kill : i = kill \/ i \in 1..(kill - 1)
      BY <3>3
    <3> QED
      BY <1>3, <2>2, <3>1, <3>2, <3>3, <3>4, <3>5 DEF SweptUpTo
  <2> QED
    BY <1>5, <2>1, <2>2
<1>12. kill' \in Nat /\ kill' \in 0..Len(handler)
  <2>1. Commits(handler) \in 0..Len(handler)
    BY <1>2, CommitsBounded
  <2>2. CASE kill' = 0
    BY <1>2, <2>2
  <2>3. CASE kill' = kill
    BY <1>4, <2>3
  <2>4. CASE wave # "boundary" /\ kill' \in KillPoints(returned.census[1])
    <3>1. KillPoints(returned.census[1]) \subseteq 1..Commits(handler)
      BY <1>1, <1>2, <1>11, <2>4, CensusPoints
    <3> QED
      BY <2>1, <2>4, <3>1
  <2> QED
    BY <1>1, <2>2, <2>3, <2>4
<1>13. (Runs => WorldFits(world))'
  <2>1. KillCommit' \in Nat
    <3>1. BoundaryCommit(handler') \in Nat
      BY <1>1, <1>2, BoundaryIs
    <3> QED
      BY <1>12, <3>1 DEF KillCommit
  <2>2. /\ world'.delivery = 1 /\ world'.at = 1
        /\ Ran(1)' = Course(Fresh, handler, KillCommit')
    BY <1>1, <1>2, <2>1, SeededHolds DEF Ran, RanFrom, RanKill
  <2>0. PICK o : o = Course(Fresh, handler, KillCommit')[0]
    OBVIOUS
  <2>3. /\ o.end = "running" /\ Holds(Seeded, o) /\ Len(o.trace) = 0
        /\ Seeded.ops = Made(handler, 0) /\ Seeded.delivery = 1 /\ Seeded.at = 1
    BY <1>2, <2>0, <2>1, SeededHolds
  <2>4. Ran(world.delivery)'[world'.at - 1] = o
    BY <2>0, <2>2
  <2>5. Kept(Seeded, o)'
    BY <1>1, <2>3 DEF Kept
  <2>6. Holds(world, o)'
    BY <1>1, <2>3 DEF Holds
  <2> QED
    BY <1>1, <2>3, <2>4, <2>5, <2>6 DEF WorldFits
<1>14. ReceiptsFit'
  <2> USE DEF ReceiptsFit, SweptUpTo, SweepFits, CensusFits, BoundaryFits, Fits
  <2>1. wave' \in {"census", "judge", "sweep"}
    BY <1>1
  <2>2. BoundaryFits(receipts.boundary[1])'
    BY <1>1, <1>9
  <2>3. CASE wave = "boundary"
    <3>1. /\ wave' = IF IsSwept(b) THEN "census" ELSE "judge"
          /\ kill' = 0
      BY <1>1, <2>3
    <3> QED
      BY <1>9, <1>10, <2>2, <2>3, <3>1
  <2>4. CASE wave # "boundary"
    <3>1. SweptUpTo(n)'
      BY <1>1, <1>11, <2>4
    <3>2. CASE kill + 1 \in KillPoints(receipts'.census[1])
      <4>1. wave' = "sweep" /\ kill' = kill + 1
        BY <1>1, <2>4, <3>2
      <4>2. kill' - 1 = n
        BY <1>0, <1>4, <2>4, <4>1
      <4> QED
        BY <1>9, <2>2, <3>1, <3>2, <4>1, <4>2
    <3>3. CASE kill + 1 \notin KillPoints(receipts'.census[1])
      <4>1. wave' = "judge"
        BY <1>1, <2>4, <3>3
      <4>2. KillPoints(receipts'.census[1]) = 1..n
        <5>1. kill \in Nat /\ n = kill
          BY <1>0, <1>4, <1>2, <2>4
        <5>2. CASE KillPoints(receipts'.census[1]) = {}
          <6>1. kill = 0
            BY <1>11, <2>4, <5>2
          <6> QED
            BY <5>1, <5>2, <6>1
        <5>3. CASE KillPoints(receipts'.census[1]) = 1..Commits(handler) /\ Commits(handler) # 0
          <6>1. kill = Commits(handler)
            BY <1>2, <1>11, <2>4, <3>3, <5>1, <5>3
          <6> QED
            BY <5>1, <5>3, <6>1
        <5>4. CensusFits(receipts'.census[1])
          BY <1>11, <2>4
        <5> QED
          BY <1>2, <5>2, <5>3, <5>4, CensusPoints
      <4> QED
        BY <1>9, <1>11, <2>2, <2>4, <3>1, <4>1, <4>2
    <3> QED
      BY <3>2, <3>3
  <2> QED
    BY <2>3, <2>4
<1>15. TypeOK'
  <2>1. world' \in World /\ world'.at \in 1..(Len(handler) + 1)
    <3>1. 0 \in Nat
      OBVIOUS
    <3>2. Seeded \in World /\ Seeded.at = 1
      BY <1>2, <3>1, SeededHolds
    <3> QED
      BY <1>1, <1>2, <3>2
  <2> QED
    BY <1>1, <1>4, <1>7, <1>8, <1>12, <2>1 DEF TypeOK
<1>16. outcome' = "none"
  BY <1>1, <1>4
<1>17. VerdictIsTheOracles'
  BY <1>16 DEF VerdictIsTheOracles
<1> QED
  BY <1>13, <1>14, <1>15, <1>16, <1>17 DEF RedTeamInv

\* A world the oracle would not judge may fail.
LEMMA FailKeeps ==
    ASSUME RedTeamInv, Runs, ~WorldJudgeable, NEW failure \in ExecutionStatus \ {"COMPLETED"},
           FailWorld(failure)
    PROVE  RedTeamInv'
<1> DEFINE empty == <<>>
           r == [status |-> failure, observation |-> "NOT_OBSERVED", ops |-> empty,
                 integrity |-> IF failure = "INTEGRITY_ERROR" THEN "INVALID" ELSE "INCOMPLETE"]
<1>1. Return(r)
  BY DEF FailWorld
<1>2. empty \in Seq(Operations)
  OBVIOUS
<1>3. r \in Receipt
  <2> HIDE DEF empty
  <2> QED
    BY <1>2 DEF Receipt, IntegrityStatus, CrashObservation
<1>4. r.status # "COMPLETED" /\ r.observation = "NOT_OBSERVED" /\ r.ops = <<>>
  OBVIOUS
<1> HIDE DEF r
<1>5. WorldReceiptFits(r)
  BY <1>3, <1>4 DEF WorldReceiptFits, Fits
<1> QED
  BY <1>1, <1>3, <1>5, ReturnKeeps

\* A delivery ends: the kernel has looked where the engine compares.
LEMMA EndKeeps ==
    ASSUME RedTeamInv, Runs, NEW w \in World, w.delivery = world.delivery,
           NEW u, u = Last(RanFrom(w.delivery), handler, RanKill(w.delivery)),
           Holds(w, u), Kept(w, u), u.end # "error",
           wave = "boundary" => KillCommit # 0,
           End(w)
    PROVE  RedTeamInv'
<1> DEFINE first == Deliver(Fresh, handler, KillCommit)
           ended == Deliver(RanFrom(w.delivery), handler, RanKill(w.delivery))
<1>1. /\ handler \in Seq(Ops) /\ Len(handler) \in Nat
      /\ KillCommit \in 0..Commits(handler) /\ Commits(handler) \in Nat /\ KillCommit \in Nat
      /\ wave = "census" => KillCommit = 0
  BY KillCommitIs
<1>2. w.delivery \in {1, 2}
  BY DEF World
<1>3. RanFrom(w.delivery) \in OracleWorld /\ RanKill(w.delivery) \in Nat
  BY <1>2, RanIs
<1>4. /\ first \in OracleWorld /\ Final \in OracleWorld
      /\ Final = Deliver(first, handler, 0)
      /\ w.delivery = 1 => ended = first
      /\ w.delivery = 2 => ended = Final
  <2>1. first \in OracleWorld
    BY <1>1, FreshFields, DeliverFields
  <2>2. Final = Deliver(first, handler, 0)
    BY DEF Final
  <2>3. 0 \in Nat
    OBVIOUS
  <2>4. Final \in OracleWorld
    BY <1>1, <2>1, <2>2, <2>3, DeliverFields
  <2>5. w.delivery = 1 => ended = first
    BY DEF RanFrom, RanKill
  <2>6. w.delivery = 2 => ended = Final
    BY DEF RanFrom, RanKill, Final
  <2> QED
    BY <2>1, <2>2, <2>4, <2>5, <2>6
<1>5. /\ ended \in OracleWorld /\ u \in OracleWorld
      /\ ended.effects = u.effects /\ ended.marker = u.marker /\ ended.files = u.files
      /\ ended.raw_db = u.raw_db /\ ended.trace = u.trace
      /\ ended.end = IF u.end = "running" THEN "done" ELSE u.end
      /\ ended.raw_seen = (u.raw_seen \/ (ended.end # "error" /\ (u.files # {} \/ u.raw_db)))
  <2>1. PICK v, k : v = RanFrom(w.delivery) /\ k = RanKill(w.delivery)
    OBVIOUS
  <2>2. v \in OracleWorld /\ k \in Nat
    BY <1>3, <2>1
  <2>3. u = Last(v, handler, k) /\ ended = Deliver(v, handler, k)
    BY <2>1
  <2> DEFINE d == Deliver(v, handler, k)
             l == Last(v, handler, k)
  <2>4. /\ d \in OracleWorld /\ l \in OracleWorld
        /\ d.effects = l.effects /\ d.marker = l.marker /\ d.files = l.files
        /\ d.raw_db = l.raw_db /\ d.trace = l.trace
        /\ d.end = IF l.end = "running" THEN "done" ELSE l.end
    BY <1>1, <2>2, DeliverFields
  <2>5. d.raw_seen = (l.raw_seen \/ (d.end # "error" /\ (l.files # {} \/ l.raw_db)))
    BY <1>1, <2>2, DeliverSeen, Zenon
  <2>6. ended = d /\ u = l
    BY <2>3
  <2> HIDE DEF ended, d, l
  <2> QED
    BY <2>4, <2>5, <2>6
<1> HIDE DEF ended, first
<1>6. /\ ended.raw_seen <=> ~IsExplained(w) \/ w.files # {}
      /\ w.db = StateAfter(ended.effects, ended.marker)
  BY <1>5 DEF Holds
<1>7. u.end = "killed" => RanKill(w.delivery) # 0
  <2>1. Len(handler) \in 0..Len(handler)
    BY <1>1
  <2> QED
    BY <1>1, <1>3, <2>1, CourseKilled DEF Last
<1>8. u.end \in {"running", "done", "killed"}
  BY <1>5, WorldTypes
<1>9. CASE ended.raw_seen
  <2>1. FailWorld("INTEGRITY_ERROR")
    BY <1>6, <1>9 DEF End
  <2>2. Final.raw_seen
    BY <1>1, <1>2, <1>4, <1>9, SeenStays
  <2>3. ~WorldJudgeable
    BY <2>2 DEF WorldJudgeable, Judgeable
  <2> QED
    BY <2>1, <2>3, FailKeeps DEF ExecutionStatus
<1>10. CASE ~ended.raw_seen /\ w.delivery = 1
  <2> DEFINE x == [w EXCEPT !.delivery = 2, !.at = 1, !.first = w.ledger,
                            !.schedule = w.ops, !.ops = <<>>]
             s == Start(first)
             empty == <<>>
  <2>1. Continue(x)
    BY <1>6, <1>10 DEF End
  <2>2. empty \in Seq(Operations)
    OBVIOUS
  <2>3. x = [w EXCEPT !.delivery = 2, !.at = 1, !.first = w.ledger,
                      !.schedule = w.ops, !.ops = empty]
    OBVIOUS
  <2> HIDE DEF x, empty
  <2>4. /\ x \in World /\ x.delivery = 2 /\ x.at = 1 /\ x.db = w.db /\ x.ledger = w.ledger
        /\ x.files = w.files /\ x.other = w.other /\ x.first = w.ledger /\ x.schedule = w.ops
    BY <2>2, <2>3 DEF World
  <2>5. /\ s.effects = first.effects /\ s.marker = first.marker /\ s.files = first.files
        /\ s.raw_db = first.raw_db /\ s.raw_seen = first.raw_seen /\ s.end = "running"
    BY <1>4, StartFields
  <2>6. first = ended
    BY <1>4, <1>10
  <2>7. IsExplained(x) <=> IsExplained(w)
    BY <2>4 DEF IsExplained
  <2> HIDE DEF s
  <2>8. Holds(x, s)
    <3>1. /\ s.effects = u.effects /\ s.marker = u.marker /\ s.files = u.files
          /\ s.raw_db = u.raw_db /\ ~s.raw_seen
      BY <1>5, <1>10, <2>5, <2>6
    <3>2. /\ w.db = StateAfter(u.effects, u.marker) /\ w.files = u.files
          /\ \E l \in Nat : l <= u.effects /\ w.ledger = StateAfter(l, u.marker)
          /\ u.raw_db <=> ~IsExplained(w)
      BY DEF Holds
    <3> QED
      BY <2>4, <2>7, <3>1, <3>2, Zenon DEF Holds
  <2>9. w.ops = Made(handler, Len(u.trace))
    BY <1>10 DEF Kept
  <2>10. wave = "census" =>
            Judgeable(first) /\ x.first = StateAfter(first.effects, first.marker)
    <3> SUFFICES ASSUME wave = "census"
                 PROVE  Judgeable(first) /\ x.first = StateAfter(first.effects, first.marker)
      OBVIOUS
    <3>1. u.end # "killed"
      BY <1>1, <1>7, <1>10 DEF RanKill
    <3>2. Judgeable(first)
      BY <1>5, <1>8, <1>10, <2>6, <3>1 DEF Judgeable
    <3>3. w.ledger = w.db
      BY <1>6, <1>10 DEF IsExplained
    <3> QED
      BY <1>6, <2>4, <2>6, <3>2, <3>3
  <2>11. Kept(x, s)
    BY <1>5, <2>4, <2>6, <2>9, <2>10 DEF Kept, first
  <2>12. Ran(2)[0] = s
    BY <1>1, <1>4, RanIs DEF s, first, RanFrom
  <2>13. WorldFits(x)
    BY <2>4, <2>5, <2>8, <2>11, <2>12 DEF WorldFits
  <2> QED
    BY <1>1, <2>1, <2>4, <2>13, ContinueKeeps
<1>11. CASE ~ended.raw_seen /\ w.delivery = 2
  <2> DEFINE obs == IF wave = "census" THEN ClassifyDelivery(w.first, w.ledger, InitialTotal)
                    ELSE ClassifyFinal(w.ledger, InitialTotal)
  <2>1. Return(ReceiptOf(obs, w.schedule))
    BY <1>6, <1>11 DEF End
  <2>2. Final = ended
    BY <1>4, <1>11
  <2>3. u.end # "killed"
    BY <1>7, <1>11 DEF RanKill
  <2>4. Judgeable(Final)
    BY <1>5, <1>8, <1>11, <2>2, <2>3 DEF Judgeable
  <2>5. /\ w.schedule = Made(handler, Len(first.trace))
        /\ wave = "census" =>
              Judgeable(first) /\ w.first = StateAfter(first.effects, first.marker)
    BY <1>11 DEF Kept, first
  <2>6. WorldJudgeable
    BY <2>4, <2>5 DEF WorldJudgeable, first
  <2>7. w.ledger = StateAfter(Final.effects, Final.marker)
    BY <1>6, <1>11, <2>2 DEF IsExplained
  <2>8. ClassifyFinal(w.ledger, InitialTotal) = Classify(Final)
    BY <1>4, <2>7, ClassifyAgrees
  <2>9. wave = "census" => ClassifyFinal(w.first, InitialTotal) = Classify(first)
    BY <1>4, <2>5, ClassifyAgrees
  <2>10. obs = WorldObservation
    BY <2>8, <2>9 DEF WorldObservation, CensusObservation, ClassifyDelivery, first
  <2>11. obs \in CrashObservation
    BY DEF ClassifyDelivery, ClassifyFinal, CrashObservation
  <2>12. w.schedule \in Seq(Operations)
    BY DEF World
  <2> HIDE DEF obs
  <2>13. ReceiptOf(obs, w.schedule) \in Receipt
    BY <2>11, <2>12 DEF ReceiptOf, Receipt, ExecutionStatus, IntegrityStatus
  <2>14. WorldReceiptFits(ReceiptOf(obs, w.schedule))
    BY <2>5, <2>6, <2>10 DEF WorldReceiptFits, Fits, first
  <2> QED
    BY <2>1, <2>13, <2>14, ReturnKeeps
<1> QED
  BY <1>2, <1>9, <1>10, <1>11

----------------------------------------------------------------------------
(* The statements of the engine.                                           *)

\* Once the oracle's kernel has seen a write, it judges no world.
LEMMA SeenFails ==
    ASSUME RedTeamInv, NEW delivery \in {1, 2}, NEW n \in 0..Len(handler),
           Ran(delivery)[n].raw_seen
    PROVE  Final.raw_seen /\ ~WorldJudgeable
<1> DEFINE first == Deliver(Fresh, handler, KillCommit)
<1>1. handler \in Seq(Ops) /\ KillCommit \in 0..Commits(handler) /\ Commits(handler) \in Nat
  BY KillCommitIs
<1>2. KillCommit \in Nat /\ 0 \in Nat
  BY <1>1
<1>3. first \in OracleWorld
  BY <1>1, <1>2, FreshFields, DeliverFields
<1>4. CASE delivery = 1
  <2>1. Course(Fresh, handler, KillCommit)[n].raw_seen
    BY <1>4 DEF Ran, RanFrom, RanKill
  <2>2. first.raw_seen
    BY <1>1, <1>2, <2>1, FreshFields, CourseEnds
  <2> HIDE DEF first
  <2>3. Deliver(first, handler, 0).raw_seen
    BY <1>1, <1>2, <1>3, <2>2, SeenStays
  <2> QED
    BY <2>3 DEF Final, WorldJudgeable, Judgeable, first
<1>5. CASE delivery = 2
  <2>1. Course(first, handler, 0)[n].raw_seen
    BY <1>5 DEF Ran, RanFrom, RanKill
  <2> HIDE DEF first
  <2>2. Deliver(first, handler, 0).raw_seen
    BY <1>1, <1>2, <1>3, <2>1, CourseEnds
  <2> QED
    BY <2>2 DEF Final, WorldJudgeable, Judgeable, first
<1> QED
  BY <1>4, <1>5

\* A commit of the first delivery: what the store has reported with it, and that
\* the boundary is the first commit to leave one effect.
LEMMA CommitIs ==
    ASSUME RedTeamInv, Runs, world.delivery = 1, world.at \in 1..Len(handler),
           CommitsOn(Ran(1)[world.at - 1], Here)
    PROVE  LET u == Ran(1)[world.at]
           IN  /\ Append(world.ops, StoreOp[Here]) = Made(handler, Len(u.trace))
               /\ Len(Made(handler, Len(u.trace))) = Len(u.trace)
               /\ wave = "boundary" => (Len(u.trace) = KillCommit <=> u.effects = 1)
<1> DEFINE c == Free(handler)
           d == Course(Fresh, handler, KillCommit)
           p == world.at
           o == d[p - 1]
           u == d[p]
           N == Len(handler)
           T == Deliver(Fresh, handler, 0).trace
           b == KillCommit
<1>1. /\ handler \in Seq(Ops) /\ N \in Nat /\ 0 \in Nat
      /\ b \in 0..Commits(handler) /\ Commits(handler) \in Nat /\ b \in Nat
  BY KillCommitIs
<1>2. Ran(1) = d /\ RanKill(1) = b
  BY DEF Ran, RanFrom, RanKill
<1>3. p \in 1..N /\ p - 1 \in 0..N /\ p \in 0..N /\ (p - 1) + 1 = p /\ p - 1 < N /\ N \in p..N
  BY <1>1
<1>4. /\ o \in OracleWorld /\ o.end = "running" /\ Kept(world, o) /\ u \in OracleWorld
      /\ Here = handler[p] /\ Here \in Ops /\ IsAfter(u, o, Here, b)
  <2>1. world.at # Len(handler) + 1 /\ world.delivery = 1
    BY <1>1, <1>3
  <2>2. Ran(world.delivery) = d /\ RanKill(world.delivery) = b
    BY <1>2
  <2> HIDE DEF d, b, p
  <2> QED
    BY <2>1, <2>2, HereIs DEF p
<1>5. o = c[p - 1] /\ u.trace = c[p].trace
  <2>1. Course(Fresh, handler, b)[p - 1].end = "running"
    BY <1>4
  <2>2. /\ Course(Fresh, handler, b)[p - 1] = Free(handler)[p - 1]
        /\ Course(Fresh, handler, b)[(p - 1) + 1].trace = Free(handler)[(p - 1) + 1].trace
    BY <1>1, <1>3, <2>1, KilledStep
  <2> QED
    BY <1>3, <2>2
<1>6. /\ Len(u.trace) = Len(o.trace) + 1 /\ Len(o.trace) \in Nat
      /\ u.trace[Len(u.trace)] = u.effects
  <2>1. CommitsOn(o, Here)
    BY <1>2
  <2> HIDE DEF d, b, p
  <2>2. Len(o.trace) \in Nat
    BY <1>4, WorldTypes
  <2> QED
    BY <1>1, <1>4, <2>1, <2>2, StatementExtends
<1>7. T = c[N].trace /\ Len(T) = Commits(handler)
  BY <1>1, FreshFields, DeliverFields DEF Free, Last, Commits
<1>8. Extends(c[p], c[N])
  BY <1>1, <1>3, FreshFields, CourseExtends DEF Free
<1>9. Len(u.trace) \in 1..Commits(handler) /\ T[Len(u.trace)] = u.effects
  <2> DEFINE n == Len(u.trace)
  <2>1. Len(c[p].trace) = n /\ n \in 1..n
    BY <1>5, <1>6
  <2>2. Len(c[N].trace) >= n /\ c[N].trace[n] = c[p].trace[n]
    BY <1>8, <2>1 DEF Extends
  <2>3. c[p].trace[n] = u.effects
    BY <1>5, <1>6
  <2> HIDE DEF c, T, d, n
  <2> QED
    BY <1>1, <1>7, <2>1, <2>2, <2>3 DEF n
<1>10. Append(world.ops, StoreOp[Here]) = Made(handler, Len(u.trace))
  <2>1. world.ops = Made(handler, Len(o.trace))
    BY <1>4 DEF Kept
  <2>2. Len(c[p].trace) = Len(c[p - 1].trace) + 1
    BY <1>5, <1>6
  <2>3. Made(handler, Len(c[p].trace)) =
            Append(Made(handler, Len(c[p - 1].trace)), StoreOp[handler[p]])
    BY <1>1, <1>3, <2>2, MadeGrows
  <2> QED
    BY <1>4, <1>5, <2>1, <2>3
<1>11. Len(Made(handler, Len(u.trace))) = Len(u.trace)
  <2>1. Len(u.trace) \in 0..Commits(handler)
    BY <1>1, <1>9
  <2> QED
    BY <1>1, <2>1, MadeTypes
<1>12. ASSUME wave = "boundary"
       PROVE  Len(u.trace) = b <=> u.effects = 1
  <2>1. b = BoundaryCommit(handler)
    BY <1>12, KillCommitIs
  <2>2. /\ b # 0 => T[b] = 1
        /\ \A j \in 1..Commits(handler) : T[j] = 1 => b # 0 /\ b <= j
    BY <1>1, <2>1, BoundaryIs
  <2>3. ~(b # 0 /\ b <= Len(o.trace))
    <3>1. /\ o.end = "killed" <=> (b # 0 /\ Len(o.trace) = b)
          /\ b # 0 => Len(o.trace) <= b
      BY <1>1, <1>3, FreshFields, CourseKilled
    <3> HIDE DEF d
    <3> QED
      BY <1>1, <1>4, <1>6, <3>1
  <2> HIDE DEF T, d, b
  <2>4. CASE u.effects = 1
    <3>1. b # 0 /\ b <= Len(u.trace)
      BY <1>9, <2>2, <2>4
    <3>2. ~(b <= Len(o.trace))
      BY <2>3, <3>1
    <3>3. \A m, n \in Nat : n <= m + 1 /\ ~(n <= m) => m + 1 = n
      OBVIOUS
    <3>4. Len(u.trace) = b
      BY <1>1, <1>6, <3>1, <3>2, <3>3
    <3> QED
      BY <2>4, <3>4
  <2>5. CASE Len(u.trace) = b
    BY <1>9, <2>2, <2>5
  <2> QED
    BY <2>4, <2>5
<1> QED
  BY <1>2, <1>10, <1>11, <1>12

\* A commit leaves a snapshot of the store.
LEMMA ApplyTypes ==
    ASSUME NEW s \in StateSnapshot, NEW op \in Operations, StoreCommits(s, op)
    PROVE  Apply(s, op) \in StateSnapshot
BY ScenarioAssumption DEF Apply, StateSnapshot, StoreCommits, Operations, EffectOps, MarkOps

\* The store commits; the controller explains it, then kills or answers.
LEMMA StoreCommitKeeps ==
    ASSUME RedTeamInv, StoreCommit
    PROVE  RedTeamInv'
<1> DEFINE N == Len(handler)
           p == world.at
           c == Ran(world.delivery)
           k == RanKill(world.delivery)
           o == c[p - 1]
           u == c[p]
           op == StoreOp[Here]
           x == [Further EXCEPT !.db = Apply(@, op), !.ledger = Apply(@, op),
                                !.ops = Append(@, op)]
<1>1. Runs /\ Here \in DOMAIN StoreOp /\ StoreCommits(world.db, op)
  BY DEF StoreCommit, Acts
<1>2. IF ~IsExplained(x) THEN FailWorld("INTEGRITY_ERROR")
      ELSE IF KillDue(x) THEN End(x) ELSE Continue(x)
  BY DEF StoreCommit
<1>3. /\ handler \in Seq(Ops) /\ N \in Nat
      /\ KillCommit \in 0..Commits(handler) /\ Commits(handler) \in Nat /\ KillCommit \in Nat
      /\ wave = "sweep" => KillCommit = kill /\ kill # 0
      /\ wave = "census" => KillCommit = 0
  BY KillCommitIs
<1>4. Here # "return" /\ op \in Operations
  BY <1>1, StoreOpIs
<1>5. /\ world \in World /\ world.delivery \in {1, 2}
      /\ p \in 1..N /\ p - 1 \in 0..N
      /\ o \in OracleWorld /\ o.end = "running" /\ Holds(world, o) /\ Kept(world, o)
      /\ Here = handler[p] /\ Here \in Ops
      /\ u \in OracleWorld /\ IsAfter(u, o, Here, k)
  BY <1>1, <1>4, HereIs
<1>6. RanFrom(world.delivery) \in OracleWorld /\ k \in Nat
  BY <1>5, RanIs
<1> HIDE DEF op, x, o, u, c, k
<1>7. /\ world.db \in StateSnapshot /\ world.ledger \in StateSnapshot
      /\ world.ops \in Seq(Operations) /\ world.at \in Nat
  BY <1>5 DEF World
<1>8. world.ledger.marker = world.db.marker
  BY <1>5, StateFields DEF Holds
<1>9. Apply(world.db, op) \in StateSnapshot /\ Apply(world.ledger, op) \in StateSnapshot
  BY <1>1, <1>4, <1>7, <1>8, ApplyTypes DEF StoreCommits, op
<1>10. Append(world.ops, op) \in Seq(Operations)
  BY <1>4, <1>7
<1>11. /\ x \in World /\ x.delivery = world.delivery /\ x.at = p + 1
       /\ x.db = Apply(world.db, op) /\ x.ledger = Apply(world.ledger, op)
       /\ x.ops = Append(world.ops, op) /\ x.files = world.files /\ x.other = world.other
       /\ x.first = world.first /\ x.schedule = world.schedule
  <2> DEFINE db == Apply(world.db, op)
             ledger == Apply(world.ledger, op)
             ops == Append(world.ops, op)
  <2>1. x = [world EXCEPT !.at = p + 1, !.db = db, !.ledger = ledger, !.ops = ops]
    BY <1>5 DEF x, Further, World
  <2>2. p + 1 \in Nat
    BY <1>7
  <2>3. db \in StateSnapshot /\ ledger \in StateSnapshot /\ ops \in Seq(Operations)
    BY <1>9, <1>10
  <2> HIDE DEF db, ledger, ops
  <2>4. /\ x \in World /\ x.delivery = world.delivery /\ x.at = p + 1
        /\ x.db = db /\ x.ledger = ledger
        /\ x.ops = ops /\ x.files = world.files /\ x.other = world.other
        /\ x.first = world.first /\ x.schedule = world.schedule
    BY <1>5, <2>1, <2>2, <2>3 DEF World
  <2> QED
    BY <2>4 DEF db, ledger, ops
<1>12. /\ CommitsOn(o, Here)
       /\ IsExplained(x) => Holds(x, u)
       /\ ~IsExplained(x) => u.raw_seen
  BY <1>1, <1>5, <1>6, <1>11, CommitHolds DEF op
<1>13. /\ Len(u.trace) = Len(o.trace) + 1 /\ Len(o.trace) \in Nat
       /\ u.end = IF Len(u.trace) = k THEN "killed" ELSE "running"
  <2>1. Len(o.trace) \in Nat
    BY <1>5, WorldTypes
  <2> QED
    BY <1>5, <1>6, <1>12, <2>1, StatementExtends
<1>14. world.delivery = 1 =>
           /\ x.ops = Made(handler, Len(u.trace)) /\ Len(x.ops) = Len(u.trace)
           /\ wave = "boundary" => (Len(u.trace) = KillCommit <=> u.effects = 1)
  BY <1>1, <1>5, <1>11, <1>12, CommitIs DEF o, u, c, op
<1>15. Kept(x, u)
  BY <1>5, <1>11, <1>14 DEF Kept
<1>16. CASE ~IsExplained(x)
  <2>1. FailWorld("INTEGRITY_ERROR")
    BY <1>2, <1>16
  <2>2. ~WorldJudgeable
    <3>1. p \in 0..N /\ u.raw_seen
      BY <1>3, <1>5, <1>12, <1>16
    <3> QED
      BY <1>5, <3>1, SeenFails DEF u, c
  <2> QED
    BY <1>1, <2>1, <2>2, FailKeeps DEF ExecutionStatus
<1>17. ASSUME IsExplained(x)
       PROVE  KillDue(x) <=> u.end = "killed"
  <2>1. Holds(x, u) /\ x.ledger = StateAfter(u.effects, u.marker)
    BY <1>12, <1>17 DEF Holds, IsExplained
  <2>2. CheckpointReached(x.ledger, "effect-commit") <=> u.effects = 1
    BY <1>5, <2>1, CheckpointIs, WorldTypes
  <2>3. CASE world.delivery = 2
    <3>1. k = 0
      BY <2>3 DEF k, RanKill
    <3> QED
      BY <1>11, <1>13, <2>3, <3>1 DEF KillDue
  <2>4. CASE world.delivery = 1
    <3>1. k = KillCommit
      BY <2>4 DEF k, RanKill
    <3>2. KillDue(x) <=> Len(u.trace) = KillCommit
      <4>1. CASE wave = "boundary"
        BY <1>11, <1>14, <2>2, <2>4, <4>1 DEF KillDue
      <4>2. CASE wave = "sweep"
        BY <1>3, <1>11, <1>14, <2>4, <4>2 DEF KillDue
      <4>3. CASE wave = "census"
        BY <1>3, <1>13, <4>3 DEF KillDue
      <4> QED
        BY <1>1, <4>1, <4>2, <4>3 DEF Runs
    <3> QED
      BY <1>13, <3>1, <3>2
  <2> QED
    BY <1>5, <2>3, <2>4
<1>18. CASE IsExplained(x) /\ KillDue(x)
  <2>1. End(x) /\ u.end = "killed" /\ Holds(x, u)
    BY <1>2, <1>12, <1>17, <1>18
  <2>2. u = Last(RanFrom(world.delivery), handler, k)
    <3>1. p \in 0..N
      BY <1>3, <1>5
    <3>2. Course(RanFrom(world.delivery), handler, k)[p].end # "running"
      BY <2>1 DEF u, c, Ran, k
    <3> QED
      BY <1>3, <1>6, <3>1, <3>2, CourseEnds DEF u, c, Ran, k
  <2>3. wave = "boundary" => KillCommit # 0
    BY <1>13, <2>1 DEF k, RanKill
  <2> QED
    BY <1>1, <1>11, <1>15, <2>1, <2>2, <2>3, EndKeeps DEF k
<1>19. CASE IsExplained(x) /\ ~KillDue(x)
  <2>1. Continue(x) /\ u.end = "running" /\ Holds(x, u)
    BY <1>2, <1>12, <1>13, <1>17, <1>19
  <2>2. x.at \in 1..(N + 1) /\ x.at - 1 = p
    <3>1. x.at = p + 1
      BY <1>11
    <3>2. p \in 1..N /\ N \in Nat
      BY <1>3, <1>5
    <3> QED
      BY <3>1, <3>2
  <2>3. Ran(x.delivery)[x.at - 1] = u
    BY <1>11, <2>2 DEF u, c
  <2>4. WorldFits(x)
    BY <1>15, <2>1, <2>3 DEF WorldFits
  <2> QED
    BY <1>1, <1>11, <2>1, <2>2, <2>4, ContinueKeeps
<1> QED
  BY <1>16, <1>18, <1>19

\* A statement that does not commit and does not end the delivery.
LEMMA PassKeeps ==
    ASSUME RedTeamInv, Runs, NEW x \in World,
           Here \notin {"return", "effect", "mark"},
           Here \in {"try_mark", "atomic"} => world.db.marker = 1,
           Here = "guard" => world.db.marker = 0,
           IsPassed(x, world, Here), x.delivery = world.delivery, x.at = world.at + 1,
           x.ops = world.ops, x.first = world.first, x.schedule = world.schedule,
           Continue(x)
    PROVE  RedTeamInv'
<1> DEFINE N == Len(handler)
           p == world.at
           c == Ran(world.delivery)
           k == RanKill(world.delivery)
           o == c[p - 1]
           u == c[p]
<1>1. handler \in Seq(Ops) /\ N \in Nat
  BY KillCommitIs
<1>2. /\ world.delivery \in {1, 2}
      /\ p \in 1..N /\ p - 1 \in 0..N
      /\ o \in OracleWorld /\ o.end = "running" /\ Holds(world, o) /\ Kept(world, o)
      /\ Here = handler[p] /\ Here \in Ops
      /\ u \in OracleWorld /\ IsAfter(u, o, Here, k)
  BY HereIs
<1>3. k \in Nat
  BY <1>2, RanIs
<1> HIDE DEF o, u, c, k
<1>4. world.db.marker = o.marker
  BY <1>2, StateFields DEF Holds
<1>5. ~CommitsOn(o, Here)
  BY <1>4 DEF CommitsOn
<1>6. Holds(x, u) /\ u.trace = o.trace
  BY <1>2, <1>3, <1>5, PassHolds
<1>7. u.end = "running"
  BY <1>2, <1>4, <1>5 DEF IsAfter
<1>8. Kept(x, u)
  BY <1>2, <1>6 DEF Kept
<1>9. x.at \in 1..(N + 1) /\ x.at - 1 = p
  BY <1>1, <1>2
<1>10. WorldFits(x)
  <2>1. Ran(x.delivery)[x.at - 1] = u
    BY <1>9 DEF u, c
  <2> QED
    BY <1>6, <1>7, <1>8, <2>1 DEF WorldFits
<1> QED
  BY <1>9, <1>10, ContinueKeeps

\* The statements that pass.
LEMMA PassesKeep ==
    ASSUME RedTeamInv,
           StorePasses \/ GuardPasses \/ TouchFiles \/ RawSql \/ ChangeDatabase
    PROVE  RedTeamInv'
<1> DEFINE Onward(x) ==
               /\ x \in World /\ x.delivery = world.delivery /\ x.at = world.at + 1
               /\ x.ops = world.ops /\ x.first = world.first /\ x.schedule = world.schedule
<1>1. world \in World /\ world.at \in Nat
  BY DEF RedTeamInv, TypeOK, World
<1>2. /\ world.db \in StateSnapshot /\ world.db.marker \in {0, 1}
      /\ world.other \in BOOLEAN /\ world.files \subseteq FileOps
  BY <1>1 DEF World, StateSnapshot
<1>3. world.at + 1 \in Nat
  BY <1>1
<1>4. CASE StorePasses \/ GuardPasses
  <2>1. Runs /\ Here \in {"atomic", "try_mark", "guard"} /\ Continue(Further)
    BY <1>4 DEF StorePasses, GuardPasses
  <2>2. Here \in {"try_mark", "atomic"} => world.db.marker = 1
    BY <1>2, <1>4, StoreOpIs DEF StorePasses, GuardPasses, StoreCommits
  <2>3. Here = "guard" => world.db.marker = 0
    BY <1>4 DEF StorePasses, GuardPasses
  <2>4. /\ Onward(Further) /\ Further.db = world.db /\ Further.ledger = world.ledger
        /\ Further.files = world.files /\ Further.other = world.other
    BY <1>1, <1>3 DEF Further, World
  <2>5. IsPassed(Further, world, Here)
    BY <2>1, <2>4 DEF IsPassed, FileOps
  <2> QED
    BY <2>1, <2>2, <2>3, <2>4, <2>5, PassKeeps
<1>5. CASE TouchFiles
  <2> DEFINE files == IF Here = "delete_file" THEN world.files \ {"raw_file"}
                      ELSE world.files \union {Here}
             x == [Further EXCEPT !.files = files]
  <2>1. Runs /\ Here \in FileOps \union {"delete_file"} /\ Continue(x)
    BY <1>1, <1>5 DEF TouchFiles, Further, World
  <2>2. files \subseteq FileOps
    BY <1>2, <2>1
  <2> HIDE DEF files
  <2>3. /\ Onward(x) /\ x.db = world.db /\ x.ledger = world.ledger
        /\ x.files = files /\ x.other = world.other
    BY <1>1, <1>3, <2>2 DEF Further, World
  <2>4. IsPassed(x, world, Here)
    BY <2>1, <2>3 DEF IsPassed, FileOps, files
  <2> HIDE DEF x
  <2> QED
    BY <2>1, <2>3, <2>4, PassKeeps DEF FileOps
<1>6. CASE RawSql
  <2> DEFINE db == Apply(world.db, "effect")
             x == [Further EXCEPT !.db = db]
  <2>1. Runs /\ Here = "raw_sql" /\ Continue(x)
    BY <1>1, <1>6 DEF RawSql, Further, World
  <2>2. db \in StateSnapshot
    <3>1. "effect" \in Operations /\ StoreCommits(world.db, "effect")
      BY DEF Operations, EffectOps, MarkOps, StoreCommits
    <3> QED
      BY <1>2, <3>1, ApplyTypes
  <2> HIDE DEF db
  <2>3. /\ Onward(x) /\ x.db = db /\ x.ledger = world.ledger
        /\ x.files = world.files /\ x.other = world.other
    BY <1>1, <1>3, <2>2 DEF Further, World
  <2>4. IsPassed(x, world, Here)
    BY <2>1, <2>3 DEF IsPassed, FileOps, db
  <2> HIDE DEF x
  <2> QED
    BY <2>1, <2>3, <2>4, PassKeeps
<1>7. CASE ChangeDatabase
  <2> DEFINE other == world.other \/ Here = "table" \/ world.db.effects > 0
             x == [Further EXCEPT !.other = other]
  <2>1. Runs /\ Here \in {"table", "repoint"} /\ Continue(x)
    BY <1>1, <1>7 DEF ChangeDatabase, Further, World
  <2>2. other \in BOOLEAN
    BY <1>2
  <2> HIDE DEF other
  <2>3. /\ Onward(x) /\ x.db = world.db /\ x.ledger = world.ledger
        /\ x.files = world.files /\ x.other = other
    BY <1>1, <1>3, <2>2 DEF Further, World
  <2>4. IsPassed(x, world, Here)
    BY <2>1, <2>3 DEF IsPassed, FileOps, other
  <2> HIDE DEF x
  <2> QED
    BY <2>1, <2>3, <2>4, PassKeeps
<1> QED
  BY <1>4, <1>5, <1>6, <1>7

\* A first delivery that is to be killed and is not never reached the effect.
LEMMA NotKilled ==
    ASSUME RedTeamInv, wave \in {"boundary", "sweep"},
           Last(Fresh, handler, KillCommit).end # "killed"
    PROVE  ~WorldJudgeable
<1>1. /\ handler \in Seq(Ops) /\ KillCommit \in 0..Commits(handler)
      /\ wave = "sweep" => KillCommit = kill /\ kill # 0
  BY KillCommitIs
<1>2. KillCommit = 0
  BY <1>1, KillReached
<1> QED
  BY <1>1, <1>2 DEF WorldJudgeable

\* A second marker raises: the oracle's delivery ends in the same error.
LEMMA MarkRaisesKeeps ==
    ASSUME RedTeamInv, MarkRaises
    PROVE  RedTeamInv'
<1> DEFINE N == Len(handler)
           p == world.at
           d == world.delivery
           c == Ran(d)
           k == RanKill(d)
           o == c[p - 1]
           u == c[p]
           first == Deliver(Fresh, handler, KillCommit)
<1>1. /\ Runs /\ Here = "mark" /\ ~StoreCommits(world.db, StoreOp[Here])
      /\ FailWorld(IF d = 1 /\ wave # "census" THEN "CHECKPOINT_NOT_REACHED"
                   ELSE "REPLAY_ERROR")
  BY DEF MarkRaises
<1>2. handler \in Seq(Ops) /\ N \in Nat /\ KillCommit \in 0..Commits(handler) /\ KillCommit \in Nat
  <2>1. /\ handler \in Seq(Ops) /\ N \in Nat
        /\ KillCommit \in 0..Commits(handler) /\ Commits(handler) \in Nat
    BY KillCommitIs
  <2> QED
    BY <2>1
<1>3. /\ world \in World /\ d \in {1, 2}
      /\ p \in 1..N /\ o \in OracleWorld /\ o.end = "running" /\ Holds(world, o)
      /\ u \in OracleWorld /\ IsAfter(u, o, Here, k)
  BY <1>1, HereIs
<1>4. RanFrom(d) \in OracleWorld /\ k \in Nat
  BY <1>3, RanIs
<1>5. o.marker = 1
  <2>1. world.db.marker = o.marker /\ o.marker \in {0, 1}
    BY <1>3, StateFields, WorldTypes DEF Holds
  <2> QED
    BY <1>1, <2>1, StoreOpIs DEF StoreCommits
<1>6. u.end = "error"
  <2> HIDE DEF o, u
  <2> QED
    BY <1>1, <1>3, <1>5 DEF IsAfter, CommitsOn
<1>7. Last(RanFrom(d), handler, k) = u
  <2>1. Course(RanFrom(d), handler, k)[p].end # "running"
    BY <1>6 DEF Ran
  <2>2. p \in 0..N
    BY <1>2, <1>3
  <2> QED
    BY <1>2, <1>4, <2>1, <2>2, CourseEnds DEF Ran
<1>8. Deliver(RanFrom(d), handler, k).end = "error"
  <2> HIDE DEF u, k
  <2> QED
    BY <1>2, <1>4, <1>6, <1>7, DeliverFields
<1>9. ~WorldJudgeable
  <2>1. CASE d = 2
    <3>1. Final.end = "error"
      BY <1>8, <2>1 DEF Final, RanFrom, RanKill
    <3> QED
      BY <3>1 DEF WorldJudgeable, Judgeable
  <2>2. CASE d = 1 /\ wave = "census"
    <3>1. first.end = "error"
      BY <1>8, <2>2 DEF RanFrom, RanKill
    <3> QED
      BY <2>2, <3>1 DEF WorldJudgeable, Judgeable
  <2>3. CASE d = 1 /\ wave # "census"
    <3>1. Last(Fresh, handler, KillCommit).end = "error"
      BY <1>6, <1>7, <2>3 DEF RanFrom, RanKill
    <3>2. wave \in {"boundary", "sweep"}
      BY <1>1, <2>3 DEF Runs
    <3> QED
      BY <3>1, <3>2, NotKilled
  <2> QED
    BY <1>3, <2>1, <2>2, <2>3
<1> QED
  BY <1>1, <1>9, FailKeeps DEF ExecutionStatus

\* The handler returns: the oracle's delivery has ended too.
LEMMA HandlerReturnsKeeps ==
    ASSUME RedTeamInv, HandlerReturns
    PROVE  RedTeamInv'
<1> DEFINE N == Len(handler)
           p == world.at
           d == world.delivery
           c == Ran(d)
           k == RanKill(d)
           o == c[p - 1]
           u == c[p]
           last == Last(RanFrom(d), handler, k)
<1>1. /\ Runs
      /\ Here = "return" \/ (Here = "guard" /\ world.db.marker = 1)
      /\ IF d = 1 /\ wave # "census" THEN FailWorld("CHECKPOINT_NOT_REACHED") ELSE End(world)
  BY DEF HandlerReturns
<1>2. handler \in Seq(Ops) /\ N \in Nat
  BY KillCommitIs
<1>3. /\ world \in World /\ d \in {1, 2} /\ p \in 1..(N + 1)
      /\ o \in OracleWorld /\ o.end = "running" /\ Holds(world, o) /\ Kept(world, o)
  BY <1>1, HereIs
<1>4. RanFrom(d) \in OracleWorld /\ k \in Nat
  BY <1>3, RanIs
<1>5. Holds(world, last) /\ Kept(world, last) /\ last.end \in {"running", "done"}
  <2>1. CASE Here = "return"
    <3>1. p = N + 1
      <4>1. world.at = Len(handler) + 1 \/ Here \in Ops
        BY <1>1, HereIs
      <4> QED
        BY <2>1, <4>1 DEF Ops, StoreOps, HazardOps, FileOps
    <3>2. p - 1 = N
      BY <1>2, <3>1
    <3>3. last = o
      BY <3>2 DEF Ran, Last
    <3> HIDE DEF last, o
    <3> QED
      BY <1>3, <3>3
  <2>2. CASE Here = "guard" /\ world.db.marker = 1
    <3>1. p \in 1..N /\ u \in OracleWorld /\ Here \in Ops /\ IsAfter(u, o, Here, k)
      BY <1>1, <2>2, HereIs
    <3>2. o.marker = 1
      BY <1>3, <2>2, StateFields DEF Holds
    <3> HIDE DEF c, o, u, k
    <3>3. ~CommitsOn(o, Here) /\ u.end = "done"
      BY <2>2, <3>1, <3>2 DEF IsAfter, CommitsOn
    <3>4. IsPassed(world, world, Here)
      <4>1. world.other \in BOOLEAN
        BY <1>3 DEF World
      <4> QED
        BY <2>2, <4>1 DEF IsPassed, FileOps
    <3>5. Holds(world, u) /\ u.trace = o.trace
      BY <1>3, <1>4, <3>1, <3>3, <3>4, PassHolds
    <3>6. Kept(world, u)
      BY <1>3, <3>5 DEF Kept
    <3>7. last = u
      <4>1. Course(RanFrom(d), handler, k)[p].end # "running"
        BY <3>3 DEF Ran, u, c, k
      <4>2. p \in 0..N
        BY <1>2, <3>1
      <4> QED
        BY <1>2, <1>4, <4>1, <4>2, CourseEnds DEF Ran, u, c, k
    <3> HIDE DEF last
    <3> QED
      BY <3>3, <3>5, <3>6, <3>7
  <2> QED
    BY <1>1, <2>1, <2>2
<1>6. CASE d = 1 /\ wave # "census"
  <2>1. FailWorld("CHECKPOINT_NOT_REACHED") /\ wave \in {"boundary", "sweep"}
    BY <1>1, <1>6 DEF Runs
  <2>2. Last(Fresh, handler, KillCommit).end # "killed"
    BY <1>5, <1>6 DEF RanFrom, RanKill
  <2>3. ~WorldJudgeable
    BY <2>1, <2>2, NotKilled
  <2> QED
    BY <1>1, <2>1, <2>3, FailKeeps DEF ExecutionStatus
<1>7. CASE ~(d = 1 /\ wave # "census")
  <2>1. End(world)
    BY <1>1, <1>7
  <2>2. wave = "boundary" => KillCommit # 0
    BY <1>3, <1>7 DEF Kept
  <2>3. last.end # "error"
    BY <1>5
  <2> QED
    BY <1>1, <1>3, <1>5, <2>1, <2>2, <2>3, EndKeeps
<1> QED
  BY <1>6, <1>7

----------------------------------------------------------------------------
(* The verdict.                                                            *)

\* A wave of one and the same receipt.
LEMMA WaveIs ==
    ASSUME NEW r, NEW W, W = [i \in 1..Confirmations |-> r]
    PROVE  /\ Len(W) = Confirmations /\ W[1] = r /\ DOMAIN W # {}
           /\ \A i \in DOMAIN W : W[i] = r
           /\ Saw(W) = {r.observation} /\ Cardinality(Saw(W)) = 1
           /\ AllCompleted(W) <=> Completed(r)
           /\ ConfirmedObservation(W) = IF Completed(r) THEN r.observation ELSE "NOT_OBSERVED"
           /\ NeverReached(W) <=> r.status = "CHECKPOINT_NOT_REACHED"
<1>1. Confirmations \in Nat \ {0} /\ 1 \in 1..Confirmations
  BY EvidenceAssumption
<1>2. /\ DOMAIN W = 1..Confirmations /\ W[1] = r /\ \A i \in 1..Confirmations : W[i] = r
      /\ Len(W) = Confirmations
  BY <1>1
<1>3. Saw(W) = {r.observation}
  BY <1>1, <1>2 DEF Saw
<1>4. Cardinality(Saw(W)) = 1
  BY <1>3, FS_Singleton
<1>5. AllCompleted(W) <=> Completed(r)
  BY <1>1, <1>2 DEF AllCompleted
<1>6. ConfirmedObservation(W) = IF Completed(r) THEN r.observation ELSE "NOT_OBSERVED"
  BY <1>2, <1>4, <1>5 DEF ConfirmedObservation
<1>7. NeverReached(W) <=> r.status = "CHECKPOINT_NOT_REACHED"
  BY <1>1, <1>2 DEF NeverReached
<1> QED
  BY <1>1, <1>2, <1>3, <1>4, <1>5, <1>6, <1>7

\* The evidence of a comparison: a witnessed base, and the handler's worlds.
GatheredIs(G) ==
    /\ G.hunt # <<>> /\ Len(G.hunt) = 2 /\ AllCompleted(G.hunt) /\ Reproduced(G.hunt[1])
    /\ G.control # <<>> /\ FaultIsNecessary(G.control)
    /\ DOMAIN G.attempts = {"base", "candidate"}
    /\ Len(G.attempts["base"]) = Confirmations /\ AllCompleted(G.attempts["base"])
    /\ Cardinality(Saw(G.attempts["base"])) = 1
    /\ G.attempts["base"][1].observation = "DUPLICATE_EFFECT"
    /\ G.attempts["candidate"] = receipts.boundary
    /\ Swept => /\ DOMAIN G.sweeps = {"candidate"}
                /\ G.sweeps["candidate"].census = Census
                /\ G.sweeps["candidate"].kills = receipts.sweep
    /\ ~Swept => DOMAIN G.sweeps = {}
    /\ G.unresolved = "none"

\* That is what a comparison gathers.
LEMMA GatheredFields == GatheredIs(Gathered)
<1> DEFINE witness == ReceiptOf("DUPLICATE_EFFECT", <<>>)
           control == ReceiptOf("EXACTLY_ONCE", <<>>)
           base == [i \in 1..Confirmations |-> witness]
           hunt == <<witness, witness>>
           controls == <<control, control>>
           sweeps == IF Swept
                     THEN [candidate |-> [census |-> Census, kills |-> receipts.sweep]]
                     ELSE <<>>
           attempts == [base |-> base, candidate |-> receipts.boundary]
<1>1. /\ Completed(witness) /\ witness.observation = "DUPLICATE_EFFECT"
      /\ Completed(control) /\ control.observation = "EXACTLY_ONCE"
  BY DEF ReceiptOf, Completed
<1> HIDE DEF witness, control
<1>2. hunt # <<>> /\ Len(hunt) = 2 /\ AllCompleted(hunt) /\ Reproduced(hunt[1])
  BY <1>1 DEF AllCompleted, Reproduced
<1>3. controls # <<>> /\ Len(controls) = 2 /\ AllCompleted(controls)
      /\ Saw(controls) = {"EXACTLY_ONCE"}
  BY <1>1 DEF AllCompleted, Saw
<1>4. /\ Len(base) = Confirmations /\ base[1] = witness /\ Cardinality(Saw(base)) = 1
      /\ AllCompleted(base) <=> Completed(witness)
  <2> HIDE DEF base
  <2>1. base = [i \in 1..Confirmations |-> witness]
    BY DEF base
  <2> QED
    BY <2>1, WaveIs
<1>5. /\ DOMAIN attempts = {"base", "candidate"}
      /\ attempts["base"] = base /\ attempts["candidate"] = receipts.boundary
  <2> HIDE DEF base
  <2> QED
    OBVIOUS
<1>6. /\ Swept => /\ DOMAIN sweeps = {"candidate"}
                  /\ sweeps["candidate"].census = Census
                  /\ sweeps["candidate"].kills = receipts.sweep
      /\ ~Swept => DOMAIN sweeps = {}
  OBVIOUS
<1>7. /\ Gathered.hunt = hunt /\ Gathered.control = controls /\ Gathered.attempts = attempts
      /\ Gathered.sweeps = sweeps /\ Gathered.unresolved = "none"
  <2>1. Gathered = [hunt |-> hunt, control |-> controls, attempts |-> attempts,
                    sweeps |-> sweeps, unresolved |-> "none"]
    BY DEF Gathered, witness, control
  <2> HIDE DEF hunt, controls, attempts, sweeps
  <2> QED
    BY <2>1
<1> HIDE DEF hunt, controls, attempts, sweeps, base
<1> QED
  BY <1>1, <1>2, <1>3, <1>4, <1>5, <1>6, <1>7 DEF GatheredIs, FaultIsNecessary

\* What the validators ask of the evidence.  An incomplete verdict they always
\* accept; a conclusive one when every world completed and they see the same.
LEMMA PublishableIs ==
    ASSUME NEW b, receipts.boundary = [i \in 1..Confirmations |-> b],
           Swept => DOMAIN receipts.sweep = KillPoints(Census),
           NEW V \in {"PATCH_FAILED_STILL_REPRODUCES", "PATCH_FAILED_INVARIANT_BROKEN",
                      "FIX_PROVEN_FOR_THIS_CAPSULE"}
    PROVE  /\ Publishable("EVIDENCE_INCOMPLETE", Gathered)
           /\ /\ Completed(b)
              /\ Swept => Completed(Census) /\ AllCompleted(receipts.sweep)
              /\ IF b.observation # "EXACTLY_ONCE" THEN b.observation = Claim(V)
                 ELSE Swept /\ SweepObservation(Census, receipts.sweep) = Claim(V)
              => Publishable(V, Gathered)
<1> DEFINE G == Gathered
<1>1. GatheredIs(G)
  BY GatheredFields
<1> HIDE DEF G
<1>2. /\ Len(receipts.boundary) = Confirmations /\ receipts.boundary[1] = b
      /\ Saw(receipts.boundary) = {b.observation} /\ Cardinality(Saw(receipts.boundary)) = 1
      /\ AllCompleted(receipts.boundary) <=> Completed(b)
  BY WaveIs
<1>3. ResolutionIsCoherent("EVIDENCE_INCOMPLETE", G) /\ ResolutionIsCoherent(V, G)
  BY <1>1 DEF GatheredIs, ResolutionIsCoherent
<1>4. LinksAreCoherent(G)
  BY <1>1 DEF GatheredIs, LinksAreCoherent
<1>5. SweepsAreCoherent(G)
  BY <1>1 DEF GatheredIs, SweepsAreCoherent
<1>6. Publishable("EVIDENCE_INCOMPLETE", G)
  BY <1>3, <1>4, <1>5 DEF Publishable, Conclusive
<1>7. ASSUME Completed(b), Swept => Completed(Census) /\ AllCompleted(receipts.sweep),
             IF b.observation # "EXACTLY_ONCE" THEN b.observation = Claim(V)
             ELSE Swept /\ SweepObservation(Census, receipts.sweep) = Claim(V)
      PROVE  Publishable(V, G)
  <2>1. WorldsCompleted(G)
    BY <1>1, <1>2, <1>7 DEF GatheredIs, WorldsCompleted
  <2>2. HuntIsConclusive(G.hunt)
    BY <1>1 DEF GatheredIs, HuntIsConclusive
  <2>3. EffectiveObservation(G, "base") = "DUPLICATE_EFFECT"
    BY <1>1 DEF GatheredIs, EffectiveObservation
  <2>4. EffectiveObservation(G, "candidate") = Claim(V)
    <3>1. CASE b.observation # "EXACTLY_ONCE"
      BY <1>1, <1>2, <1>7, <3>1 DEF GatheredIs, EffectiveObservation
    <3>2. CASE b.observation = "EXACTLY_ONCE"
      BY <1>1, <1>2, <1>7, <3>2 DEF GatheredIs, EffectiveObservation
    <3> QED
      BY <3>1, <3>2
  <2>5. ObservationsSupport(V, G)
    BY <1>1, <1>2, <2>3, <2>4 DEF GatheredIs, ObservationsSupport
  <2>6. VerdictIsCoherent(V, G)
    BY <1>1, <2>1, <2>2, <2>5 DEF GatheredIs, VerdictIsCoherent
  <2> QED
    BY <1>3, <1>4, <1>5, <2>6 DEF Publishable
<1> QED
  BY <1>6, <1>7 DEF G

\* The oracle's rules, one world at a time.
LEMMA ExpectedIs ==
    ASSUME NEW ops
    PROVE  LET boundary == BoundaryCommit(ops)
               replayed == Redelivered(ops, boundary)
               first    == Deliver(Fresh, ops, 0)
               final    == Deliver(first, ops, 0)
               census   == CensusObservation(first, final)
               Sees(o)  == \E n \in 1..Commits(ops) : Classify(Redelivered(ops, n)) = o
           IN  Expected(ops) =
                 IF boundary = 0 \/ ~Judgeable(replayed) THEN "EVIDENCE_INCOMPLETE"
                 ELSE IF Classify(replayed) # "EXACTLY_ONCE" THEN Failed(Classify(replayed))
                 ELSE IF ~Judgeable(first) \/ ~Judgeable(final) THEN "EVIDENCE_INCOMPLETE"
                 ELSE IF census # "EXACTLY_ONCE" THEN Failed(census)
                 ELSE IF \E n \in 1..Commits(ops) : ~Judgeable(Redelivered(ops, n))
                 THEN "EVIDENCE_INCOMPLETE"
                 ELSE IF Sees("DUPLICATE_EFFECT") THEN "PATCH_FAILED_STILL_REPRODUCES"
                 ELSE IF Sees("INVARIANT_FAILED") THEN "PATCH_FAILED_INVARIANT_BROKEN"
                 ELSE "FIX_PROVEN_FOR_THIS_CAPSULE"
<1> DEFINE boundary == BoundaryCommit(ops)
           replayed == Redelivered(ops, boundary)
           first    == Deliver(Fresh, ops, 0)
           final    == Deliver(first, ops, 0)
           points   == 1..Len(first.trace)
           swept    == [n \in points |-> Redelivered(ops, n)]
           seen     == {Classify(swept[n]) : n \in points}
           census   == CensusObservation(first, final)
           Sees(o)  == \E n \in 1..Commits(ops) : Classify(Redelivered(ops, n)) = o
<1>1. Expected(ops) =
         IF boundary = 0 \/ ~Judgeable(replayed) THEN "EVIDENCE_INCOMPLETE"
         ELSE IF Classify(replayed) # "EXACTLY_ONCE" THEN Failed(Classify(replayed))
         ELSE IF ~Judgeable(first) \/ ~Judgeable(final) THEN "EVIDENCE_INCOMPLETE"
         ELSE IF Classify(final) # "EXACTLY_ONCE" THEN Failed(Classify(final))
         ELSE IF Classify(first) # "EXACTLY_ONCE" THEN "PATCH_FAILED_INVARIANT_BROKEN"
         ELSE IF \E n \in points : ~Judgeable(swept[n]) THEN "EVIDENCE_INCOMPLETE"
         ELSE IF "DUPLICATE_EFFECT" \in seen THEN "PATCH_FAILED_STILL_REPRODUCES"
         ELSE IF "INVARIANT_FAILED" \in seen THEN "PATCH_FAILED_INVARIANT_BROKEN"
         ELSE "FIX_PROVEN_FOR_THIS_CAPSULE"
  BY Zenon DEF Expected
<1>2. points = 1..Commits(ops)
  BY DEF Commits
<1> HIDE DEF boundary, replayed, first, final
<1>3. \A n \in points : swept[n] = Redelivered(ops, n)
  <2> HIDE DEF points
  <2> QED
    OBVIOUS
<1>4. (\E n \in points : ~Judgeable(swept[n])) <=>
          \E n \in 1..Commits(ops) : ~Judgeable(Redelivered(ops, n))
  <2> HIDE DEF points, swept
  <2> QED
    BY <1>2, <1>3
<1>5. \A o : o \in seen <=> Sees(o)
  <2> SUFFICES ASSUME NEW o PROVE o \in seen <=> Sees(o)
    OBVIOUS
  <2>1. o \in seen <=> \E n \in points : Classify(swept[n]) = o
    <3> HIDE DEF points, swept
    <3> QED
      OBVIOUS
  <2> HIDE DEF points, swept, seen
  <2> QED
    BY <1>2, <1>3, <2>1
<1>6. census # "EXACTLY_ONCE" <=>
          Classify(final) # "EXACTLY_ONCE" \/ Classify(first) # "EXACTLY_ONCE"
  BY DEF CensusObservation
<1>7. /\ Classify(final) # "EXACTLY_ONCE" => Failed(census) = Failed(Classify(final))
      /\ Classify(final) = "EXACTLY_ONCE" /\ Classify(first) # "EXACTLY_ONCE" =>
            Failed(census) = "PATCH_FAILED_INVARIANT_BROKEN"
  BY DEF CensusObservation, Failed
<1> HIDE DEF points, swept, seen, census, Sees
<1>8. Expected(ops) =
         IF boundary = 0 \/ ~Judgeable(replayed) THEN "EVIDENCE_INCOMPLETE"
         ELSE IF Classify(replayed) # "EXACTLY_ONCE" THEN Failed(Classify(replayed))
         ELSE IF ~Judgeable(first) \/ ~Judgeable(final) THEN "EVIDENCE_INCOMPLETE"
         ELSE IF census # "EXACTLY_ONCE" THEN Failed(census)
         ELSE IF \E n \in 1..Commits(ops) : ~Judgeable(Redelivered(ops, n))
         THEN "EVIDENCE_INCOMPLETE"
         ELSE IF Sees("DUPLICATE_EFFECT") THEN "PATCH_FAILED_STILL_REPRODUCES"
         ELSE IF Sees("INVARIANT_FAILED") THEN "PATCH_FAILED_INVARIANT_BROKEN"
         ELSE "FIX_PROVEN_FOR_THIS_CAPSULE"
  BY <1>1, <1>4, <1>5, <1>6, <1>7
<1> QED
  BY <1>8, Zenon DEF boundary, replayed, first, final, census, Sees

\* The boundary worlds committed what the census did, as far as they went.
LEMMA NeverSplits ==
    ASSUME handler \in Seq(Ops), NEW b, NEW W, W = [i \in 1..Confirmations |-> b],
           BoundaryFits(b), NEW C, CensusFits(C)
    PROVE  ~ScheduleSplit(W, C)
<1> DEFINE n == Commits(handler)
           k == BoundaryCommit(handler)
<1>1. n \in Nat /\ k \in 0..n
  BY BoundaryIs, KillReached
<1>2. CASE C.status = "COMPLETED" /\ b.status = "COMPLETED"
  <2>1. b.ops = Made(handler, k)
    BY <1>2 DEF BoundaryFits, Fits, ReceiptOf
  <2>2. C.ops = Made(handler, n)
    BY <1>2 DEF CensusFits, Fits, ReceiptOf
  <2>3. /\ Len(b.ops) = k /\ b.ops \in Seq(Operations)
        /\ Len(C.ops) = n /\ C.ops \in Seq(Operations)
    <3>1. n \in 0..n
      BY <1>1
    <3> QED
      BY <1>1, <2>1, <2>2, <3>1, MadeTypes
  <2>4. \A j \in 1..k : b.ops[j] = C.ops[j]
    <3> HIDE DEF n, k
    <3> QED
      BY <1>1, <2>1, <2>2 DEF Made
  <2> HIDE DEF n, k
  <2>5. b.ops = SubSeq(C.ops, 1, Len(b.ops))
    BY <1>1, <2>3, <2>4
  <2>6. IsPrefix(b.ops, C.ops)
    BY <1>1, <2>3, <2>5 DEF IsPrefix
  <2> QED
    BY <2>6, WaveIs DEF ScheduleSplit, Splits
<1>3. CASE ~(C.status = "COMPLETED" /\ b.status = "COMPLETED")
  BY <1>3, WaveIs DEF ScheduleSplit, Splits
<1> QED
  BY <1>2, <1>3

\* The engine's verdict is the oracle's, and is published unless the handler is
\* wrong without a crash and a world of its sweep did not complete.
LEMMA JudgedIs ==
    ASSUME RedTeamInv, wave = "judge"
    PROVE  /\ Judged = Expected(handler) /\ Judged \in CrashVerdict
           /\ \/ Publishable(Judged, Gathered)
              \/ /\ Classify(Redelivered(handler, BoundaryCommit(handler))) = "EXACTLY_ONCE"
                 /\ Judged \notin {"FIX_PROVEN_FOR_THIS_CAPSULE", "EVIDENCE_INCOMPLETE"}
                 /\ \E n \in KillPoints(Census) : ~Judgeable(Redelivered(handler, n))
<1> DEFINE boundary == BoundaryCommit(handler)
           replayed == Redelivered(handler, boundary)
           first    == Deliver(Fresh, handler, 0)
           final    == Deliver(first, handler, 0)
           census   == CensusObservation(first, final)
           N        == Commits(handler)
           R(n)     == Redelivered(handler, n)
           Sees(o)  == \E n \in 1..N : Classify(R(n)) = o
           W        == receipts.boundary
           b        == W[1]
           K        == receipts.sweep
           stands   == boundary # 0 /\ Judgeable(replayed)
           full     == N # 0 /\ Judgeable(first) /\ Judgeable(final)
<1>1. Expected(handler) =
         IF ~stands THEN "EVIDENCE_INCOMPLETE"
         ELSE IF Classify(replayed) # "EXACTLY_ONCE" THEN Failed(Classify(replayed))
         ELSE IF ~Judgeable(first) \/ ~Judgeable(final) THEN "EVIDENCE_INCOMPLETE"
         ELSE IF census # "EXACTLY_ONCE" THEN Failed(census)
         ELSE IF \E n \in 1..N : ~Judgeable(R(n)) THEN "EVIDENCE_INCOMPLETE"
         ELSE IF Sees("DUPLICATE_EFFECT") THEN "PATCH_FAILED_STILL_REPRODUCES"
         ELSE IF Sees("INVARIANT_FAILED") THEN "PATCH_FAILED_INVARIANT_BROKEN"
         ELSE "FIX_PROVEN_FOR_THIS_CAPSULE"
  BY ExpectedIs, Zenon
<1>2. handler \in Seq(Ops) /\ N \in Nat /\ boundary \in 0..N
  BY KillCommitIs, BoundaryIs
<1>3. W = [i \in 1..Confirmations |-> b] /\ BoundaryFits(b)
  BY DEF RedTeamInv, ReceiptsFit
<1>4. \/ /\ ~IsSwept(W) /\ ~Swept
      \/ /\ Swept /\ IsSwept(W) /\ CensusFits(Census)
         /\ \E n \in Nat : /\ KillPoints(Census) = 1..n /\ DOMAIN K = 1..n
                           /\ \A i \in 1..n : SweepFits(K[i], i)
  BY DEF RedTeamInv, ReceiptsFit, SweptUpTo, Swept, Census
<1>5. Swept => DOMAIN K = KillPoints(Census)
  BY <1>4
<1>6. \A v : Classify(v) \in {"DUPLICATE_EFFECT", "EXACTLY_ONCE", "INVARIANT_FAILED"}
  BY DEF Classify
<1>7. census \in {"DUPLICATE_EFFECT", "EXACTLY_ONCE", "INVARIANT_FAILED"}
  BY <1>6 DEF CensusObservation
<1>8. /\ ~stands => b.status # "COMPLETED"
      /\ stands => b = ReceiptOf(Classify(replayed), Made(handler, boundary))
  BY <1>3 DEF BoundaryFits, Fits
<1>9. ConfirmedObservation(W) = (IF Completed(b) THEN b.observation ELSE "NOT_OBSERVED")
      /\ (NeverReached(W) <=> b.status = "CHECKPOINT_NOT_REACHED")
  <2> HIDE DEF W, b
  <2> QED
    BY <1>3, WaveIs
<1>10. Publishable("EVIDENCE_INCOMPLETE", Gathered)
  <2> HIDE DEF b
  <2> QED
    BY <1>3, <1>5, PublishableIs
<1> HIDE DEF boundary, replayed, first, final, census, N, R, Sees, W, b, K
<1>11. CASE ~stands
  <2>1. ConfirmedObservation(W) = "NOT_OBSERVED"
    BY <1>8, <1>9, <1>11 DEF Completed
  <2>2. Judged = "EVIDENCE_INCOMPLETE"
    BY <2>1 DEF Judged, W
  <2> QED
    BY <1>1, <1>10, <1>11, <2>2 DEF CrashVerdict
<1>12. stands => /\ Completed(b) /\ b.status = "COMPLETED"
                 /\ b.observation = Classify(replayed)
                 /\ ConfirmedObservation(W) = Classify(replayed)
                 /\ ConfirmedObservation(W) # "NOT_OBSERVED"
  BY <1>6, <1>8, <1>9 DEF ReceiptOf, Completed
<1>13. CASE stands /\ Classify(replayed) # "EXACTLY_ONCE"
  <2> DEFINE V == Failed(Classify(replayed))
  <2>1. ~Swept
    BY <1>4, <1>9, <1>12, <1>13 DEF IsSwept
  <2>2. Judged = ClaimedFixVerdict(Classify(replayed), W, FALSE, SetupFailure)
    BY <1>12, <1>13, <2>1 DEF Judged, W
  <2>3. Judged = V
    BY <1>6, <1>13, <2>2 DEF ClaimedFixVerdict, Failed
  <2>4. /\ V \in {"PATCH_FAILED_STILL_REPRODUCES", "PATCH_FAILED_INVARIANT_BROKEN"}
        /\ Claim(V) = Classify(replayed)
    BY <1>6, <1>13 DEF Failed, Claim
  <2> HIDE DEF V
  <2>5. Publishable(V, Gathered)
    BY <1>3, <1>5, <1>12, <1>13, <2>1, <2>4, PublishableIs DEF W
  <2> QED
    BY <1>1, <1>13, <2>3, <2>4, <2>5 DEF V, CrashVerdict
<1>14. CASE stands /\ Classify(replayed) = "EXACTLY_ONCE"
  <2> DEFINE S == SweepObservation(Census, K)
  <2>1. Swept /\ CensusFits(Census)
    BY <1>4, <1>12, <1>14 DEF IsSwept
  <2>2. ~ScheduleSplit(W, Census)
    BY <1>2, <1>3, <2>1, NeverSplits
  <2>3. Judged = ClaimedFixVerdict(S, W, TRUE, Census)
    BY <1>12, <1>14, <2>1 DEF Judged, W, K
  <2>4. Judged = IF S = "DUPLICATE_EFFECT" THEN "PATCH_FAILED_STILL_REPRODUCES"
                 ELSE IF S = "INVARIANT_FAILED" THEN "PATCH_FAILED_INVARIANT_BROKEN"
                 ELSE IF S = "EXACTLY_ONCE" THEN "FIX_PROVEN_FOR_THIS_CAPSULE"
                 ELSE "EVIDENCE_INCOMPLETE"
    BY <2>2, <2>3 DEF ClaimedFixVerdict
  <2>5. N # 0
    BY <1>2, <1>14
  <2>6. /\ ~full => ~Completed(Census)
        /\ full => Completed(Census) /\ Census.observation = census
    BY <2>1 DEF CensusFits, Fits, ReceiptOf, Completed, census, first, final, N
  <2>7. CASE ~full
    <3>1. S = "NOT_OBSERVED"
      BY <2>6, <2>7 DEF SweepObservation
    <3>2. Judged = "EVIDENCE_INCOMPLETE"
      BY <2>4, <3>1
    <3> QED
      BY <1>1, <1>10, <1>14, <2>5, <2>7, <3>2 DEF CrashVerdict
  <2>8. CASE full
    <3>1. KillPoints(Census) = 1..N
      BY <1>2, <2>1, <2>6, <2>8, CensusPoints DEF N
    <3>2. DOMAIN K = 1..N /\ \A i \in 1..N : SweepFits(K[i], i)
      BY <1>4, <2>1, <3>1
    <3>3. \A i \in 1..N : /\ Judgeable(R(i)) <=> Completed(K[i])
                          /\ Judgeable(R(i)) => K[i].observation = Classify(R(i))
      BY <3>2 DEF SweepFits, Fits, ReceiptOf, Completed, R
    <3>4. AllCompleted(K) <=> \A i \in 1..N : Judgeable(R(i))
      BY <3>2, <3>3 DEF AllCompleted
    <3>5. K # <<>>
      <4>1. 1 \in DOMAIN K
        BY <1>2, <2>5, <3>2
      <4> QED
        BY <4>1
    <3>6. CASE census # "EXACTLY_ONCE"
      <4>1. S = census
        BY <1>7, <2>6, <2>8, <3>6 DEF SweepObservation
      <4>2. Judged = Failed(census) /\ Claim(Judged) = census
            /\ Judged \in {"PATCH_FAILED_STILL_REPRODUCES", "PATCH_FAILED_INVARIANT_BROKEN"}
        BY <1>7, <2>4, <3>6, <4>1 DEF Failed, Claim
      <4>3. Judged = Expected(handler)
        BY <1>1, <1>14, <2>8, <3>6, <4>2
      <4>4. CASE AllCompleted(K)
        <5>1. Publishable(Judged, Gathered)
          BY <1>3, <1>5, <1>12, <1>14, <2>1, <2>6, <2>8, <4>1, <4>2, <4>4, PublishableIs DEF W, K
        <5> QED
          BY <4>2, <4>3, <5>1 DEF CrashVerdict
      <4>5. CASE ~AllCompleted(K)
        <5>1. \E n \in KillPoints(Census) : ~Judgeable(R(n))
          BY <3>1, <3>4, <4>5
        <5> QED
          BY <1>14, <4>2, <4>3, <5>1 DEF CrashVerdict, replayed, boundary, R
      <4> QED
        BY <4>4, <4>5
    <3>7. CASE census = "EXACTLY_ONCE" /\ ~AllCompleted(K)
      <4>1. S = "NOT_OBSERVED"
        BY <2>6, <2>8, <3>7 DEF SweepObservation
      <4>2. Judged = "EVIDENCE_INCOMPLETE"
        BY <2>4, <4>1
      <4>3. Expected(handler) = "EVIDENCE_INCOMPLETE"
        BY <1>1, <1>14, <2>8, <3>4, <3>7
      <4> QED
        BY <1>10, <4>2, <4>3 DEF CrashVerdict
    <3>8. CASE census = "EXACTLY_ONCE" /\ AllCompleted(K)
      <4>1. \A o : o \in Saw(K) <=> Sees(o)
        BY <3>2, <3>3, <3>4, <3>8 DEF Saw, Sees
      <4>2. Saw(K) # {} /\ Saw(K) \subseteq {"DUPLICATE_EFFECT", "EXACTLY_ONCE", "INVARIANT_FAILED"}
        <5>1. 1 \in 1..N
          BY <1>2, <2>5
        <5>2. K[1].observation \in Saw(K)
          BY <3>2, <5>1 DEF Saw
        <5>3. \A o : Sees(o) => o \in {"DUPLICATE_EFFECT", "EXACTLY_ONCE", "INVARIANT_FAILED"}
          BY <1>6 DEF Sees
        <5> QED
          BY <4>1, <5>2, <5>3
      <4>3. S = IF "DUPLICATE_EFFECT" \in Saw(K) THEN "DUPLICATE_EFFECT"
                ELSE IF "INVARIANT_FAILED" \in Saw(K) THEN "INVARIANT_FAILED"
                ELSE "EXACTLY_ONCE"
        <5>1. "DUPLICATE_EFFECT" \notin Saw(K) /\ "INVARIANT_FAILED" \notin Saw(K) =>
                  Saw(K) = {"EXACTLY_ONCE"}
          BY <4>2
        <5> QED
          BY <2>6, <2>8, <3>5, <3>8, <5>1 DEF SweepObservation
      <4>4. /\ Judged = Expected(handler) /\ Claim(Judged) = S
            /\ Judged \in {"PATCH_FAILED_STILL_REPRODUCES", "PATCH_FAILED_INVARIANT_BROKEN",
                           "FIX_PROVEN_FOR_THIS_CAPSULE"}
        <5>1. Expected(handler) = IF Sees("DUPLICATE_EFFECT") THEN "PATCH_FAILED_STILL_REPRODUCES"
                                  ELSE IF Sees("INVARIANT_FAILED")
                                  THEN "PATCH_FAILED_INVARIANT_BROKEN"
                                  ELSE "FIX_PROVEN_FOR_THIS_CAPSULE"
          BY <1>1, <1>14, <2>8, <3>4, <3>8
        <5> HIDE DEF S
        <5> QED
          BY <2>4, <4>1, <4>3, <5>1 DEF Claim
      <4>5. Publishable(Judged, Gathered)
        BY <1>3, <1>5, <1>12, <1>14, <2>1, <2>6, <2>8, <3>8, <4>4, PublishableIs DEF W, K
      <4> QED
        BY <4>4, <4>5 DEF CrashVerdict
    <3> QED
      BY <3>6, <3>7, <3>8
  <2> QED
    BY <2>7, <2>8
<1> QED
  BY <1>6, <1>11, <1>13, <1>14

\* The verdict is given once.
LEMMA JudgeKeeps ==
    ASSUME RedTeamInv, Judge
    PROVE  RedTeamInv'
<1>1. /\ wave = "judge" /\ wave' = "done" /\ verdict' = Judged
      /\ outcome' = IF Publishable(Judged, Gathered) THEN "published" ELSE "refused"
      /\ handler' = handler /\ kill' = kill /\ world' = world /\ receipts' = receipts
  BY DEF Judge
<1>2. /\ Judged = Expected(handler) /\ Judged \in CrashVerdict
      /\ \/ Publishable(Judged, Gathered)
         \/ /\ Classify(Redelivered(handler, BoundaryCommit(handler))) = "EXACTLY_ONCE"
            /\ Judged \notin {"FIX_PROVEN_FOR_THIS_CAPSULE", "EVIDENCE_INCOMPLETE"}
            /\ \E n \in KillPoints(Census) : ~Judgeable(Redelivered(handler, n))
  BY <1>1, JudgedIs
<1>3. TypeOK'
  BY <1>1, <1>2 DEF RedTeamInv, TypeOK
<1>4. ReceiptsFit'
  BY <1>1 DEF RedTeamInv, ReceiptsFit, SweptUpTo, SweepFits, CensusFits, BoundaryFits, Fits
<1>5. VerdictIsTheOracles'
  BY <1>1, <1>2 DEF VerdictIsTheOracles, Census
<1>6. (Runs => WorldFits(world))' /\ (wave # "done" => outcome = "none")'
  BY <1>1 DEF Runs
<1> QED
  BY <1>3, <1>4, <1>5, <1>6 DEF RedTeamInv

----------------------------------------------------------------------------
(* The theorems.                                                           *)

\* Whatever the handler, the world that runs is the oracle's, and so is what
\* every receipt tells.
THEOREM RedTeamInvHolds == Spec => []RedTeamInv
<1>1. Init => RedTeamInv
  <2> SUFFICES ASSUME Init PROVE RedTeamInv
    OBVIOUS
  <2> DEFINE empty == <<>>
  <2>1. /\ handler \in Handlers /\ wave = "boundary" /\ kill = 0 /\ world = Seeded
        /\ receipts = [boundary |-> empty, census |-> empty, sweep |-> empty]
        /\ verdict = "EVIDENCE_INCOMPLETE" /\ outcome = "none"
    BY DEF Init
  <2>2. handler \in Seq(Ops) /\ Len(handler) \in Nat
    BY <2>1, HandlersAssumption
  <2>3. KillCommit \in Nat
    <3>1. BoundaryCommit(handler) \in 0..Commits(handler) /\ Commits(handler) \in Nat
      BY <2>2, BoundaryIs, CommitsBounded
    <3> QED
      BY <2>1, <3>1 DEF KillCommit
  <2> DEFINE o == Course(Fresh, handler, KillCommit)[0]
  <2>4. /\ o.end = "running" /\ Holds(Seeded, o) /\ Len(o.trace) = 0
        /\ Seeded.ops = Made(handler, 0)
        /\ Seeded \in World /\ Seeded.delivery = 1 /\ Seeded.at = 1
    BY <2>2, <2>3, SeededHolds
  <2>5. WorldFits(world)
    <3>1. Ran(1)[0] = o
      BY DEF Ran, RanFrom, RanKill
    <3>2. Ran(world.delivery)[world.at - 1] = o
      BY <2>1, <2>4, <3>1
    <3> HIDE DEF o
    <3>3. Kept(world, o)
      BY <2>1, <2>4 DEF Kept
    <3> QED
      BY <2>1, <2>4, <3>2, <3>3 DEF WorldFits
  <2>6. empty \in Seq(Receipt)
    OBVIOUS
  <2> HIDE DEF empty
  <2>7. /\ DOMAIN receipts = {"boundary", "census", "sweep"}
        /\ \A w \in DOMAIN receipts : receipts[w] = empty
        /\ receipts.boundary = empty /\ receipts.census = empty /\ receipts.sweep = empty
    BY <2>1
  <2>8. TypeOK
    <3>1. world \in World /\ world.at \in 1..(Len(handler) + 1) /\ kill \in 0..Len(handler)
      BY <2>1, <2>2, <2>4
    <3> QED
      BY <2>1, <2>6, <2>7, <3>1 DEF TypeOK, CrashVerdict
  <2>9. ReceiptsFit
    BY <2>1, <2>7 DEF ReceiptsFit, empty
  <2>10. VerdictIsTheOracles
    BY <2>1 DEF VerdictIsTheOracles
  <2> QED
    BY <2>1, <2>5, <2>8, <2>9, <2>10 DEF RedTeamInv
<1>2. RedTeamInv /\ [Next]_vars => RedTeamInv'
  <2> SUFFICES ASSUME RedTeamInv, [Next]_vars PROVE RedTeamInv'
    OBVIOUS
  <2>1. CASE StoreCommit
    BY <2>1, StoreCommitKeeps
  <2>2. CASE StorePasses \/ GuardPasses \/ TouchFiles \/ RawSql \/ ChangeDatabase
    BY <2>2, PassesKeep
  <2>3. CASE MarkRaises
    BY <2>3, MarkRaisesKeeps
  <2>4. CASE HandlerReturns
    BY <2>4, HandlerReturnsKeeps
  <2>5. CASE Judge
    BY <2>5, JudgeKeeps
  <2>6. CASE UNCHANGED vars
    <3>1. /\ handler' = handler /\ wave' = wave /\ kill' = kill /\ world' = world
          /\ receipts' = receipts /\ verdict' = verdict /\ outcome' = outcome
      BY <2>6 DEF vars
    <3>2. TypeOK'
      BY <3>1 DEF RedTeamInv, TypeOK
    <3>3. (Runs => WorldFits(world))'
      BY <3>1 DEF RedTeamInv, Runs, WorldFits, Ran, RanFrom, RanKill, KillCommit, Kept
    <3>4. ReceiptsFit'
      BY <3>1
      DEF RedTeamInv, ReceiptsFit, SweptUpTo, SweepFits, CensusFits, BoundaryFits, Fits
    <3>5. (wave # "done" => outcome = "none")' /\ VerdictIsTheOracles'
      BY <3>1 DEF RedTeamInv, VerdictIsTheOracles, Census
    <3> QED
      BY <3>2, <3>3, <3>4, <3>5 DEF RedTeamInv
  <2> QED
    BY <2>1, <2>2, <2>3, <2>4, <2>5, <2>6 DEF Next
<1> QED
  BY <1>1, <1>2, PTL DEF Spec

\* A comparison's state is one the program has, for every handler (redteam.run).
THEOREM RedTeamTypeHolds == Spec => []TypeOK
<1>1. RedTeamInv => TypeOK
  BY DEF RedTeamInv
<1> QED
  BY <1>1, RedTeamInvHolds, PTL

\* What check says of a generated handler, of any length, is what the oracle
\* expects of its statements; and where the validators refuse a result, what
\* they refuse is no proof.
THEOREM VerdictHolds == Spec => []VerdictIsTheOracles
<1>1. RedTeamInv => VerdictIsTheOracles
  BY DEF RedTeamInv
<1> QED
  BY <1>1, RedTeamInvHolds, PTL

\* A published proof holds of any number of crashes, at whichever commits.
SurvivesAnyCrashes ==
    outcome = "published" /\ verdict = "FIX_PROVEN_FOR_THIS_CAPSULE" =>
        \A kills \in Seq(Nat) :
            LET last == AfterCrashes(handler, kills)
            IN  last.end = "done" /\ Classify(last) = "EXACTLY_ONCE"

\* A handler check calls a proven fix makes its event exactly once, however many
\* of its deliveries are killed and after whichever commit: check kills once.
THEOREM ProvenSurvivesAnyCrashes == Spec => []SurvivesAnyCrashes
<1>1. RedTeamInv => SurvivesAnyCrashes
  <2> SUFFICES ASSUME RedTeamInv, outcome = "published",
                      verdict = "FIX_PROVEN_FOR_THIS_CAPSULE", NEW kills \in Seq(Nat)
               PROVE  /\ AfterCrashes(handler, kills).end = "done"
                      /\ Classify(AfterCrashes(handler, kills)) = "EXACTLY_ONCE"
    BY DEF SurvivesAnyCrashes
  <2>1. handler \in Seq(Ops) /\ Expected(handler) = "FIX_PROVEN_FOR_THIS_CAPSULE"
    BY HandlersAssumption DEF RedTeamInv, TypeOK, VerdictIsTheOracles
  <2> QED
    BY <2>1, ProvenSurvives DEF Once, Classify
<1> QED
  BY <1>1, RedTeamInvHolds, PTL

\* The same, of the crashes the runs enumerate.
THEOREM ProvenSurvivesHolds == Spec => []ProvenSurvivesEveryCrash
<1>1. TypeOK /\ SurvivesAnyCrashes => ProvenSurvivesEveryCrash
  <2> SUFFICES ASSUME TypeOK, SurvivesAnyCrashes, outcome = "published",
                      verdict = "FIX_PROVEN_FOR_THIS_CAPSULE",
                      NEW n \in 0..3, NEW kills \in [1..n -> 1..Len(handler)]
               PROVE  /\ AfterCrashes(handler, kills).end = "done"
                      /\ Classify(AfterCrashes(handler, kills)) = "EXACTLY_ONCE"
    BY DEF ProvenSurvivesEveryCrash
  <2>1. Len(handler) \in Nat
    BY HandlersAssumption DEF TypeOK
  <2>2. kills \in Seq(Nat)
    BY <2>1
  <2> QED
    BY <2>2 DEF SurvivesAnyCrashes
<1> QED
  BY <1>1, RedTeamTypeHolds, ProvenSurvivesAnyCrashes, PTL
=============================================================================
