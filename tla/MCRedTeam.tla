----------------------------- MODULE MCRedTeam -----------------------------
(* The handlers RedTeam is checked over. *)
EXTENDS RedTeam

CONSTANT MaxStatements   \* bound: statements of a handler

\* The credit scenario.
Cents == 2500

\* Worlds are run, not chosen: no failure is drawn from a set.
NoFailures == {}

\* Every handler of at most MaxStatements; and those guarded and atomic that go
\* on for three more, which hold the cases only a sweep tells apart.
EveryHandler ==
    UNION {[1..n -> Ops] : n \in 0..MaxStatements}
    \union {<<"guard", "atomic">> \o rest : rest \in [1..3 -> Ops]}
=============================================================================
