---------------------------- MODULE WorldPromise ----------------------------
(***************************************************************************)
(* What one world of CrashCheck promises, without workers, messages or     *)
(* processes: the durable state moves only by the store's operations (or   *)
(* is tainted by something else), it is read once after the first delivery *)
(* and once after the second, never while tainted, and the outcome is the  *)
(* shared classification of exactly those two readings, or a refusal.      *)
(***************************************************************************)
EXTENDS CrashModels

CONSTANT NoSnapshot

VARIABLES
    census,     \* whether the world delivers twice with no kill
    durable,    \* the event's four numbers in the database
    tainted,    \* the database holds content no store operation made
    first,      \* the state read after the first delivery
    final,      \* the state read after the second
    outcome     \* "open", "refused", or an observation

promise == <<census, durable, tainted, first, final, outcome>>

Init ==
    /\ census \in BOOLEAN
    /\ durable = Seed
    /\ tainted = FALSE
    /\ first = NoSnapshot /\ final = NoSnapshot
    /\ outcome = "open"

Commit(op) ==
    /\ StoreCommits(durable, op)
    /\ durable' = Apply(durable, op)
    /\ UNCHANGED <<census, tainted, first, final, outcome>>

\* Something writes around the store, or undoes what it wrote.
WriteAround ==
    /\ tainted' \in BOOLEAN
    /\ UNCHANGED <<census, durable, first, final, outcome>>

\* The crashed (or finished) first delivery is read; what else is found in
\* the world may refuse it at once.
ReadFirst ==
    /\ outcome = "open" /\ first = NoSnapshot
    /\ ~tainted
    /\ first' = durable
    /\ outcome' \in {"open", "refused"}
    /\ UNCHANGED <<census, durable, tainted, final>>

ReadFinal ==
    /\ outcome = "open" /\ first # NoSnapshot /\ final = NoSnapshot
    /\ ~tainted
    /\ final' = durable
    /\ UNCHANGED <<census, durable, tainted, first, outcome>>

Rule ==
    /\ outcome = "open" /\ final # NoSnapshot
    /\ outcome' = IF census THEN ClassifyDelivery(first, final, InitialTotal)
                            ELSE ClassifyFinal(final, InitialTotal)
    /\ UNCHANGED <<census, durable, tainted, first, final>>

\* Any world can end without evidence, one already judged included.
Refuse ==
    /\ outcome # "refused"
    /\ outcome' = "refused"
    /\ UNCHANGED <<census, durable, tainted, first, final>>

Next ==
    \/ (\E op \in Operations : Commit(op))
    \/ WriteAround \/ ReadFirst \/ ReadFinal \/ Rule \/ Refuse

Spec == Init /\ [][Next]_promise
=============================================================================
