------------------------------ MODULE Scratch ------------------------------
(***************************************************************************)
(* The temporary directory of one command (crashcheck._Scratch): the       *)
(* copies of the source trees, and a directory of worlds for each phase.   *)
(* A handler can climb out of its world into all of it.  Three looks stand *)
(* against that: each world compares its source tree with the binding when *)
(* it starts and with its own start later; two kinds of phase look for     *)
(* entries beside their worlds when these are back; and settle, after      *)
(* every phase, compares every other copy and every finished phase with    *)
(* what was recorded, and records this phase's own.                        *)
(*                                                                         *)
(* An entry is told by when it was put: 0 is none, and the clock (now)     *)
(* ticks when the worlds of a phase are back and when it is settled.       *)
(***************************************************************************)
EXTENDS Naturals, Sequences

CONSTANTS
    Copies,     \* the names of source copies
    Plans,      \* the phases a command may run, in order, to its end
    Worlds,     \* the worlds of a phase
    Census,     \* the world of a sweep that runs first
    Strays,     \* whether a process may leave its worker's group and live on
    MaxWrites   \* bound: entries put or removed outside a world

Phase == [does : {"hunt", "minimize", "confirm", "sweep"}, copy : Copies]

ASSUME ScratchAssumption ==
    /\ Plans \subseteq Seq(Phase) \ {<<>>}
    /\ Census \in Worlds
    /\ Strays \in BOOLEAN /\ MaxWrites \in Nat

\* In a tree: an entry the binding's digest counts, and one that only a
\* comparison entry by entry sees (a bytecode cache, an empty directory).
Kind == {"plain", "hidden"}

\* In a phase's directory: beside its worlds, or in one of them.
Spot == {"beside", "inside"}

VARIABLES
    plan, phase,    \* the phases, and the one that runs or comes next
    stage,          \* "between" phases, "running", "ended" (worlds back), "done"
    sources,        \* _Scratch.sources: what was recorded of the copies made so far
    finished,       \* _Scratch.finished: what was recorded of the finished phases
    active,         \* _Scratch.active
    tree,           \* what is in each copy
    litter,         \* what is in each phase's directory that no world of it left at its end
    extra,          \* an entry at the root
    world,          \* where each world of the running phase is
    before,         \* the tree as each world found it
    concluded,      \* every world of every phase so far completed
    outcome,        \* "none", "judged", "incomplete", or "raised"
    now, writes,    \* the clock; how many writes there were
    trespassed      \* history: a write hit another place than the phase's own copy

disk == <<tree, litter, extra, writes, trespassed>>
record == <<sources, finished, active>>
wave == <<world, before>>
vars == <<plan, phase, stage, record, disk, wave, concluded, outcome, now>>

Clean == [kind \in Kind |-> 0]
Empty == [spot \in Spot |-> 0]
Idle == [w \in Worlds |-> "waiting"]
Ticks == 0..(2 * Len(plan) + 1)

Place == {"waiting", "first", "second", "judged", "failed", "completed", "lost"}

TypeOK ==
    /\ plan \in Plans /\ phase \in 1..(Len(plan) + 1)
    /\ stage \in {"between", "running", "ended", "done"}
    /\ DOMAIN sources \subseteq Copies /\ sources \in [DOMAIN sources -> [Kind -> Ticks]]
    /\ finished \in [1..(phase - 1) -> [Spot -> Ticks]]
    /\ active \subseteq {phase}
    /\ tree \in [Copies -> [Kind -> Ticks]]
    /\ litter \in [1..Len(plan) -> [Spot -> Ticks]]
    /\ extra \in Ticks
    /\ world \in [Worlds -> Place] /\ before \in [Worlds -> [Kind -> Ticks]]
    /\ concluded \in BOOLEAN /\ outcome \in {"none", "judged", "incomplete", "raised"}
    /\ now \in Ticks /\ writes \in 0..MaxWrites /\ trespassed \in BOOLEAN

Extend(f, key, value) ==
    [k \in DOMAIN f \union {key} |-> IF k = key THEN value ELSE f[k]]

Init ==
    /\ plan \in Plans /\ phase = 1 /\ stage = "between"
    /\ sources = Extend(<<>>, plan[1].copy, Clean)
    /\ finished = <<>> /\ active = {}
    /\ tree = [c \in Copies |-> Clean]
    /\ litter = [i \in DOMAIN plan |-> Empty]
    /\ extra = 0
    /\ world = Idle /\ before = [w \in Worlds |-> Clean]
    /\ concluded = TRUE /\ outcome = "none"
    /\ now = 1 /\ writes = 0 /\ trespassed = FALSE

Does == plan[phase].does
Bound == plan[phase].copy
Raise == stage' = "done" /\ outcome' = "raised"

----------------------------------------------------------------------------
(* The command.                                                            *)

\* The next phase, on a copy that is made when it is first wanted.
StartPhase ==
    /\ stage = "between" /\ phase <= Len(plan)
    /\ \/ concluded
       \* A candidate that never reached the effect is still swept.
       \/ Does = "sweep" /\ Bound = "source-candidate"
    /\ stage' = "running"
    /\ sources' = IF Bound \in DOMAIN sources THEN sources ELSE Extend(sources, Bound, tree[Bound])
    /\ active' = active \union {phase}
    /\ world' = Idle /\ before' = [w \in Worlds |-> Clean]
    /\ UNCHANGED <<plan, phase, finished, disk, concluded, outcome, now>>

\* The run ends, at its last phase or before.
Publish ==
    /\ stage = "between" /\ phase > 1
    /\ stage' = "done"
    /\ outcome' = IF concluded /\ phase > Len(plan) THEN "judged" ELSE "incomplete"
    /\ UNCHANGED <<plan, phase, record, disk, wave, concluded, now>>

\* The worlds of a phase are threads, but a sweep's census runs alone and first.
MayStart(w) ==
    /\ world[w] = "waiting"
    /\ Does = "sweep" /\ w # Census => world[Census] = "completed"

\* _preflight compares the tree's digest with the binding's; the digest does
\* not count what is hidden.
StartWorld(w) ==
    /\ stage = "running" /\ MayStart(w)
    /\ world' = [world EXCEPT ![w] = IF tree[Bound]["plain"] = 0 THEN "first" ELSE "lost"]
    /\ before' = [before EXCEPT ![w] = tree[Bound]]
    /\ UNCHANGED <<plan, phase, stage, record, disk, concluded, outcome, now>>

\* An attempt looks at its tree between the kill and the redelivery; a world
\* without a kill does not.
Redeliver(w) ==
    /\ stage = "running" /\ world[w] = "first"
    /\ world' = [world EXCEPT ![w] =
          IF Does = "minimize" \/ (Does = "sweep" /\ w = Census) \/ tree[Bound] = before[w]
          THEN "second" ELSE "failed"]
    /\ UNCHANGED <<plan, phase, stage, record, disk, before, concluded, outcome, now>>

\* The last look at the tree.
Judge(w) ==
    /\ stage = "running" /\ world[w] = "second"
    /\ world' = [world EXCEPT ![w] =
          IF tree[Bound] = before[w] /\ tree[Bound]["plain"] = 0 THEN "judged" ELSE "failed"]
    /\ UNCHANGED <<plan, phase, stage, record, disk, before, concluded, outcome, now>>

\* A world may fail for any other reason.
Fail(w) ==
    /\ stage = "running" /\ world[w] \in {"first", "second"}
    /\ world' = [world EXCEPT ![w] = "failed"]
    /\ UNCHANGED <<plan, phase, stage, record, disk, before, concluded, outcome, now>>

\* The groups of its workers are killed, and the receipt is returned.
CleanUp(w) ==
    /\ stage = "running" /\ world[w] \in {"judged", "failed"}
    /\ world' = [world EXCEPT ![w] = IF world[w] = "judged" THEN "completed" ELSE "lost"]
    /\ UNCHANGED <<plan, phase, stage, record, disk, before, concluded, outcome, now>>

\* Nothing of the phase's worlds is left to wait for.
Back ==
    \/ \A w \in Worlds : world[w] \in {"completed", "lost"}
    \/ Does = "sweep" /\ world[Census] = "lost"

\* _require_scratch_untouched on the phase's directory, where it is called.
EndPhase ==
    /\ stage = "running" /\ Back
    /\ IF Does \in {"confirm", "sweep"} /\ litter[phase]["beside"] # 0
       THEN Raise /\ UNCHANGED <<concluded, now>>
       ELSE /\ stage' = "ended"
            /\ concluded' = (concluded /\ \A w \in Worlds : world[w] = "completed")
            /\ now' = now + 1
            /\ UNCHANGED outcome
    /\ UNCHANGED <<plan, phase, record, disk, wave>>

\* _Scratch.verify: the root, every copy but the bound one, every finished phase.
Untouched ==
    /\ extra = 0
    /\ \A c \in DOMAIN sources \ {Bound} : tree[c] = sources[c]
    /\ \A i \in DOMAIN finished : litter[i] = finished[i]

\* Fault: the phase is recorded, but neither its copy's new state nor that it is over.
SettleForgetsTheBound ==
    /\ stage = "ended"
    /\ IF Untouched
       THEN /\ stage' = "between" /\ phase' = phase + 1 /\ now' = now + 1
            /\ finished' = Extend(finished, phase, litter[phase])
            /\ UNCHANGED <<outcome, sources, active>>
       ELSE Raise /\ UNCHANGED <<phase, now, record>>
    /\ UNCHANGED <<plan, disk, wave, concluded>>

\* Fault: a phase is recorded, and what was recorded of others is not compared.
SettleComparesNothing ==
    /\ stage = "ended"
    /\ stage' = "between" /\ phase' = phase + 1 /\ now' = now + 1
    /\ sources' = [sources EXCEPT ![Bound] = tree[Bound]]
    /\ finished' = Extend(finished, phase, litter[phase])
    /\ active' = {}
    /\ UNCHANGED <<plan, disk, wave, concluded, outcome>>

Settle ==
    /\ stage = "ended"
    /\ IF Untouched
       THEN /\ stage' = "between" /\ phase' = phase + 1 /\ now' = now + 1
            /\ sources' = [sources EXCEPT ![Bound] = tree[Bound]]
            /\ finished' = Extend(finished, phase, litter[phase])
            /\ active' = {}
            /\ UNCHANGED outcome
       ELSE Raise /\ UNCHANGED <<phase, now, record>>
    /\ UNCHANGED <<plan, disk, wave, concluded>>

----------------------------------------------------------------------------
(* Whoever can write.                                                      *)

\* A worker or its group, from the start of its world to the cleanup; a process
\* that left its group, from then on.
SomeoneWrites ==
    /\ writes < MaxWrites /\ stage # "done"
    /\ \/ stage = "running" /\ \E w \in Worlds : world[w] \in {"first", "second", "judged", "failed"}
       \/ Strays /\ (phase > 1 \/ \E w \in Worlds : world[w] # "waiting")
    /\ writes' = writes + 1
    /\ UNCHANGED <<plan, phase, stage, record, wave, concluded, outcome, now>>

\* An entry is put, changed or removed.
Write ==
    /\ SomeoneWrites
    /\ \E value \in {0, now} :
          \/ \E c \in DOMAIN sources, kind \in Kind :
                /\ tree[c][kind] # value
                /\ tree' = [tree EXCEPT ![c][kind] = value]
                /\ trespassed' = (trespassed \/ phase > Len(plan) \/ c # Bound)
                /\ UNCHANGED <<litter, extra>>
          \* What a handler leaves in a world of the running phase is for that world to see.
          \/ \E i \in DOMAIN finished \union active, spot \in Spot :
                /\ i \in active => spot = "beside"
                /\ litter[i][spot] # value
                /\ litter' = [litter EXCEPT ![i][spot] = value]
                /\ trespassed' = TRUE /\ UNCHANGED <<tree, extra>>
          \/ /\ extra # value
             /\ extra' = value /\ trespassed' = TRUE /\ UNCHANGED <<tree, litter>>

Next ==
    \/ StartPhase \/ Publish \/ EndPhase \/ Settle \/ Write
    \/ \E w \in Worlds : StartWorld(w) \/ Redeliver(w) \/ Judge(w) \/ Fail(w) \/ CleanUp(w)

Spec == Init /\ [][Next]_vars
----------------------------------------------------------------------------
\* The phase whose worlds ran, or had just come back, when an entry was put.
PhaseAt(tick) == (tick + 1) \div 2

\* The last phase of the plan before n that ran on a copy.
LastOn(c, n) == CHOOSE i \in 1..(n - 1) :
    /\ plan[i].copy = c
    /\ \A j \in (i + 1)..(n - 1) : plan[j].copy # c

\* Once a phase is settled, what was put before and is still there is where
\* CrashCheck lets it be, and nowhere else: in a copy, put while that copy's own
\* phase ran, and if its digest counts it, with no completed phase on it since; in
\* a phase's directory, put before that phase was settled, and beside its worlds
\* only if it was late or if it was a hunt or a minimization, which do not look there.
OnlyTheseChannelsStayOpen ==
    stage = "between" \/ outcome \in {"judged", "incomplete"} =>
        /\ extra \in {0, now}
        /\ \A c \in DOMAIN sources, kind \in Kind :
              LET put == tree[c][kind]
              IN  put \notin {0, now} =>
                      /\ plan[PhaseAt(put)].copy = c
                      /\ concluded /\ kind = "plain" => PhaseAt(put) = LastOn(c, phase)
        /\ \A i \in DOMAIN finished, spot \in Spot :
              LET put == litter[i][spot]
              IN  put \notin {0, now} =>
                      /\ PhaseAt(put) = i
                      /\ spot = "beside" /\ plan[i].does \in {"confirm", "sweep"} => put = 2 * i

\* The run is stopped only over a write outside a world and outside the tree
\* that world was bound to; CrashCheck's own copies and directories, and what a
\* handler did to its own tree, never stop it.
RaisedOnlyForATrespass == outcome = "raised" => trespassed
=============================================================================
