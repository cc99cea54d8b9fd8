--------------------------- MODULE ScratchProofs ---------------------------
(***************************************************************************)
(* The scratch guard for any plan, any worlds, any number of writes.  It   *)
(* stops a run only over a write that trespassed: the clock follows the    *)
(* phases, and until the first trespass all that may differ from what was  *)
(* recorded is the tree the coming phase is bound to.  And what it lets    *)
(* pass stays where it is let be: whatever is on disk was put since the    *)
(* last phase was settled, or by the very phase whose place it is in.      *)
(***************************************************************************)
EXTENDS Scratch, TLAPS

----------------------------------------------------------------------------
(* The inductive invariant.                                                *)

\* The clock, and which phase is under way, at each stage.
ClockFollows ==
    /\ stage \in {"between", "running"} => now = 2 * phase - 1
    /\ stage = "ended" => now = 2 * phase
    /\ stage \in {"running", "ended"} => phase <= Len(plan) /\ Bound \in DOMAIN sources
    /\ stage = "between" => active = {}

\* Without a trespass everything is as it was recorded, and nothing was ever put
\* beside a copy or in a phase's directory.
Unspoiled ==
    ~trespassed =>
        /\ extra = 0
        /\ \A i \in DOMAIN plan : litter[i] = Empty
        /\ \A i \in DOMAIN finished : finished[i] = Empty
        /\ \A c \in DOMAIN sources : tree[c] = sources[c] \/ (phase <= Len(plan) /\ c = Bound)

IInv == TypeOK /\ ClockFollows /\ Unspoiled /\ RaisedOnlyForATrespass

----------------------------------------------------------------------------
(* The ends.                                                               *)

\* The phases of a plan, and the ticks its clock may show.
LEMMA PlanType ==
    ASSUME TypeOK
    PROVE  /\ plan \in Seq(Phase) /\ Len(plan) \in Nat \ {0} /\ DOMAIN plan = 1..Len(plan)
           /\ phase \in Nat \ {0} /\ now \in Nat /\ 0 \in Ticks
           /\ phase <= Len(plan) => Bound \in Copies
<1>1. plan \in Seq(Phase) /\ plan # <<>>
  BY ScratchAssumption DEF TypeOK
<1>2. Len(plan) \in Nat \ {0} /\ DOMAIN plan = 1..Len(plan)
  BY <1>1
<1>3. phase \in Nat \ {0} /\ now \in Nat /\ 0 \in Ticks
  BY <1>2 DEF TypeOK, Ticks
<1>4. ASSUME phase <= Len(plan) PROVE Bound \in Copies
  <2>1. plan[phase] \in Phase
    BY <1>1, <1>2, <1>3, <1>4
  <2> QED
    BY <2>1 DEF Bound, Phase
<1> QED
  BY <1>1, <1>2, <1>3, <1>4

LEMMA Initially == Init => IInv
<1> SUFFICES ASSUME Init PROVE IInv
  OBVIOUS
<1>1. plan \in Seq(Phase) /\ plan # <<>> /\ Len(plan) \in Nat \ {0} /\ DOMAIN plan = 1..Len(plan)
  BY ScratchAssumption DEF Init
<1>2. plan[1].copy \in Copies
  <2>1. plan[1] \in Phase
    BY <1>1
  <2> QED
    BY <2>1 DEF Phase
<1>3. 0 \in Ticks /\ 1 \in Ticks
  BY <1>1 DEF Ticks
<1>4. DOMAIN sources = {plan[1].copy} /\ sources = [c \in {plan[1].copy} |-> Clean]
  BY DEF Init, Extend
<1>5. Clean \in [Kind -> Ticks] /\ Empty \in [Spot -> Ticks]
  BY <1>3 DEF Clean, Empty
<1>6. sources \in [DOMAIN sources -> [Kind -> Ticks]] /\ DOMAIN sources \subseteq Copies
  BY <1>2, <1>4, <1>5
<1>7. finished \in [1..(phase - 1) -> [Spot -> Ticks]]
  BY DEF Init
<1>8. TypeOK
  <2>1. tree \in [Copies -> [Kind -> Ticks]] /\ litter \in [1..Len(plan) -> [Spot -> Ticks]]
    BY <1>1, <1>5 DEF Init
  <2>2. world \in [Worlds -> Place] /\ before \in [Worlds -> [Kind -> Ticks]]
    BY <1>5 DEF Init, Idle, Place
  <2> QED
    <3>1. now \in Ticks /\ extra \in Ticks /\ phase \in 1..(Len(plan) + 1) /\ writes \in 0..MaxWrites
      BY <1>1, <1>3, ScratchAssumption DEF Init
    <3> QED
      BY <3>1, <1>6, <1>7, <2>1, <2>2 DEF Init, TypeOK
<1>9. Unspoiled
  BY <1>1, <1>2, <1>4 DEF Init, Unspoiled
<1> QED
  BY <1>8, <1>9 DEF Init, IInv, ClockFollows, RaisedOnlyForATrespass

----------------------------------------------------------------------------
(* The steps.                                                              *)

\* A world moves: nothing on disk, in the records or of the phases changes.
WorldStep(w) == StartWorld(w) \/ Redeliver(w) \/ Judge(w) \/ Fail(w) \/ CleanUp(w)

LEMMA WorldMoves ==
    ASSUME IInv, NEW w \in Worlds, WorldStep(w)
    PROVE  IInv'
<1>1. UNCHANGED <<plan, phase, stage, record, disk, concluded, outcome, now>>
  BY DEF WorldStep, StartWorld, Redeliver, Judge, Fail, CleanUp
<1>2. world' \in [Worlds -> Place]
  BY DEF IInv, TypeOK, Place, WorldStep, StartWorld, Redeliver, Judge, Fail, CleanUp
<1>3. before' \in [Worlds -> [Kind -> Ticks]]
  <2>1. CASE StartWorld(w)
    <3>1. tree[Bound] \in [Kind -> Ticks]
      BY <2>1, PlanType DEF IInv, TypeOK, ClockFollows, StartWorld
    <3> QED
      BY <2>1, <3>1 DEF IInv, TypeOK, StartWorld
  <2>2. CASE ~StartWorld(w)
    BY <2>2 DEF IInv, TypeOK, WorldStep, Redeliver, Judge, Fail, CleanUp
  <2> QED
    BY <2>1, <2>2
<1>4. Ticks' = Ticks /\ Bound' = Bound
  BY <1>1 DEF Ticks, Bound
<1>5. TypeOK'
  BY <1>1, <1>2, <1>3, <1>4 DEF IInv, TypeOK, record, disk
<1> QED
  BY <1>1, <1>4, <1>5 DEF IInv, ClockFollows, Unspoiled, RaisedOnlyForATrespass, record, disk

LEMMA PhaseStarts == IInv /\ StartPhase => IInv'
<1> SUFFICES ASSUME IInv, StartPhase PROVE IInv'
  OBVIOUS
<1>1. UNCHANGED <<plan, phase, finished, disk, concluded, outcome, now>> /\ stage' = "running"
  BY DEF StartPhase
<1>2. Ticks' = Ticks /\ Bound' = Bound /\ Bound \in Copies
  BY <1>1, PlanType DEF Ticks, Bound, IInv, StartPhase
<1>3. tree[Bound] \in [Kind -> Ticks]
  BY <1>2 DEF IInv, TypeOK
<1>4. /\ DOMAIN sources' = DOMAIN sources \union {Bound}
      /\ \A c \in DOMAIN sources : sources'[c] = sources[c]
      /\ Bound \notin DOMAIN sources => sources'[Bound] = tree[Bound]
  BY DEF StartPhase, Extend
<1>5. sources' \in [DOMAIN sources' -> [Kind -> Ticks]]
  <2>1. CASE Bound \in DOMAIN sources
    BY <2>1 DEF StartPhase, IInv, TypeOK
  <2>2. CASE Bound \notin DOMAIN sources
    <3>1. \A c \in DOMAIN sources : sources[c] \in [Kind -> Ticks]
      BY DEF IInv, TypeOK
    <3>2. sources' = [c \in DOMAIN sources \union {Bound} |->
                         IF c = Bound THEN tree[Bound] ELSE sources[c]]
      BY <2>2 DEF StartPhase, Extend
    <3> QED
      BY <1>3, <3>1, <3>2
  <2> QED
    BY <2>1, <2>2
<1>6. world' \in [Worlds -> Place] /\ before' \in [Worlds -> [Kind -> Ticks]]
  <2>1. Clean \in [Kind -> Ticks]
    BY PlanType DEF IInv, Clean
  <2> QED
    BY <2>1 DEF StartPhase, Idle, Place
<1>7. active' = {phase}
  BY DEF StartPhase, IInv, ClockFollows
<1>8. TypeOK'
  BY <1>1, <1>2, <1>4, <1>5, <1>6, <1>7 DEF IInv, TypeOK, disk
<1>9. ClockFollows'
  BY <1>1, <1>2, <1>4 DEF IInv, ClockFollows, StartPhase
<1>10. Unspoiled'
  BY <1>1, <1>2, <1>4 DEF IInv, Unspoiled, StartPhase, disk
<1> QED
  BY <1>1, <1>8, <1>9, <1>10 DEF IInv, RaisedOnlyForATrespass, disk

LEMMA RunEnds == IInv /\ Publish => IInv'
<1> SUFFICES ASSUME IInv, Publish PROVE IInv'
  OBVIOUS
<1>1. Ticks' = Ticks /\ Bound' = Bound
  BY DEF Publish, Ticks, Bound
<1>2. TypeOK'
  BY <1>1 DEF IInv, TypeOK, Publish, record, disk, wave
<1> QED
  BY <1>1, <1>2 DEF IInv, ClockFollows, Unspoiled, RaisedOnlyForATrespass, Publish, record, disk

\* Only an entry beside the worlds stops a phase, and without a trespass there is none.
LEMMA PhaseEnds == IInv /\ EndPhase => IInv'
<1> SUFFICES ASSUME IInv, EndPhase PROVE IInv'
  OBVIOUS
<1>1. UNCHANGED <<plan, phase, record, disk, wave>> /\ Ticks' = Ticks /\ Bound' = Bound
  BY DEF EndPhase, Ticks, Bound
<1>2. Unspoiled'
  BY <1>1 DEF IInv, Unspoiled, record, disk
<1>3. phase \in DOMAIN plan /\ now = 2 * phase - 1
  BY PlanType DEF IInv, ClockFollows, EndPhase
<1>4. CASE stage' = "ended"
  <2>1. concluded' \in BOOLEAN /\ now' = now + 1 /\ outcome' = outcome
    BY <1>4 DEF EndPhase, Raise, IInv, TypeOK
  <2>2. now' = 2 * phase /\ now' \in Ticks
    BY <2>1, <1>3, PlanType DEF Ticks, IInv
  <2>3. TypeOK'
    BY <1>1, <1>4, <2>1, <2>2 DEF IInv, TypeOK, record, disk, wave
  <2>4. ClockFollows'
    BY <1>1, <1>4, <2>2 DEF IInv, ClockFollows, EndPhase, record
  <2> QED
    BY <1>1, <1>2, <2>1, <2>3, <2>4 DEF IInv, RaisedOnlyForATrespass, disk
<1>5. CASE stage' # "ended"
  <2>1. Raise /\ litter[phase]["beside"] # 0 /\ UNCHANGED <<concluded, now>>
    BY <1>5 DEF EndPhase
  <2>2. trespassed
    BY <1>3, <2>1 DEF IInv, Unspoiled, Empty, Spot
  <2>3. TypeOK'
    BY <1>1, <2>1 DEF IInv, TypeOK, Raise, record, disk, wave
  <2> QED
    BY <1>1, <1>2, <2>1, <2>2, <2>3
       DEF IInv, ClockFollows, RaisedOnlyForATrespass, Raise, disk
<1> QED
  BY <1>4, <1>5

\* Without a trespass the comparison finds everything as it was recorded.
LEMMA PhaseSettles == IInv /\ Settle => IInv'
<1> SUFFICES ASSUME IInv, Settle PROVE IInv'
  OBVIOUS
<1>1. UNCHANGED <<plan, disk, wave, concluded>> /\ Ticks' = Ticks
  BY DEF Settle, Ticks
<1>2. /\ phase \in DOMAIN plan /\ phase \in Nat \ {0} /\ phase <= Len(plan) /\ now = 2 * phase
      /\ Len(plan) \in Nat /\ Bound \in DOMAIN sources /\ Bound \in Copies
  BY PlanType DEF IInv, ClockFollows, Settle
<1>3. DOMAIN finished = 1..(phase - 1)
  BY DEF IInv, TypeOK
<1>4. CASE Untouched
  <2>1. /\ stage' = "between" /\ phase' = phase + 1 /\ now' = now + 1
        /\ sources' = [sources EXCEPT ![Bound] = tree[Bound]]
        /\ finished' = Extend(finished, phase, litter[phase])
        /\ active' = {} /\ outcome' = outcome
    BY <1>4 DEF Settle
  <2>2. phase' \in 1..(Len(plan) + 1) /\ now' \in Ticks /\ now' = 2 * phase' - 1
    BY <1>2, <2>1 DEF Ticks
  <2>3. sources' \in [DOMAIN sources' -> [Kind -> Ticks]] /\ DOMAIN sources' = DOMAIN sources
    BY <1>2, <2>1 DEF IInv, TypeOK
  <2>4. /\ DOMAIN finished' = 1..(phase' - 1)
        /\ finished'[phase] = litter[phase]
        /\ \A i \in 1..(phase - 1) : finished'[i] = finished[i]
    BY <1>2, <1>3, <2>1 DEF Extend
  <2>5. finished' \in [1..(phase' - 1) -> [Spot -> Ticks]]
    <3>1. litter[phase] \in [Spot -> Ticks]
      BY <1>2 DEF IInv, TypeOK
    <3>2. \A i \in 1..(phase - 1) : finished[i] \in [Spot -> Ticks]
      BY DEF IInv, TypeOK
    <3>3. \A i \in 1..(phase' - 1) : i = phase \/ i \in 1..(phase - 1)
      BY <1>2, <2>1
    <3>4. \A i \in 1..(phase' - 1) : finished'[i] \in [Spot -> Ticks]
      BY <2>4, <3>1, <3>2, <3>3
    <3>5. finished' = [i \in DOMAIN finished' |-> finished'[i]]
      BY <2>1 DEF Extend
    <3> QED
      BY <2>4, <3>4, <3>5
  <2>6. TypeOK'
    BY <1>1, <2>1, <2>2, <2>3, <2>5 DEF IInv, TypeOK, disk, wave
  <2>7. Unspoiled'
    <3>1. SUFFICES ASSUME ~trespassed
                   PROVE  /\ \A i \in DOMAIN finished' : finished'[i] = Empty
                          /\ \A c \in DOMAIN sources' : tree[c] = sources'[c]
      BY <1>1 DEF IInv, Unspoiled, disk
    <3>2. \A i \in DOMAIN finished' : i = phase \/ i \in DOMAIN finished
      BY <1>2, <1>3, <2>1, <2>4
    <3>3. \A i \in DOMAIN finished' : finished'[i] = Empty
      BY <1>2, <1>3, <2>4, <3>1, <3>2 DEF IInv, Unspoiled
    <3>4. \A c \in DOMAIN sources : tree[c] = sources'[c]
      BY <1>2, <2>1, <3>1 DEF IInv, Unspoiled
    <3> QED
      BY <2>3, <3>3, <3>4
  <2> QED
    BY <1>1, <2>1, <2>2, <2>6, <2>7 DEF IInv, ClockFollows, RaisedOnlyForATrespass, disk
<1>5. CASE ~Untouched
  <2>1. Raise /\ UNCHANGED <<phase, now, record>> /\ Bound' = Bound
    BY <1>1, <1>5 DEF Settle, Bound
  <2>2. trespassed
    <3>1. SUFFICES ASSUME ~trespassed PROVE Untouched
      BY <1>5
    <3>2. \A i \in DOMAIN finished : litter[i] = finished[i]
      BY <1>2, <1>3, <3>1, PlanType DEF IInv, Unspoiled
    <3> QED
      BY <3>1, <3>2 DEF IInv, Unspoiled, Untouched
  <2>3. TypeOK'
    BY <1>1, <2>1 DEF IInv, TypeOK, Raise, record, disk, wave
  <2> QED
    BY <1>1, <2>1, <2>2, <2>3
       DEF IInv, ClockFollows, Unspoiled, RaisedOnlyForATrespass, Raise, record, disk
<1> QED
  BY <1>4, <1>5

\* A write that is no trespass is to the tree of the coming phase.
LEMMA SomethingIsWritten == IInv /\ Write => IInv'
<1> SUFFICES ASSUME IInv, Write PROVE IInv'
  OBVIOUS
<1>1. UNCHANGED <<plan, phase, stage, record, wave, concluded, outcome, now>> /\ stage # "done"
  BY DEF Write, SomeoneWrites
<1>2. Ticks' = Ticks /\ Bound' = Bound
  BY <1>1 DEF Ticks, Bound
<1>3. writes' \in 0..MaxWrites
  BY ScratchAssumption DEF Write, SomeoneWrites, IInv, TypeOK
<1>4. PICK value \in {0, now} :
          \/ \E c \in DOMAIN sources, kind \in Kind :
                /\ tree' = [tree EXCEPT ![c][kind] = value]
                /\ trespassed' = (trespassed \/ phase > Len(plan) \/ c # Bound)
                /\ UNCHANGED <<litter, extra>>
          \/ \E i \in DOMAIN finished \union active, spot \in Spot :
                /\ litter' = [litter EXCEPT ![i][spot] = value]
                /\ trespassed' = TRUE /\ UNCHANGED <<tree, extra>>
          \/ extra' = value /\ trespassed' = TRUE /\ UNCHANGED <<tree, litter>>
  BY DEF Write
<1>5. value \in Ticks
  BY <1>4, PlanType DEF IInv, TypeOK
<1>6. /\ tree' \in [Copies -> [Kind -> Ticks]] /\ litter' \in [1..Len(plan) -> [Spot -> Ticks]]
      /\ extra' \in Ticks /\ trespassed' \in BOOLEAN
  <2>1. /\ tree \in [Copies -> [Kind -> Ticks]] /\ litter \in [1..Len(plan) -> [Spot -> Ticks]]
        /\ extra \in Ticks
    BY DEF IInv, TypeOK
  <2>2. tree' \in [Copies -> [Kind -> Ticks]]
    BY <1>4, <1>5, <2>1
  <2>3. litter' \in [1..Len(plan) -> [Spot -> Ticks]]
    BY <1>4, <1>5, <2>1
  <2>4. extra' \in Ticks
    BY <1>4, <1>5, <2>1
  <2>5. trespassed' \in BOOLEAN
    BY <1>4, Zenon
  <2> QED
    BY <2>2, <2>3, <2>4, <2>5
<1>7. TypeOK'
  BY <1>1, <1>2, <1>3, <1>6 DEF IInv, TypeOK, record, wave
<1>8. Unspoiled'
  <2>1. SUFFICES ASSUME ~trespassed'
                 PROVE  /\ extra' = 0
                        /\ \A i \in DOMAIN plan : litter'[i] = Empty
                        /\ \A i \in DOMAIN finished : finished[i] = Empty
                        /\ \A c \in DOMAIN sources :
                              tree'[c] = sources[c] \/ (phase <= Len(plan) /\ c = Bound)
    BY <1>1, <1>2 DEF Unspoiled, record
  <2>2. PICK kind \in Kind :
            /\ tree' = [tree EXCEPT ![Bound][kind] = value]
            /\ ~trespassed /\ ~(phase > Len(plan)) /\ UNCHANGED <<litter, extra>>
    BY <1>4, <2>1
  <2>3. phase <= Len(plan)
    BY <2>2, PlanType DEF IInv
  <2>4. \A c \in DOMAIN sources : c # Bound => tree'[c] = tree[c]
    BY <2>2 DEF IInv, TypeOK
  <2> QED
    BY <2>2, <2>3, <2>4 DEF IInv, Unspoiled
<1>9. trespassed => trespassed'
  BY <1>4
<1> QED
  BY <1>1, <1>2, <1>7, <1>8, <1>9 DEF IInv, ClockFollows, RaisedOnlyForATrespass, record

----------------------------------------------------------------------------
(* The theorems.                                                           *)

\* Every state of every run satisfies the invariant.
THEOREM InvariantHolds == Spec => []IInv
<1>1. IInv /\ [Next]_vars => IInv'
  <2> SUFFICES ASSUME IInv, [Next]_vars PROVE IInv'
    OBVIOUS
  <2>1. CASE UNCHANGED vars
    <3>1. Ticks' = Ticks /\ Bound' = Bound
      BY <2>1 DEF vars, Ticks, Bound
    <3> QED
      BY <2>1, <3>1 DEF vars, record, disk, wave, IInv, TypeOK, ClockFollows, Unspoiled,
         RaisedOnlyForATrespass
  <2>2. CASE Next
    BY <2>2, PhaseStarts, RunEnds, PhaseEnds, PhaseSettles, SomethingIsWritten, WorldMoves
       DEF Next, WorldStep
  <2> QED
    BY <2>1, <2>2
<1> QED
  BY <1>1, Initially, PTL DEF Spec

\* The records of the copies and of the phases keep their types, and the clock its range.
THEOREM TypeCorrect == Spec => []TypeOK
<1>1. IInv => TypeOK
  BY DEF IInv
<1> QED
  BY <1>1, InvariantHolds, PTL

\* Whatever the plan, the guard never stops a run whose handlers wrote nothing but
\* the tree their phase was bound to: its own copies and recordings never trip it.
THEOREM TheGuardAccusesJustly == Spec => []RaisedOnlyForATrespass
<1>1. IInv => RaisedOnlyForATrespass
  BY DEF IInv
<1> QED
  BY <1>1, InvariantHolds, PTL

----------------------------------------------------------------------------
(* What stays open: the inductive invariant.                               *)

\* The runs and moments the property speaks of.
Settled == stage = "between" \/ outcome \in {"judged", "incomplete"}

\* An entry that was put since the last phase was settled.
Fresh(put) == put \in (2 * phase - 1)..now

\* An entry of a copy that its own phase put, and that no completed phase on it
\* would have met if the digest counts it.
KeptIn(c, kind, put) ==
    put # 0 =>
        /\ PhaseAt(put) \in 1..(phase - 1) /\ plan[PhaseAt(put)].copy = c
        /\ concluded /\ kind = "plain" =>
              \A j \in (PhaseAt(put) + 1)..(phase - 1) : plan[j].copy # c

\* An entry of a phase's directory that was there when the phase was recorded.
KeptBeside(i, spot, put) ==
    put # 0 =>
        /\ PhaseAt(put) = i
        /\ spot = "beside" /\ plan[i].does \in {"confirm", "sweep"} => put = 2 * i

\* No run goes on with an outcome, and a settled one stands before a phase.
OutcomeEnds ==
    /\ stage # "done" => outcome = "none"
    /\ Settled => now = 2 * phase - 1 /\ extra \in {0, now} /\ active = {}

\* What is not made yet is bare.
Unmade ==
    /\ \A c \in Copies \ DOMAIN sources : tree[c] = Clean
    /\ \A i \in (phase..Len(plan)) \ active : litter[i] = Empty

\* What was recorded was kept where it is let be.
RecordsAreKept ==
    /\ \A c \in DOMAIN sources, kind \in Kind : KeptIn(c, kind, sources[c][kind])
    /\ \A i \in DOMAIN finished, spot \in Spot : KeptBeside(i, spot, finished[i][spot])

\* What is there was kept, or is fresh.
KeptOrFresh ==
    /\ \A c \in DOMAIN sources, kind \in Kind :
          KeptIn(c, kind, tree[c][kind]) \/ Fresh(tree[c][kind])
    /\ \A i \in DOMAIN finished, spot \in Spot :
          KeptBeside(i, spot, litter[i][spot]) \/ Fresh(litter[i][spot])
    /\ \A i \in active, spot \in Spot : litter[i][spot] = 0 \/ Fresh(litter[i][spot])

\* A completed world found no entry the digest counts, and a phase that looks
\* beside its worlds found none there.
PhaseHasLooked ==
    /\ stage \in {"running", "ended"} /\ (\E w \in Worlds : world[w] \in {"judged", "completed"}) =>
          tree[Bound]["plain"] = 0 \/ Fresh(tree[Bound]["plain"])
    /\ stage \in {"running", "ended"} => active = {phase}
    /\ stage = "ended" =>
          /\ concluded => world[Census] = "completed"
          /\ Does \in {"confirm", "sweep"} => litter[phase]["beside"] \in {0, now}

OpenInv ==
    OutcomeEnds /\ Unmade /\ RecordsAreKept /\ KeptOrFresh /\ PhaseHasLooked

----------------------------------------------------------------------------
(* What stays open: the steps.                                             *)

\* Both moments of a phase are told to be its own.
LEMMA TicksOfAPhase ==
    \A p \in Nat \ {0}, put \in Nat : put \in (2 * p - 1)..(2 * p) => PhaseAt(put) = p
<1> SUFFICES ASSUME NEW p \in Nat \ {0}, NEW put \in Nat, put \in (2 * p - 1)..(2 * p)
             PROVE  PhaseAt(put) = p
  OBVIOUS
<1>1. put = 2 * p - 1 \/ put = 2 * p
  OBVIOUS
<1> QED
  BY <1>1 DEF PhaseAt

LEMMA OpenAtFirst == Init => OpenInv
<1> SUFFICES ASSUME Init PROVE OpenInv
  OBVIOUS
<1>1. /\ tree = [c \in Copies |-> Clean] /\ litter = [i \in DOMAIN plan |-> Empty]
      /\ sources = [c \in {plan[1].copy} |-> Clean] /\ finished = <<>> /\ active = {}
      /\ stage = "between" /\ outcome = "none" /\ now = 1 /\ phase = 1 /\ extra = 0
  BY DEF Init, Extend
<1>2. plan \in Seq(Phase) /\ plan # <<>>
  BY ScratchAssumption DEF Init
<1>3. plan[1].copy \in Copies /\ DOMAIN plan = 1..Len(plan)
  <2>1. plan[1] \in Phase
    BY <1>2
  <2> QED
    BY <2>1, <1>2 DEF Phase
<1>4. \A kind \in Kind : Clean[kind] = 0
  BY DEF Clean
<1>5. RecordsAreKept
  BY <1>1, <1>4 DEF RecordsAreKept, KeptIn
<1>6. KeptOrFresh
  BY <1>1, <1>3, <1>4 DEF KeptOrFresh, KeptIn
<1> QED
  BY <1>1, <1>3, <1>5, <1>6 DEF OpenInv, OutcomeEnds, Unmade, PhaseHasLooked

\* What is kept and what is fresh depends on the disk, the records and the place in the plan.
LEMMA OpenFrame ==
    ASSUME OpenInv,
           UNCHANGED <<plan, phase, record, tree, litter, extra, concluded, now>>
    PROVE  Unmade' /\ RecordsAreKept' /\ KeptOrFresh'
BY DEF OpenInv, Unmade, RecordsAreKept, KeptOrFresh, KeptIn, KeptBeside, Fresh, record

LEMMA WorldMovesOpen ==
    ASSUME IInv, OpenInv, NEW w \in Worlds, WorldStep(w)
    PROVE  OpenInv'
<1>1. UNCHANGED <<plan, phase, stage, record, disk, concluded, outcome, now>> /\ stage = "running"
  BY DEF WorldStep, StartWorld, Redeliver, Judge, Fail, CleanUp
<1>2. Unmade' /\ RecordsAreKept' /\ KeptOrFresh'
  BY <1>1, OpenFrame DEF disk
<1>3. OutcomeEnds'
  BY <1>1 DEF OpenInv, OutcomeEnds, Settled, record, disk
<1>4. PhaseHasLooked'
  <2>1. world \in [Worlds -> Place]
    BY DEF IInv, TypeOK
  <2>2. SUFFICES ASSUME NEW v \in Worlds, world'[v] \in {"judged", "completed"}
                 PROVE  tree[Bound]["plain"] = 0 \/ Fresh(tree[Bound]["plain"])
    BY <1>1 DEF PhaseHasLooked, OpenInv, Fresh, Bound, record, disk
  <2>3. world[v] \in {"judged", "completed"} \/ tree[Bound]["plain"] = 0
    BY <2>1, <2>2 DEF WorldStep, StartWorld, Redeliver, Judge, Fail, CleanUp
  <2> QED
    BY <1>1, <2>3 DEF OpenInv, PhaseHasLooked
<1> QED
  BY <1>2, <1>3, <1>4 DEF OpenInv

\* A copy that is made now has nothing in it, and so has the phase's directory.
LEMMA PhaseStartsOpen == IInv /\ OpenInv /\ StartPhase => OpenInv'
<1> SUFFICES ASSUME IInv, OpenInv, StartPhase PROVE OpenInv'
  OBVIOUS
<1>1. UNCHANGED <<plan, phase, finished, disk, concluded, outcome, now>> /\ stage' = "running"
  BY DEF StartPhase
<1>2. phase \in 1..Len(plan) /\ Bound \in Copies /\ Bound' = Bound
  BY <1>1, PlanType DEF Bound, IInv, StartPhase, TypeOK
<1>3. stage = "between" /\ active = {} /\ active' = {phase}
  BY DEF StartPhase, OpenInv, OutcomeEnds, Settled
<1>4. /\ DOMAIN sources' = DOMAIN sources \union {Bound}
      /\ \A c \in DOMAIN sources : sources'[c] = sources[c]
      /\ Bound \notin DOMAIN sources => sources'[Bound] = Clean /\ tree[Bound] = Clean
  BY <1>2 DEF StartPhase, Extend, OpenInv, Unmade
<1>5. litter[phase] = Empty
  BY <1>2, <1>3, PlanType DEF OpenInv, Unmade, IInv
<1>6. OutcomeEnds'
  BY <1>1, <1>3 DEF OpenInv, OutcomeEnds, Settled
<1>7. Unmade'
  BY <1>1, <1>3, <1>4 DEF OpenInv, Unmade, disk
<1>8. \A kind \in Kind : Clean[kind] = 0
  BY DEF Clean
<1>9. RecordsAreKept'
  <2>1. ASSUME NEW c \in DOMAIN sources', NEW kind \in Kind
        PROVE  KeptIn(c, kind, sources[c][kind])'
    BY <1>1, <1>4, <1>8 DEF OpenInv, RecordsAreKept, KeptIn
  <2>2. ASSUME NEW i \in DOMAIN finished, NEW spot \in Spot
        PROVE  KeptBeside(i, spot, finished[i][spot])'
    BY <1>1 DEF OpenInv, RecordsAreKept, KeptBeside
  <2> QED
    BY <1>1, <2>1, <2>2 DEF RecordsAreKept
<1>10. KeptOrFresh'
  <2>1. ASSUME NEW c \in DOMAIN sources', NEW kind \in Kind
        PROVE  (KeptIn(c, kind, tree[c][kind]) \/ Fresh(tree[c][kind]))'
    BY <1>1, <1>4, <1>8 DEF OpenInv, KeptOrFresh, KeptIn, Fresh, disk
  <2>2. ASSUME NEW i \in DOMAIN finished, NEW spot \in Spot
        PROVE  (KeptBeside(i, spot, litter[i][spot]) \/ Fresh(litter[i][spot]))'
    BY <1>1 DEF OpenInv, KeptOrFresh, KeptBeside, Fresh, disk
  <2>3. \A i \in active', spot \in Spot : litter[i][spot] = 0
    BY <1>3, <1>5 DEF Empty
  <2> QED
    BY <1>1, <2>1, <2>2, <2>3 DEF KeptOrFresh, disk
<1>11. PhaseHasLooked'
  <2>1. \A w \in Worlds : world'[w] = "waiting"
    BY DEF StartPhase, Idle
  <2> QED
    BY <1>1, <1>3, <2>1 DEF PhaseHasLooked
<1> QED
  BY <1>6, <1>7, <1>9, <1>10, <1>11 DEF OpenInv

LEMMA RunEndsOpen == IInv /\ OpenInv /\ Publish => OpenInv'
<1> SUFFICES ASSUME IInv, OpenInv, Publish PROVE OpenInv'
  OBVIOUS
<1>1. UNCHANGED <<plan, phase, record, disk, wave, concluded, now>> /\ stage' = "done"
  BY DEF Publish
<1>2. Unmade' /\ RecordsAreKept' /\ KeptOrFresh'
  BY <1>1, OpenFrame DEF disk
<1>3. OutcomeEnds' /\ PhaseHasLooked'
  BY <1>1 DEF OpenInv, OutcomeEnds, Settled, PhaseHasLooked, Publish, record, disk
<1> QED
  BY <1>2, <1>3 DEF OpenInv

\* A phase that looks beside its worlds goes on only if nothing is there; a phase
\* that ends conclusively ends with a completed world.
LEMMA PhaseEndsOpen == IInv /\ OpenInv /\ EndPhase => OpenInv'
<1> SUFFICES ASSUME IInv, OpenInv, EndPhase PROVE OpenInv'
  OBVIOUS
<1>1. UNCHANGED <<plan, phase, record, disk, wave>> /\ Bound' = Bound /\ Does' = Does
  BY DEF EndPhase, Bound, Does
<1>2. phase \in Nat \ {0} /\ now = 2 * phase - 1 /\ active = {phase} /\ outcome = "none"
  BY PlanType DEF IInv, ClockFollows, EndPhase, OpenInv, PhaseHasLooked, OutcomeEnds
<1>3. CASE stage' = "ended"
  <2>1. /\ now' = now + 1 /\ outcome' = outcome
        /\ concluded' = (concluded /\ \A w \in Worlds : world[w] = "completed")
        /\ ~(Does \in {"confirm", "sweep"} /\ litter[phase]["beside"] # 0)
    BY <1>3 DEF EndPhase, Raise
  <2>2. \A put : Fresh(put) => Fresh(put)'
    BY <1>1, <1>2, <2>1 DEF Fresh
  <2>3. \A c, kind, put : KeptIn(c, kind, put) => KeptIn(c, kind, put)'
    BY <1>1, <2>1 DEF KeptIn
  <2>4. \A i, spot, put : KeptBeside(i, spot, put) => KeptBeside(i, spot, put)'
    BY <1>1 DEF KeptBeside
  <2>5. RecordsAreKept'
    BY <1>1, <2>3, <2>4 DEF OpenInv, RecordsAreKept, record
  <2>6. KeptOrFresh'
    BY <1>1, <2>2, <2>3, <2>4 DEF OpenInv, KeptOrFresh, record, disk
  <2>7. OutcomeEnds' /\ Unmade'
    BY <1>1, <1>2, <1>3, <2>1 DEF OpenInv, OutcomeEnds, Settled, Unmade, record, disk
  <2>8. PhaseHasLooked'
    <3>1. concluded' => world[Census] = "completed"
      BY <2>1, ScratchAssumption
    <3>2. ASSUME \E w \in Worlds : world[w] \in {"judged", "completed"}
          PROVE  tree[Bound]["plain"] = 0 \/ Fresh(tree[Bound]["plain"])'
      BY <1>1, <1>2, <2>1, <3>2 DEF OpenInv, PhaseHasLooked, EndPhase, Fresh, disk
    <3> QED
      BY <1>1, <1>2, <1>3, <2>1, <3>1, <3>2 DEF PhaseHasLooked, record, disk, wave
  <2> QED
    BY <2>5, <2>6, <2>7, <2>8 DEF OpenInv
<1>4. CASE stage' # "ended"
  <2>1. stage' = "done" /\ outcome' = "raised" /\ UNCHANGED <<concluded, now>>
    BY <1>4 DEF EndPhase, Raise
  <2>2. Unmade' /\ RecordsAreKept' /\ KeptOrFresh'
    BY <1>1, <2>1, OpenFrame DEF disk
  <2> QED
    BY <2>1, <2>2 DEF OpenInv, OutcomeEnds, Settled, PhaseHasLooked
<1> QED
  BY <1>3, <1>4

\* What was kept in another copy is kept still; what is fresh in the bound copy is
\* of the phase that is over, and what the digest counts there is fresh if that
\* phase was conclusive.
LEMMA PhaseSettlesOpen == IInv /\ OpenInv /\ Settle => OpenInv'
<1> SUFFICES ASSUME IInv, OpenInv, Settle PROVE OpenInv'
  OBVIOUS
<1>1. UNCHANGED <<plan, disk, wave, concluded>> /\ stage = "ended" /\ outcome = "none"
  BY DEF Settle, OpenInv, OutcomeEnds
<1>2. /\ phase \in Nat \ {0} /\ phase <= Len(plan) /\ now = 2 * phase /\ active = {phase}
      /\ Bound \in DOMAIN sources /\ Len(plan) \in Nat
  BY <1>1, PlanType DEF IInv, ClockFollows, OpenInv, PhaseHasLooked
<1>3. DOMAIN finished = 1..(phase - 1)
  BY DEF IInv, TypeOK
<1>4. \A put : Fresh(put) => PhaseAt(put) = phase
  BY <1>2, TicksOfAPhase DEF Fresh
<1>5. CASE Untouched
  <2>1. /\ stage' = "between" /\ phase' = phase + 1 /\ now' = now + 1
        /\ sources' = [sources EXCEPT ![Bound] = tree[Bound]]
        /\ finished' = Extend(finished, phase, litter[phase])
        /\ active' = {} /\ outcome' = outcome
    BY <1>5 DEF Settle
  <2>2. /\ DOMAIN sources' = DOMAIN sources /\ sources'[Bound] = tree[Bound]
        /\ \A c \in DOMAIN sources \ {Bound} : sources'[c] = sources[c] /\ tree[c] = sources[c]
    BY <1>2, <1>5, <2>1 DEF IInv, TypeOK, Untouched
  <2>3. /\ DOMAIN finished' = 1..phase /\ finished'[phase] = litter[phase]
        /\ \A i \in 1..(phase - 1) : finished'[i] = finished[i] /\ litter[i] = finished[i]
    BY <1>2, <1>3, <1>5, <2>1 DEF Extend, Untouched
  <2>4. ASSUME NEW c \in DOMAIN sources, NEW kind \in Kind
        PROVE  /\ KeptIn(c, kind, tree[c][kind])'
               /\ sources'[c] = tree[c]
    <3>1. CASE c # Bound
      <4>1. KeptIn(c, kind, tree[c][kind]) /\ sources'[c] = tree[c]
        BY <2>2, <3>1 DEF OpenInv, RecordsAreKept
      <4>2. plan[phase].copy # c
        BY <3>1 DEF Bound
      <4> QED
        BY <1>1, <1>2, <2>1, <4>1, <4>2 DEF KeptIn, disk
    <3>2. CASE c = Bound
      <4>1. CASE Fresh(tree[c][kind])
        BY <1>1, <1>2, <1>4, <2>1, <2>2, <3>2, <4>1 DEF KeptIn, Bound, disk
      <4>2. CASE ~Fresh(tree[c][kind])
        <5>1. KeptIn(c, kind, tree[c][kind])
          BY <4>2 DEF OpenInv, KeptOrFresh
        <5>2. concluded /\ kind = "plain" => tree[c][kind] = 0
          BY <1>1, <3>2, <4>2, ScratchAssumption DEF OpenInv, PhaseHasLooked
        <5> QED
          BY <1>1, <1>2, <2>1, <2>2, <3>2, <5>1, <5>2 DEF KeptIn, disk
      <4> QED
        BY <4>1, <4>2
    <3> QED
      BY <3>1, <3>2
  <2>5. ASSUME NEW i \in 1..phase, NEW spot \in Spot
        PROVE  /\ KeptBeside(i, spot, litter[i][spot])'
               /\ finished'[i] = litter[i]
    <3>1. CASE i # phase
      BY <1>1, <1>2, <1>3, <2>3, <3>1 DEF OpenInv, RecordsAreKept, KeptBeside, disk
    <3>2. CASE i = phase
      <4>1. litter[i][spot] = 0 \/ Fresh(litter[i][spot])
        BY <1>2, <3>2 DEF OpenInv, KeptOrFresh
      <4>2. spot = "beside" /\ plan[i].does \in {"confirm", "sweep"} =>
               litter[i][spot] \in {0, 2 * i}
        BY <1>1, <1>2, <3>2 DEF OpenInv, PhaseHasLooked, Does
      <4> QED
        BY <1>1, <1>4, <2>3, <3>2, <4>1, <4>2 DEF KeptBeside, disk
    <3> QED
      BY <3>1, <3>2
  <2>6. RecordsAreKept'
    <3>1. ASSUME NEW c \in DOMAIN sources, NEW kind \in Kind
          PROVE  KeptIn(c, kind, sources[c][kind])'
      BY <1>1, <2>4 DEF KeptIn, disk
    <3>2. ASSUME NEW i \in 1..phase, NEW spot \in Spot
          PROVE  KeptBeside(i, spot, finished[i][spot])'
      BY <1>1, <2>5 DEF KeptBeside, disk
    <3> QED
      BY <2>2, <2>3, <3>1, <3>2 DEF RecordsAreKept
  <2>7. KeptOrFresh'
    BY <2>1, <2>2, <2>3, <2>4, <2>5 DEF KeptOrFresh
  <2>8. OutcomeEnds'
    BY <1>1, <1>2, <1>5, <2>1 DEF OutcomeEnds, Settled, Untouched, disk
  <2>9. Unmade'
    <3>1. \A i \in (phase + 1)..Len(plan) : i \in (phase..Len(plan)) \ active
      BY <1>2
    <3> QED
      BY <1>1, <2>1, <2>2, <3>1 DEF OpenInv, Unmade, disk
  <2> QED
    BY <2>1, <2>6, <2>7, <2>8, <2>9 DEF OpenInv, PhaseHasLooked
<1>6. CASE ~Untouched
  <2>1. stage' = "done" /\ outcome' = "raised" /\ UNCHANGED <<phase, now, record>>
    BY <1>6 DEF Settle, Raise
  <2>2. Unmade' /\ RecordsAreKept' /\ KeptOrFresh'
    BY <1>1, <2>1, OpenFrame DEF disk
  <2> QED
    BY <2>1, <2>2 DEF OpenInv, OutcomeEnds, Settled, PhaseHasLooked
<1> QED
  BY <1>5, <1>6

\* Whatever is written is fresh, and whatever is removed is not there.
LEMMA SomethingIsWrittenOpen == IInv /\ OpenInv /\ Write => OpenInv'
<1> SUFFICES ASSUME IInv, OpenInv, Write PROVE OpenInv'
  OBVIOUS
<1>1. UNCHANGED <<plan, phase, stage, record, wave, concluded, outcome, now>> /\ stage # "done"
  BY DEF Write, SomeoneWrites
<1>2. PICK value \in {0, now} :
          \/ \E c \in DOMAIN sources, kind \in Kind :
                /\ tree' = [tree EXCEPT ![c][kind] = value]
                /\ UNCHANGED <<litter, extra>>
          \/ \E i \in DOMAIN finished \union active, spot \in Spot :
                /\ litter' = [litter EXCEPT ![i][spot] = value]
                /\ UNCHANGED <<tree, extra>>
          \/ extra' = value /\ UNCHANGED <<tree, litter>>
  BY DEF Write
<1>3. phase \in Nat \ {0} /\ now \in Nat /\ (now = 2 * phase - 1 \/ now = 2 * phase)
  BY <1>1, PlanType DEF IInv, ClockFollows, TypeOK
<1>4. value = 0 \/ Fresh(value)
  BY <1>2, <1>3 DEF Fresh
<1>5. outcome = "none" /\ (Settled => now = 2 * phase - 1 /\ extra \in {0, now} /\ active = {})
  BY <1>1 DEF OpenInv, OutcomeEnds
<1>6. tree \in [Copies -> [Kind -> Ticks]] /\ litter \in [1..Len(plan) -> [Spot -> Ticks]]
  BY DEF IInv, TypeOK
<1>7. DOMAIN finished = 1..(phase - 1) /\ active \subseteq {phase}
  BY DEF IInv, TypeOK
<1>8. /\ \A c \in Copies \ DOMAIN sources : tree'[c] = tree[c]
      /\ \A c \in DOMAIN sources, kind \in Kind :
            tree'[c][kind] \in {tree[c][kind], value}
  BY <1>2, <1>6 DEF IInv, TypeOK
<1>9. /\ \A i \in (phase..Len(plan)) \ active : litter'[i] = litter[i]
      /\ \A i \in 1..Len(plan), spot \in Spot : litter'[i][spot] \in {litter[i][spot], value}
  BY <1>2, <1>3, <1>6, <1>7
<1>10. extra' \in {extra, value}
  BY <1>2
<1>11. OutcomeEnds'
  BY <1>1, <1>2, <1>5, <1>10 DEF OutcomeEnds, Settled, record
<1>12. Unmade'
  BY <1>1, <1>8, <1>9 DEF OpenInv, Unmade, record
<1>13. RecordsAreKept'
  BY <1>1 DEF OpenInv, RecordsAreKept, KeptIn, KeptBeside, record
<1>14. KeptOrFresh'
  <2>1. \A i \in DOMAIN finished \union active : i \in 1..Len(plan)
    <3>1. /\ phase \in 1..(Len(plan) + 1) /\ Len(plan) \in Nat
          /\ stage \in {"between", "running", "ended"}
      BY <1>1, PlanType DEF IInv, TypeOK
    <3>2. active # {} => phase <= Len(plan)
      BY <1>5, <3>1 DEF IInv, ClockFollows, Settled
    <3>3. ASSUME NEW i \in active PROVE i \in 1..Len(plan)
      BY <1>3, <1>7, <3>1, <3>2, <3>3
    <3>4. ASSUME NEW i \in 1..(phase - 1) PROVE i \in 1..Len(plan)
      BY <1>3, <3>1
    <3> QED
      BY <1>7, <3>3, <3>4
  <2>2. ASSUME NEW c \in DOMAIN sources, NEW kind \in Kind
        PROVE  (KeptIn(c, kind, tree[c][kind]) \/ Fresh(tree[c][kind]))'
    BY <1>1, <1>4, <1>8 DEF OpenInv, KeptOrFresh, KeptIn, Fresh
  <2>3. ASSUME NEW i \in DOMAIN finished, NEW spot \in Spot
        PROVE  (KeptBeside(i, spot, litter[i][spot]) \/ Fresh(litter[i][spot]))'
    BY <1>1, <1>4, <1>9, <2>1 DEF OpenInv, KeptOrFresh, KeptBeside, Fresh
  <2>4. ASSUME NEW i \in active, NEW spot \in Spot
        PROVE  (litter[i][spot] = 0 \/ Fresh(litter[i][spot]))'
    BY <1>1, <1>4, <1>9, <2>1 DEF OpenInv, KeptOrFresh, Fresh
  <2> QED
    BY <1>1, <2>2, <2>3, <2>4 DEF KeptOrFresh, record
<1>15. PhaseHasLooked'
  <2>1. SUFFICES ASSUME stage \in {"running", "ended"} PROVE PhaseHasLooked'
    BY <1>1 DEF PhaseHasLooked
  <2>2. Bound \in DOMAIN sources /\ phase \in 1..Len(plan) /\ Bound' = Bound /\ Does' = Does
    BY <1>1, <1>3, <2>1, PlanType DEF IInv, ClockFollows, Bound, Does, TypeOK
  <2>3. tree'[Bound]["plain"] \in {tree[Bound]["plain"], value}
    BY <1>8, <2>2 DEF Kind
  <2>4. litter'[phase]["beside"] \in {litter[phase]["beside"], value}
    BY <1>9, <2>2 DEF Spot
  <2>5. \A put : Fresh(put) => Fresh(put)'
    BY <1>1 DEF Fresh
  <2> QED
    BY <1>1, <1>2, <1>4, <2>2, <2>3, <2>4, <2>5
       DEF OpenInv, PhaseHasLooked, record, wave
<1> QED
  BY <1>11, <1>12, <1>13, <1>14, <1>15 DEF OpenInv

----------------------------------------------------------------------------
(* What stays open: the theorems.                                          *)

\* A kept entry is of the last phase of the plan on its copy, if no later one was.
LEMMA TheLastOnACopy ==
    ASSUME phase \in Nat, NEW c, NEW i \in 1..(phase - 1),
           plan[i].copy = c, \A j \in (i + 1)..(phase - 1) : plan[j].copy # c
    PROVE  LastOn(c, phase) = i
<1> DEFINE Last(k) == plan[k].copy = c /\ \A j \in (k + 1)..(phase - 1) : plan[j].copy # c
<1>1. Last(i)
  OBVIOUS
<1>2. ASSUME NEW k \in 1..(phase - 1), Last(k) PROVE k = i
  <2>1. ~(k < i) /\ ~(i < k)
    BY <1>1, <1>2
  <2> QED
    BY <2>1
<1>3. LastOn(c, phase) = CHOOSE k \in 1..(phase - 1) : Last(k)
  BY DEF LastOn
<1> HIDE DEF Last
<1> QED
  BY <1>1, <1>2, <1>3

LEMMA OpenIsAllThatStaysOpen == IInv /\ OpenInv => OnlyTheseChannelsStayOpen
<1> SUFFICES ASSUME IInv, OpenInv, Settled PROVE OnlyTheseChannelsStayOpen
  BY DEF OnlyTheseChannelsStayOpen, Settled
<1>1. now = 2 * phase - 1 /\ extra \in {0, now} /\ phase \in Nat \ {0}
  BY PlanType DEF IInv, OpenInv, OutcomeEnds
<1>2. \A put : Fresh(put) => put = now
  BY <1>1 DEF Fresh
<1>3. ASSUME NEW c \in DOMAIN sources, NEW kind \in Kind, tree[c][kind] \notin {0, now}
      PROVE  /\ plan[PhaseAt(tree[c][kind])].copy = c
             /\ concluded /\ kind = "plain" => PhaseAt(tree[c][kind]) = LastOn(c, phase)
  <2>1. KeptIn(c, kind, tree[c][kind])
    BY <1>2, <1>3 DEF OpenInv, KeptOrFresh
  <2> QED
    BY <1>1, <1>3, <2>1, TheLastOnACopy DEF KeptIn
<1>4. ASSUME NEW i \in DOMAIN finished, NEW spot \in Spot, litter[i][spot] \notin {0, now}
      PROVE  /\ PhaseAt(litter[i][spot]) = i
             /\ spot = "beside" /\ plan[i].does \in {"confirm", "sweep"} =>
                   litter[i][spot] = 2 * i
  <2>1. KeptBeside(i, spot, litter[i][spot])
    BY <1>2, <1>4 DEF OpenInv, KeptOrFresh
  <2> QED
    BY <1>4, <2>1 DEF KeptBeside
<1> QED
  BY <1>1, <1>3, <1>4 DEF OnlyTheseChannelsStayOpen

\* Every state of every run satisfies the invariant of what stays open.
THEOREM OpenInvHolds == Spec => []OpenInv
<1>1. IInv /\ OpenInv /\ [Next]_vars => OpenInv'
  <2> SUFFICES ASSUME IInv, OpenInv, [Next]_vars PROVE OpenInv'
    OBVIOUS
  <2>1. CASE UNCHANGED vars
    <3>1. Bound' = Bound /\ Does' = Does
      BY <2>1 DEF vars, Bound, Does
    <3>2. Unmade' /\ RecordsAreKept' /\ KeptOrFresh'
      BY <2>1, OpenFrame DEF vars, record, disk
    <3> QED
      BY <2>1, <3>1, <3>2 DEF vars, record, disk, wave, OpenInv, OutcomeEnds, Settled,
         PhaseHasLooked, Fresh
  <2>2. CASE Next
    BY <2>2, PhaseStartsOpen, RunEndsOpen, PhaseEndsOpen, PhaseSettlesOpen,
       SomethingIsWrittenOpen, WorldMovesOpen
       DEF Next, WorldStep
  <2> QED
    BY <2>1, <2>2
<1> QED
  BY <1>1, OpenAtFirst, InvariantHolds, PTL DEF Spec

\* Whatever the plan and the worlds, and however often a handler or a stray writes
\* while they run, what a settled run did not notice is where CrashCheck lets it be:
\* in the tree its phase was bound to, or in its phase's own directory.
THEOREM OnlyTheseStayOpen == Spec => []OnlyTheseChannelsStayOpen
BY OpenInvHolds, InvariantHolds, OpenIsAllThatStaysOpen, PTL
=============================================================================
