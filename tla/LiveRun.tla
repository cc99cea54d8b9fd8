------------------------------ MODULE LiveRun ------------------------------
(***************************************************************************)
(* live.verify_live and contree.ContreeBackend: images are made of images  *)
(* by operations of a provider, which the client spawns and waits for over *)
(* HTTP.  A live run makes its five calls one by one; execute_many submits *)
(* a batch first and then awaits all of it.                                *)
(*                                                                         *)
(* The provider is external.  It keeps true records; but an answer may get *)
(* lost, a spawn may be answered with an operation of before, a wait with  *)
(* the record of another operation, and an operation may fail or run on.   *)
(***************************************************************************)
EXTENDS Verification, FiniteSets

\* The model's draft, and the bundle made with it: refused, nothing is spawned.
BindDraft ==
    /\ mode = "live" /\ stage = "bind"
    /\ \E draft \in Drafts :
          /\ DraftIsUsable(draft) /\ BundleIsLinked(WithDraft(draft))
          /\ bundle' = WithDraft(draft)
    /\ stage' = "calls" /\ UNCHANGED outcome
    /\ UNCHANGED <<mode, local, live>>

\* So are a blocked configuration, a model that fails, and a failed upload.
BindRaises ==
    /\ mode = "live" /\ stage = "bind"
    /\ Raises
    /\ UNCHANGED <<mode, bundle, local, live>>

----------------------------------------------------------------------------
(* What is asked.                                                          *)

Asked(source, job) == [source |-> source, job |-> job, nonce |-> 0]

\* The i-th call of a live run, from the images of the earlier ones.
LiveRequest(i) ==
    CASE i = 1 -> Asked(RootImage, "prepare")
      [] i = 2 -> Asked(calls[1].answer, "base")
      [] i = 3 -> Asked(calls[1].answer, "candidate")
      [] i \in {4, 5} -> Asked(calls[i - 2].answer, "suite")

\* Every call was answered, so that the next may be made.
Idle == \A i \in DOMAIN calls : calls[i].answer # Waiting

\* Fault: the digests of the worlds are not held against the bound trees.
MayGoOnByTheExitCodes ==
    /\ Len(calls) = 1 => operations[calls[1].answer].exit = 0
    /\ Len(calls) = 3 => \A i \in {2, 3} : operations[calls[i].answer].exit = 0

\* What stands between two calls: the exit code of the preparation, and of both
\* worlds, and the digests of their trees.
MayGoOn ==
    /\ Len(calls) = 1 => operations[calls[1].answer].exit = 0
    /\ Len(calls) = 3 =>
           \A i \in {2, 3} : /\ operations[calls[i].answer].exit = 0
                             /\ operations[calls[i].answer].tree = LiveRequest(i).job

NextRequest ==
    IF mode = "batch" THEN Batch[Len(calls) + 1] ELSE LiveRequest(Len(calls) + 1)

MaySpawn ==
    \/ mode = "batch" /\ stage = "submit" /\ Len(calls) < Len(Batch)
    \/ mode = "live" /\ stage = "calls" /\ Idle /\ Len(calls) < 5 /\ MayGoOn

----------------------------------------------------------------------------
(* Spawning.                                                               *)

Started(request) ==
    [request |-> request, status |-> "running", exit |-> 0, tree |-> "strange", suite |-> NoSuite]

Told(id) == calls' = Append(calls, [request |-> NextRequest, id |-> id, answer |-> Waiting])

SpawnIsAnswered ==
    /\ MaySpawn
    /\ operations' = Append(operations, Started(NextRequest))
    /\ Told(Len(operations'))
    /\ UNCHANGED <<mode, stage, bundle, outcome, cut, local>>

SpawnIsAnsweredWithAnother ==
    /\ MaySpawn
    /\ \E id \in DOMAIN operations : Told(id)
    /\ UNCHANGED <<mode, stage, bundle, outcome, operations, cut, local>>

\* The spawn fails for the client: refused, or started and the answer lost.
\* A batch stops submitting, and awaits what it has.
SpawnFails ==
    /\ MaySpawn
    /\ operations' \in {operations, Append(operations, Started(NextRequest))}
    /\ IF mode = "live" THEN Raises /\ UNCHANGED cut
       ELSE cut' = TRUE /\ stage' = "await" /\ UNCHANGED outcome
    /\ UNCHANGED <<mode, bundle, calls, local>>

BatchIsSubmitted ==
    /\ mode = "batch" /\ stage = "submit" /\ Len(calls) = Len(Batch)
    /\ stage' = "await"
    /\ UNCHANGED <<mode, bundle, outcome, local, live>>

\* A live run stops where an exit code or a digest is wrong.
LiveIsStopped ==
    /\ mode = "live" /\ stage = "calls" /\ Idle /\ ~MayGoOn
    /\ Raises
    /\ UNCHANGED <<mode, bundle, local, live>>

----------------------------------------------------------------------------
(* External: what an operation does, to the image it was given.            *)

TreeOf(image) == IF image = RootImage THEN "strange" ELSE operations[image].tree

Effects(request) ==
    CASE request.job = "prepare" -> {[exit |-> e, tree |-> t, suite |-> NoSuite] :
                                        e \in {0, 1}, t \in {"base", "strange"}}
      [] request.job = "base" -> {[exit |-> 0, tree |-> TreeOf(request.source), suite |-> NoSuite]}
      [] request.job = "candidate" ->
             {[exit |-> 1, tree |-> TreeOf(request.source), suite |-> NoSuite],
              [exit |-> 0, suite |-> NoSuite,
               tree |-> IF TreeOf(request.source) = "base" THEN "candidate" ELSE "strange"]}
      [] request.job = "suite" ->
             {[exit |-> 0, tree |-> TreeOf(request.source), suite |-> s] :
                 s \in IF mode = "batch" THEN {NoSuite}
                       ELSE {suite \in Suite(TestIds) : suite.ended # "timeout"}}

Running(k) == operations[k].status = "running"

OperationSucceeds ==
    \E k \in DOMAIN operations :
        /\ Running(k)
        /\ \E effect \in Effects(operations[k].request) :
              operations' = [operations EXCEPT ![k] =
                  [request |-> @.request, status |-> "success",
                   exit |-> effect.exit, tree |-> effect.tree, suite |-> effect.suite]]
        /\ UNCHANGED <<mode, stage, bundle, outcome, calls, cut, local>>

\* It fails, exceeds the provider's limit, or its record lacks what is needed.
OperationFails ==
    \E k \in DOMAIN operations :
        /\ Running(k)
        /\ operations' = [operations EXCEPT ![k].status = "failed"]
        /\ UNCHANGED <<mode, stage, bundle, outcome, calls, cut, local>>

----------------------------------------------------------------------------
(* Waiting.                                                                *)

MayAwait(i) ==
    /\ stage = IF mode = "batch" THEN "await" ELSE "calls"
    /\ calls[i].answer = Waiting
    /\ \A j \in 1..i - 1 : calls[j].answer # Waiting

\* Fault: a record is held against the request but for its nonce.
AcceptedForItsImage(call, id) ==
    /\ operations[id].status = "success"
    /\ id = call.id
    /\ operations[id].request.source = call.request.source
    /\ operations[id].request.job = call.request.job

\* _execution: the record of the operation that was told, and of what was asked.
Accepted(call, id) ==
    /\ operations[id].status = "success"
    /\ id = call.id
    /\ operations[id].request = call.request

\* An exception raises a live run; a batch keeps it and awaits the rest.
Answer(i, id) ==
    /\ calls' = [calls EXCEPT ![i].answer = id]
    /\ IF mode = "live" /\ id = Failed THEN Raises ELSE UNCHANGED <<stage, outcome>>
    /\ UNCHANGED <<mode, bundle, operations, cut, local>>

WaitIsAnswered ==
    \E i \in DOMAIN calls, id \in DOMAIN operations :
        /\ MayAwait(i) /\ ~Running(id)
        /\ Answer(i, IF Accepted(calls[i], id) THEN id ELSE Failed)

\* The client's own limit passes, or the transport fails.
WaitFails ==
    \E i \in DOMAIN calls : MayAwait(i) /\ Answer(i, Failed)

\* An exception that no ContreeBackendError stands for: Ctrl-C, a record that
\* none of the looks foresees.
WaitIsInterrupted ==
    /\ \E i \in DOMAIN calls : MayAwait(i)
    /\ Raises
    /\ UNCHANGED <<mode, bundle, local, live>>

AnyFailedCall == \E i \in DOMAIN calls : calls[i].answer = Failed

BatchIsAwaited ==
    /\ mode = "batch" /\ stage = "await" /\ Idle
    /\ End(IF cut \/ AnyFailedCall THEN "batch failed" ELSE "returned")
    /\ UNCHANGED <<mode, bundle, local, live>>

----------------------------------------------------------------------------
(* The verdict of a live run.                                              *)

LiveSuites == [world \in World |-> operations[calls[IF world = "base" THEN 4 ELSE 5].answer].suite]

\* The manifest is given the digests that were bound, not those that were told:
\* the look between the calls is the only one.
LiveTrees == [world \in World |-> world]

CallsAreMade == mode = "live" /\ stage = "calls" /\ Idle /\ Len(calls) = 5

SuitesAreComplete ==
    \A world \in World : Complete(ParseJunit(LiveSuites[world], TestIds))

JudgeLive ==
    /\ CallsAreMade /\ SuitesAreComplete
    /\ Conclude(LiveSuites, LiveTrees)
    /\ UNCHANGED <<mode, bundle, local, live>>

\* An incomplete report raises; so may a record without a duration.
JudgeLiveRaises ==
    /\ CallsAreMade
    /\ Raises
    /\ UNCHANGED <<mode, bundle, local, live>>

LiveClient ==
    \/ BindDraft \/ BindRaises
    \/ SpawnIsAnswered \/ SpawnIsAnsweredWithAnother \/ SpawnFails \/ BatchIsSubmitted
    \/ LiveIsStopped \/ WaitIsAnswered \/ WaitFails \/ BatchIsAwaited
    \/ JudgeLive \/ JudgeLiveRaises

LiveNext == LiveClient \/ WaitIsInterrupted \/ OperationSucceeds \/ OperationFails
=============================================================================
