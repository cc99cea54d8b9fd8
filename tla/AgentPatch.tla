----------------------------- MODULE AgentPatch -----------------------------
(***************************************************************************)
(* A model's patch (agent_patch.propose_patch): the model rewrites the     *)
(* base's handler, the result is written as a candidate tree, and a        *)
(* receipt of its authorship is kept by the operator under the digest of   *)
(* that tree, for check to credit (crashcheck._load_author).               *)
(*                                                                         *)
(* Proposals run in processes of their own with no lock.  Each looks for   *)
(* its output directory once, before the model is asked; the directory is  *)
(* made later, filled file by file, and removed by name when anything      *)
(* fails.  The tools of the MCP server use one output for all proposals of *)
(* a scenario.                                                             *)
(***************************************************************************)
EXTENDS Integers, FiniteSets

CONSTANTS
    Agents,         \* processes
    Bases,          \* base trees; a base's name also stands for what its files hold
    Modules,        \* handler modules a model may write
    Outputs,        \* output directories
    Missing, Nobody,
    PatchFaults     \* "crash", "write", and "owner": the operator deletes an output

ASSUME PatchAssumption ==
    /\ PatchFaults \subseteq {"crash", "write", "owner"}
    /\ Bases \intersect Modules = {} /\ Missing \notin Bases \union Modules
    /\ Nobody \notin Agents

\* The handler's file, and all others.
File == {"handler", "other"}

Tree == [File -> Bases \union Modules \union {Missing}]

Bare == [file \in File |-> Missing]
BaseTree(base) == [file \in File |-> base]
Patched(base, module) == [BaseTree(base) EXCEPT !["handler"] = module]

Proposal == [base : Bases, output : Outputs]

\* PatchProposal, as far as check reads it.
Receipt == [base : Bases, module : Bases \union Modules]
None == [state |-> "none"]
Begun(a) == [state |-> "short", by |-> a]

VARIABLES
    at,         \* where each proposal is
    proposal,   \* what it was asked for
    draft,      \* the module the model answered
    todo,       \* files still to be copied, or to be removed
    sealed,     \* the tree it took the digest of
    tree,       \* what is in each output directory
    exists,     \* whether it is there
    receipts,   \* the operator's receipts, by the tree they are filed under
    generated,  \* history: the modules the model wrote, and for which base
    maker,      \* history: who made the directory that is there
    late,       \* history: another made the directory after this proposal looked
    excused     \* history: the proposal's directory was taken from it (see below)

place == <<tree, exists, maker, late, excused>>
patchVars == <<at, proposal, draft, todo, sealed, receipts, generated, place>>

Over == {"done", "rejected", "crashed"}

PatchTypeOK ==
    /\ at \in [Agents -> {"idle", "model", "mkdir", "copy", "patch", "digest", "record", "fill",
                          "cleanup"} \union Over]
    /\ proposal \in [Agents -> Proposal \union {None}]
    /\ draft \in [Agents -> Bases \union Modules \union {Missing}]
    /\ todo \in [Agents -> SUBSET File]
    /\ sealed \in [Agents -> Tree]
    /\ tree \in [Outputs -> Tree] /\ exists \in [Outputs -> BOOLEAN]
    /\ receipts \in [Tree -> Receipt \union {None} \union {Begun(a) : a \in Agents}]
    /\ generated \subseteq [base : Bases, module : Bases \union Modules]
    /\ maker \in [Outputs -> Agents \union {Nobody}]
    /\ late \in [Agents -> BOOLEAN] /\ excused \in [Agents -> BOOLEAN]

PatchInit ==
    /\ at = [a \in Agents |-> "idle"]
    /\ proposal = [a \in Agents |-> None]
    /\ draft = [a \in Agents |-> Missing]
    /\ todo = [a \in Agents |-> {}]
    /\ sealed = [a \in Agents |-> Bare]
    /\ tree = [o \in Outputs |-> Bare] /\ exists = [o \in Outputs |-> FALSE]
    /\ receipts = [t \in Tree |-> None]
    /\ generated = {}
    /\ maker = [o \in Outputs |-> Nobody]
    /\ late = [a \in Agents |-> FALSE] /\ excused = [a \in Agents |-> FALSE]

----------------------------------------------------------------------------
Base(a) == proposal[a].base
Out(a)  == proposal[a].output

GoOn(a, to) == at' = [at EXCEPT ![a] = to]

\* cleanup_rejected removes what is there by then, file after file.
Reject(a) == GoOn(a, "cleanup") /\ todo' = [todo EXCEPT ![a] = File]

Excuse(these) == excused' = [a \in Agents |-> excused[a] \/ a \in these]

\* The directory is made; whoever looked before will not know.
Claim(a) ==
    /\ exists' = [exists EXCEPT ![Out(a)] = TRUE]
    /\ maker' = [maker EXCEPT ![Out(a)] = a]
    /\ late' = [q \in Agents |->
          late[q] \/ (q # a /\ at[q] \notin {"idle"} \union Over /\ Out(q) = Out(a))]

\* A file is written.  Copying makes the directory again if it was taken away
\* meanwhile; it may as well be another's by now.
Put(a, file, content) ==
    /\ tree' = [tree EXCEPT ![Out(a)][file] = content]
    /\ IF exists[Out(a)]
       THEN UNCHANGED <<exists, maker, late>> /\ Excuse(IF excused[a] THEN {maker[Out(a)]} ELSE {})
       ELSE Claim(a) /\ UNCHANGED excused

----------------------------------------------------------------------------
(* propose_patch.                                                          *)

\* Fault: the output is not looked for.
ProposeBlindly(a) ==
    /\ at[a] = "idle"
    /\ \E asked \in Proposal :
          /\ proposal' = [proposal EXCEPT ![a] = asked]
          /\ GoOn(a, "model")
    /\ UNCHANGED <<draft, todo, sealed, receipts, generated, place>>

\* An output that exists is refused before the model is asked.
Propose(a) ==
    /\ at[a] = "idle"
    /\ \E asked \in Proposal :
          /\ proposal' = [proposal EXCEPT ![a] = asked]
          /\ GoOn(a, IF exists[asked.output] THEN "rejected" ELSE "model")
    /\ UNCHANGED <<draft, todo, sealed, receipts, generated, place>>

\* No answer, or a module that may not be written: nothing was written yet.
ModelFails(a) ==
    /\ at[a] = "model"
    /\ GoOn(a, "rejected")
    /\ UNCHANGED <<proposal, draft, todo, sealed, receipts, generated, place>>

\* The module that is accepted may be the base's own.
ModelAnswers(a) ==
    /\ at[a] = "model"
    /\ \E module \in Modules \union {Base(a)} :
          /\ draft' = [draft EXCEPT ![a] = module]
          /\ generated' = generated \union {[base |-> Base(a), module |-> module]}
    /\ GoOn(a, "mkdir")
    /\ UNCHANGED <<proposal, todo, sealed, receipts, place>>

\* _copy_tree makes the directory, or fails if it is there.
MakeDirectory(a) ==
    /\ at[a] = "mkdir"
    /\ IF exists[Out(a)]
       THEN Reject(a) /\ UNCHANGED place
       ELSE /\ Claim(a) /\ GoOn(a, "copy")
            /\ todo' = [todo EXCEPT ![a] = File]
            /\ UNCHANGED <<tree, excused>>
    /\ UNCHANGED <<proposal, draft, sealed, receipts, generated>>

CopyFile(a) ==
    /\ at[a] = "copy"
    /\ \E file \in todo[a] :
          /\ Put(a, file, Base(a))
          /\ todo' = [todo EXCEPT ![a] = @ \ {file}]
          /\ GoOn(a, IF todo[a] = {file} THEN "patch" ELSE "copy")
    /\ UNCHANGED <<proposal, draft, sealed, receipts, generated>>

\* The module is written over the copy, into a directory that must be there.
WriteModule(a) ==
    /\ at[a] = "patch" /\ exists[Out(a)]
    /\ Put(a, "handler", draft[a])
    /\ GoOn(a, "digest")
    /\ UNCHANGED <<proposal, draft, todo, sealed, receipts, generated>>

\* The digest of what is there; a patch that is no change is refused.
TakeDigest(a) ==
    /\ at[a] = "digest"
    /\ sealed' = [sealed EXCEPT ![a] = tree[Out(a)]]
    /\ IF tree[Out(a)] = BaseTree(Base(a)) THEN Reject(a) ELSE GoOn(a, "record") /\ UNCHANGED todo
    /\ UNCHANGED <<proposal, draft, receipts, generated, place>>

Authored(a) == [base |-> Base(a), module |-> draft[a]]

\* _write_exact: a receipt that is there is replaced by a rename.
Record(a) ==
    /\ at[a] = "record"
    /\ IF receipts[sealed[a]] = None
       THEN receipts' = [receipts EXCEPT ![sealed[a]] = Begun(a)] /\ GoOn(a, "fill")
       ELSE receipts' = [receipts EXCEPT ![sealed[a]] = Authored(a)] /\ GoOn(a, "done")
    /\ UNCHANGED <<proposal, draft, todo, sealed, generated, place>>

\* A file that was replaced or removed meanwhile is filled out of sight.
FillReceipt(a) ==
    /\ at[a] = "fill"
    /\ receipts' = IF receipts[sealed[a]] = Begun(a)
                   THEN [receipts EXCEPT ![sealed[a]] = Authored(a)] ELSE receipts
    /\ GoOn(a, "done")
    /\ UNCHANGED <<proposal, draft, todo, sealed, generated, place>>

\* A directory or a file that is gone, or a write that fails; a receipt that
\* cannot be written is removed, whosever it is by then.
WritingFails(a) ==
    /\ \/ "write" \in PatchFaults /\ at[a] \in {"copy", "patch", "digest", "record", "fill"}
       \/ at[a] = "patch" /\ tree[Out(a)]["handler"] = Missing
    /\ receipts' = IF at[a] = "fill" THEN [receipts EXCEPT ![sealed[a]] = None] ELSE receipts
    /\ Reject(a)
    /\ UNCHANGED <<proposal, draft, sealed, generated, place>>

\* Whoever made the directory is excused if this proposal looked before.
Overtaken(a) == IF late[a] /\ maker[Out(a)] # a THEN {maker[Out(a)]} ELSE {}

RemoveFile(a) ==
    /\ at[a] = "cleanup"
    /\ \E file \in todo[a] :
          /\ tree' = [tree EXCEPT ![Out(a)][file] = Missing]
          /\ todo' = [todo EXCEPT ![a] = @ \ {file}]
          /\ Excuse(IF tree[Out(a)][file] # Missing THEN Overtaken(a) ELSE {})
    /\ UNCHANGED <<at, proposal, draft, sealed, receipts, generated, exists, maker, late>>

\* A directory that was filled again stays.
RemoveDirectory(a) ==
    /\ at[a] = "cleanup" /\ todo[a] = {}
    /\ GoOn(a, "rejected")
    /\ IF exists[Out(a)] /\ tree[Out(a)] = Bare
       THEN /\ exists' = [exists EXCEPT ![Out(a)] = FALSE]
            /\ maker' = [maker EXCEPT ![Out(a)] = Nobody]
            /\ Excuse(Overtaken(a))
       ELSE UNCHANGED <<exists, maker, excused>>
    /\ UNCHANGED <<proposal, draft, todo, sealed, receipts, generated, tree, late>>

----------------------------------------------------------------------------
AgentDies(a) ==
    /\ "crash" \in PatchFaults
    /\ at[a] \notin {"idle"} \union Over
    /\ GoOn(a, "crashed")
    /\ UNCHANGED <<proposal, draft, todo, sealed, receipts, generated, place>>

\* The operator deletes an output, as a refusal makes them do.
OwnerDeletes ==
    /\ "owner" \in PatchFaults
    /\ \E o \in Outputs :
          /\ exists[o]
          /\ tree' = [tree EXCEPT ![o] = Bare]
          /\ exists' = [exists EXCEPT ![o] = FALSE]
          /\ maker' = [maker EXCEPT ![o] = Nobody]
          /\ Excuse({maker[o]})
    /\ UNCHANGED <<at, proposal, draft, todo, sealed, receipts, generated, late>>

PatchNext ==
    \/ OwnerDeletes
    \/ \E a \in Agents :
          \/ Propose(a) \/ ModelFails(a) \/ ModelAnswers(a) \/ MakeDirectory(a) \/ CopyFile(a)
          \/ WriteModule(a) \/ TakeDigest(a) \/ Record(a) \/ FillReceipt(a) \/ WritingFails(a)
          \/ RemoveFile(a) \/ RemoveDirectory(a) \/ AgentDies(a)

PatchSpec == PatchInit /\ [][PatchNext]_patchVars
----------------------------------------------------------------------------
(* check.                                                                  *)

\* Fault: the receipt is filed under the tree, and the handler is not compared.
CreditsByTree(receipt, base, candidate) == receipt \in Receipt /\ receipt.base = base

\* _load_author: the receipt filed under the candidate's digest names the
\* contract's base and the very handler; a short one is an error.
Credits(receipt, base, candidate) ==
    receipt \in Receipt /\ receipt.base = base /\ receipt.module = candidate["handler"]

\* A check credits the model with a handler only if the model wrote it, for the
\* base the contract is about: whatever tree the check is given, and whatever
\* tree a proposal sealed while others wrote into its directory.
AuthorshipIsTrue ==
    \A candidate \in Tree, base \in Bases :
        Credits(receipts[candidate], base, candidate) =>
            [base |-> base, module |-> candidate["handler"]] \in generated

\* A proposal that was reported stands: its directory holds the base with the
\* module the model wrote for it, and nothing else.  Excused are those whose
\* directory the operator deleted, or another proposal that had looked before
\* it was made removed from, or one so robbed wrote into.
ReportedCandidateStands ==
    \A a \in Agents :
        at[a] = "done" /\ ~excused[a] => tree[Out(a)] = Patched(Base(a), draft[a])
=============================================================================
