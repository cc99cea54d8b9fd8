------------------------- MODULE ContractLifecycle -------------------------
(***************************************************************************)
(* The life of .nemisis/config.json: a contract is drafted (initialize),   *)
(* accepted by the digest its draft was printed with (accept_contract) and *)
(* judged under (check).  Commands run in processes of their own with no   *)
(* lock: the file is created exclusively, or replaced by a rename, and its *)
(* owner may delete it at any time, as initialize tells them to.           *)
(*                                                                         *)
(* A draft's identity is what initialize compares (scenario, target, issue *)
(* text, base tree); ref and issue are how the base and the issue file     *)
(* were spelled.  The contract's digest covers the identity, the ref and   *)
(* whether it is accepted; the issue's path is in the file alone.          *)
(***************************************************************************)
EXTENDS Integers, FiniteSets

CONSTANTS
    Commands,   \* processes
    Jobs,       \* what they may be asked to do
    Faults      \* "crash", "write", and "delete" by the owner

CONSTANTS Identities, Refs, Paths, BaseOf

\* BaseOf tells the base tree of an identity; audited, that it is the packaged
\* contract's own base, issue and target.
Drafts == [identity : Identities, ref : Refs, issue : Paths \union Commands, audited : BOOLEAN]

\* "accept" is the tool of the MCP server, "init+accept" the command line.
ASSUME LifecycleAssumption ==
    /\ DOMAIN BaseOf = Identities
    /\ Faults \subseteq {"crash", "write", "delete"}
    /\ Jobs \subseteq [does : {"init", "accept", "init+accept", "check"}, draft : Drafts,
                       via : {"cli", "mcp"}]

Content == [draft : Drafts, status : {"DRAFT", "ACCEPTED"}]

DigestOf(content) ==
    [of |-> "contract", identity |-> content.draft.identity, ref |-> content.draft.ref,
     status |-> content.status]

\* The digest of the model's proposal, which is sealed before any contract.
ProposalDigest(draft) ==
    [of |-> "proposal", identity |-> draft.identity, ref |-> draft.ref, status |-> "DRAFT"]

Digests == [of : {"contract", "proposal"}, identity : Identities, ref : Refs,
            status : {"DRAFT", "ACCEPTED"}]

\* The file without a contract in it, and no contract at all.
Absent   == [status |-> "absent"]
Short(p) == [status |-> "short", by |-> p]
Nothing  == [status |-> "nothing"]

VARIABLES
    config,    \* the file: absent, created by a command and still short, or its content
    phase,     \* where each command is
    job,       \* what it does
    named,     \* what its caller was told: the digest it is to accept
    seen,      \* the contract it loaded
    told,      \* what was printed: a digest, and the content it was told of
    lost       \* history: the file was removed, or replaced by an acceptance that
               \* did not know of it, since the command started or loaded it

vars == <<config, phase, job, named, seen, told, lost>>

Phase == {"idle", "look", "read", "load", "create", "compare", "fill", "sync", "unlink",
          "rename", "answer", "done", "refused", "mismatch", "failed", "crashed"}

Ended == {"done", "refused", "mismatch", "failed", "crashed"}

Answers == [digest : Digests, content : Content]

TypeOK ==
    /\ config \in Content \union {Absent} \union {Short(p) : p \in Commands}
    /\ phase \in [Commands -> Phase]
    /\ job \in [Commands -> Jobs]
    /\ named \in [Commands -> Answers \union {Nothing}]
    /\ seen \in [Commands -> Content \union {Nothing}]
    /\ told \subseteq Answers
    /\ lost \in [Commands -> BOOLEAN]

Init ==
    /\ config = Absent
    /\ phase = [p \in Commands |-> "idle"]
    /\ job \in [Commands -> Jobs]
    /\ named = [p \in Commands |-> Nothing]
    /\ seen = [p \in Commands |-> Nothing]
    /\ told = {}
    /\ lost = [p \in Commands |-> FALSE]

----------------------------------------------------------------------------
Whole(file) == file.status \in {"DRAFT", "ACCEPTED"}

Checking     == {p \in Commands : job[p].does = "check"}
Drafting(p)  == job[p].does \in {"init", "init+accept"}
Accepting(p) == seen[p] # Nothing

\* Each call of the draft tool writes the issue to a file of its own.
Mine(p) == [job[p].draft EXCEPT !.issue = IF job[p].via = "mcp" THEN p ELSE @]

\* What the command would have the file hold.
Payload(p) ==
    IF Accepting(p) THEN [draft |-> seen[p].draft, status |-> "ACCEPTED"]
    ELSE [draft |-> Mine(p), status |-> IF job[p].draft.audited THEN "ACCEPTED" ELSE "DRAFT"]

Move(p, to) == phase' = [phase EXCEPT ![p] = to]

\* The file holds the payload, or what stands for it.
Written(p) ==
    Move(p, IF Accepting(p) THEN "done"
            ELSE IF job[p].does = "init+accept" THEN "load" ELSE "answer")

\* A caller accepts a digest that was printed.
Start(p) ==
    /\ phase[p] = "idle"
    /\ Move(p, IF Drafting(p) THEN "look" ELSE "load")
    /\ IF job[p].does \in {"accept", "init+accept"}
       THEN \E answer \in told : named' = [named EXCEPT ![p] = answer]
       ELSE UNCHANGED named
    /\ lost' = [lost EXCEPT ![p] = FALSE]
    /\ UNCHANGED <<config, job, seen, told>>

----------------------------------------------------------------------------
(* initialize.                                                             *)

Look(p) ==
    /\ phase[p] = "look"
    /\ Move(p, IF config = Absent THEN "create" ELSE "read")
    /\ UNCHANGED <<config, job, named, seen, told, lost>>

\* Fault: any accepted contract is kept.
ReadAnyAccepted(p) ==
    /\ phase[p] = "read"
    /\ IF ~Whole(config) THEN Move(p, "failed")
       ELSE IF config.status = "ACCEPTED" THEN Written(p)
       ELSE Move(p, IF config.draft.identity = job[p].draft.identity THEN "create" ELSE "failed")
    /\ UNCHANGED <<config, job, named, seen, told, lost>>

\* An accepted contract of the same identity is kept, a draft is to be the
\* same, another identity is refused.
ReadExisting(p) ==
    /\ phase[p] = "read"
    /\ IF ~Whole(config) THEN Move(p, "failed")
       ELSE IF config.draft.identity # job[p].draft.identity THEN Move(p, "failed")
       ELSE IF config.status = "ACCEPTED" THEN Written(p)
       ELSE Move(p, "create")
    /\ UNCHANGED <<config, job, named, seen, told, lost>>

\* The command line prints what the file holds by then.
ShowContract(p) ==
    /\ phase[p] = "answer" /\ job[p].via = "cli"
    /\ IF Whole(config)
       THEN /\ told' = told \union {[digest |-> DigestOf(config), content |-> config]}
            /\ Move(p, "done")
       ELSE Move(p, "failed") /\ UNCHANGED told
    /\ UNCHANGED <<config, job, named, seen, lost>>

\* The draft tool answers with the digest of the proposal.
Answer(p) ==
    /\ phase[p] = "answer" /\ job[p].via = "mcp"
    /\ told' = told \union {[digest |-> ProposalDigest(Mine(p)), content |-> Payload(p)]}
    /\ Move(p, "done")
    /\ UNCHANGED <<config, job, named, seen, lost>>

----------------------------------------------------------------------------
(* accept_contract and check.                                              *)

Keep(p) == seen' = [seen EXCEPT ![p] = config] /\ lost' = [lost EXCEPT ![p] = FALSE]

\* Fault: any draft is accepted.
LoadAnyDraft(p) ==
    /\ phase[p] = "load" /\ job[p].does # "check"
    /\ IF ~Whole(config) \/ (Whole(config) /\ config.status = "ACCEPTED")
       THEN Move(p, "failed") /\ UNCHANGED <<seen, lost>>
       ELSE Move(p, "create") /\ Keep(p)
    /\ UNCHANGED <<config, job, named, told>>

\* Only a draft is accepted, and only by its own digest.
LoadDraft(p) ==
    /\ phase[p] = "load" /\ job[p].does # "check"
    /\ IF ~Whole(config) THEN Move(p, "failed") /\ UNCHANGED <<seen, lost>>
       ELSE IF config.status = "ACCEPTED" THEN Move(p, "failed") /\ UNCHANGED <<seen, lost>>
       ELSE IF DigestOf(config) # named[p].digest
       THEN Move(p, "mismatch") /\ UNCHANGED <<seen, lost>>
       ELSE Move(p, "create") /\ Keep(p)
    /\ UNCHANGED <<config, job, named, told>>

\* Fault: what is no draft is taken for a contract.
LoadUnlessDraft(p) ==
    /\ phase[p] = "load" /\ job[p].does = "check"
    /\ IF config.status = "DRAFT" THEN Move(p, "failed") /\ UNCHANGED <<seen, lost>>
       ELSE Move(p, "done") /\ Keep(p)
    /\ UNCHANGED <<config, job, named, told>>

\* check refuses a draft, and a contract of another base tree; the issue, the
\* scenario and the target are the contract's.
LoadContract(p) ==
    /\ phase[p] = "load" /\ job[p].does = "check"
    /\ IF ~Whole(config) THEN Move(p, "failed") /\ UNCHANGED <<seen, lost>>
       ELSE IF \/ config.status = "DRAFT"
               \/ BaseOf[config.draft.identity] # BaseOf[job[p].draft.identity]
       THEN Move(p, "failed") /\ UNCHANGED <<seen, lost>>
       ELSE Move(p, "done") /\ Keep(p)
    /\ UNCHANGED <<config, job, named, told>>

----------------------------------------------------------------------------
(* _write_exact, with and without replace.                                 *)

Create(p) ==
    /\ phase[p] = "create" /\ config = Absent
    /\ config' = Short(p)
    /\ Move(p, "fill")
    /\ UNCHANGED <<job, named, seen, told, lost>>

Meet(p) ==
    /\ phase[p] = "create" /\ config # Absent
    /\ Move(p, "compare")
    /\ UNCHANGED <<config, job, named, seen, told, lost>>

\* Fault: initialize replaces a draft it did not write.
CompareAndReplace(p) ==
    /\ phase[p] = "compare"
    /\ IF config = Payload(p) THEN Written(p)
       ELSE Move(p, IF config = Absent THEN "failed" ELSE "rename")
    /\ UNCHANGED <<config, job, named, seen, told, lost>>

\* The same bytes are left alone; others are replaced by an acceptance only.
Compare(p) ==
    /\ phase[p] = "compare"
    /\ IF config = Payload(p) THEN Written(p)
       ELSE IF config = Absent THEN Move(p, "failed")
       ELSE Move(p, IF Accepting(p) THEN "rename" ELSE "refused")
    /\ UNCHANGED <<config, job, named, seen, told, lost>>

\* A file that was removed meanwhile is filled out of sight.
Fill(p) ==
    /\ phase[p] = "fill"
    /\ config' = IF config = Short(p) THEN Payload(p) ELSE config
    /\ Move(p, "sync")
    /\ UNCHANGED <<job, named, seen, told, lost>>

Seal(p) ==
    /\ phase[p] = "sync"
    /\ Written(p)
    /\ UNCHANGED <<config, job, named, seen, told, lost>>

\* Fault: the file is replaced in place, not by a rename.
RenameInPlace(p) ==
    /\ phase[p] = "rename"
    /\ config' = Short(p)
    /\ Move(p, "fill")
    /\ UNCHANGED <<job, named, seen, told, lost>>

\* The replacement is written under a name of its own and renamed, over
\* whatever the file is by then.
Rename(p) ==
    /\ phase[p] = "rename"
    /\ config' = Payload(p)
    /\ Written(p)
    /\ lost' = [q \in Commands |-> lost[q] \/ lost[p]]
    /\ UNCHANGED <<job, named, seen, told>>

\* A write that fails takes the created file back: what is there by then.
WriteFails(p) ==
    /\ "write" \in Faults
    /\ phase[p] \in {"fill", "sync", "rename"}
    /\ Move(p, IF phase[p] = "rename" THEN "failed" ELSE "unlink")
    /\ UNCHANGED <<config, job, named, seen, told, lost>>

Removed == config' = Absent /\ lost' = [q \in Commands |-> TRUE]

Unlink(p) ==
    /\ phase[p] = "unlink"
    /\ Move(p, "failed")
    /\ Removed
    /\ UNCHANGED <<job, named, seen, told>>

----------------------------------------------------------------------------
Crash(p) ==
    /\ "crash" \in Faults
    /\ phase[p] \notin Ended
    /\ Move(p, "crashed")
    /\ UNCHANGED <<config, job, named, seen, told, lost>>

\* The owner deletes the file.
Delete ==
    /\ "delete" \in Faults
    /\ config # Absent
    /\ Removed
    /\ UNCHANGED <<phase, job, named, seen, told>>

Step(p) ==
    \/ Start(p) \/ Look(p) \/ ReadExisting(p) \/ ShowContract(p) \/ Answer(p)
    \/ LoadDraft(p) \/ LoadContract(p)
    \/ Create(p) \/ Meet(p) \/ Compare(p) \/ Fill(p) \/ Seal(p) \/ Rename(p)
    \/ WriteFails(p) \/ Unlink(p) \/ Crash(p)

Next == Delete \/ \E p \in Commands : Step(p)

Spec == Init /\ [][Next]_vars
----------------------------------------------------------------------------
(* What holds of the contract.                                             *)

\* Commands share the file without a lock.  A whole contract is still never
\* torn, and becomes nothing but its own acceptance, unless it is removed or
\* met by an acceptance that loaded its draft before the file was removed.
ContractIsOnlyAccepted ==
    [][Whole(config) /\ config' # config =>
          \/ config' = Absent
          \/ config' = [config EXCEPT !.status = "ACCEPTED"]
          \/ Whole(config') /\ \E p \in Commands : phase[p] = "rename" /\ lost[p]]_vars

\* accept_contract: only the exact draft digest printed before.  Whatever the
\* file held in the meantime, a contract that is accepted, in the file or by a
\* check that loaded it, is the packaged one or was named draft by draft.
OnlyTheNamedDraftIsAccepted ==
    \A content \in Content \intersect ({config} \union {seen[p] : p \in Checking}) :
        content.status = "ACCEPTED" /\ ~content.draft.audited =>
            \E p \in Commands :
                named[p] # Nothing /\ named[p].digest = DigestOf([content EXCEPT !.status = "DRAFT"])

\* What init prints, and its caller then accepts, is the contract of the issue,
\* base and target it was given, though it reads the file again to print it.
PrintedContractIsTheOneAskedFor ==
    [][\A p \in Commands : \A answer \in told' \ told :
          phase[p] = "answer" /\ phase'[p] = "done" =>
              answer.content.draft.identity = job[p].draft.identity \/ lost[p]]_vars

\* The draft tool: it returns the draft and its digest, and acceptance is a
\* separate call.  A draft is refused only to a caller that was told of another.
OnlyAnotherDraftIsRefused ==
    [][\A p \in Commands :
          phase[p] # "mismatch" /\ phase'[p] = "mismatch" => named[p].content # config]_vars
=============================================================================
