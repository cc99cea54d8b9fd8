-------------------------- MODULE WorkspaceProofs --------------------------
(***************************************************************************)
(* The promises of the operator's directory, for any number of proposals   *)
(* and commands, any outputs, bases, modules and jobs, and any faults.     *)
(*                                                                         *)
(* Of the patches: two invariants carry them.  A receipt never names a     *)
(* module that its writer did not get from the model, and a proposal that  *)
(* nothing excuses is the maker of its directory, and all who could        *)
(* disturb that are known to come late.                                    *)
(*                                                                         *)
(* Of the contract: what a command knows of the file is carried by lost.   *)
(* Until the file was removed behind its back, what it loaded, or wrote,   *)
(* is still there.                                                         *)
(***************************************************************************)
EXTENDS Workspace, TLAPS

Active == {"model", "mkdir", "copy", "patch", "digest", "record", "fill", "cleanup"}

\* A proposal at one of these has an answer of the model.
Answered == {"mkdir", "copy", "patch", "digest", "record", "fill"}

\* A proposal that is past its mkdir, and has not been turned back.
Holding == {"copy", "patch", "digest", "record", "fill", "done"}

----------------------------------------------------------------------------
(* The invariants of the patches.                                          *)

\* Who is at work was asked for something.
Asked == \A a \in Agents : at[a] # "idle" => proposal[a] \in Proposal

\* What is recorded was generated, and what will be recorded too.
ReceiptsAreEarned ==
    /\ \A t \in Tree : receipts[t] \in Receipt => receipts[t] \in generated
    /\ \A a \in Agents : at[a] \in Answered => Authored(a) \in generated

\* A directory that is there was made by someone; one that is not holds nothing.
DirectoriesHaveMakers ==
    \A o \in Outputs :
        /\ exists[o] <=> maker[o] \in Agents
        /\ ~exists[o] => tree[o] = Bare

\* A proposal at work in a directory that another made looked before it was made.
OthersAreLate ==
    \A a \in Agents : at[a] \in Active /\ maker[Out(a)] \in Agents \ {a} => late[a]

\* What an unexcused proposal has put into its directory so far.
Progress(a) ==
    CASE at[a] = "copy"  -> \A file \in File \ todo[a] : tree[Out(a)][file] = Base(a)
      [] at[a] = "patch" -> tree[Out(a)] = BaseTree(Base(a))
      [] OTHER           -> tree[Out(a)] = Patched(Base(a), draft[a])

\* It is alone in its directory.
Undisturbed(a) == at[a] \in Holding /\ ~excused[a] => maker[Out(a)] = a /\ Progress(a)

HoldersAreUndisturbed == \A a \in Agents : Undisturbed(a)

PatchInv ==
    /\ PatchTypeOK
    /\ Asked
    /\ ReceiptsAreEarned
    /\ DirectoriesHaveMakers
    /\ OthersAreLate
    /\ HoldersAreUndisturbed
----------------------------------------------------------------------------
(* Types.                                                                  *)

LEMMA TreeTypes ==
    /\ Bare \in Tree
    /\ \A base \in Bases : BaseTree(base) \in Tree
    /\ \A t \in Tree, file \in File, content \in Bases \union Modules \union {Missing} :
           [t EXCEPT ![file] = content] \in Tree
BY DEF Tree, Bare, BaseTree

LEMMA PatchInitType == PatchInit => PatchTypeOK
BY TreeTypes DEF PatchInit, PatchTypeOK

Stages == {"idle"} \union Active \union Over

PlaceType ==
    /\ tree \in [Outputs -> Tree] /\ exists \in [Outputs -> BOOLEAN]
    /\ maker \in [Outputs -> Agents \union {Nobody}]
    /\ late \in [Agents -> BOOLEAN] /\ excused \in [Agents -> BOOLEAN]

\* Where a proposal goes on to.
LEMMA GoOnType ==
    ASSUME PatchTypeOK, NEW a \in Agents,
           NEW to \in Stages, GoOn(a, to)
    PROVE  /\ at' \in [Agents -> Stages]
           /\ at'[a] = to
           /\ \A b \in Agents \ {a} : at'[b] = at[b]
BY DEF PatchTypeOK, GoOn, Stages, Active, Over

\* A proposal takes the directory that is not there.
LEMMA ClaimType ==
    ASSUME PatchTypeOK, Asked, NEW a \in Agents, at[a] \in Active, Claim(a)
    PROVE  /\ exists' \in [Outputs -> BOOLEAN]
           /\ maker' \in [Outputs -> Agents \union {Nobody}]
           /\ late' \in [Agents -> BOOLEAN]
           /\ exists'[Out(a)] /\ maker'[Out(a)] = a
           /\ \A o \in Outputs \ {Out(a)} : exists'[o] = exists[o] /\ maker'[o] = maker[o]
           /\ \A q \in Agents : late[q] => late'[q]
           /\ \A q \in Agents \ {a} : at[q] \in Active /\ Out(q) = Out(a) => late'[q]
<1>1. Out(a) \in Outputs
  BY DEF Asked, Active, Proposal, Out
<1>2. exists' = [exists EXCEPT ![Out(a)] = TRUE] /\ maker' = [maker EXCEPT ![Out(a)] = a]
  BY DEF Claim
<1>3. late' = [q \in Agents |->
          late[q] \/ (q # a /\ at[q] \notin {"idle"} \union Over /\ Out(q) = Out(a))]
  BY DEF Claim
<1>4. late' \in [Agents -> BOOLEAN]
  <2>1. \A q \in Agents :
            (late[q] \/ (q # a /\ at[q] \notin {"idle"} \union Over /\ Out(q) = Out(a))) \in BOOLEAN
    BY DEF PatchTypeOK
  <2> QED
    BY <2>1, <1>3, Zenon
<1>5. /\ \A q \in Agents : late[q] => late'[q]
      /\ \A q \in Agents \ {a} : at[q] \in Active /\ Out(q) = Out(a) => late'[q]
  BY <1>3 DEF PatchTypeOK, Active, Over
<1> QED
  BY <1>1, <1>2, <1>4, <1>5 DEF PatchTypeOK

LEMMA ExcuseType ==
    ASSUME PatchTypeOK, NEW these, Excuse(these)
    PROVE  /\ excused' \in [Agents -> BOOLEAN]
           /\ \A a \in Agents : excused'[a] <=> excused[a] \/ a \in these
<1>1. \A a \in Agents : (excused[a] \/ a \in these) \in BOOLEAN
  BY DEF PatchTypeOK
<1> QED
  BY <1>1, Zenon DEF Excuse
\* Where a working proposal writes.
LEMMA WorkType ==
    ASSUME PatchTypeOK, Asked, NEW a \in Agents, at[a] # "idle"
    PROVE  /\ proposal[a] \in Proposal /\ Base(a) \in Bases /\ Out(a) \in Outputs
           /\ tree[Out(a)] \in Tree /\ maker[Out(a)] \in Agents \union {Nobody}
           /\ exists[Out(a)] \in BOOLEAN
BY DEF PatchTypeOK, Asked, Proposal, Base, Out

\* A file written into a directory: the directory is there afterwards, and
\* only that file differs.
LEMMA PutType ==
    ASSUME PatchTypeOK, Asked, NEW a \in Agents, at[a] \in Active,
           NEW file \in File, NEW content \in Bases \union Modules \union {Missing},
           Put(a, file, content)
    PROVE  /\ tree' \in [Outputs -> Tree]
           /\ tree'[Out(a)] = [tree[Out(a)] EXCEPT ![file] = content]
           /\ \A o \in Outputs \ {Out(a)} : tree'[o] = tree[o]
           /\ exists' \in [Outputs -> BOOLEAN]
           /\ maker' \in [Outputs -> Agents \union {Nobody}]
           /\ late' \in [Agents -> BOOLEAN] /\ excused' \in [Agents -> BOOLEAN]
           /\ exists'[Out(a)]
           /\ \A q \in Agents : (late[q] => late'[q]) /\ (excused[q] => excused'[q])
<1>1. Out(a) \in Outputs /\ tree[Out(a)] \in Tree
  BY WorkType DEF Active
<1>2. tree' = [tree EXCEPT ![Out(a)] = [tree[Out(a)] EXCEPT ![file] = content]]
  BY DEF Put
<1>3. [tree[Out(a)] EXCEPT ![file] = content] \in Tree
  BY <1>1, TreeTypes
<1>4. /\ tree' \in [Outputs -> Tree]
      /\ tree'[Out(a)] = [tree[Out(a)] EXCEPT ![file] = content]
      /\ \A o \in Outputs \ {Out(a)} : tree'[o] = tree[o]
  BY <1>1, <1>2, <1>3 DEF PatchTypeOK
<1>5. CASE exists[Out(a)]
  <2>1. UNCHANGED <<exists, maker, late>> /\ Excuse(IF excused[a] THEN {maker[Out(a)]} ELSE {})
    BY <1>5 DEF Put
  <2> QED
    BY <2>1, <1>4, <1>5, ExcuseType DEF PatchTypeOK
<1>6. CASE ~exists[Out(a)]
  <2>1. Claim(a) /\ UNCHANGED excused
    BY <1>6 DEF Put
  <2> QED
    BY <2>1, <1>4, ClaimType DEF PatchTypeOK
<1> QED
  BY <1>5, <1>6

\* What may be filed under a tree.
Filed == Receipt \union {None} \union {Begun(a) : a \in Agents}

LEMMA AuthoredType ==
    ASSUME PatchTypeOK, ReceiptsAreEarned, NEW a \in Agents, at[a] \in Answered
    PROVE  Authored(a) \in Receipt
BY DEF PatchTypeOK, ReceiptsAreEarned, Receipt

LEMMA FiledType ==
    ASSUME PatchTypeOK, NEW t \in Tree, NEW file \in Filed,
           receipts' = [receipts EXCEPT ![t] = file]
    PROVE  receipts' \in [Tree -> Filed]
BY DEF PatchTypeOK, Filed

LEMMA TypeStep ==
    ASSUME PatchTypeOK, Asked, ReceiptsAreEarned, [PatchNext]_patchVars
    PROVE  PatchTypeOK' /\ Asked'
<1> USE DEF Stages, Active, Answered
<1>1. ASSUME NEW a \in Agents, Propose(a)
      PROVE  PatchTypeOK' /\ Asked'
  <2>1. PICK asked \in Proposal :
            /\ proposal' = [proposal EXCEPT ![a] = asked]
            /\ GoOn(a, IF exists[asked.output] THEN "rejected" ELSE "model")
    BY <1>1 DEF Propose
  <2>2. UNCHANGED <<draft, todo, sealed, receipts, generated, place>>
    BY <1>1 DEF Propose
  <2>3. PatchTypeOK'
    BY <2>1, <2>2, GoOnType DEF PatchTypeOK, place, Over
  <2>4. Asked'
    BY <2>1, GoOnType DEF PatchTypeOK, Asked, Over
  <2> QED
    BY <2>3, <2>4
<1>2. ASSUME NEW a \in Agents, ModelFails(a)
      PROVE  PatchTypeOK' /\ Asked'
  BY <1>2, GoOnType DEF ModelFails, PatchTypeOK, Asked, place, Over
<1>3. ASSUME NEW a \in Agents, ModelAnswers(a)
      PROVE  PatchTypeOK' /\ Asked'
  <2>1. PICK module \in Modules \union {Base(a)} :
            /\ draft' = [draft EXCEPT ![a] = module]
            /\ generated' = generated \union {[base |-> Base(a), module |-> module]}
    BY <1>3 DEF ModelAnswers
  <2>2. Base(a) \in Bases
    BY <1>3, WorkType DEF ModelAnswers
  <2>3. draft' \in [Agents -> Bases \union Modules \union {Missing}]
    BY <2>1, <2>2 DEF PatchTypeOK
  <2>4. generated' \subseteq [base : Bases, module : Bases \union Modules]
    BY <2>1, <2>2 DEF PatchTypeOK
  <2> QED
    BY <1>3, <2>3, <2>4, GoOnType DEF ModelAnswers, PatchTypeOK, Asked, place
<1>4. ASSUME NEW a \in Agents, MakeDirectory(a)
      PROVE  PatchTypeOK' /\ Asked'
  <2>1. UNCHANGED <<proposal, draft, sealed, receipts, generated>>
    BY <1>4 DEF MakeDirectory
  <2>2. todo' = [todo EXCEPT ![a] = File] /\ GoOn(a, IF exists[Out(a)] THEN "cleanup" ELSE "copy")
    BY <1>4 DEF MakeDirectory, Reject
  <2>3. CASE exists[Out(a)]
    BY <1>4, <2>1, <2>2, <2>3, GoOnType DEF MakeDirectory, PatchTypeOK, Asked, place
  <2>4. CASE ~exists[Out(a)]
    <3>1. Claim(a) /\ UNCHANGED <<tree, excused>> /\ at[a] \in Active
      BY <1>4, <2>4 DEF MakeDirectory
    <3> QED
      BY <1>4, <2>1, <2>2, <2>4, <3>1, GoOnType, ClaimType DEF MakeDirectory, PatchTypeOK, Asked
  <2> QED
    BY <2>3, <2>4
<1>5. ASSUME NEW a \in Agents, CopyFile(a)
      PROVE  PatchTypeOK' /\ Asked'
  <2>1. PICK file \in todo[a] :
            /\ Put(a, file, Base(a))
            /\ todo' = [todo EXCEPT ![a] = @ \ {file}]
            /\ GoOn(a, IF todo[a] = {file} THEN "patch" ELSE "copy")
    BY <1>5 DEF CopyFile
  <2>2. at[a] \in Active /\ UNCHANGED <<proposal, draft, sealed, receipts, generated>>
    BY <1>5 DEF CopyFile
  <2>3. file \in File /\ Base(a) \in Bases
    BY <2>1, <2>2, WorkType DEF PatchTypeOK
  <2>4. todo' \in [Agents -> SUBSET File]
    BY <2>1 DEF PatchTypeOK
  <2>5. PlaceType'
    BY <2>1, <2>2, <2>3, PutType DEF PlaceType
  <2>6. at' \in [Agents -> Stages] /\ at[a] # "idle" /\ \A b \in Agents \ {a} : at'[b] = at[b]
    BY <2>1, <2>2, GoOnType DEF Over
  <2> QED
    BY <2>2, <2>4, <2>5, <2>6 DEF PlaceType, PatchTypeOK, Asked
<1>6. ASSUME NEW a \in Agents, WriteModule(a)
      PROVE  PatchTypeOK' /\ Asked'
  <2>1. /\ at[a] = "patch" /\ Put(a, "handler", draft[a]) /\ GoOn(a, "digest")
        /\ UNCHANGED <<proposal, draft, todo, sealed, receipts, generated>>
    BY <1>6 DEF WriteModule
  <2>2. "handler" \in File /\ draft[a] \in Bases \union Modules \union {Missing}
    BY DEF File, PatchTypeOK
  <2>3. PlaceType'
    BY <2>1, <2>2, PutType DEF PlaceType
  <2>4. at' \in [Agents -> Stages] /\ \A b \in Agents \ {a} : at'[b] = at[b]
    BY <2>1, GoOnType DEF Over
  <2> QED
    BY <2>1, <2>3, <2>4 DEF PlaceType, PatchTypeOK, Asked
<1>7. ASSUME NEW a \in Agents, TakeDigest(a)
      PROVE  PatchTypeOK' /\ Asked'
  <2>1. /\ at[a] = "digest" /\ sealed' = [sealed EXCEPT ![a] = tree[Out(a)]]
        /\ UNCHANGED <<proposal, draft, receipts, generated, place>>
    BY <1>7 DEF TakeDigest
  <2>2. \/ GoOn(a, "cleanup") /\ todo' = [todo EXCEPT ![a] = File]
        \/ GoOn(a, "record") /\ UNCHANGED todo
    BY <1>7 DEF TakeDigest, Reject
  <2>3. todo' \in [Agents -> SUBSET File]
    BY <2>2 DEF PatchTypeOK
  <2>4. tree[Out(a)] \in Tree
    BY <2>1, WorkType
  <2> QED
    BY <2>1, <2>2, <2>3, <2>4, GoOnType DEF PatchTypeOK, Asked, place
<1>8. ASSUME NEW a \in Agents, Record(a)
      PROVE  PatchTypeOK' /\ Asked'
  <2>1. at[a] = "record" /\ UNCHANGED <<proposal, draft, todo, sealed, generated, place>>
    BY <1>8 DEF Record
  <2>2. \/ receipts' = [receipts EXCEPT ![sealed[a]] = Begun(a)] /\ GoOn(a, "fill")
        \/ /\ receipts' = [receipts EXCEPT ![sealed[a]] = Authored(a)] /\ GoOn(a, "done")
           /\ receipts[sealed[a]] # None
    BY <1>8 DEF Record
  <2>3. Authored(a) \in Filed /\ Begun(a) \in Filed /\ sealed[a] \in Tree
    BY <2>1, AuthoredType DEF Filed, PatchTypeOK
  <2>4. receipts' \in [Tree -> Filed]
    BY <2>2, <2>3, FiledType
  <2> QED
    BY <2>1, <2>2, <2>4, GoOnType DEF PatchTypeOK, Asked, place, Over, Filed
<1>9. ASSUME NEW a \in Agents, FillReceipt(a)
      PROVE  PatchTypeOK' /\ Asked'
  <2>1. Authored(a) \in Filed /\ sealed[a] \in Tree
    BY <1>9, AuthoredType DEF FillReceipt, Filed, PatchTypeOK
  <2>2. receipts' \in [Tree -> Filed]
    BY <1>9, <2>1, FiledType DEF FillReceipt, Filed, PatchTypeOK
  <2> QED
    BY <1>9, <2>2, GoOnType DEF FillReceipt, PatchTypeOK, Asked, place, Over, Filed
<1>10. ASSUME NEW a \in Agents, WritingFails(a)
       PROVE  PatchTypeOK' /\ Asked'
  <2>1. receipts' \in [Tree -> Filed]
    BY <1>10, FiledType DEF WritingFails, Filed, PatchTypeOK
  <2>2. todo' \in [Agents -> SUBSET File] /\ GoOn(a, "cleanup") /\ at[a] # "idle"
    BY <1>10 DEF WritingFails, Reject, PatchTypeOK
  <2> QED
    BY <1>10, <2>1, <2>2, GoOnType DEF WritingFails, PatchTypeOK, Asked, place, Filed
<1>11. ASSUME NEW a \in Agents, RemoveFile(a)
       PROVE  PatchTypeOK' /\ Asked'
  <2>1. PICK file \in todo[a] :
            /\ tree' = [tree EXCEPT ![Out(a)][file] = Missing]
            /\ todo' = [todo EXCEPT ![a] = @ \ {file}]
            /\ Excuse(IF tree[Out(a)][file] # Missing THEN Overtaken(a) ELSE {})
    BY <1>11 DEF RemoveFile
  <2>2. tree' \in [Outputs -> Tree]
    <3>1. file \in File /\ Out(a) \in Outputs /\ tree[Out(a)] \in Tree
      BY <1>11, WorkType DEF RemoveFile, PatchTypeOK
    <3>2. [tree[Out(a)] EXCEPT ![file] = Missing] \in Tree
      BY <3>1, TreeTypes
    <3> QED
      BY <2>1, <3>1, <3>2 DEF PatchTypeOK
  <2>3. todo' \in [Agents -> SUBSET File]
    BY <2>1 DEF PatchTypeOK
  <2> QED
    BY <1>11, <2>1, <2>2, <2>3, ExcuseType DEF RemoveFile, PatchTypeOK, Asked
<1>12. ASSUME NEW a \in Agents, RemoveDirectory(a)
       PROVE  PatchTypeOK' /\ Asked'
  <2>1. /\ at[a] = "cleanup" /\ GoOn(a, "rejected")
        /\ UNCHANGED <<proposal, draft, todo, sealed, receipts, generated, tree, late>>
    BY <1>12 DEF RemoveDirectory
  <2>2. /\ exists' \in [Outputs -> BOOLEAN]
        /\ maker' \in [Outputs -> Agents \union {Nobody}]
        /\ excused' \in [Agents -> BOOLEAN]
    <3>1. CASE exists[Out(a)] /\ tree[Out(a)] = Bare
      <4>1. /\ exists' = [exists EXCEPT ![Out(a)] = FALSE]
            /\ maker' = [maker EXCEPT ![Out(a)] = Nobody]
            /\ Excuse(Overtaken(a))
        BY <1>12, <3>1 DEF RemoveDirectory
      <4> QED
        BY <4>1, ExcuseType DEF PatchTypeOK
    <3>2. CASE ~(exists[Out(a)] /\ tree[Out(a)] = Bare)
      BY <1>12, <3>2 DEF RemoveDirectory, PatchTypeOK
    <3> QED
      BY <3>1, <3>2
  <2> QED
    BY <2>1, <2>2, GoOnType DEF PatchTypeOK, Asked, Over
<1>13. ASSUME NEW a \in Agents, AgentDies(a)
       PROVE  PatchTypeOK' /\ Asked'
  BY <1>13, GoOnType DEF AgentDies, PatchTypeOK, Asked, place, Over
<1>14. ASSUME OwnerDeletes
       PROVE  PatchTypeOK' /\ Asked'
  <2>1. PICK o \in Outputs :
            /\ tree' = [tree EXCEPT ![o] = Bare]
            /\ exists' = [exists EXCEPT ![o] = FALSE]
            /\ maker' = [maker EXCEPT ![o] = Nobody]
            /\ Excuse({maker[o]})
    BY <1>14 DEF OwnerDeletes
  <2> QED
    BY <1>14, <2>1, ExcuseType, TreeTypes DEF OwnerDeletes, PatchTypeOK, Asked
<1>15. ASSUME UNCHANGED patchVars
       PROVE  PatchTypeOK' /\ Asked'
  BY <1>15 DEF patchVars, place, PatchTypeOK, Asked
<1> QED
  BY <1>1, <1>2, <1>3, <1>4, <1>5, <1>6, <1>7, <1>8, <1>9, <1>10, <1>11, <1>12, <1>13, <1>14,
     <1>15 DEF PatchNext

----------------------------------------------------------------------------
(* Authorship.                                                             *)

\* What is only begun, or not there, is no receipt.
LEMMA NoReceipts ==
    /\ None \notin Receipt
    /\ \A a : Begun(a) \notin Receipt
<1>1. \A r \in Receipt : DOMAIN r = {"base", "module"}
  BY DEF Receipt
<1>2. DOMAIN None = {"state"} /\ \A a : DOMAIN Begun(a) = {"state", "by"}
  BY DEF None, Begun
<1>3. {"base", "module"} # {"state"} /\ {"base", "module"} # {"state", "by"}
  OBVIOUS
<1> QED
  BY <1>1, <1>2, <1>3

\* A step in which no model answers: what is filed was filed, or is no receipt,
\* or is the receipt of a proposal with an answer.
LEMMA FilingKeepsAuthorship ==
    ASSUME PatchTypeOK, ReceiptsAreEarned,
           UNCHANGED <<proposal, draft, generated>>,
           \A b \in Agents : at'[b] \in Answered => at[b] \in Answered,
           \A t \in Tree : \/ receipts'[t] = receipts[t]
                           \/ receipts'[t] \notin Receipt
                           \/ \E b \in Agents : at[b] \in Answered /\ receipts'[t] = Authored(b)
    PROVE  ReceiptsAreEarned'
<1>1. ASSUME NEW t \in Tree, receipts'[t] \in Receipt
      PROVE  receipts'[t] \in generated'
  BY <1>1 DEF ReceiptsAreEarned
<1>2. ASSUME NEW b \in Agents, at'[b] \in Answered
      PROVE  Authored(b)' \in generated'
  BY <1>2 DEF ReceiptsAreEarned, Authored, Base
<1> QED
  BY <1>1, <1>2 DEF ReceiptsAreEarned

LEMMA ReceiptsStep ==
    ASSUME PatchTypeOK, Asked, ReceiptsAreEarned, [PatchNext]_patchVars
    PROVE  ReceiptsAreEarned'
<1> USE DEF Stages, Active, Answered
<1>1. ASSUME NEW a \in Agents, ModelAnswers(a)
      PROVE  ReceiptsAreEarned'
  <2>1. PICK module \in Modules \union {Base(a)} :
            /\ draft' = [draft EXCEPT ![a] = module]
            /\ generated' = generated \union {[base |-> Base(a), module |-> module]}
    BY <1>1 DEF ModelAnswers
  <2>2. /\ \A b \in Agents \ {a} : at'[b] = at[b]
        /\ UNCHANGED <<proposal, receipts>>
    BY <1>1, GoOnType DEF ModelAnswers
  <2>3. \A b \in Agents \ {a} : Authored(b)' = Authored(b)
    BY <2>1, <2>2 DEF Authored, Base, PatchTypeOK
  <2>4. Authored(a)' = [base |-> Base(a), module |-> module]
    BY <2>1, <2>2 DEF Authored, Base, PatchTypeOK
  <2>5. \A b \in Agents : at'[b] \in Answered => Authored(b)' \in generated'
    BY <2>1, <2>2, <2>3, <2>4 DEF ReceiptsAreEarned
  <2>6. \A t \in Tree : receipts'[t] \in Receipt => receipts'[t] \in generated'
    BY <2>1, <2>2 DEF ReceiptsAreEarned
  <2> QED
    BY <2>5, <2>6 DEF ReceiptsAreEarned
<1>2. ASSUME NEW a \in Agents, Propose(a) \/ ModelFails(a)
      PROVE  ReceiptsAreEarned'
  <2>1. \A b \in Agents : at'[b] \in Answered => at[b] \in Answered
    BY <1>2, GoOnType DEF Propose, ModelFails, Over
  <2>2. UNCHANGED <<draft, receipts, generated>>
    BY <1>2 DEF Propose, ModelFails
  <2>3. \A b \in Agents \ {a} : proposal'[b] = proposal[b]
    BY <1>2 DEF Propose, ModelFails, PatchTypeOK
  <2>4. at'[a] \notin Answered
    BY <1>2, GoOnType DEF Propose, ModelFails, Over
  <2>5. \A b \in Agents : at'[b] \in Answered => Authored(b)' = Authored(b)
    BY <2>2, <2>3, <2>4 DEF Authored, Base
  <2> QED
    BY <2>1, <2>2, <2>5 DEF ReceiptsAreEarned
<1>3. ASSUME NEW a \in Agents,
             \/ MakeDirectory(a) \/ CopyFile(a) \/ WriteModule(a) \/ TakeDigest(a)
             \/ RemoveFile(a) \/ RemoveDirectory(a) \/ AgentDies(a)
      PROVE  ReceiptsAreEarned'
  <2>1. UNCHANGED <<proposal, draft, receipts, generated>>
    BY <1>3 DEF MakeDirectory, CopyFile, WriteModule, TakeDigest, RemoveFile, RemoveDirectory,
                AgentDies
  <2>2. \A b \in Agents : at'[b] \in Answered => at[b] \in Answered
    <3>1. CASE MakeDirectory(a) \/ CopyFile(a) \/ WriteModule(a) \/ TakeDigest(a)
      <4>1. at[a] \in Answered
        BY <3>1 DEF MakeDirectory, CopyFile, WriteModule, TakeDigest
      <4>2. \E to \in Stages : GoOn(a, to)
        BY <3>1 DEF MakeDirectory, CopyFile, WriteModule, TakeDigest, Reject
      <4> QED
        BY <4>1, <4>2, GoOnType
    <3>2. CASE RemoveFile(a)
      BY <3>2 DEF RemoveFile
    <3>3. CASE RemoveDirectory(a) \/ AgentDies(a)
      BY <3>3, GoOnType DEF RemoveDirectory, AgentDies, Over
    <3> QED
      BY <1>3, <3>1, <3>2, <3>3
  <2> QED
    BY <2>1, <2>2, FilingKeepsAuthorship
<1>4. ASSUME NEW a \in Agents, Record(a) \/ FillReceipt(a) \/ WritingFails(a)
      PROVE  ReceiptsAreEarned'
  <2>1. UNCHANGED <<proposal, draft, generated>> /\ at[a] \in Answered
    BY <1>4 DEF Record, FillReceipt, WritingFails
  <2>2. \E to \in Stages : GoOn(a, to)
    BY <1>4 DEF Record, FillReceipt, WritingFails, Reject, Over
  <2>3. \A b \in Agents : at'[b] \in Answered => at[b] \in Answered
    BY <2>1, <2>2, GoOnType
  <2>4. \/ receipts' = receipts
        \/ \E file \in {Begun(a), None, Authored(a)} :
              receipts' = [receipts EXCEPT ![sealed[a]] = file]
    BY <1>4 DEF Record, FillReceipt, WritingFails
  <2>5. \A t \in Tree : \/ receipts'[t] = receipts[t]
                        \/ receipts'[t] \notin Receipt
                        \/ receipts'[t] = Authored(a)
    BY <2>4, NoReceipts DEF PatchTypeOK
  <2> QED
    BY <2>1, <2>3, <2>5, FilingKeepsAuthorship
<1>5. ASSUME OwnerDeletes \/ UNCHANGED patchVars
      PROVE  ReceiptsAreEarned'
  BY <1>5, FilingKeepsAuthorship DEF OwnerDeletes, patchVars
<1> QED
  BY <1>1, <1>2, <1>3, <1>4, <1>5 DEF PatchNext

----------------------------------------------------------------------------
(* Directories and those who come late to them.                            *)

Makers == DirectoriesHaveMakers /\ OthersAreLate

\* A step after which whoever is at work was at work, on the same output.
SameWork == \A b \in Agents : at'[b] \in Active => at[b] \in Active /\ proposal'[b] = proposal[b]

LEMMA SameWorkFrom ==
    ASSUME PatchTypeOK, NEW a \in Agents, at[a] \in Active, NEW to \in Stages, GoOn(a, to),
           UNCHANGED proposal
    PROVE  SameWork
BY GoOnType DEF SameWork

LEMMA StandingKeepsMakers ==
    ASSUME Makers, SameWork, UNCHANGED <<tree, exists, maker, late>>
    PROVE  Makers'
BY DEF Makers, DirectoriesHaveMakers, OthersAreLate, SameWork, Out

\* The one who claims a directory makes everyone at work in it late.
LEMMA ClaimKeepsMakers ==
    ASSUME PatchTypeOK, Asked, Makers, SameWork, NEW a \in Agents, at[a] \in Active, Claim(a),
           \A o \in Outputs \ {Out(a)} : tree'[o] = tree[o]
    PROVE  Makers'
<1>1. Out(a) \in Outputs /\ \A b \in Agents : at[b] \in Active => Out(b) \in Outputs
  BY WorkType DEF Active
<1>2. DirectoriesHaveMakers'
  BY <1>1, ClaimType DEF Makers, DirectoriesHaveMakers
<1>3. ASSUME NEW b \in Agents, at'[b] \in Active, maker'[Out(b)'] \in Agents \ {b}
      PROVE  late'[b]
  <2>1. at[b] \in Active /\ Out(b)' = Out(b) /\ Out(b) \in Outputs
    BY <1>1, <1>3 DEF SameWork, Out
  <2>2. CASE Out(b) = Out(a)
    BY <1>3, <2>1, <2>2, ClaimType
  <2>3. CASE Out(b) # Out(a)
    BY <1>3, <2>1, <2>3, ClaimType DEF Makers, OthersAreLate
  <2> QED
    BY <2>2, <2>3
<1> QED
  BY <1>2, <1>3 DEF Makers, OthersAreLate

LEMMA PutKeepsMakers ==
    ASSUME PatchTypeOK, Asked, Makers, SameWork, NEW a \in Agents, at[a] \in Active,
           NEW file \in File, NEW content \in Bases \union Modules \union {Missing},
           Put(a, file, content)
    PROVE  Makers'
<1>1. \A o \in Outputs \ {Out(a)} : tree'[o] = tree[o]
  BY PutType
<1>2. CASE exists[Out(a)]
  <2>1. UNCHANGED <<exists, maker, late>>
    BY <1>2 DEF Put
  <2> QED
    BY <1>1, <1>2, <2>1 DEF Makers, DirectoriesHaveMakers, OthersAreLate, SameWork, Out
<1>3. CASE ~exists[Out(a)]
  <2>1. Claim(a)
    BY <1>3 DEF Put
  <2> QED
    BY <1>1, <2>1, ClaimKeepsMakers
<1> QED
  BY <1>2, <1>3

\* A directory is emptied or removed, or it stands.
LEMMA RemovalKeepsMakers ==
    ASSUME PatchTypeOK, Makers, SameWork, NEW o \in Outputs,
           tree' \in [Outputs -> Tree],
           \A p \in Outputs \ {o} : tree'[p] = tree[p],
           ~exists[o] => tree'[o] = Bare,
           UNCHANGED late,
           \/ UNCHANGED <<exists, maker>>
           \/ /\ exists' = [exists EXCEPT ![o] = FALSE] /\ maker' = [maker EXCEPT ![o] = Nobody]
              /\ tree'[o] = Bare,
           \A b \in Agents : at'[b] \in Active => Out(b) \in Outputs
    PROVE  Makers'
<1>1. DirectoriesHaveMakers'
  BY PatchAssumption DEF PatchTypeOK, Makers, DirectoriesHaveMakers
<1>2. OthersAreLate'
  BY PatchAssumption DEF PatchTypeOK, Makers, OthersAreLate, SameWork, Out
<1> QED
  BY <1>1, <1>2 DEF Makers

LEMMA MakersStep ==
    ASSUME PatchTypeOK, Asked, Makers, [PatchNext]_patchVars
    PROVE  Makers'
<1> USE DEF Stages, Active
<1>1. ASSUME NEW a \in Agents, Propose(a)
      PROVE  Makers'
  <2>1. PICK asked \in Proposal :
            /\ proposal' = [proposal EXCEPT ![a] = asked]
            /\ GoOn(a, IF exists[asked.output] THEN "rejected" ELSE "model")
    BY <1>1 DEF Propose
  <2>2. UNCHANGED <<tree, exists, maker, late>>
    BY <1>1 DEF Propose, place
  <2>3. at'[a] \in Active => Out(a)' = asked.output /\ asked.output \in Outputs /\ ~exists[asked.output]
    BY <2>1, GoOnType DEF Over, Out, Proposal, PatchTypeOK
  <2>4. \A b \in Agents \ {a} : at'[b] = at[b] /\ Out(b)' = Out(b)
    BY <2>1, GoOnType DEF Over, Out, PatchTypeOK
  <2> QED
    BY <2>2, <2>3, <2>4 DEF Makers, DirectoriesHaveMakers, OthersAreLate
<1>2. ASSUME NEW a \in Agents,
             \/ ModelFails(a) \/ ModelAnswers(a) \/ TakeDigest(a)
             \/ Record(a) \/ FillReceipt(a) \/ WritingFails(a) \/ AgentDies(a)
      PROVE  Makers'
  <2>1. UNCHANGED <<proposal, tree, exists, maker, late>> /\ at[a] \in Active
    BY <1>2 DEF ModelFails, ModelAnswers, TakeDigest, Record, FillReceipt, WritingFails, AgentDies,
                place, Over, PatchTypeOK
  <2>2. \E to \in Stages : GoOn(a, to)
    BY <1>2 DEF ModelFails, ModelAnswers, TakeDigest, Record, FillReceipt, WritingFails, AgentDies,
                Reject, Over
  <2> QED
    BY <2>1, <2>2, SameWorkFrom, StandingKeepsMakers
<1>3. ASSUME NEW a \in Agents, MakeDirectory(a)
      PROVE  Makers'
  <2>1. /\ at[a] \in Active /\ UNCHANGED <<proposal, tree>>
        /\ GoOn(a, IF exists[Out(a)] THEN "cleanup" ELSE "copy")
    BY <1>3 DEF MakeDirectory, Reject, place
  <2>2. SameWork
    BY <2>1, SameWorkFrom
  <2>3. UNCHANGED place \/ Claim(a)
    BY <1>3 DEF MakeDirectory
  <2> QED
    BY <2>1, <2>2, <2>3, ClaimKeepsMakers, StandingKeepsMakers DEF place
<1>4. ASSUME NEW a \in Agents, CopyFile(a)
      PROVE  Makers'
  <2>1. PICK file \in todo[a] :
            /\ Put(a, file, Base(a))
            /\ GoOn(a, IF todo[a] = {file} THEN "patch" ELSE "copy")
    BY <1>4 DEF CopyFile
  <2>2. at[a] \in Active /\ UNCHANGED proposal
    BY <1>4 DEF CopyFile
  <2>3. file \in File /\ Base(a) \in Bases
    BY <2>1, <2>2, WorkType DEF PatchTypeOK
  <2> QED
    BY <2>1, <2>2, <2>3, SameWorkFrom, PutKeepsMakers
<1>5. ASSUME NEW a \in Agents, WriteModule(a)
      PROVE  Makers'
  <2>1. /\ at[a] \in Active /\ Put(a, "handler", draft[a]) /\ GoOn(a, "digest")
        /\ UNCHANGED proposal
    BY <1>5 DEF WriteModule
  <2>2. "handler" \in File /\ draft[a] \in Bases \union Modules \union {Missing}
    BY DEF File, PatchTypeOK
  <2> QED
    BY <2>1, <2>2, SameWorkFrom, PutKeepsMakers
<1>6. ASSUME NEW a \in Agents, RemoveFile(a)
      PROVE  Makers'
  <2>1. PICK file \in todo[a] : tree' = [tree EXCEPT ![Out(a)][file] = Missing]
    BY <1>6 DEF RemoveFile
  <2>2. UNCHANGED <<at, proposal, exists, maker, late>>
    BY <1>6 DEF RemoveFile
  <2>3. file \in File /\ Out(a) \in Outputs /\ tree[Out(a)] \in Tree
    BY <1>6, WorkType DEF RemoveFile, PatchTypeOK
  <2>4. [tree[Out(a)] EXCEPT ![file] = Missing] \in Tree
    BY <2>3, TreeTypes
  <2>5. tree' = [tree EXCEPT ![Out(a)] = [tree[Out(a)] EXCEPT ![file] = Missing]]
    BY <2>1
  <2>6. /\ tree' \in [Outputs -> Tree]
        /\ \A o \in Outputs \ {Out(a)} : tree'[o] = tree[o]
        /\ tree'[Out(a)] = [tree[Out(a)] EXCEPT ![file] = Missing]
    BY <2>3, <2>4, <2>5 DEF PatchTypeOK
  <2>7. ~exists[Out(a)] => tree'[Out(a)] = Bare
    <3>1. [Bare EXCEPT ![file] = Missing] = Bare
      BY DEF Bare
    <3> QED
      BY <2>3, <2>6, <3>1 DEF Makers, DirectoriesHaveMakers
  <2>8. SameWork /\ \A b \in Agents : at'[b] \in Active => Out(b) \in Outputs
    BY <2>2, WorkType DEF SameWork
  <2> QED
    BY <2>2, <2>3, <2>6, <2>7, <2>8, RemovalKeepsMakers
<1>7. ASSUME NEW a \in Agents, RemoveDirectory(a)
      PROVE  Makers'
  <2>1. at[a] \in Active /\ GoOn(a, "rejected") /\ UNCHANGED <<proposal, tree, late>>
    BY <1>7 DEF RemoveDirectory
  <2>2. SameWork
    BY <2>1, SameWorkFrom DEF Over
  <2>3. Out(a) \in Outputs /\ \A b \in Agents : at'[b] \in Active => Out(b) \in Outputs
    BY <2>1, <2>2, WorkType DEF SameWork
  <2>4. \/ UNCHANGED <<exists, maker>>
        \/ /\ exists' = [exists EXCEPT ![Out(a)] = FALSE]
           /\ maker' = [maker EXCEPT ![Out(a)] = Nobody]
           /\ tree[Out(a)] = Bare
    BY <1>7 DEF RemoveDirectory
  <2>5. ~exists[Out(a)] => tree[Out(a)] = Bare
    BY <2>3 DEF Makers, DirectoriesHaveMakers
  <2>6. tree' = tree /\ tree \in [Outputs -> Tree]
    BY <2>1 DEF PatchTypeOK
  <2> QED
    BY <2>1, <2>2, <2>3, <2>4, <2>5, <2>6, RemovalKeepsMakers
<1>8. ASSUME OwnerDeletes
      PROVE  Makers'
  <2>1. PICK o \in Outputs :
            /\ tree' = [tree EXCEPT ![o] = Bare]
            /\ exists' = [exists EXCEPT ![o] = FALSE]
            /\ maker' = [maker EXCEPT ![o] = Nobody]
    BY <1>8 DEF OwnerDeletes
  <2>2. UNCHANGED <<at, proposal, late>>
    BY <1>8 DEF OwnerDeletes
  <2>3. SameWork /\ \A b \in Agents : at'[b] \in Active => Out(b) \in Outputs
    BY <2>2, WorkType DEF SameWork
  <2>4. /\ tree' \in [Outputs -> Tree] /\ tree'[o] = Bare
        /\ \A p \in Outputs \ {o} : tree'[p] = tree[p]
    BY <2>1, TreeTypes DEF PatchTypeOK
  <2> QED
    BY <2>1, <2>2, <2>3, <2>4, RemovalKeepsMakers
<1>9. ASSUME UNCHANGED patchVars
      PROVE  Makers'
  BY <1>9, StandingKeepsMakers DEF patchVars, place, SameWork
<1> QED
  BY <1>1, <1>2, <1>3, <1>4, <1>5, <1>6, <1>7, <1>8, <1>9 DEF PatchNext

----------------------------------------------------------------------------
(* Proposals that nothing excuses.                                         *)

\* A proposal that does nothing, while its directory stands.
LEMMA HolderStands ==
    ASSUME NEW b \in Agents, Undisturbed(b),
           at'[b] = at[b], proposal'[b] = proposal[b], draft'[b] = draft[b], todo'[b] = todo[b],
           excused[b] => excused'[b],
           at[b] \in Holding /\ ~excused'[b] =>
               maker'[Out(b)] = maker[Out(b)] /\ tree'[Out(b)] = tree[Out(b)]
    PROVE  Undisturbed(b)'
BY DEF Undisturbed, Progress, Out, Base

\* A proposal that moves on among its last steps.
LEMMA HolderMovesOn ==
    ASSUME NEW a \in Agents, Undisturbed(a),
           at[a] \in {"digest", "record", "fill"}, at'[a] \in {"record", "fill", "done"},
           UNCHANGED <<proposal, draft, tree, maker, excused>>
    PROVE  Undisturbed(a)'
<1>1. at[a] \in Holding /\ (Progress(a) <=> tree[Out(a)] = Patched(Base(a), draft[a]))
  BY DEF Holding, Progress
<1>2. Progress(a)' <=> tree'[Out(a)'] = Patched(Base(a), draft[a])'
  BY DEF Holding, Progress
<1>3. tree'[Out(a)'] = tree[Out(a)] /\ Patched(Base(a), draft[a])' = Patched(Base(a), draft[a])
  BY DEF Out, Base, Patched, BaseTree
<1> QED
  BY <1>1, <1>2, <1>3 DEF Undisturbed, Out

\* What others write into the directory of a holder excuses it.
LEMMA PutSparesHolders ==
    ASSUME PatchTypeOK, Asked, Makers, HoldersAreUndisturbed,
           NEW a \in Agents, at[a] \in {"copy", "patch"},
           NEW file \in File, NEW content \in Bases \union Modules \union {Missing},
           Put(a, file, content), UNCHANGED <<proposal, draft>>,
           NEW b \in Agents \ {a}, at'[b] = at[b], todo'[b] = todo[b]
    PROVE  Undisturbed(b)'
<1>1. excused[b] => excused'[b]
  BY PutType DEF Active
<1>2. ASSUME at[b] \in Holding, ~excused'[b]
      PROVE  maker'[Out(b)] = maker[Out(b)] /\ tree'[Out(b)] = tree[Out(b)]
  <2>1. maker[Out(b)] = b /\ Out(b) \in Outputs /\ exists[Out(b)]
    BY <1>1, <1>2, WorkType DEF HoldersAreUndisturbed, Undisturbed, Holding, Makers, DirectoriesHaveMakers
  <2>2. Out(b) # Out(a)
    <3>1. SUFFICES ASSUME Out(b) = Out(a)
                   PROVE  FALSE
      OBVIOUS
    <3>2. Excuse(IF excused[a] THEN {b} ELSE {})
      BY <2>1, <3>1 DEF Put
    <3>3. excused[a] => excused'[b]
      BY <3>2, ExcuseType
    <3>4. ~excused[a] => maker[Out(a)] = a
      BY DEF HoldersAreUndisturbed, Undisturbed, Holding
    <3> QED
      BY <1>2, <2>1, <3>1, <3>3, <3>4
  <2>3. tree'[Out(b)] = tree[Out(b)]
    BY <2>1, <2>2, PutType DEF Active
  <2>4. maker'[Out(b)] = maker[Out(b)]
    BY <2>1, <2>2, ClaimType DEF Put, Active
  <2> QED
    BY <2>3, <2>4
<1> QED
  BY <1>1, <1>2, HolderStands DEF HoldersAreUndisturbed, Undisturbed

\* The holder's own write: its directory is still its own.
LEMMA PutOfAHolder ==
    ASSUME PatchTypeOK, Asked, Makers, HoldersAreUndisturbed,
           NEW a \in Agents, at[a] \in {"copy", "patch"}, ~excused'[a],
           NEW file \in File, NEW content \in Bases \union Modules \union {Missing},
           Put(a, file, content)
    PROVE  /\ Progress(a) /\ maker'[Out(a)] = a
           /\ tree[Out(a)] \in Tree
           /\ tree'[Out(a)] = [tree[Out(a)] EXCEPT ![file] = content]
<1>1. ~excused[a] /\ tree'[Out(a)] = [tree[Out(a)] EXCEPT ![file] = content]
  BY PutType DEF Active
<1>2. maker[Out(a)] = a /\ Progress(a) /\ Out(a) \in Outputs /\ tree[Out(a)] \in Tree
  BY <1>1, WorkType DEF HoldersAreUndisturbed, Undisturbed, Holding
<1>3. UNCHANGED maker
  BY <1>2 DEF Put, Makers, DirectoriesHaveMakers
<1> QED
  BY <1>1, <1>2, <1>3

\* A directory that another's removal changes was found late.
LEMMA RemovalSparesHolders ==
    ASSUME PatchTypeOK, Asked, Makers, HoldersAreUndisturbed,
           NEW a \in Agents, at[a] = "cleanup", UNCHANGED <<proposal, draft>>,
           NEW b \in Agents \ {a}, at'[b] = at[b], todo'[b] = todo[b],
           excused[b] => excused'[b],
           \A o \in Outputs \ {Out(a)} : maker'[o] = maker[o] /\ tree'[o] = tree[o],
           \/ maker'[Out(a)] = maker[Out(a)] /\ tree'[Out(a)] = tree[Out(a)]
           \/ \A q \in Overtaken(a) \intersect Agents : excused'[q]
    PROVE  Undisturbed(b)'
<1>1. ASSUME at[b] \in Holding, ~excused'[b]
      PROVE  maker'[Out(b)] = maker[Out(b)] /\ tree'[Out(b)] = tree[Out(b)]
  <2>1. maker[Out(b)] = b /\ Out(b) \in Outputs
    BY <1>1, WorkType DEF HoldersAreUndisturbed, Undisturbed, Holding
  <2>2. Out(b) = Out(a) => b \in Overtaken(a)
    BY <2>1 DEF Overtaken, Makers, OthersAreLate, Active
  <2> QED
    BY <1>1, <2>1, <2>2
<1> QED
  BY <1>1, HolderStands DEF HoldersAreUndisturbed, Undisturbed

LEMMA HoldersStep ==
    ASSUME PatchInv, [PatchNext]_patchVars
    PROVE  HoldersAreUndisturbed'
<1> USE DEF Stages, Active
<1>a. PatchTypeOK /\ Asked /\ Makers /\ HoldersAreUndisturbed
  BY DEF PatchInv, Makers
<1>b. SUFFICES ASSUME NEW b \in Agents
               PROVE  Undisturbed(b)'
  BY DEF HoldersAreUndisturbed, Undisturbed
<1>c. Undisturbed(b)
  BY <1>a DEF HoldersAreUndisturbed, Undisturbed
<1>1. ASSUME NEW a \in Agents, Propose(a)
      PROVE  Undisturbed(b)'
  <2>1. /\ \E asked \in Proposal : proposal' = [proposal EXCEPT ![a] = asked]
        /\ \E to \in {"rejected", "model"} : GoOn(a, to)
        /\ UNCHANGED <<draft, todo, tree, maker, excused>>
    BY <1>1 DEF Propose, place
  <2>2. CASE b = a
    BY <1>a, <2>1, <2>2, GoOnType DEF Undisturbed, Holding, Over
  <2>3. CASE b # a
    BY <1>a, <1>c, <2>1, <2>3, GoOnType, HolderStands DEF Over, PatchTypeOK
  <2> QED
    BY <2>2, <2>3
<1>2. ASSUME NEW a \in Agents, ModelAnswers(a)
      PROVE  Undisturbed(b)'
  <2>1. /\ \E module : draft' = [draft EXCEPT ![a] = module]
        /\ GoOn(a, "mkdir")
        /\ UNCHANGED <<proposal, todo, tree, maker, excused>>
    BY <1>2 DEF ModelAnswers, place
  <2>2. CASE b = a
    BY <1>a, <2>1, <2>2, GoOnType DEF Undisturbed, Holding
  <2>3. CASE b # a
    BY <1>a, <1>c, <2>1, <2>3, GoOnType, HolderStands DEF PatchTypeOK
  <2> QED
    BY <2>2, <2>3
<1>3. ASSUME NEW a \in Agents, ModelFails(a) \/ WritingFails(a) \/ AgentDies(a)
      PROVE  Undisturbed(b)'
  <2>1. /\ \E to \in {"rejected", "cleanup", "crashed"} : GoOn(a, to)
        /\ todo' = todo \/ todo' = [todo EXCEPT ![a] = File]
        /\ UNCHANGED <<proposal, draft, tree, maker, excused>>
    BY <1>3 DEF ModelFails, WritingFails, AgentDies, Reject, place
  <2>2. CASE b = a
    BY <1>a, <2>1, <2>2, GoOnType DEF Undisturbed, Holding, Over
  <2>3. CASE b # a
    BY <1>a, <1>c, <2>1, <2>3, GoOnType, HolderStands DEF Over, PatchTypeOK
  <2> QED
    BY <2>2, <2>3
<1>4. ASSUME NEW a \in Agents, MakeDirectory(a)
      PROVE  Undisturbed(b)'
  <2>1. /\ at[a] = "mkdir" /\ UNCHANGED <<proposal, draft>>
        /\ todo' = [todo EXCEPT ![a] = File]
        /\ GoOn(a, IF exists[Out(a)] THEN "cleanup" ELSE "copy")
        /\ UNCHANGED <<tree, excused>>
    BY <1>4 DEF MakeDirectory, Reject, place
  <2>2. exists[Out(a)] => UNCHANGED maker
    BY <1>4 DEF MakeDirectory, place
  <2>3. ~exists[Out(a)] => Claim(a)
    BY <1>4 DEF MakeDirectory
  <2>4. CASE b = a
    <3>1. at'[a] \in {"cleanup", "copy"} /\ (at'[a] = "copy" => ~exists[Out(a)])
      BY <1>a, <2>1, GoOnType
    <3>2. at'[a] = "copy" => maker'[Out(a)] = a
      BY <1>a, <2>1, <2>3, <3>1, ClaimType
    <3>3. todo'[a] = File /\ Out(a)' = Out(a)
      BY <1>a, <2>1 DEF Out, PatchTypeOK
    <3>4. at'[a] = "copy" => Progress(a)'
      BY <3>3 DEF Progress
    <3> QED
      BY <2>4, <3>1, <3>2, <3>3, <3>4 DEF Undisturbed, Holding
  <2>5. CASE b # a
    <3>1. at'[b] = at[b] /\ todo'[b] = todo[b]
      BY <1>a, <2>1, <2>5, GoOnType DEF PatchTypeOK
    <3>2. ASSUME at[b] \in Holding, ~excused'[b]
          PROVE  maker'[Out(b)] = maker[Out(b)]
      <4>1. maker[Out(b)] = b /\ Out(b) \in Outputs /\ exists[Out(b)]
        BY <1>a, <1>c, <2>1, <3>2, WorkType
           DEF Undisturbed, Holding, Makers, DirectoriesHaveMakers
      <4> QED
        BY <1>a, <2>1, <2>2, <2>3, <4>1, ClaimType
    <3> QED
      BY <1>c, <2>1, <3>1, <3>2, HolderStands
  <2> QED
    BY <2>4, <2>5
<1>5. ASSUME NEW a \in Agents, CopyFile(a)
      PROVE  Undisturbed(b)'
  <2>1. PICK file \in todo[a] :
            /\ Put(a, file, Base(a))
            /\ todo' = [todo EXCEPT ![a] = @ \ {file}]
            /\ GoOn(a, IF todo[a] = {file} THEN "patch" ELSE "copy")
    BY <1>5 DEF CopyFile
  <2>2. at[a] = "copy" /\ UNCHANGED <<proposal, draft>>
    BY <1>5 DEF CopyFile
  <2>3. file \in File /\ Base(a) \in Bases /\ todo[a] \in SUBSET File
    BY <1>a, <2>1, <2>2, WorkType DEF PatchTypeOK
  <2>4. CASE b = a
    <3>1. SUFFICES ASSUME ~excused'[a]
                   PROVE  maker'[Out(a)'] = a /\ Progress(a)'
      BY <2>4 DEF Undisturbed
    <3>2. /\ Progress(a) /\ maker'[Out(a)] = a /\ tree[Out(a)] \in Tree
          /\ tree'[Out(a)] = [tree[Out(a)] EXCEPT ![file] = Base(a)]
      BY <1>a, <2>1, <2>2, <2>3, <3>1, PutOfAHolder
    <3>3. \A f \in File \ todo[a] : tree[Out(a)][f] = Base(a)
      BY <2>2, <3>2 DEF Progress
    <3>4. todo'[a] = todo[a] \ {file} /\ Out(a)' = Out(a) /\ Base(a)' = Base(a)
      BY <1>a, <2>1, <2>2 DEF PatchTypeOK, Out, Base
    <3>5. \A f \in File \ todo'[a] : tree'[Out(a)][f] = Base(a)
      BY <2>3, <3>2, <3>3, <3>4 DEF Tree
    <3>6. CASE todo[a] = {file}
      <4>1. at'[a] = "patch"
        BY <1>a, <2>1, <3>6, GoOnType
      <4>2. tree'[Out(a)] \in Tree
        BY <2>3, <3>2, TreeTypes
      <4>3. tree'[Out(a)] = BaseTree(Base(a))
        BY <3>4, <3>5, <3>6, <4>2 DEF Tree, BaseTree
      <4> QED
        BY <3>2, <3>4, <4>1, <4>3 DEF Progress, BaseTree
    <3>7. CASE todo[a] # {file}
      <4>1. at'[a] = "copy"
        BY <1>a, <2>1, <3>7, GoOnType
      <4> QED
        BY <3>2, <3>4, <3>5, <4>1 DEF Progress
    <3> QED
      BY <3>6, <3>7
  <2>5. CASE b # a
    <3>1. at'[b] = at[b] /\ todo'[b] = todo[b]
      BY <1>a, <2>1, <2>5, GoOnType DEF PatchTypeOK
    <3> QED
      BY <1>a, <2>1, <2>2, <2>3, <2>5, <3>1, PutSparesHolders
  <2> QED
    BY <2>4, <2>5
<1>6. ASSUME NEW a \in Agents, WriteModule(a)
      PROVE  Undisturbed(b)'
  <2>1. /\ at[a] = "patch" /\ Put(a, "handler", draft[a]) /\ GoOn(a, "digest")
        /\ UNCHANGED <<proposal, draft, todo>>
    BY <1>6 DEF WriteModule
  <2>2. "handler" \in File /\ draft[a] \in Bases \union Modules \union {Missing}
    BY <1>a DEF File, PatchTypeOK
  <2>3. CASE b = a
    <3>1. SUFFICES ASSUME ~excused'[a]
                   PROVE  maker'[Out(a)'] = a /\ Progress(a)'
      BY <2>3 DEF Undisturbed
    <3>2. /\ Progress(a) /\ maker'[Out(a)] = a
          /\ tree'[Out(a)] = [tree[Out(a)] EXCEPT !["handler"] = draft[a]]
      BY <1>a, <2>1, <2>2, <3>1, PutOfAHolder
    <3>3. tree'[Out(a)] = Patched(Base(a), draft[a])
      BY <2>1, <3>2 DEF Progress, Patched
    <3>4. Out(a)' = Out(a) /\ Patched(Base(a), draft[a])' = Patched(Base(a), draft[a])
      BY <2>1 DEF Out, Base, Patched, BaseTree
    <3>5. at'[a] = "digest"
      BY <1>a, <2>1, GoOnType
    <3> QED
      BY <3>2, <3>3, <3>4, <3>5 DEF Progress
  <2>4. CASE b # a
    <3>1. at'[b] = at[b] /\ todo'[b] = todo[b]
      BY <1>a, <2>1, <2>4, GoOnType
    <3> QED
      BY <1>a, <2>1, <2>2, <2>4, <3>1, PutSparesHolders
  <2> QED
    BY <2>3, <2>4
<1>7. ASSUME NEW a \in Agents, TakeDigest(a) \/ Record(a) \/ FillReceipt(a)
      PROVE  Undisturbed(b)'
  <2>1. /\ at[a] \in {"digest", "record", "fill"}
        /\ \E to \in {"cleanup", "record", "fill", "done"} : GoOn(a, to)
        /\ todo' = todo \/ todo' = [todo EXCEPT ![a] = File]
        /\ UNCHANGED <<proposal, draft, tree, maker, excused>>
    BY <1>7 DEF TakeDigest, Record, FillReceipt, Reject, place
  <2>2. CASE b = a
    <3>1. at'[a] \in {"cleanup", "record", "fill", "done"}
      BY <1>a, <2>1, GoOnType DEF Over
    <3>2. CASE at'[a] = "cleanup"
      BY <2>2, <3>2 DEF Undisturbed, Holding
    <3>3. CASE at'[a] # "cleanup"
      BY <1>c, <2>1, <2>2, <3>1, <3>3, HolderMovesOn
    <3> QED
      BY <3>2, <3>3
  <2>3. CASE b # a
    BY <1>a, <1>c, <2>1, <2>3, GoOnType, HolderStands DEF Over, PatchTypeOK
  <2> QED
    BY <2>2, <2>3
<1>8. ASSUME NEW a \in Agents, RemoveFile(a)
      PROVE  Undisturbed(b)'
  <2>1. PICK file \in todo[a] :
            /\ tree' = [tree EXCEPT ![Out(a)][file] = Missing]
            /\ todo' = [todo EXCEPT ![a] = @ \ {file}]
            /\ Excuse(IF tree[Out(a)][file] # Missing THEN Overtaken(a) ELSE {})
    BY <1>8 DEF RemoveFile
  <2>2. at[a] = "cleanup" /\ UNCHANGED <<at, proposal, draft, maker>>
    BY <1>8 DEF RemoveFile
  <2>3. CASE b = a
    BY <2>2, <2>3 DEF Undisturbed, Holding
  <2>4. CASE b # a
    <3>1. at'[b] = at[b] /\ todo'[b] = todo[b]
      BY <1>a, <2>1, <2>2, <2>4 DEF PatchTypeOK
    <3>2. \A q \in Agents : excused[q] => excused'[q]
      BY <1>a, <2>1, ExcuseType
    <3>3. /\ Out(a) \in Outputs /\ tree[Out(a)] \in Tree /\ file \in File
      BY <1>a, <2>1, <2>2, WorkType DEF PatchTypeOK
    <3>4. tree' = [tree EXCEPT ![Out(a)] = [tree[Out(a)] EXCEPT ![file] = Missing]]
      BY <2>1
    <3>5. /\ \A o \in Outputs \ {Out(a)} : tree'[o] = tree[o]
          /\ tree'[Out(a)] = [tree[Out(a)] EXCEPT ![file] = Missing]
      BY <1>a, <3>3, <3>4 DEF PatchTypeOK
    <3>6. \/ tree'[Out(a)] = tree[Out(a)]
          \/ \A q \in Overtaken(a) \intersect Agents : excused'[q]
      <4>1. CASE tree[Out(a)][file] = Missing
        BY <3>3, <3>5, <4>1 DEF Tree
      <4>2. CASE tree[Out(a)][file] # Missing
        BY <1>a, <2>1, <4>2, ExcuseType
      <4> QED
        BY <4>1, <4>2
    <3> QED
      BY <1>a, <2>2, <2>4, <3>1, <3>2, <3>5, <3>6, RemovalSparesHolders
  <2> QED
    BY <2>3, <2>4
<1>9. ASSUME NEW a \in Agents, RemoveDirectory(a)
      PROVE  Undisturbed(b)'
  <2>1. /\ at[a] = "cleanup" /\ GoOn(a, "rejected")
        /\ UNCHANGED <<proposal, draft, todo, tree>>
    BY <1>9 DEF RemoveDirectory
  <2>2. \/ UNCHANGED <<maker, excused>>
        \/ maker' = [maker EXCEPT ![Out(a)] = Nobody] /\ Excuse(Overtaken(a))
    BY <1>9 DEF RemoveDirectory
  <2>3. CASE b = a
    BY <1>a, <2>1, <2>3, GoOnType DEF Undisturbed, Holding, Over
  <2>4. CASE b # a
    <3>1. at'[b] = at[b]
      BY <1>a, <2>1, <2>4, GoOnType DEF Over
    <3>2. \A q \in Agents : excused[q] => excused'[q]
      BY <1>a, <2>2, ExcuseType
    <3>3. \/ maker' = maker
          \/ \A q \in Overtaken(a) \intersect Agents : excused'[q]
      BY <1>a, <2>2, ExcuseType
    <3>4. \A o \in Outputs \ {Out(a)} : maker'[o] = maker[o]
      BY <1>a, <2>2 DEF PatchTypeOK
    <3> QED
      BY <1>a, <2>1, <2>4, <3>1, <3>2, <3>3, <3>4, RemovalSparesHolders
  <2> QED
    BY <2>3, <2>4
<1>10. ASSUME OwnerDeletes
       PROVE  Undisturbed(b)'
  <2>1. PICK o \in Outputs :
            /\ tree' = [tree EXCEPT ![o] = Bare]
            /\ maker' = [maker EXCEPT ![o] = Nobody]
            /\ Excuse({maker[o]})
    BY <1>10 DEF OwnerDeletes
  <2>2. UNCHANGED <<at, proposal, draft, todo>>
    BY <1>10 DEF OwnerDeletes
  <2>3. ASSUME at[b] \in Holding, ~excused'[b]
        PROVE  maker'[Out(b)] = maker[Out(b)] /\ tree'[Out(b)] = tree[Out(b)]
    <3>1. maker[o] # b /\ ~excused[b]
      BY <1>a, <2>1, <2>3, ExcuseType
    <3>2. maker[Out(b)] = b /\ Out(b) \in Outputs
      BY <1>a, <1>c, <2>3, <3>1, WorkType DEF Undisturbed, Holding
    <3> QED
      BY <1>a, <2>1, <3>1, <3>2 DEF PatchTypeOK
  <2>4. excused[b] => excused'[b]
    BY <1>a, <2>1, ExcuseType
  <2> QED
    BY <1>c, <2>2, <2>3, <2>4, HolderStands
<1>11. ASSUME UNCHANGED patchVars
       PROVE  Undisturbed(b)'
  BY <1>c, <1>11, HolderStands DEF patchVars, place
<1> QED
  BY <1>1, <1>2, <1>3, <1>4, <1>5, <1>6, <1>7, <1>8, <1>9, <1>10, <1>11 DEF PatchNext

----------------------------------------------------------------------------
(* The theorems.                                                           *)

LEMMA PatchInvInit == PatchInit => PatchInv
<1>1. SUFFICES ASSUME PatchInit
               PROVE  PatchInv
  OBVIOUS
<1>2. PatchTypeOK
  BY <1>1, PatchInitType
<1>3. Asked
  BY <1>1 DEF PatchInit, Asked
<1>4. ReceiptsAreEarned
  BY <1>1, NoReceipts DEF PatchInit, ReceiptsAreEarned, Answered
<1>5. DirectoriesHaveMakers
  BY <1>1, PatchAssumption DEF PatchInit, DirectoriesHaveMakers
<1>6. OthersAreLate
  BY <1>1 DEF PatchInit, OthersAreLate, Active
<1>7. HoldersAreUndisturbed
  BY <1>1 DEF PatchInit, HoldersAreUndisturbed, Undisturbed, Holding
<1> QED
  BY <1>2, <1>3, <1>4, <1>5, <1>6, <1>7 DEF PatchInv

LEMMA PatchInvStep == PatchInv /\ [PatchNext]_patchVars => PatchInv'
BY TypeStep, ReceiptsStep, MakersStep, HoldersStep DEF PatchInv, Makers

\* The invariant the theorems below rest on: every step of propose_patch keeps
\* its types, the authorship of what it files, and the makers of directories.
THEOREM PatchInvHolds == PatchSpec => []PatchInv
BY PatchInvInit, PatchInvStep, PTL DEF PatchSpec

\* The variables of propose_patch keep their types.
THEOREM PatchTypeHolds == PatchSpec => []PatchTypeOK
<1>1. PatchInv => PatchTypeOK
  BY DEF PatchInv
<1> QED
  BY <1>1, PatchInvHolds, PTL

LEMMA EarnedMeansTrue == PatchInv => AuthorshipIsTrue
<1>1. SUFFICES ASSUME PatchInv, NEW candidate \in Tree, NEW base \in Bases,
                      Credits(receipts[candidate], base, candidate)
               PROVE  [base |-> base, module |-> candidate["handler"]] \in generated
  BY DEF AuthorshipIsTrue
<1>2. receipts[candidate] \in Receipt /\ receipts[candidate] \in generated
  BY <1>1 DEF Credits, PatchInv, ReceiptsAreEarned
<1>3. receipts[candidate] = [base |-> base, module |-> candidate["handler"]]
  BY <1>1, <1>2 DEF Credits, Receipt
<1> QED
  BY <1>2, <1>3

\* check credits a model with a handler (_load_author) only if the model wrote
\* it for that base, however many proposals wrote into however many directories.
THEOREM AuthorshipHolds == PatchSpec => []AuthorshipIsTrue
BY EarnedMeansTrue, PatchInvHolds, PTL

LEMMA UndisturbedMeansStanding == PatchInv => ReportedCandidateStands
BY DEF PatchInv, ReportedCandidateStands, HoldersAreUndisturbed, Undisturbed, Holding, Progress

\* A proposal that propose_patch reported keeps its directory, unless the
\* operator deletes it or one who looked before it was made removes from it.
THEOREM ReportedCandidateHolds == PatchSpec => []ReportedCandidateStands
BY UndisturbedMeansStanding, PatchInvHolds, PTL

----------------------------------------------------------------------------
(* The invariants of the contract.                                         *)

\* A digest is named when a command starts, by the jobs that are told one.
NamesAreGiven ==
    \A p \in Commands :
        /\ phase[p] = "idle" => named[p] = Nothing
        /\ phase[p] \notin {"idle", "crashed"} /\ job[p].does \in {"accept", "init+accept"} =>
               named[p] # Nothing

\* What a command goes through follows from its job and from what it loaded.
RoadsAreKept ==
    \A p \in Commands :
        /\ phase[p] \in {"idle", "look", "read", "load", "answer"} => seen[p] = Nothing
        /\ phase[p] = "load" => job[p].does # "init"
        /\ phase[p] = "rename" => seen[p] # Nothing
        /\ p \in Checking => phase[p] \in {"idle", "load"} \union Ended

\* An acceptance is of the draft its caller named.
AcceptanceIsNamed(p) ==
    p \notin Checking /\ seen[p] # Nothing =>
        /\ seen[p].status = "DRAFT"
        /\ named[p] # Nothing /\ named[p].digest = DigestOf(seen[p])

\* What a command loaded is there, accepted or not, unless it was removed.
LoadedIsThere(p) ==
    seen[p] # Nothing /\ ~lost[p] => Whole(config) /\ config.draft = seen[p].draft

\* What it created is its own, and then of its identity.
CreatedIsItsOwn(p) ==
    ~lost[p] =>
        /\ phase[p] = "fill" => config = Short(p)
        /\ phase[p] \in {"sync", "answer"} /\ seen[p] = Nothing =>
               Whole(config) /\ config.draft.identity = job[p].draft.identity

LifecycleInv ==
    /\ TypeOK
    /\ NamesAreGiven
    /\ RoadsAreKept
    /\ \A p \in Commands : AcceptanceIsNamed(p) /\ LoadedIsThere(p) /\ CreatedIsItsOwn(p)
    /\ OnlyTheNamedDraftIsAccepted

----------------------------------------------------------------------------
(* What the file may hold.                                                 *)

LEMMA ContentFacts ==
    /\ \A c \in Content : /\ c.draft \in Drafts /\ c.status \in {"DRAFT", "ACCEPTED"}
                          /\ c = [draft |-> c.draft, status |-> c.status]
                          /\ Whole(c) /\ DigestOf(c) \in Digests
                          /\ [c EXCEPT !.status = "DRAFT"] \in Content
    /\ ~Whole(Absent) /\ \A p : ~Whole(Short(p)) /\ Short(p) # Absent
    /\ \A p, q : Short(p) = Short(q) => p = q
<1>1. ASSUME NEW c \in Content
      PROVE  /\ c.draft \in Drafts /\ c.status \in {"DRAFT", "ACCEPTED"}
             /\ c = [draft |-> c.draft, status |-> c.status]
             /\ [c EXCEPT !.status = "DRAFT"] \in Content
  BY DEF Content
<1>2. ASSUME NEW c \in Content
      PROVE  Whole(c) /\ DigestOf(c) \in Digests
  <2>1. c.draft.identity \in Identities /\ c.draft.ref \in Refs
    BY <1>1 DEF Drafts
  <2> QED
    BY <1>1, <2>1 DEF Whole, DigestOf, Digests
<1>3. ~Whole(Absent) /\ \A p : ~Whole(Short(p)) /\ Short(p) # Absent
  BY DEF Whole, Absent, Short
<1>4. ASSUME NEW p, NEW q, Short(p) = Short(q)
      PROVE  p = q
  <2>1. Short(p).by = p /\ Short(q).by = q
    BY DEF Short
  <2> QED
    BY <1>4, <2>1
<1> QED
  BY <1>1, <1>2, <1>3, <1>4

LEMMA WholeIsContent ==
    ASSUME TypeOK
    PROVE  Whole(config) <=> config \in Content
BY ContentFacts DEF TypeOK

LEMMA NothingIsLoaded ==
    ASSUME TypeOK, NEW p \in Commands
    PROVE  seen[p] # Nothing => seen[p] \in Content
BY DEF TypeOK

LEMMA JobType ==
    ASSUME TypeOK, NEW p \in Commands
    PROVE  /\ job[p].does \in {"init", "accept", "init+accept", "check"}
           /\ job[p].draft \in Drafts /\ job[p].via \in {"cli", "mcp"}
BY LifecycleAssumption DEF TypeOK

\* The draft of a command's own, wherever its issue is kept.
LEMMA MineType ==
    ASSUME TypeOK, NEW p \in Commands
    PROVE  /\ Mine(p) \in Drafts
           /\ Mine(p).identity = job[p].draft.identity /\ Mine(p).ref = job[p].draft.ref
           /\ Mine(p).audited = job[p].draft.audited
BY JobType DEF Mine, Drafts

LEMMA PayloadType ==
    ASSUME TypeOK, NEW p \in Commands
    PROVE  /\ Payload(p) \in Content
           /\ seen[p] # Nothing =>
                  Payload(p).draft = seen[p].draft /\ Payload(p).status = "ACCEPTED"
           /\ seen[p] = Nothing =>
                  /\ Payload(p).draft = Mine(p)
                  /\ Payload(p).status = "ACCEPTED" <=> job[p].draft.audited
<1>1. CASE seen[p] # Nothing
  BY <1>1, NothingIsLoaded, ContentFacts DEF Payload, Accepting, Content
<1>2. CASE seen[p] = Nothing
  BY <1>2, MineType DEF Payload, Accepting, Content
<1> QED
  BY <1>1, <1>2

LEMMA MoveType ==
    ASSUME TypeOK, NEW p \in Commands, NEW to \in Phase, Move(p, to)
    PROVE  /\ phase' \in [Commands -> Phase] /\ phase'[p] = to
           /\ \A q \in Commands \ {p} : phase'[q] = phase[q]
BY DEF TypeOK, Move

LEMMA WrittenType ==
    ASSUME TypeOK, NEW p \in Commands, Written(p)
    PROVE  /\ phase' \in [Commands -> Phase]
           /\ \A q \in Commands \ {p} : phase'[q] = phase[q]
           /\ seen[p] # Nothing => phase'[p] = "done"
           /\ seen[p] = Nothing =>
                  phase'[p] = IF job[p].does = "init+accept" THEN "load" ELSE "answer"
BY MoveType DEF Written, Accepting, Phase

----------------------------------------------------------------------------
(* Types.                                                                  *)

LEMMA LifecycleTypeInit == Init => TypeOK
BY DEF Init, TypeOK, Phase

LEMMA LifecycleTypeStep ==
    ASSUME TypeOK, [Next]_vars
    PROVE  TypeOK'
<1>1. ASSUME NEW p \in Commands, Start(p)
      PROVE  TypeOK'
  <2>1. /\ phase' \in [Commands -> Phase]
        /\ named' \in [Commands -> Answers \union {Nothing}]
        /\ lost' \in [Commands -> BOOLEAN]
        /\ UNCHANGED <<config, job, seen, told>>
    BY <1>1, MoveType DEF Start, TypeOK, Phase
  <2> QED
    BY <2>1 DEF TypeOK
<1>2. ASSUME NEW p \in Commands,
             \/ Look(p) \/ ReadExisting(p) \/ Meet(p) \/ Compare(p) \/ Seal(p)
             \/ WriteFails(p) \/ Crash(p)
      PROVE  TypeOK'
  <2>1. UNCHANGED <<config, job, named, seen, told, lost>>
    BY <1>2 DEF Look, ReadExisting, Meet, Compare, Seal, WriteFails, Crash
  <2>2. Written(p) \/ \E to \in Phase : Move(p, to)
    BY <1>2 DEF Look, ReadExisting, Meet, Compare, Seal, WriteFails, Crash, Phase
  <2> QED
    BY <2>1, <2>2, MoveType, WrittenType DEF TypeOK
<1>3. ASSUME NEW p \in Commands, ShowContract(p) \/ Answer(p)
      PROVE  TypeOK'
  <2>1. UNCHANGED <<config, job, named, seen, lost>>
    BY <1>3 DEF ShowContract, Answer
  <2>2. \E to \in Phase : Move(p, to)
    BY <1>3 DEF ShowContract, Answer, Phase
  <2>3. told' \subseteq Answers
    <3>1. CASE Answer(p)
      <4>1. ProposalDigest(Mine(p)) \in Digests
        BY MineType DEF ProposalDigest, Digests, Drafts
      <4> QED
        BY <3>1, <4>1, PayloadType DEF Answer, Answers, TypeOK
    <3>2. CASE ShowContract(p) /\ Whole(config)
      <4>1. config \in Content /\ DigestOf(config) \in Digests
        BY <3>2, WholeIsContent, ContentFacts
      <4>2. told' = told \union {[digest |-> DigestOf(config), content |-> config]}
        BY <3>2 DEF ShowContract
      <4> QED
        BY <4>1, <4>2 DEF Answers, TypeOK
    <3>3. CASE ShowContract(p) /\ ~Whole(config)
      BY <3>3 DEF ShowContract, TypeOK
    <3> QED
      BY <1>3, <3>1, <3>2, <3>3
  <2> QED
    BY <2>1, <2>2, <2>3, MoveType DEF TypeOK
<1>4. ASSUME NEW p \in Commands, LoadDraft(p) \/ LoadContract(p)
      PROVE  TypeOK'
  <2>1. UNCHANGED <<config, job, named, told>> /\ \E to \in Phase : Move(p, to)
    BY <1>4 DEF LoadDraft, LoadContract, Phase
  <2>2. UNCHANGED <<seen, lost>> \/ (Whole(config) /\ Keep(p))
    BY <1>4 DEF LoadDraft, LoadContract
  <2>3. seen' \in [Commands -> Content \union {Nothing}] /\ lost' \in [Commands -> BOOLEAN]
    BY <2>2, WholeIsContent DEF Keep, TypeOK
  <2> QED
    BY <2>1, <2>3, MoveType DEF TypeOK
<1>5. ASSUME NEW p \in Commands, Create(p) \/ Fill(p)
      PROVE  TypeOK'
  <2>1. UNCHANGED <<job, named, seen, told, lost>> /\ \E to \in Phase : Move(p, to)
    BY <1>5 DEF Create, Fill, Phase
  <2>2. config' \in {Short(p), Payload(p), config}
    BY <1>5 DEF Create, Fill
  <2> QED
    BY <2>1, <2>2, MoveType, PayloadType DEF TypeOK
<1>6. ASSUME NEW p \in Commands, Rename(p)
      PROVE  TypeOK'
  <2>1. UNCHANGED <<job, named, seen, told>> /\ config' = Payload(p) /\ Written(p)
    BY <1>6 DEF Rename
  <2>2. lost' \in [Commands -> BOOLEAN]
    <3>1. \A q \in Commands : (lost[q] \/ lost[p]) \in BOOLEAN
      OBVIOUS
    <3> QED
      BY <1>6, <3>1, Zenon DEF Rename
  <2> QED
    BY <2>1, <2>2, WrittenType, PayloadType DEF TypeOK
<1>7. ASSUME NEW p \in Commands, Unlink(p)
      PROVE  TypeOK'
  BY <1>7, MoveType DEF Unlink, Removed, TypeOK, Phase
<1>8. ASSUME Delete
      PROVE  TypeOK'
  BY <1>8 DEF Delete, Removed, TypeOK
<1>9. ASSUME UNCHANGED vars
      PROVE  TypeOK'
  BY <1>9 DEF vars, TypeOK
<1> QED
  BY <1>1, <1>2, <1>3, <1>4, <1>5, <1>6, <1>7, <1>8, <1>9 DEF Next, Step

----------------------------------------------------------------------------
(* The roads of the commands.                                              *)

Roads == NamesAreGiven /\ RoadsAreKept

\* What NamesAreGiven and RoadsAreKept say of one command.
OnItsRoad(p) ==
    /\ phase[p] = "idle" => named[p] = Nothing
    /\ phase[p] \notin {"idle", "crashed"} /\ job[p].does \in {"accept", "init+accept"} =>
           named[p] # Nothing
    /\ phase[p] \in {"idle", "look", "read", "load", "answer"} => seen[p] = Nothing
    /\ phase[p] = "load" => job[p].does # "init"
    /\ phase[p] = "rename" => seen[p] # Nothing
    /\ p \in Checking => phase[p] \in {"idle", "load"} \union Ended

LEMMA RoadsByCommand == Roads <=> \A p \in Commands : OnItsRoad(p)
BY DEF Roads, NamesAreGiven, RoadsAreKept, OnItsRoad

\* A command that does nothing stays on its road.
LEMMA OthersStayOnTheirRoads ==
    ASSUME Roads, NEW p,
           \A q \in Commands \ {p} :
               phase'[q] = phase[q] /\ named'[q] = named[q] /\ seen'[q] = seen[q],
           UNCHANGED job,
           p \in Commands => OnItsRoad(p)'
    PROVE  Roads'
<1>1. ASSUME NEW q \in Commands
      PROVE  OnItsRoad(q)'
  BY RoadsByCommand DEF OnItsRoad, Checking
<1>2. Roads' <=> \A q \in Commands : OnItsRoad(q)'
  BY DEF Roads, NamesAreGiven, RoadsAreKept, OnItsRoad
<1> QED
  BY <1>1, <1>2

LEMMA NamedIsSomething ==
    ASSUME TypeOK, NEW answer \in told
    PROVE  answer # Nothing
<1>1. answer \in Answers
  BY DEF TypeOK
<1>2. DOMAIN answer = {"digest", "content"} /\ DOMAIN Nothing = {"status"}
  BY <1>1 DEF Answers, Nothing
<1> QED
  BY <1>2

LEMMA LoadedIsSomething == Nothing \notin Content
<1>1. \A c \in Content : DOMAIN c = {"draft", "status"}
  BY DEF Content
<1>2. DOMAIN Nothing = {"status"}
  BY DEF Nothing
<1> QED
  BY <1>1, <1>2

LEMMA RoadsInit == Init => Roads
BY DEF Init, Roads, NamesAreGiven, RoadsAreKept

LEMMA RoadsStep ==
    ASSUME TypeOK, Roads, [Next]_vars
    PROVE  Roads'
<1>a. \A p \in Commands : OnItsRoad(p)
  BY RoadsByCommand
<1>1. ASSUME NEW p \in Commands, Start(p)
      PROVE  Roads'
  <2>1. phase[p] = "idle" /\ Move(p, IF Drafting(p) THEN "look" ELSE "load")
    BY <1>1 DEF Start
  <2>2. /\ phase'[p] = IF Drafting(p) THEN "look" ELSE "load"
        /\ \A q \in Commands \ {p} : phase'[q] = phase[q]
    BY <2>1, MoveType DEF Phase
  <2>3. /\ \A q \in Commands \ {p} : named'[q] = named[q]
        /\ job[p].does \in {"accept", "init+accept"} => named'[p] # Nothing
    <3>1. CASE job[p].does \in {"accept", "init+accept"}
      <4>1. PICK answer \in told : named' = [named EXCEPT ![p] = answer]
        BY <1>1, <3>1 DEF Start
      <4>2. answer # Nothing
        BY NamedIsSomething
      <4> QED
        BY <4>1, <4>2 DEF TypeOK
    <3>2. CASE job[p].does \notin {"accept", "init+accept"}
      BY <1>1, <3>2 DEF Start
    <3> QED
      BY <3>1, <3>2
  <2>4. UNCHANGED <<job, seen>>
    BY <1>1 DEF Start
  <2>5. OnItsRoad(p)'
    BY <1>a, <2>1, <2>2, <2>3, <2>4 DEF OnItsRoad, Checking, Drafting
  <2> QED
    BY <2>2, <2>3, <2>4, <2>5, OthersStayOnTheirRoads
<1>2. ASSUME NEW p \in Commands,
             \/ Look(p) \/ ShowContract(p) \/ Answer(p) \/ Create(p) \/ Meet(p) \/ Fill(p)
             \/ WriteFails(p) \/ Unlink(p) \/ Crash(p)
      PROVE  Roads'
  <2>1. UNCHANGED <<job, named, seen>>
    BY <1>2 DEF Look, ShowContract, Answer, Create, Meet, Fill, WriteFails, Unlink, Crash
  <2>2. PICK to \in Phase \ {"idle", "look", "load", "answer", "rename"} :
            /\ Move(p, to)
            /\ phase[p] \in {"idle", "crashed"} => to = "crashed"
            /\ to = "read" => phase[p] = "look"
            /\ p \in Checking => to \in Ended
    <3>1. CASE Look(p) \/ Create(p) \/ Meet(p) \/ Fill(p) \/ WriteFails(p) \/ Unlink(p)
      <4>1. p \notin Checking
        BY <1>a, <3>1 DEF OnItsRoad, Ended, Look, Create, Meet, Fill, WriteFails, Unlink
      <4> QED
        BY <3>1, <4>1 DEF Look, Create, Meet, Fill, WriteFails, Unlink, Phase
    <3>2. CASE ShowContract(p) \/ Answer(p) \/ Crash(p)
      BY <3>2 DEF ShowContract, Answer, Crash, Phase, Ended
    <3> QED
      BY <1>2, <3>1, <3>2
  <2>3. phase'[p] = to /\ \A q \in Commands \ {p} : phase'[q] = phase[q]
    BY <2>2, MoveType
  <2>4. OnItsRoad(p)'
    BY <1>a, <2>1, <2>2, <2>3 DEF OnItsRoad, Checking, Ended
  <2> QED
    BY <2>1, <2>3, <2>4, OthersStayOnTheirRoads
<1>3. ASSUME NEW p \in Commands, ReadExisting(p) \/ Compare(p) \/ Seal(p) \/ Rename(p)
      PROVE  Roads'
  <2>1. UNCHANGED <<job, named, seen>> /\ phase[p] \in {"read", "compare", "sync", "rename"}
    BY <1>3 DEF ReadExisting, Compare, Seal, Rename
  <2>2. p \notin Checking
    BY <1>a, <2>1 DEF OnItsRoad, Ended
  <2>3. \/ Written(p)
        \/ \E to \in {"failed", "create", "refused"} : Move(p, to)
        \/ Move(p, "rename") /\ seen[p] # Nothing
    BY <1>3 DEF ReadExisting, Compare, Seal, Rename, Accepting
  <2>4. \/ seen[p] = Nothing /\ phase'[p] = "answer"
        \/ seen[p] = Nothing /\ phase'[p] = "load" /\ job[p].does = "init+accept"
        \/ phase'[p] \in {"done", "failed", "create", "refused"}
        \/ phase'[p] = "rename" /\ seen[p] # Nothing
    BY <2>3, MoveType, WrittenType DEF Phase
  <2>5. \A q \in Commands \ {p} : phase'[q] = phase[q]
    BY <2>3, MoveType, WrittenType DEF Phase
  <2>6. OnItsRoad(p)'
    BY <1>a, <2>1, <2>2, <2>4 DEF OnItsRoad, Checking
  <2> QED
    BY <2>1, <2>5, <2>6, OthersStayOnTheirRoads
<1>4. ASSUME NEW p \in Commands, LoadDraft(p) \/ LoadContract(p)
      PROVE  Roads'
  <2>1. UNCHANGED <<job, named>> /\ phase[p] = "load"
    BY <1>4 DEF LoadDraft, LoadContract
  <2>2. PICK to \in {"failed", "mismatch", "create", "done"} :
            /\ Move(p, to)
            /\ p \in Checking => to \in Ended
    BY <1>4 DEF LoadDraft, LoadContract, Checking, Ended
  <2>3. \A q \in Commands \ {p} : seen'[q] = seen[q]
    BY <1>4 DEF LoadDraft, LoadContract, Keep, TypeOK
  <2>4. phase'[p] = to /\ \A q \in Commands \ {p} : phase'[q] = phase[q]
    BY <2>2, MoveType DEF Phase
  <2>5. OnItsRoad(p)'
    BY <1>a, <2>1, <2>2, <2>4 DEF OnItsRoad, Checking
  <2> QED
    BY <2>1, <2>3, <2>4, <2>5, OthersStayOnTheirRoads
<1>5. ASSUME Delete \/ UNCHANGED vars
      PROVE  Roads'
  BY <1>5 DEF Delete, vars, Roads, NamesAreGiven, RoadsAreKept, Checking
<1> QED
  BY <1>1, <1>2, <1>3, <1>4, <1>5 DEF Next, Step

----------------------------------------------------------------------------
(* Acceptance by name.                                                     *)

LEMMA AcceptanceStep ==
    ASSUME TypeOK, Roads, \A p \in Commands : AcceptanceIsNamed(p), [Next]_vars
    PROVE  \A p \in Commands : AcceptanceIsNamed(p)'
<1>a. SUFFICES ASSUME NEW q \in Commands
               PROVE  AcceptanceIsNamed(q)'
  OBVIOUS
<1>b. OnItsRoad(q)
  BY RoadsByCommand
<1>1. CASE named'[q] = named[q] /\ seen'[q] = seen[q] /\ UNCHANGED job
  BY <1>1 DEF AcceptanceIsNamed, Checking
<1>2. ASSUME NEW p \in Commands, Start(p)
      PROVE  AcceptanceIsNamed(q)'
  <2>1. seen' = seen /\ job' = job /\ phase[p] = "idle"
    BY <1>2 DEF Start
  <2>2. CASE q = p
    BY <1>b, <2>1, <2>2 DEF OnItsRoad, AcceptanceIsNamed
  <2>3. CASE q # p
    <3>1. named'[q] = named[q]
      BY <1>2, <2>3 DEF Start, TypeOK
    <3> QED
      BY <1>1, <2>1, <3>1
  <2> QED
    BY <2>2, <2>3
<1>3. ASSUME NEW p \in Commands, LoadDraft(p) \/ LoadContract(p)
      PROVE  AcceptanceIsNamed(q)'
  <2>1. named' = named /\ job' = job /\ phase[p] = "load"
    BY <1>3 DEF LoadDraft, LoadContract
  <2>2. CASE q # p
    <3>1. seen'[q] = seen[q]
      BY <1>3, <2>2 DEF LoadDraft, LoadContract, Keep, TypeOK
    <3> QED
      BY <1>1, <2>1, <3>1
  <2>3. CASE q = p /\ LoadDraft(p) /\ seen' # seen
    <3>1. /\ Whole(config) /\ config.status # "ACCEPTED" /\ DigestOf(config) = named[p].digest
          /\ seen' = [seen EXCEPT ![p] = config]
      BY <2>3 DEF LoadDraft, Keep
    <3>2. named[p] # Nothing
      BY <1>b, <2>1, <2>3, JobType DEF OnItsRoad, LoadDraft
    <3>3. seen'[p] = config /\ config.status = "DRAFT"
      BY <3>1 DEF Whole, TypeOK
    <3> QED
      BY <2>1, <2>3, <3>1, <3>2, <3>3 DEF AcceptanceIsNamed
  <2>4. CASE q = p /\ LoadContract(p)
    BY <2>1, <2>4 DEF AcceptanceIsNamed, LoadContract, Checking
  <2> QED
    BY <1>1, <1>3, <2>1, <2>2, <2>3, <2>4
<1>4. ASSUME UNCHANGED <<named, seen, job>>
      PROVE  AcceptanceIsNamed(q)'
  BY <1>1, <1>4
<1>5. ASSUME NEW p \in Commands, Step(p), ~Start(p), ~LoadDraft(p), ~LoadContract(p)
      PROVE  UNCHANGED <<named, seen, job>>
  BY <1>5 DEF Step, Look, ReadExisting, ShowContract, Answer, Create, Meet, Compare, Fill, Seal,
              Rename, WriteFails, Unlink, Crash
<1>6. ASSUME Delete \/ UNCHANGED vars
      PROVE  UNCHANGED <<named, seen, job>>
  BY <1>6 DEF Delete, vars
<1> QED
  BY <1>2, <1>3, <1>4, <1>5, <1>6 DEF Next

----------------------------------------------------------------------------
(* What a command loaded, and what it created, behind the backs of others. *)

\* How a step may change the file.  A rename that knows of the file keeps its draft.
LEMMA FileChanges ==
    ASSUME TypeOK, Roads, \A p \in Commands : LoadedIsThere(p), [Next]_vars
    PROVE  \/ config' = config
           \/ config' = Absent /\ \A q \in Commands : lost'[q]
           \/ \E p \in Commands : Create(p) /\ config = Absent /\ config' = Short(p)
           \/ \E p \in Commands : Fill(p) /\ config = Short(p) /\ config' = Payload(p)
           \/ \E p \in Commands :
                 /\ phase[p] = "rename" /\ lost[p] /\ config' \in Content
                 /\ config' = Payload(p) /\ \A q \in Commands : lost'[q]
           \/ \E p \in Commands :
                 /\ phase[p] = "rename" /\ ~lost[p] /\ seen[p] # Nothing
                 /\ config \in Content /\ config.draft = seen[p].draft
                 /\ config' = [draft |-> config.draft, status |-> "ACCEPTED"]
                 /\ config' = Payload(p)
<1>1. ASSUME NEW p \in Commands, Rename(p), lost[p]
      PROVE  /\ phase[p] = "rename" /\ config' \in Content
             /\ config' = Payload(p) /\ \A q \in Commands : lost'[q]
  BY <1>1, PayloadType DEF Rename
<1>2. ASSUME NEW p \in Commands, Rename(p), ~lost[p]
      PROVE  /\ phase[p] = "rename" /\ seen[p] # Nothing
             /\ config \in Content /\ config.draft = seen[p].draft
             /\ config' = [draft |-> config.draft, status |-> "ACCEPTED"]
             /\ config' = Payload(p)
  <2>1. phase[p] = "rename" /\ config' = Payload(p)
    BY <1>2 DEF Rename
  <2>2. seen[p] # Nothing
    BY <2>1, RoadsByCommand DEF OnItsRoad
  <2>3. Whole(config) /\ config.draft = seen[p].draft
    BY <1>2, <2>2 DEF LoadedIsThere
  <2>4. Payload(p) = [draft |-> seen[p].draft, status |-> "ACCEPTED"]
    BY <2>2 DEF Payload, Accepting
  <2> QED
    BY <2>1, <2>2, <2>3, <2>4, WholeIsContent
<1>3. ASSUME NEW p \in Commands, Create(p)
      PROVE  config = Absent /\ config' = Short(p)
  BY <1>3 DEF Create
<1>4. ASSUME NEW p \in Commands, Fill(p)
      PROVE  config' = config \/ (config = Short(p) /\ config' = Payload(p))
  BY <1>4 DEF Fill
<1>5. ASSUME Delete \/ \E p \in Commands : Unlink(p)
      PROVE  config' = Absent /\ \A q \in Commands : lost'[q]
  BY <1>5 DEF Delete, Unlink, Removed
<1>6. ASSUME NEW p \in Commands,
             Step(p), ~Create(p), ~Fill(p), ~Rename(p), ~Unlink(p)
      PROVE  config' = config
  BY <1>6 DEF Step, Start, Look, ReadExisting, ShowContract, Answer, LoadDraft, LoadContract, Meet,
              Compare, Seal, WriteFails, Crash
<1>7. UNCHANGED vars => config' = config
  BY DEF vars
<1> QED
  BY <1>1, <1>2, <1>3, <1>4, <1>5, <1>6, <1>7 DEF Next

\* Whoever is not told of a loss finds a whole file whole, and of the same draft.
LEMMA WholeIsKept ==
    ASSUME TypeOK, Roads, \A p \in Commands : LoadedIsThere(p), [Next]_vars,
           Whole(config), NEW q \in Commands, ~lost'[q]
    PROVE  Whole(config') /\ config'.draft = config.draft
<1>1. CASE config' = config
  BY <1>1
<1>2. ASSUME NEW d, config' = [draft |-> d, status |-> "ACCEPTED"]
      PROVE  Whole(config')
  BY <1>2 DEF Whole
<1>3. config # Absent /\ \A p : config # Short(p)
  BY ContentFacts
<1> QED
  BY <1>1, <1>2, <1>3, FileChanges

\* A loss is forgotten when a command starts, and when it loads the file.
LEMMA LostIsForgotten ==
    ASSUME TypeOK, [Next]_vars, NEW q \in Commands, lost[q], ~lost'[q]
    PROVE  \/ Start(q)
           \/ (LoadDraft(q) \/ LoadContract(q)) /\ Keep(q) /\ Whole(config)
<1>1. ASSUME NEW p \in Commands, Start(p)
      PROVE  p = q
  BY <1>1 DEF Start, TypeOK
<1>2. ASSUME NEW p \in Commands, LoadDraft(p) \/ LoadContract(p)
      PROVE  p = q /\ Keep(p) /\ Whole(config)
  <2>1. UNCHANGED lost \/ (Keep(p) /\ Whole(config))
    BY <1>2 DEF LoadDraft, LoadContract
  <2> QED
    BY <2>1 DEF Keep, TypeOK
<1>3. ASSUME NEW p \in Commands, Rename(p)
      PROVE  FALSE
  BY <1>3 DEF Rename
<1>4. ASSUME Delete \/ \E p \in Commands : Unlink(p)
      PROVE  FALSE
  BY <1>4 DEF Delete, Unlink, Removed
<1>5. ASSUME NEW p \in Commands, Step(p),
             ~Start(p), ~LoadDraft(p), ~LoadContract(p), ~Rename(p), ~Unlink(p)
      PROVE  FALSE
  BY <1>5 DEF Step, Look, ReadExisting, ShowContract, Answer, Create, Meet, Compare, Fill, Seal,
              WriteFails, Crash
<1>6. ~ UNCHANGED vars
  BY DEF vars
<1> QED
  BY <1>1, <1>2, <1>3, <1>4, <1>5, <1>6 DEF Next

\* Only a load changes what a command saw.
LEMMA SeenIsLoaded ==
    ASSUME TypeOK, [Next]_vars, NEW q \in Commands
    PROVE  \/ seen'[q] = seen[q]
           \/ /\ LoadDraft(q) \/ LoadContract(q)
              /\ Keep(q) /\ Whole(config) /\ seen'[q] = config /\ config' = config
<1>1. ASSUME NEW p \in Commands, LoadDraft(p) \/ LoadContract(p)
      PROVE  \/ seen'[q] = seen[q]
             \/ p = q /\ Keep(p) /\ Whole(config) /\ seen'[q] = config /\ config' = config
  <2>1. config' = config /\ (UNCHANGED seen \/ (Keep(p) /\ Whole(config)))
    BY <1>1 DEF LoadDraft, LoadContract
  <2> QED
    BY <2>1 DEF Keep, TypeOK
<1>2. ASSUME NEW p \in Commands, Step(p), ~LoadDraft(p), ~LoadContract(p)
      PROVE  seen' = seen
  BY <1>2 DEF Step, Start, Look, ReadExisting, ShowContract, Answer, Create, Meet, Compare, Fill,
              Seal, Rename, WriteFails, Unlink, Crash
<1>3. Delete \/ UNCHANGED vars => seen' = seen
  BY DEF Delete, vars
<1> QED
  BY <1>1, <1>2, <1>3 DEF Next

LEMMA LoadedStep ==
    ASSUME TypeOK, Roads, \A p \in Commands : LoadedIsThere(p), [Next]_vars
    PROVE  \A p \in Commands : LoadedIsThere(p)'
<1>1. SUFFICES ASSUME NEW q \in Commands, seen'[q] # Nothing, ~lost'[q]
               PROVE  Whole(config') /\ config'.draft = seen'[q].draft
  BY DEF LoadedIsThere, Whole
<1>2. CASE seen'[q] = config /\ config' = config /\ Whole(config)
  BY <1>2
<1>3. CASE seen'[q] = seen[q] /\ ~lost[q]
  <2>1. Whole(config) /\ config.draft = seen[q].draft
    BY <1>1, <1>3 DEF LoadedIsThere
  <2> QED
    BY <1>1, <1>3, <2>1, WholeIsKept
<1>4. CASE seen'[q] = seen[q] /\ lost[q]
  <2>1. phase[q] \in {"idle", "load"}
    BY <1>1, <1>4, LostIsForgotten DEF Start, LoadDraft, LoadContract
  <2>2. seen[q] = Nothing
    BY <2>1, RoadsByCommand DEF OnItsRoad
  <2> QED
    BY <1>1, <1>4, <2>2
<1> QED
  BY <1>2, <1>3, <1>4, SeenIsLoaded

\* How a command comes to fill, seal and answer.
LEMMA OnTheWayToAnswer ==
    ASSUME TypeOK, Roads, [Next]_vars, NEW q \in Commands, phase'[q] \in {"fill", "sync", "answer"},
           phase'[q] # phase[q]
    PROVE  \/ Create(q) /\ phase'[q] = "fill" /\ config' = Short(q)
           \/ Fill(q) /\ phase[q] = "fill" /\ phase'[q] = "sync"
           \/ Seal(q) /\ phase[q] = "sync" /\ phase'[q] = "answer" /\ config' = config
           \/ /\ ReadExisting(q) /\ Whole(config) /\ phase'[q] = "answer" /\ config' = config
              /\ config.draft.identity = job[q].draft.identity
           \/ Compare(q) /\ config = Payload(q) /\ phase'[q] = "answer" /\ config' = config
<1>1. ASSUME NEW p \in Commands, Step(p)
      PROVE  p = q
  <2>1. Written(p) \/ \E to \in Phase : Move(p, to)
    BY <1>1 DEF Step, Start, Look, ReadExisting, ShowContract, Answer, LoadDraft, LoadContract, Create,
                Meet, Compare, Fill, Seal, Rename, WriteFails, Unlink, Crash, Phase
  <2> QED
    BY <2>1, MoveType, WrittenType
<1>2. Step(q)
  BY <1>1 DEF Next, Delete, vars
<1>3. CASE Start(q) \/ Look(q) \/ ShowContract(q) \/ Answer(q) \/ LoadDraft(q) \/ LoadContract(q)
           \/ Meet(q) \/ WriteFails(q) \/ Unlink(q) \/ Crash(q)
  <2>1. \E to \in Phase \ {"fill", "sync", "answer"} : Move(q, to)
    BY <1>3 DEF Start, Look, ShowContract, Answer, LoadDraft, LoadContract, Meet, WriteFails, Unlink,
                Crash, Phase
  <2> QED
    BY <2>1, MoveType
<1>4. CASE Create(q)
  BY <1>4, MoveType DEF Create, Phase
<1>5. CASE Fill(q)
  BY <1>5, MoveType DEF Fill, Phase
<1>6. CASE Seal(q)
  BY <1>6, WrittenType DEF Seal
<1>7. CASE ReadExisting(q)
  <2>1. \/ /\ Whole(config) /\ config.draft.identity = job[q].draft.identity /\ Written(q)
           /\ config' = config
        \/ \E to \in {"failed", "create"} : Move(q, to)
    BY <1>7 DEF ReadExisting
  <2> QED
    BY <1>7, <2>1, WrittenType, MoveType DEF Phase
<1>8. CASE Compare(q)
  <2>1. \/ config = Payload(q) /\ Written(q) /\ config' = config
        \/ \E to \in {"failed", "rename", "refused"} : Move(q, to)
    BY <1>8 DEF Compare
  <2> QED
    BY <1>8, <2>1, WrittenType, MoveType DEF Phase
<1>9. CASE Rename(q)
  <2>1. Written(q) /\ seen[q] # Nothing
    BY <1>9, RoadsByCommand DEF Rename, OnItsRoad
  <2> QED
    BY <2>1, WrittenType
<1> QED
  BY <1>2, <1>3, <1>4, <1>5, <1>6, <1>7, <1>8, <1>9 DEF Step

LEMMA CreatedStep ==
    ASSUME TypeOK, Roads, \A p \in Commands : LoadedIsThere(p) /\ CreatedIsItsOwn(p), [Next]_vars
    PROVE  \A p \in Commands : CreatedIsItsOwn(p)'
<1>a. SUFFICES ASSUME NEW q \in Commands, ~lost'[q]
               PROVE  /\ phase'[q] = "fill" => config' = Short(q)
                      /\ phase'[q] \in {"sync", "answer"} /\ seen'[q] = Nothing =>
                             Whole(config') /\ config'.draft.identity = job'[q].draft.identity
  BY DEF CreatedIsItsOwn, Whole
<1>b. job' = job
  BY DEF Next, Step, Start, Look, ReadExisting, ShowContract, Answer, LoadDraft, LoadContract, Create,
         Meet, Compare, Fill, Seal, Rename, WriteFails, Unlink, Crash, Delete, vars
<1>c. phase[q] \in {"fill", "sync", "answer", "read", "compare"} => ~lost[q]
  BY <1>a, LostIsForgotten DEF Start, LoadDraft, LoadContract
<1>d. seen'[q] = Nothing => seen[q] = Nothing \/ phase[q] = "load"
  BY SeenIsLoaded DEF LoadDraft, LoadContract
<1>1. ASSUME phase'[q] = "fill"
      PROVE  config' = Short(q)
  <2>1. CASE phase[q] = "fill"
    <3>1. config = Short(q)
      BY <1>c, <2>1 DEF CreatedIsItsOwn
    <3>2. ~Fill(q)
      BY <1>1, MoveType DEF Fill, Phase
    <3>3. ASSUME NEW p \in Commands, Fill(p), config = Short(p)
          PROVE  FALSE
      BY <3>1, <3>2, <3>3, ContentFacts
    <3>4. config # Absent /\ config \notin Content
      BY <3>1, ContentFacts, WholeIsContent
    <3> QED
      BY <1>a, <3>1, <3>3, <3>4, FileChanges
  <2>2. CASE phase[q] # "fill"
    BY <1>1, <2>2, OnTheWayToAnswer
  <2> QED
    BY <2>1, <2>2
<1>2. ASSUME phase'[q] \in {"sync", "answer"}, seen'[q] = Nothing
      PROVE  Whole(config') /\ config'.draft.identity = job'[q].draft.identity
  <2>1. CASE phase'[q] = phase[q]
    <3>1. Whole(config) /\ config.draft.identity = job[q].draft.identity
      BY <1>2, <1>c, <1>d, <2>1 DEF CreatedIsItsOwn
    <3> QED
      BY <1>a, <1>b, <3>1, WholeIsKept
  <2>2. CASE Fill(q) /\ phase[q] = "fill"
    <3>1. config = Short(q) /\ seen[q] = Nothing
      BY <1>2, <1>c, <1>d, <2>2 DEF CreatedIsItsOwn
    <3>2. config' = Payload(q)
      BY <2>2, <3>1 DEF Fill
    <3> QED
      BY <1>b, <3>1, <3>2, PayloadType, MineType, ContentFacts
  <2>3. CASE Seal(q) /\ phase[q] = "sync" /\ config' = config
    BY <1>2, <1>b, <1>c, <1>d, <2>3 DEF CreatedIsItsOwn
  <2>4. CASE Whole(config) /\ config' = config /\ config.draft.identity = job[q].draft.identity
    BY <1>b, <2>4
  <2>5. CASE Compare(q) /\ config = Payload(q) /\ config' = config
    <3>1. seen[q] = Nothing
      BY <1>2, <1>d, <2>5 DEF Compare
    <3> QED
      BY <1>b, <2>5, <3>1, PayloadType, MineType, ContentFacts
  <2> QED
    BY <1>2, <2>1, <2>2, <2>3, <2>4, <2>5, OnTheWayToAnswer
<1> QED
  BY <1>1, <1>2

----------------------------------------------------------------------------
(* Only what was named is accepted.                                        *)

\* The draft of a content was named.
NamedDraft(content) ==
    \E p \in Commands :
        named[p] # Nothing /\ named[p].digest = DigestOf([content EXCEPT !.status = "DRAFT"])

\* No name is forgotten.
LEMMA NamesAreKept ==
    ASSUME TypeOK, Roads, [Next]_vars, NEW content, NamedDraft(content)
    PROVE  NamedDraft(content)'
<1>1. PICK p \in Commands :
          named[p] # Nothing /\ named[p].digest = DigestOf([content EXCEPT !.status = "DRAFT"])
  BY DEF NamedDraft
<1>2. phase[p] # "idle"
  BY <1>1, RoadsByCommand DEF OnItsRoad
<1>3. named'[p] = named[p]
  <2>1. ASSUME NEW r \in Commands, Start(r)
        PROVE  named'[p] = named[p]
    BY <1>2, <2>1 DEF Start, TypeOK
  <2>2. ASSUME NEW r \in Commands, Step(r), ~Start(r)
        PROVE  named' = named
    BY <2>2 DEF Step, Look, ReadExisting, ShowContract, Answer, LoadDraft, LoadContract, Create, Meet,
                Compare, Fill, Seal, Rename, WriteFails, Unlink, Crash
  <2>3. Delete \/ UNCHANGED vars => named' = named
    BY DEF Delete, vars
  <2> QED
    BY <2>1, <2>2, <2>3 DEF Next
<1> QED
  BY <1>1, <1>3 DEF NamedDraft

\* What a command writes as accepted is the packaged contract, or was named.
LEMMA WrittenIsNamed ==
    ASSUME TypeOK, Roads, NEW p \in Commands, AcceptanceIsNamed(p),
           phase[p] \in {"fill", "rename"},
           Payload(p).status = "ACCEPTED", ~Payload(p).draft.audited
    PROVE  NamedDraft(Payload(p))
<1>1. seen[p] # Nothing
  BY PayloadType, MineType, JobType DEF Drafts
<1>2. p \notin Checking
  BY RoadsByCommand DEF OnItsRoad, Ended
<1>3. /\ seen[p].status = "DRAFT" /\ named[p] # Nothing /\ named[p].digest = DigestOf(seen[p])
      /\ seen[p] \in Content
  BY <1>1, <1>2, NothingIsLoaded DEF AcceptanceIsNamed
<1>4. seen[p] = [draft |-> seen[p].draft, status |-> "DRAFT"]
  BY <1>3, ContentFacts
<1>5. Payload(p) = [draft |-> seen[p].draft, status |-> "ACCEPTED"]
  BY <1>1 DEF Payload, Accepting
<1>6. [Payload(p) EXCEPT !.status = "DRAFT"] = seen[p]
  BY <1>4, <1>5
<1> QED
  BY <1>3, <1>6 DEF NamedDraft

LEMMA OnlyNamedStep ==
    ASSUME LifecycleInv, [Next]_vars
    PROVE  OnlyTheNamedDraftIsAccepted'
<1>a. /\ TypeOK /\ Roads /\ \A p \in Commands : AcceptanceIsNamed(p) /\ LoadedIsThere(p)
      /\ OnlyTheNamedDraftIsAccepted
  BY DEF LifecycleInv, Roads
<1>b. /\ TypeOK' /\ Checking' = Checking
  <2>1. job' = job
    BY DEF Next, Step, Start, Look, ReadExisting, ShowContract, Answer, LoadDraft, LoadContract, Create,
           Meet, Compare, Fill, Seal, Rename, WriteFails, Unlink, Crash, Delete, vars
  <2> QED
    BY <1>a, <2>1, LifecycleTypeStep DEF Checking
<1>1. SUFFICES ASSUME NEW content \in Content,
                      content = config' \/ \E p \in Checking : content = seen'[p],
                      content.status = "ACCEPTED", ~content.draft.audited
               PROVE  NamedDraft(content)'
  BY <1>b DEF OnlyTheNamedDraftIsAccepted, NamedDraft
<1>2. CASE content = config \/ \E p \in Checking : content = seen[p]
  <2>1. NamedDraft(content)
    BY <1>a, <1>1, <1>2 DEF OnlyTheNamedDraftIsAccepted, NamedDraft
  <2> QED
    BY <1>a, <2>1, NamesAreKept
<1>3. CASE content # config /\ content = config'
  <2>1. config' # Absent /\ \A p : config' # Short(p)
    BY <1>1, <1>3, ContentFacts
  <2>2. CASE \E p \in Commands : phase[p] \in {"fill", "rename"} /\ content = Payload(p)
    <3>1. NamedDraft(content)
      BY <1>a, <1>1, <2>2, WrittenIsNamed
    <3> QED
      BY <1>a, <3>1, NamesAreKept
  <2> QED
    BY <1>a, <1>3, <2>1, <2>2, FileChanges DEF Fill
<1>4. CASE content # config /\ \E p \in Checking : content = seen'[p] /\ content # seen[p]
  BY <1>a, <1>4, SeenIsLoaded DEF Checking
<1> QED
  BY <1>1, <1>2, <1>3, <1>4

----------------------------------------------------------------------------
(* The contract's theorems.                                                *)

LEMMA LifecycleInvInit == Init => LifecycleInv
<1>1. SUFFICES ASSUME Init
               PROVE  LifecycleInv
  OBVIOUS
<1>2. TypeOK /\ Roads
  BY <1>1, LifecycleTypeInit, RoadsInit
<1>3. \A p \in Commands : AcceptanceIsNamed(p) /\ LoadedIsThere(p) /\ CreatedIsItsOwn(p)
  BY <1>1 DEF Init, AcceptanceIsNamed, LoadedIsThere, CreatedIsItsOwn
<1>4. OnlyTheNamedDraftIsAccepted
  <2>1. Absent \notin Content /\ Nothing \notin Content
    BY ContentFacts, LoadedIsSomething
  <2> QED
    BY <1>1, <2>1 DEF Init, OnlyTheNamedDraftIsAccepted, Checking
<1> QED
  BY <1>2, <1>3, <1>4 DEF LifecycleInv, Roads

LEMMA LifecycleInvStep == LifecycleInv /\ [Next]_vars => LifecycleInv'
<1>1. SUFFICES ASSUME LifecycleInv, [Next]_vars
               PROVE  LifecycleInv'
  OBVIOUS
<1>2. /\ TypeOK /\ Roads
      /\ \A p \in Commands : AcceptanceIsNamed(p) /\ LoadedIsThere(p) /\ CreatedIsItsOwn(p)
  BY <1>1 DEF LifecycleInv, Roads
<1>3. TypeOK' /\ Roads'
  BY <1>1, <1>2, LifecycleTypeStep, RoadsStep
<1>4. \A p \in Commands : AcceptanceIsNamed(p)' /\ LoadedIsThere(p)' /\ CreatedIsItsOwn(p)'
  BY <1>1, <1>2, AcceptanceStep, LoadedStep, CreatedStep
<1> QED
  BY <1>1, <1>3, <1>4, OnlyNamedStep DEF LifecycleInv, Roads

\* The invariant the theorems below rest on.
THEOREM LifecycleInvHolds == Spec => []LifecycleInv
BY LifecycleInvInit, LifecycleInvStep, PTL DEF Spec

\* accept_contract accepts, and check judges under, only what a caller named by
\* its draft's digest, or the packaged contract.
THEOREM OnlyNamedHolds == Spec => []OnlyTheNamedDraftIsAccepted
<1>1. LifecycleInv => OnlyTheNamedDraftIsAccepted
  BY DEF LifecycleInv
<1> QED
  BY <1>1, LifecycleInvHolds, PTL

\* _write_exact without a lock: a whole contract only becomes its acceptance, is
\* removed, or meets an acceptance that was told of neither.
THEOREM OnlyAcceptedHolds == Spec => ContractIsOnlyAccepted
<1>1. ASSUME LifecycleInv, [Next]_vars
      PROVE  [Whole(config) /\ config' # config =>
                 \/ config' = Absent
                 \/ config' = [config EXCEPT !.status = "ACCEPTED"]
                 \/ Whole(config') /\ \E p \in Commands : phase[p] = "rename" /\ lost[p]]_vars
  <2>1. SUFFICES ASSUME Whole(config), config' # config
                 PROVE  \/ config' = Absent
                        \/ config' = [config EXCEPT !.status = "ACCEPTED"]
                        \/ Whole(config') /\ \E p \in Commands : phase[p] = "rename" /\ lost[p]
    OBVIOUS
  <2>2. TypeOK /\ Roads /\ \A p \in Commands : LoadedIsThere(p)
    BY <1>1 DEF LifecycleInv, Roads
  <2>3. config # Absent /\ \A p : config # Short(p)
    BY <2>1, ContentFacts
  <2>4. CASE config \in Content /\ config' = [draft |-> config.draft, status |-> "ACCEPTED"]
    <3>1. config = [draft |-> config.draft, status |-> config.status]
      BY <2>4, ContentFacts
    <3>2. [config EXCEPT !.status = "ACCEPTED"] = [draft |-> config.draft, status |-> "ACCEPTED"]
      BY <3>1
    <3> QED
      BY <2>4, <3>2
  <2> QED
    BY <1>1, <2>1, <2>2, <2>3, <2>4, FileChanges, ContentFacts
<1> QED
  BY <1>1, LifecycleInvHolds, PTL DEF Spec, ContractIsOnlyAccepted

\* initialize: what the command line prints after reading the file again is of
\* the scenario, target, issue and base it was given, or the file was removed.
THEOREM PrintedHolds == Spec => PrintedContractIsTheOneAskedFor
<1>1. ASSUME LifecycleInv, [Next]_vars
      PROVE  [\A p \in Commands : \A answer \in told' \ told :
                 phase[p] = "answer" /\ phase'[p] = "done" =>
                     answer.content.draft.identity = job[p].draft.identity \/ lost[p]]_vars
  <2>1. SUFFICES ASSUME NEW p \in Commands, NEW answer \in told' \ told,
                        phase[p] = "answer", phase'[p] = "done", ~lost[p]
                 PROVE  answer.content.draft.identity = job[p].draft.identity
    OBVIOUS
  <2>2. TypeOK /\ seen[p] = Nothing /\ CreatedIsItsOwn(p)
    BY <1>1, <2>1 DEF LifecycleInv, RoadsAreKept
  <2>3. PICK r \in Commands : ShowContract(r) \/ Answer(r)
    <3>1. told' # told
      BY <2>1
    <3> QED
      BY <1>1, <3>1 DEF Next, Step, Start, Look, ReadExisting, LoadDraft, LoadContract, Create, Meet,
                        Compare, Fill, Seal, Rename, WriteFails, Unlink, Crash, Delete, vars
  <2>4. r = p
    BY <2>1, <2>2, <2>3, MoveType DEF ShowContract, Answer, Phase
  <2>5. CASE ShowContract(p)
    <3>1. answer.content = config
      BY <2>1, <2>5 DEF ShowContract
    <3> QED
      BY <2>1, <2>2, <3>1 DEF CreatedIsItsOwn
  <2>6. CASE Answer(p)
    <3>1. answer.content = Payload(p)
      BY <2>1, <2>6 DEF Answer
    <3> QED
      BY <2>2, <3>1, PayloadType, MineType
  <2> QED
    BY <2>3, <2>4, <2>5, <2>6
<1> QED
  BY <1>1, LifecycleInvHolds, PTL DEF Spec, PrintedContractIsTheOneAskedFor

----------------------------------------------------------------------------
(* The workspace keeps the promises of both.                               *)

\* A step of the workspace is one of the contract or one of the patches.
LEMMA WorkspaceIsBoth == WorkspaceSpec => Spec /\ PatchSpec
<1>1. WorkspaceInit => Init /\ PatchInit
  BY DEF WorkspaceInit
<1>2. [WorkspaceNext]_workspace => [Next]_vars /\ [PatchNext]_patchVars
  BY DEF WorkspaceNext, workspace
<1> QED
  BY <1>1, <1>2, PTL DEF WorkspaceSpec, Spec, PatchSpec

ConcernOK == concern \in {"contract", "patch"}

\* The variables of the workspace keep their types.
THEOREM WorkspaceTypeHolds == WorkspaceSpec => []WorkspaceTypeOK
<1>1. LifecycleInv /\ PatchTypeOK /\ ConcernOK => WorkspaceTypeOK
  BY DEF LifecycleInv, ConcernOK, WorkspaceTypeOK
<1>2. WorkspaceInit => ConcernOK
  BY DEF WorkspaceInit, ConcernOK
<1>3. ConcernOK /\ [WorkspaceNext]_workspace => ConcernOK'
  BY DEF WorkspaceNext, workspace, ConcernOK
<1> QED
  BY <1>1, <1>2, <1>3, WorkspaceIsBoth, LifecycleInvHolds, PatchTypeHolds, PTL DEF WorkspaceSpec

\* In the operator's directory, contracts and patches side by side: what is
\* accepted was named, what is credited was written, what is reported stands.
THEOREM WorkspaceKeepsItsPromises ==
    WorkspaceSpec =>
        /\ []OnlyTheNamedDraftIsAccepted /\ []AuthorshipIsTrue /\ []ReportedCandidateStands
        /\ ContractIsOnlyAccepted /\ PrintedContractIsTheOneAskedFor
BY WorkspaceIsBoth, OnlyNamedHolds, AuthorshipHolds, ReportedCandidateHolds, OnlyAcceptedHolds,
   PrintedHolds, PTL
=============================================================================
