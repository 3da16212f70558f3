-------------------------- MODULE VaultTree_proofs --------------------------
(***************************************************************************)
(* Proofs about VaultTree: types, the locks of several notes, what answers *)
(* tell, what rewrites may discard, and in which ways alone a note can     *)
(* disappear.  Everything holds for any trees, calls and numbers of edits. *)
(***************************************************************************)
EXTENDS VaultTree, TLAPS

Tree == [Dir -> [Name -> Node]]

-----------------------------------------------------------------------------
(* Paths and slots *)

(* What each kind of call is given. *)
LEMMA OperationFields ==
    ASSUME NEW o \in Operation
    PROVE  /\ o.kind \in {"delete", "restore", "move", "rename", "replace"}
           /\ o.kind # "replace" => o.from \in LockName
           /\ o.kind = "delete" => o.from \in Path
           /\ o.kind = "restore" => o.from \in TrashPath /\ o.to \in Path
           /\ o.kind = "move" => o.from \in NotePath /\ o.to \in NotePath
           /\ o.kind = "rename" => o.from \in FolderPath /\ o.to \in FolderPath
           /\ o.kind = "replace" => o.from \in NotePath /\ o.to \in NotePath
  BY DEF Operation, LockName, Path, Link

(* A note is in the vault or in one of its folders. *)
LEMMA NotePathForm ==
    ASSUME NEW p \in NotePath
    PROVE  /\ Leaf(p) \in NoteName /\ p[Len(p)] \in NoteName
           /\ \/ Len(p) = 1 /\ p = <<p[1]>>
              \/ Len(p) = 2 /\ p[1] \in FolderName /\ p = <<p[1], p[2]>> /\ p[2] \in NoteName
<1>1. CASE p \in {<<n>> : n \in NoteName}
  BY <1>1 DEF Leaf
<1>2. CASE p \in FolderName \X NoteName
  <2>1. PICK f \in FolderName, n \in NoteName : p = <<f, n>>
    BY <1>2
  <2>2. Len(p) = 2 /\ p[1] = f /\ p[2] = n
    BY <2>1
  <2> QED BY <2>1, <2>2 DEF Leaf
<1> QED BY <1>1, <1>2 DEF NotePath

(* A path has one component or a folder and a name. *)
LEMMA PathForm ==
    ASSUME NEW p \in Path
    PROVE  /\ Leaf(p) \in Name
           /\ \/ Len(p) = 1 /\ p = <<p[1]>>
              \/ Len(p) = 2 /\ p[1] \in FolderName /\ p = <<p[1], p[2]>>
<1>1. CASE p \in NotePath
  BY <1>1, NotePathForm DEF Name
<1>2. CASE p \in FolderPath
  BY <1>2 DEF FolderPath, Leaf, Name
<1> QED BY <1>1, <1>2 DEF Path

(* A path in the trash has a name after it. *)
LEMMA TrashPathForm ==
    ASSUME NEW p \in TrashPath
    PROVE  Leaf(p) \in Name /\ Len(p) = 2 /\ p[1] = Trash /\ p = <<p[1], p[2]>>
<1>1. PICK n \in Name : p = <<Trash, n>>
  BY DEF TrashPath
<1>2. Len(p) = 2 /\ p[1] = Trash /\ p[2] = n
  BY <1>1
<1> QED BY <1>1, <1>2 DEF Leaf

(* The last component of what can be locked is a name. *)
LEMMA LeafIsName ==
    ASSUME NEW p \in LockName
    PROVE  Leaf(p) \in Name
  BY PathForm, TrashPathForm DEF LockName

(* A path leads to a directory or nowhere. *)
LEMMA ParentType ==
    ASSUME NEW d, NEW p
    PROVE  /\ ParentIn(d, p) \in Dir \cup {Nothing}
           /\ AtIn(d, p) # Nothing => ParentIn(d, p) \in Dir
  BY DEF ParentIn, AtIn, Dir

(* What a path names is nothing, a folder or a note. *)
LEMMA AtType ==
    ASSUME NEW d \in Tree, NEW p \in LockName
    PROVE  AtIn(d, p) \in Node
  BY ParentType, LeafIsName DEF AtIn, Tree, Node

(* A tree with one entry changed is a tree of the same kind. *)
LEMMA WithType ==
    ASSUME NEW d \in Tree, NEW s, NEW node \in Node
    PROVE  With(d, s, node) \in Tree
  BY DEF With, Tree

(* A slot after it has been written, and the others. *)
LEMMA WithEntries ==
    ASSUME NEW d \in Tree, NEW s \in Slot, NEW node, NEW t \in Slot
    PROVE  With(d, s, node)[t[1]][t[2]] = IF t = s THEN node ELSE d[t[1]][t[2]]
<1>1. PICK f \in Dir, n \in Name : s = <<f, n>>
  BY DEF Slot
<1>2. PICK g \in Dir, m \in Name : t = <<g, m>>
  BY DEF Slot
<1> QED BY <1>1, <1>2 DEF With, Tree

(* The parents of a path can be made, and then lead somewhere. *)
LEMMA WithParentType ==
    ASSUME TypeOK, NEW p \in Path, NEW d \in WithParent(p)
    PROVE  d \in Tree /\ ParentIn(d, p) \in Dir
<1>1. dir \in Tree
  BY DEF TypeOK, Tree
<1>2. CASE ParentIn(dir, p) # Nothing
  BY <1>1, <1>2, ParentType DEF WithParent
<1>3. CASE ParentIn(dir, p) = Nothing
  <2>1. PICK f \in Folders : d = [dir EXCEPT ![Top][p[1]] = f]
    BY <1>3 DEF WithParent, Unused
  <2>2. CASE Len(p) = 1
    BY <1>1, <2>1, <2>2 DEF ParentIn, Dir, Tree, Node
  <2>3. CASE Len(p) = 2 /\ p[1] \in FolderName
    <3>1. Top \in Dir /\ p[1] \in Name
      BY <2>3 DEF Dir, Name
    <3>2. d \in Tree /\ d[Top][p[1]] = f
      BY <1>1, <2>1, <3>1 DEF Tree, Node
    <3> QED BY <2>3, <3>2, NameAssumption DEF ParentIn, Dir
  <2> QED BY <2>2, <2>3, PathForm
<1> QED BY <1>2, <1>3

(* The record of who was disturbed keeps its type. *)
LEMMA DisturbType ==
    ASSUME NEW c, NEW d, NEW e, Disturb(c, d, e), raced \in [Call -> BOOLEAN]
    PROVE  raced' \in [Call -> BOOLEAN]
  BY Zenon DEF Disturb

(* A rewrite yields a note. *)
LEMMA RewrittenType ==
    ASSUME NEW o \in Operation, NEW text \in Text, Affects(o, text.link),
           o.kind \in {"move", "rename", "replace"}
    PROVE  Rewritten(o, text) \in Text
<1>1. text.link \in NotePath
  BY DEF Affects, Text, Link
<1>2. CASE o.kind = "move"
  BY <1>2, OperationFields, NotePathForm DEF NewLink, Rewritten, Text, Link, NotePath
<1>3. CASE o.kind = "replace"
  BY <1>3, OperationFields DEF NewLink, Rewritten, Text, Link
<1>4. CASE o.kind = "rename"
  <2>1. o.to[1] \in FolderName
    BY <1>4, OperationFields DEF FolderPath
  <2>2. text.link[2] \in NoteName
    BY <1>1, <1>4, NotePathForm DEF Affects
  <2>3. <<o.to[1], text.link[2]>> \in NotePath
    BY <2>1, <2>2 DEF NotePath
  <2> QED BY <1>4, <2>3 DEF NewLink, Rewritten, Text, Link
<1> QED BY <1>2, <1>3, <1>4

(* Identities below a node are identities of notes. *)
LEMMA IdsType ==
    ASSUME NEW d \in Tree, NEW node \in Node
    PROVE  IdsBelow(d, node) \subseteq Note /\ IdOf(node) \subseteq Note
<1>1. \A x \in Node : IdOf(x) \subseteq Note
  BY DEF IdOf, Text
<1>2. node \in Folders => \A n \in Name : d[node][n] \in Node
  BY DEF Tree, Dir
<1> QED BY <1>1, <1>2 DEF IdsBelow

(* The path of a note that is there names an entry. *)
LEMMA NoteHasParent ==
    ASSUME NEW d, NEW q \in NotesIn(d)
    PROVE  /\ q \in NotePath /\ q \in LockName
           /\ ParentIn(d, q) # Nothing
           /\ <<ParentIn(d, q), Leaf(q)>> \in Slot
           /\ d[ParentIn(d, q)][Leaf(q)] \in Text
<1>1. q \in NotePath /\ q \in LockName /\ AtIn(d, q) \in Text
  BY DEF NotesIn, LockName, Path
<1>2. ParentIn(d, q) # Nothing /\ AtIn(d, q) = d[ParentIn(d, q)][Leaf(q)]
  BY <1>1, NodeAssumption DEF AtIn
<1> QED BY <1>1, <1>2, ParentType, LeafIsName DEF Slot

-----------------------------------------------------------------------------
(* The inductive invariant *)

PlannedIn(read) == {p \in NotePath : read[p] # Nothing}

(* What a call's step says about what it has locked and done. *)
Sound(step, o, left, read, locks, a, d) ==
    /\ a # "none" => step = "release"
    /\ step \in {"idle", "scan", "done"} => locks = {}
    /\ step = "idle" => left = {} /\ PlannedIn(read) = {}
    /\ step \in {"idle", "scan", "lock"} => d = {}
    /\ step = "scan" => left \subseteq NotePath /\ o.kind \in {"move", "rename", "replace"}
    /\ step \in {"lock", "write", "commit"} => left \subseteq PlannedIn(read)
    /\ step = "lock" => PlannedIn(read) \ left \subseteq locks
    /\ step \in {"write", "commit"} =>
          PlannedIn(read) \subseteq locks /\ PlannedIn(read) \ left \subseteq d
    /\ step \in {"look", "rename", "remove"} => PlannedIn(read) \subseteq d
    /\ step \in {"write", "commit", "look", "rename"} /\ o.kind = "move" => o.from \in locks
    /\ step = "remove" => o.kind = "delete"
    /\ step = "rename" => o.kind # "replace"
    /\ a = "ok" => PlannedIn(read) \subseteq d /\ (o.kind # "replace" => o.from \in d)
    /\ a = "timeout" => d = {}
    /\ \A p \in PlannedIn(read) :
          Affects(o, read[p].link) /\ o.kind \in {"move", "rename", "replace"}

(* The entries it has opened are entries, and what it writes is left to write. *)
Opened(step, s, t, w, left) ==
    /\ step \in {"rename", "remove"} => s \in Slot
    /\ step \in {"rename", "commit"} => t \in Slot
    /\ step = "commit" => w.path \in left

CallInv(c) ==
    /\ Sound(pc[c], op[c], todo[c], plan[c], held[c], ans[c], done[c])
    /\ Opened(pc[c], src[c], dst[c], writing[c], todo[c])

LocksMatch == \A c \in Call, l \in LockName : lock[l] = c <=> l \in held[c]

IInv ==
    /\ TypeOK
    /\ \A c \in Call : CallInv(c)
    /\ LocksMatch
    /\ \A c \in Call : late[c] = {}

(* A step of c leaves the other calls alone. *)
Others(c) ==
    \A d \in Call \ {c} :
        /\ pc'[d] = pc[d] /\ op'[d] = op[d] /\ todo'[d] = todo[d] /\ plan'[d] = plan[d]
        /\ held'[d] = held[d] /\ ans'[d] = ans[d] /\ done'[d] = done[d]
        /\ src'[d] = src[d] /\ dst'[d] = dst[d] /\ writing'[d] = writing[d]

(* A step of c has to be looked at for c alone. *)
LEMMA StepKeepsIInv ==
    ASSUME IInv, NEW c \in Call, TypeOK', Others(c), CallInv(c)', LocksMatch',
           \A d \in Call : late'[d] = {}
    PROVE  IInv'
<1>1. ASSUME NEW d \in Call \ {c} PROVE CallInv(d)'
  <2>1. CallInv(d)
    BY DEF IInv
  <2> QED BY <2>1 DEF Others, CallInv
<1> QED BY <1>1 DEF IInv

(* Where no lock changes, locks and what calls hold still match. *)
LEMMA SameLocks ==
    ASSUME IInv, UNCHANGED lockVars
    PROVE  LocksMatch'
  BY DEF IInv, LocksMatch, lockVars

(* Planned is a function of the plan alone. *)
LEMMA PlannedIsPlannedIn == \A c : Planned(c) = PlannedIn(plan[c])
  BY DEF Planned, PlannedIn

(* The invariant holds at the start. *)
LEMMA InitIInv == Init => IInv
<1> SUFFICES ASSUME Init PROVE IInv
  OBVIOUS
<1>1. NoPlan \in [NotePath -> Text \cup {Nothing}] /\ PlannedIn(NoPlan) = {}
  BY DEF NoPlan, PlannedIn
<1>3. dir \in [Dir -> [Name -> Node]] /\ op \in [Call -> Operation]
  BY TreeAssumption, WorkloadAssumption DEF Init
<1>4. TypeOK
  <2>1. NoSlot \in Dir \X (Name \cup {Nothing})
    BY DEF NoSlot, Dir
  <2>2. /\ src \in [Call -> Dir \X (Name \cup {Nothing})]
        /\ dst \in [Call -> Dir \X (Name \cup {Nothing})]
    BY <2>1 DEF Init
  <2>3. plan \in [Call -> [NotePath -> Text \cup {Nothing}]]
    BY <1>1 DEF Init
  <2>4. /\ lock \in [LockName -> Call \cup {NoCall}]
        /\ pc \in [Call -> Steps]
        /\ todo \in [Call -> SUBSET (NotePath \cup Name)]
        /\ writing \in [Call -> [path : NotePath \cup {<<>>}, missing : BOOLEAN]]
        /\ held \in [Call -> SUBSET LockName]
        /\ ans \in [Call -> {"none", "ok", "timeout", "failed"}]
    BY DEF Init, Steps, NoWriting
  <2>5. /\ done \in [Call -> SUBSET LockName]
        /\ late \in [Call -> SUBSET Edit]
        /\ trashed \in SUBSET Note
    BY DEF Init
  <2>6. raced \in [Call -> BOOLEAN]
    BY Zenon DEF Init
  <2>7. edits \in 0..MaxEdits
    BY BoundAssumption DEF Init
  <2> QED BY <1>3, <2>2, <2>3, <2>4, <2>5, <2>6, <2>7 DEF TypeOK
<1>5. ASSUME NEW c \in Call PROVE CallInv(c)
  BY <1>1, <1>5 DEF Init, CallInv, Sound, Opened
<1>6. LocksMatch
  BY NameAssumption DEF Init, LocksMatch
<1> QED BY <1>4, <1>5, <1>6 DEF IInv, Init

-----------------------------------------------------------------------------
(* The steps *)

(* The first step of any kind of call, with what it has to read. *)
LEMMA BeginKeeps ==
    ASSUME IInv, NEW c \in Call, NEW kind, NEW step \in Steps, Begin(c, kind, step),
           \/ todo' = todo /\ step \in {"lock", "look"} /\ kind \in {"delete", "restore"}
           \/ /\ \E left \in SUBSET NotePath : todo' = [todo EXCEPT ![c] = left]
              /\ step = "scan" /\ kind \in {"move", "rename", "replace"}
    PROVE  IInv'
<1>1. TypeOK'
  <2>1. pc' \in [Call -> Steps]
    BY DEF IInv, TypeOK, Begin, Goto
  <2>2. todo' \in [Call -> SUBSET (NotePath \cup Name)]
    BY DEF IInv, TypeOK
  <2> QED BY <2>1, <2>2 DEF IInv, TypeOK, Begin, treeVars, lockVars, slotVars
<1>2. Others(c)
  BY DEF IInv, TypeOK, Begin, Goto, lockVars, slotVars, Others
<1>3. CallInv(c)'
  <2>1. Sound("idle", op[c], todo[c], plan[c], held[c], ans[c], done[c])
    BY DEF IInv, CallInv, Begin
  <2>2. /\ pc'[c] = step /\ op'[c] = op[c] /\ plan'[c] = plan[c] /\ held'[c] = held[c]
        /\ ans'[c] = ans[c] /\ done'[c] = done[c] /\ op[c].kind = kind
    BY DEF IInv, TypeOK, Begin, Goto, lockVars
  <2>3. CASE todo' = todo /\ step \in {"lock", "look"} /\ kind \in {"delete", "restore"}
    BY <2>1, <2>2, <2>3 DEF CallInv, Sound, Opened
  <2>4. CASE /\ \E left \in SUBSET NotePath : todo' = [todo EXCEPT ![c] = left]
             /\ step = "scan" /\ kind \in {"move", "rename", "replace"}
    <3>1. todo'[c] \subseteq NotePath
      BY <2>4 DEF IInv, TypeOK
    <3> QED BY <2>1, <2>2, <2>4, <3>1 DEF CallInv, Sound, Opened
  <2> QED BY <2>3, <2>4
<1>4. LocksMatch'
  BY SameLocks DEF Begin
<1> QED BY <1>1, <1>2, <1>3, <1>4, StepKeepsIInv DEF Begin, IInv

Begins(c) ==
    \/ BeginDelete(c) \/ BeginRestore(c) \/ BeginMove(c) \/ BeginRenameFolder(c)
    \/ BeginReplace(c)

(* A call begins. *)
LEMMA BeginsIInv ==
    ASSUME IInv, NEW c \in Call, Begins(c)
    PROVE  IInv'
<1> USE DEF Steps
<1>1. CASE BeginDelete(c)
  BY <1>1, BeginKeeps DEF BeginDelete, IInv, TypeOK
<1>2. CASE BeginRestore(c)
  <2>1. PICK step \in {"lock", "look"} : Begin(c, "restore", step)
    BY <1>2 DEF BeginRestore
  <2> QED BY <1>2, <2>1, BeginKeeps DEF BeginRestore, IInv, TypeOK
<1>3. CASE BeginMove(c)
  <2>1. NotesIn(dir) \ {op[c].from} \in SUBSET NotePath
    BY DEF NotesIn
  <2> QED BY <1>3, <2>1, BeginKeeps DEF BeginMove, IInv, TypeOK
<1>4. CASE BeginRenameFolder(c)
  <2>1. NotesIn(dir) \in SUBSET NotePath
    BY DEF NotesIn
  <2> QED BY <1>4, <2>1, BeginKeeps DEF BeginRenameFolder, IInv, TypeOK
<1>5. CASE BeginReplace(c)
  <2>1. NotesIn(dir) \in SUBSET NotePath
    BY DEF NotesIn
  <2> QED BY <1>5, <2>1, BeginKeeps DEF BeginReplace, IInv, TypeOK
<1> QED BY <1>1, <1>2, <1>3, <1>4, <1>5 DEF Begins

(* What is put into the plan was read with a link to rewrite. *)
LEMMA ReadNoteIInv ==
    ASSUME IInv, NEW c \in Call, ReadNote(c)
    PROVE  IInv'
<1>1. PICK p \in todo[c] :
        /\ todo' = [todo EXCEPT ![c] = @ \ {p}]
        /\ plan' = IF At(p) \in Text /\ Affects(op[c], At(p).link)
                   THEN [plan EXCEPT ![c][p] = At(p)] ELSE plan
  BY DEF ReadNote
<1>2. Sound("scan", op[c], todo[c], plan[c], held[c], ans[c], done[c])
  BY DEF IInv, CallInv, ReadNote
<1>3. p \in NotePath
  BY <1>2 DEF Sound
<1>4. plan' \in [Call -> [NotePath -> Text \cup {Nothing}]]
  BY <1>1, <1>3 DEF IInv, TypeOK
<1>5. TypeOK'
  BY <1>1, <1>4 DEF IInv, TypeOK, ReadNote, treeVars, lockVars, slotVars
<1>6. Others(c)
  BY <1>1 DEF IInv, TypeOK, ReadNote, lockVars, slotVars, Others
<1>7. \A q \in PlannedIn(plan'[c]) : Affects(op[c], plan'[c][q].link)
  BY <1>1, <1>2, <1>3 DEF Sound, PlannedIn, IInv, TypeOK
<1>8. CallInv(c)'
  <2>1. /\ pc'[c] = "scan" /\ op'[c] = op[c] /\ held'[c] = held[c]
        /\ ans'[c] = ans[c] /\ done'[c] = done[c] /\ todo'[c] \subseteq todo[c]
    BY <1>1 DEF IInv, TypeOK, ReadNote, lockVars
  <2> QED BY <1>2, <1>7, <2>1 DEF CallInv, Sound, Opened
<1> QED BY <1>5, <1>6, <1>8, SameLocks, StepKeepsIInv DEF ReadNote, IInv

(* An answer, whatever has been done by then. *)
LEMMA AnswerKeeps ==
    ASSUME IInv, NEW c \in Call, NEW a \in {"ok", "timeout", "failed"}, Answer(c, a),
           TypeOK', UNCHANGED <<callVars, lockVars, late>>,
           \A d \in Call \ {c} : /\ done'[d] = done[d] /\ src'[d] = src[d]
                                 /\ dst'[d] = dst[d] /\ writing'[d] = writing[d],
           pc[c] \notin {"idle", "scan", "done"} \/ held[c] = {},
           a = "ok" => /\ Planned(c) \subseteq done'[c]
                       /\ op[c].kind # "replace" => op[c].from \in done'[c],
           a = "timeout" => done'[c] = {}
    PROVE  IInv'
<1>1. Others(c)
  BY DEF IInv, TypeOK, Answer, Goto, lockVars, callVars, Others
<1>2. CallInv(c)'
  <2>1. Sound(pc[c], op[c], todo[c], plan[c], held[c], ans[c], done[c])
    BY DEF IInv, CallInv
  <2>2. /\ pc'[c] = "release" /\ ans'[c] = a /\ todo'[c] = {}
        /\ op'[c] = op[c] /\ plan'[c] = plan[c] /\ held'[c] = held[c]
    BY DEF IInv, TypeOK, Answer, Goto, lockVars, callVars
  <2> QED BY <2>1, <2>2, PlannedIsPlannedIn DEF CallInv, Sound, Opened
<1> QED BY <1>1, <1>2, SameLocks, StepKeepsIInv DEF IInv

(* An answer keeps the types. *)
LEMMA AnswerType ==
    ASSUME TypeOK, NEW c \in Call, NEW a \in {"ok", "timeout", "failed"}, Answer(c, a)
    PROVE  /\ pc' \in [Call -> Steps]
           /\ ans' \in [Call -> {"none", "ok", "timeout", "failed"}]
           /\ todo' \in [Call -> SUBSET (NotePath \cup Name)]
  BY DEF TypeOK, Answer, Goto, Steps

(* An exception leaves the locks to the finally block. *)
LEMMA RaiseKeeps ==
    ASSUME IInv, NEW c \in Call, NEW a \in {"timeout", "failed"}, Raise(c, a),
           pc[c] \notin {"idle", "scan", "done"},
           a = "timeout" => done[c] = {}
    PROVE  IInv'
<1>1. TypeOK'
  BY AnswerType DEF IInv, TypeOK, Raise, treeVars, lockVars, callVars, slotVars
<1> QED BY <1>1, AnswerKeeps DEF Raise, slotVars

(* What has been read is what is locked next. *)
LEMMA EndScanIInv ==
    ASSUME IInv, NEW c \in Call, EndScan(c)
    PROVE  IInv'
<1>1. Sound("scan", op[c], todo[c], plan[c], held[c], ans[c], done[c])
  BY DEF IInv, CallInv, EndScan
<1>2. CASE op[c].kind = "replace" /\ Planned(c) = {} /\ Answer(c, "ok")
  <2>1. TypeOK'
    BY <1>2, AnswerType DEF IInv, TypeOK, EndScan, treeVars, lockVars, callVars, slotVars
  <2> QED BY <1>1, <1>2, <2>1, AnswerKeeps DEF EndScan, Sound, IInv, slotVars
<1>3. CASE Goto(c, "lock") /\ todo' = [todo EXCEPT ![c] = Planned(c)] /\ UNCHANGED ans
  <2>1. Planned(c) \subseteq NotePath
    BY DEF Planned
  <2>2. pc' \in [Call -> Steps] /\ todo' \in [Call -> SUBSET (NotePath \cup Name)]
    BY <1>3, <2>1 DEF IInv, TypeOK, Goto, Steps
  <2>3. TypeOK'
    BY <1>3, <2>2 DEF IInv, TypeOK, EndScan, treeVars, lockVars, callVars, slotVars
  <2>4. Others(c)
    BY <1>3 DEF IInv, TypeOK, EndScan, Goto, lockVars, slotVars, callVars, Others
  <2>5. /\ pc'[c] = "lock" /\ todo'[c] = PlannedIn(plan[c])
        /\ op'[c] = op[c] /\ plan'[c] = plan[c] /\ held'[c] = held[c]
        /\ ans'[c] = ans[c] /\ done'[c] = done[c]
    BY <1>3, PlannedIsPlannedIn DEF IInv, TypeOK, EndScan, Goto, lockVars, callVars
  <2>6. CallInv(c)'
    BY <1>1, <2>5 DEF CallInv, Sound, Opened
  <2> QED BY <2>3, <2>4, <2>6, SameLocks, StepKeepsIInv DEF EndScan, IInv
<1> QED BY <1>2, <1>3 DEF EndScan

(* A lock that was free now belongs to the call. *)
LEMMA AcquireLockIInv ==
    ASSUME IInv, NEW c \in Call, AcquireLock(c)
    PROVE  IInv'
<1>1. PICK l \in Wanted(c) :
        /\ lock[l] = NoCall
        /\ lock' = [lock EXCEPT ![l] = c]
        /\ held' = [held EXCEPT ![c] = @ \cup {l}]
        /\ todo' = [todo EXCEPT ![c] = @ \ {l}]
  BY DEF AcquireLock
<1>2. Sound("lock", op[c], todo[c], plan[c], held[c], ans[c], done[c])
  BY DEF IInv, CallInv, AcquireLock
<1>3. l \in LockName
  <2>1. op[c] \in Operation
    BY DEF IInv, TypeOK
  <2>2. OwnLock(op[c]) \subseteq LockName
    BY <2>1, OperationFields DEF OwnLock
  <2>3. todo[c] \subseteq LockName
    BY <1>2 DEF Sound, PlannedIn, LockName, Path
  <2> QED BY <2>2, <2>3 DEF Wanted
<1>4. TypeOK'
  <2>1. lock' \in [LockName -> Call \cup {NoCall}] /\ held' \in [Call -> SUBSET LockName]
        /\ todo' \in [Call -> SUBSET (NotePath \cup Name)]
    BY <1>1, <1>3 DEF IInv, TypeOK
  <2> QED BY <2>1 DEF IInv, TypeOK, AcquireLock, treeVars, callVars, slotVars
<1>5. Others(c)
  BY <1>1 DEF IInv, TypeOK, AcquireLock, callVars, slotVars, Others
<1>6. CallInv(c)'
  <2>1. /\ pc'[c] = "lock" /\ todo'[c] = todo[c] \ {l} /\ held'[c] = held[c] \cup {l}
        /\ op'[c] = op[c] /\ plan'[c] = plan[c] /\ ans'[c] = ans[c] /\ done'[c] = done[c]
    BY <1>1 DEF IInv, TypeOK, AcquireLock, callVars
  <2> QED BY <1>2, <2>1 DEF CallInv, Sound, Opened
<1>7. LocksMatch'
  BY <1>1, <1>3, NameAssumption DEF IInv, TypeOK, LocksMatch
<1> QED BY <1>4, <1>5, <1>6, <1>7, StepKeepsIInv DEF AcquireLock, IInv

(* Every planned note is locked when the rewriting starts. *)
LEMMA EndLockIInv ==
    ASSUME IInv, NEW c \in Call, EndLock(c)
    PROVE  IInv'
<1>1. Sound("lock", op[c], todo[c], plan[c], held[c], ans[c], done[c])
  BY DEF IInv, CallInv, EndLock
<1>2. todo[c] = {} /\ OwnLock(op[c]) \subseteq held[c]
  BY DEF EndLock, Wanted
<1>3. PICK step \in {"write", "look"} :
        /\ step = IF PlannedIn(plan[c]) # {} THEN "write" ELSE "look"
        /\ pc' = [pc EXCEPT ![c] = step]
        /\ todo' = [todo EXCEPT ![c] = PlannedIn(plan[c])]
  BY PlannedIsPlannedIn DEF EndLock, Goto
<1>4. TypeOK'
  <2>1. pc' \in [Call -> Steps] /\ todo' \in [Call -> SUBSET (NotePath \cup Name)]
    BY <1>3 DEF IInv, TypeOK, Steps, PlannedIn
  <2> QED BY <2>1 DEF IInv, TypeOK, EndLock, treeVars, lockVars, callVars, slotVars
<1>5. Others(c)
  BY <1>3 DEF IInv, TypeOK, EndLock, lockVars, callVars, slotVars, Others
<1>6. CallInv(c)'
  <2>1. /\ pc'[c] = step /\ todo'[c] = PlannedIn(plan[c])
        /\ op'[c] = op[c] /\ plan'[c] = plan[c] /\ held'[c] = held[c]
        /\ ans'[c] = ans[c] /\ done'[c] = done[c]
    BY <1>3 DEF IInv, TypeOK, EndLock, lockVars, callVars
  <2>2. op[c].kind = "move" => op[c].from \in held[c]
    BY <1>2 DEF OwnLock
  <2> QED BY <1>1, <1>2, <1>3, <2>1, <2>2 DEF CallInv, Sound, Opened
<1> QED BY <1>4, <1>5, <1>6, SameLocks, StepKeepsIInv DEF EndLock, IInv

(* The parent that a rewrite opens or makes is a directory. *)
LEMMA OpenNoteIInv ==
    ASSUME IInv, NEW c \in Call, OpenNote(c)
    PROVE  IInv'
<1>1. Sound("write", op[c], todo[c], plan[c], held[c], ans[c], done[c])
  BY DEF IInv, CallInv, OpenNote
<1>2. PICK p \in todo[c], missing \in BOOLEAN : \E d \in WithParent(p) :
        /\ dir' = d
        /\ dst' = [dst EXCEPT ![c] = <<ParentIn(d, p), Leaf(p)>>]
        /\ writing' = [writing EXCEPT ![c] = [path |-> p, missing |-> missing]]
  <2>1. \A d, p : (AtIn(d, p) = Nothing) \in BOOLEAN
    OBVIOUS
  <2> QED BY <2>1, Zenon DEF OpenNote
<1>3. p \in NotePath /\ p \in LockName /\ p \in Path
  BY <1>1 DEF Sound, PlannedIn, LockName, Path
<1>4. PICK d \in WithParent(p) :
        /\ dir' = d
        /\ dst' = [dst EXCEPT ![c] = <<ParentIn(d, p), Leaf(p)>>]
  BY <1>2
<1>5. d \in Tree /\ <<ParentIn(d, p), Leaf(p)>> \in Slot
  BY <1>3, WithParentType, LeafIsName DEF IInv, Slot
<1>6. TypeOK'
  <2>1. pc' \in [Call -> Steps]
    BY DEF OpenNote, IInv, TypeOK, Goto, Steps
  <2>2. dst' \in [Call -> Dir \X (Name \cup {Nothing})]
    <3>1. <<ParentIn(d, p), Leaf(p)>> \in Dir \X (Name \cup {Nothing})
      BY <1>5 DEF Slot
    <3> QED BY <1>4, <3>1 DEF IInv, TypeOK
  <2>3. writing' \in [Call -> [path : NotePath \cup {<<>>}, missing : BOOLEAN]]
    BY <1>2, <1>3 DEF IInv, TypeOK
  <2>4. raced' \in [Call -> BOOLEAN]
    BY DisturbType DEF OpenNote, IInv, TypeOK
  <2>5. dir' \in [Dir -> [Name -> Node]]
    BY <1>4, <1>5 DEF Tree
  <2>6. UNCHANGED <<lock, held, todo, op, plan, src, ans, done, late, trashed, edits>>
    BY DEF OpenNote, lockVars, callVars
  <2> QED BY <2>1, <2>2, <2>3, <2>4, <2>5, <2>6 DEF IInv, TypeOK
<1>7. Others(c)
  BY <1>2 DEF IInv, TypeOK, OpenNote, Goto, lockVars, callVars, Others
<1>8. CallInv(c)'
  <2>1. /\ pc'[c] = "commit" /\ todo'[c] = todo[c] /\ op'[c] = op[c] /\ plan'[c] = plan[c]
        /\ held'[c] = held[c] /\ ans'[c] = ans[c] /\ done'[c] = done[c]
        /\ dst'[c] = <<ParentIn(d, p), Leaf(p)>> /\ writing'[c].path = p
    BY <1>2, <1>4 DEF IInv, TypeOK, OpenNote, Goto, lockVars, callVars
  <2>2. Sound("commit", op[c], todo[c], plan[c], held[c], ans[c], done[c])
    BY <1>1 DEF Sound
  <2> QED BY <1>5, <2>1, <2>2 DEF CallInv, Opened
<1> QED BY <1>6, <1>7, <1>8, SameLocks, StepKeepsIInv DEF OpenNote, IInv

(* What a commit writes, and where. *)
LEMMA CommitFacts ==
    ASSUME IInv, NEW c \in Call, CommitNote(c)
    PROVE  LET p == writing[c].path
               new == Rewritten(op[c], plan[c][p])
           IN  /\ Sound("commit", op[c], todo[c], plan[c], held[c], ans[c], done[c])
               /\ p \in todo[c] /\ p \in NotePath /\ p \in PlannedIn(plan[c])
               /\ plan[c][p] \in Text
               /\ new \in Text /\ new.id = plan[c][p].id
               /\ dst[c] \in Slot /\ dir \in Tree
               /\ dir' = With(dir, dst[c], new) /\ dir' \in Tree
<1> DEFINE p == writing[c].path
           new == Rewritten(op[c], plan[c][p])
<1>1. /\ Sound("commit", op[c], todo[c], plan[c], held[c], ans[c], done[c])
      /\ p \in todo[c] /\ dst[c] \in Slot
  BY DEF IInv, CallInv, Opened, CommitNote
<1>2. p \in NotePath /\ p \in PlannedIn(plan[c])
  BY <1>1 DEF Sound, PlannedIn
<1>3. op[c] \in Operation /\ plan[c][p] \in Text /\ dir \in Tree
  BY <1>2 DEF IInv, TypeOK, PlannedIn, Tree
<1>4. new \in Text
  BY <1>1, <1>2, <1>3, RewrittenType DEF Sound
<1>5. new.id = plan[c][p].id
  BY <1>3 DEF Rewritten, Text
<1>6. dir' = With(dir, dst[c], new)
  BY DEF CommitNote
<1> HIDE DEF new
<1>7. dir' \in Tree
  BY <1>3, <1>4, <1>6, WithType DEF Node
<1> QED BY <1>1, <1>2, <1>3, <1>4, <1>5, <1>6, <1>7 DEF new

(* A commit keeps what is rewritten and what is left apart. *)
LEMMA CommitNoteIInv ==
    ASSUME IInv, NEW c \in Call, CommitNote(c)
    PROVE  IInv'
<1> DEFINE p == writing[c].path
<1>1. /\ IF todo[c] # {p}
         THEN todo' = [todo EXCEPT ![c] = @ \ {p}] /\ Goto(c, "write") /\ UNCHANGED ans
         ELSE IF op[c].kind = "replace" THEN \E a \in {"ok", "failed"} : Answer(c, a)
         ELSE Goto(c, "look") /\ todo' = [todo EXCEPT ![c] = {}] /\ UNCHANGED ans
      /\ done' = [done EXCEPT ![c] = @ \cup {p}]
  BY DEF CommitNote
<1>2. /\ Sound("commit", op[c], todo[c], plan[c], held[c], ans[c], done[c])
      /\ p \in todo[c] /\ p \in NotePath /\ p \in PlannedIn(plan[c]) /\ dir' \in Tree
  BY CommitFacts
<1> HIDE DEF p
<1>3. /\ dir' \in [Dir -> [Name -> Node]]
      /\ raced' \in [Call -> BOOLEAN]
      /\ done' \in [Call -> SUBSET LockName]
  <2>1. raced' \in [Call -> BOOLEAN]
    BY DisturbType DEF CommitNote, IInv, TypeOK
  <2>2. done' \in [Call -> SUBSET LockName]
    BY <1>1, <1>2 DEF IInv, TypeOK, LockName, Path
  <2> QED BY <1>2, <2>1, <2>2 DEF Tree
<1>4. /\ dst' \in [Call -> Dir \X (Name \cup {Nothing})]
      /\ writing' \in [Call -> [path : NotePath \cup {<<>>}, missing : BOOLEAN]]
  <2>1. NoSlot \in Dir \X (Name \cup {Nothing})
    BY DEF NoSlot, Dir
  <2>2. dst' = [dst EXCEPT ![c] = NoSlot] /\ writing' = [writing EXCEPT ![c] = NoWriting]
    BY DEF CommitNote
  <2> QED BY <2>1, <2>2 DEF IInv, TypeOK, NoWriting
<1>5. /\ done'[c] = done[c] \cup {p}
      /\ \A d \in Call \ {c} : /\ done'[d] = done[d] /\ src'[d] = src[d]
                                /\ dst'[d] = dst[d] /\ writing'[d] = writing[d]
  BY <1>1 DEF CommitNote, IInv, TypeOK
<1>6. PlannedIn(plan[c]) \ (todo[c] \ {p}) \subseteq done'[c]
  BY <1>2, <1>5 DEF Sound
<1>7. ASSUME pc' \in [Call -> Steps], todo' \in [Call -> SUBSET (NotePath \cup Name)],
             ans' \in [Call -> {"none", "ok", "timeout", "failed"}]
      PROVE  TypeOK'
  BY <1>3, <1>4, <1>7 DEF IInv, TypeOK, CommitNote, lockVars, callVars
<1>8. /\ op'[c] = op[c] /\ plan'[c] = plan[c] /\ held'[c] = held[c]
      /\ LocksMatch'
  BY SameLocks DEF CommitNote, callVars, lockVars
<1>9. CASE todo[c] # {p}
  <2>1. todo' = [todo EXCEPT ![c] = @ \ {p}] /\ Goto(c, "write") /\ UNCHANGED ans
    BY <1>1, <1>9
  <2>2. TypeOK'
    BY <1>7, <2>1 DEF IInv, TypeOK, Goto, Steps
  <2>3. Others(c)
    BY <1>5, <2>1 DEF IInv, TypeOK, CommitNote, Goto, lockVars, callVars, Others
  <2>4. pc'[c] = "write" /\ todo'[c] = todo[c] \ {p} /\ ans'[c] = ans[c]
    BY <2>1 DEF IInv, TypeOK, Goto
  <2>5. CallInv(c)'
    BY <1>2, <1>5, <1>6, <1>8, <2>4 DEF CallInv, Sound, Opened
  <2> QED BY <1>8, <2>2, <2>3, <2>5, StepKeepsIInv DEF CommitNote, IInv
<1>10. CASE todo[c] = {p} /\ op[c].kind = "replace"
  <2>1. PICK a \in {"ok", "failed"} : Answer(c, a)
    BY <1>1, <1>10
  <2>2. TypeOK'
    BY <1>7, <2>1, AnswerType DEF IInv
  <2>3. Planned(c) \subseteq done'[c]
    BY <1>6, <1>10, PlannedIsPlannedIn
  <2> QED BY <1>5, <1>10, <2>1, <2>2, <2>3, AnswerKeeps DEF CommitNote
<1>11. CASE todo[c] = {p} /\ op[c].kind # "replace"
  <2>1. Goto(c, "look") /\ todo' = [todo EXCEPT ![c] = {}] /\ UNCHANGED ans
    BY <1>1, <1>11
  <2>2. TypeOK'
    BY <1>7, <2>1 DEF IInv, TypeOK, Goto, Steps
  <2>3. Others(c)
    BY <1>5, <2>1 DEF IInv, TypeOK, Goto, CommitNote, lockVars, callVars, Others
  <2>4. pc'[c] = "look" /\ todo'[c] = {} /\ ans'[c] = ans[c]
    BY <2>1 DEF IInv, TypeOK, Goto
  <2>5. PlannedIn(plan[c]) \subseteq done'[c]
    BY <1>6, <1>11
  <2>6. CallInv(c)'
    BY <1>2, <1>8, <2>4, <2>5 DEF CallInv, Sound, Opened
  <2> QED BY <1>8, <2>2, <2>3, <2>6, StepKeepsIInv DEF CommitNote, IInv
<1> QED BY <1>9, <1>10, <1>11

(* The look at the entries, for a rename or for a removal. *)
LEMMA LookKeeps ==
    ASSUME IInv, NEW c \in Call, pc[c] = "look",
           NEW s \in Slot, NEW t \in Dir \X (Name \cup {Nothing}), NEW d \in Tree,
           Look(c, s, t, d),
           NEW step \in {"rename", "remove"}, Goto(c, step),
           step = "rename" => t \in Slot,
           step = "remove" => op[c].kind = "delete",
           op[c].kind # "replace",
           \/ UNCHANGED todo
           \/ \E left \in SUBSET Name : todo' = [todo EXCEPT ![c] = left]
    PROVE  IInv'
<1>1. TypeOK'
  <2>1. pc' \in [Call -> Steps] /\ todo' \in [Call -> SUBSET (NotePath \cup Name)]
    <3>1. pc' \in [Call -> Steps]
      BY DEF IInv, TypeOK, Goto, Steps
    <3>2. ASSUME NEW left \in SUBSET Name, todo' = [todo EXCEPT ![c] = left]
          PROVE  todo' \in [Call -> SUBSET (NotePath \cup Name)]
      BY <3>2 DEF IInv, TypeOK
    <3> QED BY <3>1, <3>2 DEF IInv, TypeOK
  <2>2. /\ src' \in [Call -> Dir \X (Name \cup {Nothing})]
        /\ dst' \in [Call -> Dir \X (Name \cup {Nothing})]
    <3>1. s \in Dir \X (Name \cup {Nothing})
      BY DEF Slot
    <3> QED BY <3>1 DEF IInv, TypeOK, Look
  <2>3. raced' \in [Call -> BOOLEAN]
    BY DEF IInv, TypeOK, Look
  <2>4. dir' \in [Dir -> [Name -> Node]]
    BY DEF Look, Tree
  <2>5. UNCHANGED <<lock, held, op, plan, writing, ans, done, late, trashed, edits>>
    BY DEF Look, lockVars, callVars
  <2>6. TypeOK
    BY DEF IInv
  <2> QED BY <2>1, <2>2, <2>3, <2>4, <2>5, <2>6 DEF TypeOK
<1>2. Others(c)
  BY DEF IInv, TypeOK, Look, Goto, lockVars, callVars, Others
<1>3. CallInv(c)'
  <2>1. Sound("look", op[c], todo[c], plan[c], held[c], ans[c], done[c])
    BY DEF IInv, CallInv
  <2>2. /\ pc'[c] = step /\ op'[c] = op[c] /\ plan'[c] = plan[c] /\ held'[c] = held[c]
        /\ ans'[c] = ans[c] /\ done'[c] = done[c] /\ src'[c] = s /\ dst'[c] = t
    BY DEF IInv, TypeOK, Look, Goto, lockVars, callVars
  <2>3. Sound(step, op[c], todo'[c], plan[c], held[c], ans[c], done[c])
    BY <2>1 DEF Sound
  <2> QED BY <2>2, <2>3 DEF CallInv, Opened
<1> QED BY <1>1, <1>2, <1>3, SameLocks, StepKeepsIInv DEF Look, IInv

(* The parents that a deletion opens are directories. *)
LEMMA LookTrashIInv ==
    ASSUME IInv, NEW c \in Call, LookTrash(c)
    PROVE  IInv'
<1> DEFINE s == <<ParentIn(dir, op[c].from), Leaf(op[c].from)>>
           node == At(op[c].from)
<1>1. /\ op[c] \in Operation /\ op[c].kind = "delete" /\ op[c].from \in LockName
      /\ dir \in Tree
  BY OperationFields DEF IInv, TypeOK, LookTrash, Tree
<1>2. node # Nothing /\ node \in Node /\ s \in Slot
  BY <1>1, ParentType, AtType, LeafIsName DEF LookTrash, At, Slot
<1>3. s[2] = Leaf(op[c].from) /\ s[2] \in Name
  BY <1>1, LeafIsName
<1>4. CASE op[c].trash
  <2>1. PICK n \in TrashName(s[2]) : Look(c, s, <<Trash, n>>, dir)
    BY <1>4 DEF LookTrash
  <2>2. <<Trash, n>> \in Slot
    BY <1>3 DEF TrashName, Slot, Dir, Name
  <2>3. Goto(c, "rename") /\ UNCHANGED todo
    BY <1>4 DEF LookTrash
  <2>4. <<Trash, n>> \in Dir \X (Name \cup {Nothing})
    BY <2>2 DEF Slot
  <2> QED BY <1>1, <1>2, <2>1, <2>2, <2>3, <2>4, LookKeeps DEF LookTrash
<1>5. CASE ~op[c].trash
  <2>1. PICK t \in Dir \X (Name \cup {Nothing}), left \in SUBSET Name :
          /\ Look(c, s, t, dir)
          /\ todo' = [todo EXCEPT ![c] = left]
    <3>1. NoSlot \in Dir \X (Name \cup {Nothing})
      BY DEF NoSlot, Dir
    <3>2. node \in Folders => <<node, Nothing>> \in Dir \X (Name \cup {Nothing})
      BY DEF Dir
    <3> HIDE DEF s, node
    <3> QED BY <1>5, <3>1, <3>2 DEF LookTrash, s, node
  <2>2. Goto(c, "remove")
    BY <1>5 DEF LookTrash
  <2> QED BY <1>1, <1>2, <2>1, <2>2, LookKeeps DEF LookTrash
<1> QED BY <1>4, <1>5

(* The parents that a move opens or makes are directories. *)
LEMMA LookTargetIInv ==
    ASSUME IInv, NEW c \in Call, LookTarget(c)
    PROVE  IInv'
<1> DEFINE s == <<ParentIn(dir, op[c].from), Leaf(op[c].from)>>
<1>1. /\ op[c] \in Operation /\ op[c].from \in LockName /\ op[c].to \in Path
      /\ dir \in Tree
  BY OperationFields DEF IInv, TypeOK, LookTarget, Tree, Path, LockName
<1>2. PICK d \in WithParent(op[c].to) :
        Look(c, s, <<ParentIn(d, op[c].to), Leaf(op[c].to)>>, d)
  BY DEF LookTarget
<1>3. s \in Slot
  BY <1>1, ParentType, LeafIsName DEF LookTarget, At, Slot
<1>4. d \in Tree /\ <<ParentIn(d, op[c].to), Leaf(op[c].to)>> \in Slot
  BY <1>1, <1>2, WithParentType, LeafIsName DEF IInv, Slot, LockName
<1>5. <<ParentIn(d, op[c].to), Leaf(op[c].to)>> \in Dir \X (Name \cup {Nothing})
  BY <1>4 DEF Slot
<1>6. pc[c] = "look" /\ Goto(c, "rename") /\ UNCHANGED todo /\ op[c].kind # "replace"
  BY DEF LookTarget
<1> HIDE DEF s
<1> QED BY <1>1, <1>2, <1>3, <1>4, <1>5, <1>6, LookKeeps

(* A success after all planned notes have been rewritten. *)
LEMMA RenameIInv ==
    ASSUME IInv, NEW c \in Call, Rename(c)
    PROVE  IInv'
<1> DEFINE node == dir[src[c][1]][src[c][2]]
<1>1. dir \in Tree /\ src[c] \in Slot /\ op[c] \in Operation
  BY DEF IInv, TypeOK, Tree, CallInv, Opened, Rename
<1>2. node \in Node
  BY <1>1 DEF Tree, Slot
<1>3. Nothing \in Node
  BY DEF Node
<1>4. dir' \in Tree
  <2>1. dir' = With(With(dir, src[c], Nothing), dst[c], node)
    BY DEF Rename
  <2> HIDE DEF node
  <2> QED BY <1>1, <1>2, <1>3, <2>1, WithType
<1>5. trashed' \in SUBSET Note
  <2>1. IdsBelow(dir, node) \subseteq Note
    BY <1>1, <1>2, IdsType
  <2>2. trashed' \in {trashed, trashed \cup IdsBelow(dir, node)}
    BY DEF Rename
  <2>3. trashed' \in SUBSET Note
    BY <2>1, <2>2 DEF IInv, TypeOK
  <2> QED BY <2>3 DEF Rename, IInv, TypeOK
<1>6. raced' \in [Call -> BOOLEAN]
  BY DisturbType DEF Rename, IInv, TypeOK
<1>7. /\ done' \in [Call -> SUBSET LockName]
      /\ done'[c] = done[c] \cup {op[c].from}
      /\ \A d \in Call \ {c} : done'[d] = done[d]
  <2>1. op[c].from \in LockName
    BY <1>1, OperationFields DEF LockName, Path
  <2> QED BY <2>1 DEF Rename, IInv, TypeOK
<1>8. TypeOK'
  <2>1. Answer(c, "ok") /\ TypeOK
    BY DEF Rename, IInv
  <2>2. UNCHANGED <<lock, held, op, plan, src, dst, writing, late, edits>>
    BY DEF Rename, lockVars, callVars, slotVars
  <2> QED BY <1>4, <1>5, <1>6, <1>7, <2>1, <2>2, AnswerType DEF TypeOK, Tree
<1>9. Planned(c) \subseteq done'[c] /\ op[c].from \in done'[c]
  <2>1. Planned(c) \subseteq done[c]
    BY PlannedIsPlannedIn DEF IInv, CallInv, Sound, Rename
  <2> QED BY <1>7, <2>1
<1> QED BY <1>7, <1>8, <1>9, AnswerKeeps DEF Rename, slotVars

(* An erased entry keeps the types. *)
LEMMA EraseType ==
    ASSUME IInv, NEW c \in Call, NEW s, Erase(c, s)
    PROVE  /\ dir' \in [Dir -> [Name -> Node]]
           /\ raced' \in [Call -> BOOLEAN]
           /\ trashed' \in SUBSET Note
<1>1. dir \in Tree /\ Nothing \in Node
  BY DEF IInv, TypeOK, Tree, Node
<1>2. dir' \in Tree
  BY <1>1, WithType DEF Erase
<1>3. raced' \in [Call -> BOOLEAN]
  BY DisturbType DEF Erase, IInv, TypeOK
<1> QED BY <1>2, <1>3 DEF Erase, IInv, TypeOK, Tree

(* A note or a folder has gone, and the call says so. *)
LEMMA ErasedKeeps ==
    ASSUME IInv, NEW c \in Call, NEW s, Erase(c, s), pc[c] = "remove", Answer(c, "ok"),
           done' = [done EXCEPT ![c] = @ \cup {op[c].from}]
    PROVE  IInv'
<1>1. op[c].from \in LockName
  BY OperationFields DEF IInv, TypeOK, LockName, Path
<1>2. /\ done' \in [Call -> SUBSET LockName]
      /\ done'[c] = done[c] \cup {op[c].from}
      /\ \A d \in Call \ {c} : done'[d] = done[d]
  BY <1>1 DEF IInv, TypeOK
<1>3. TypeOK'
  <2>1. UNCHANGED <<lock, held, op, plan, src, dst, writing, late, edits>>
    BY DEF Erase, lockVars, callVars, slotVars
  <2> QED BY <1>2, <2>1, EraseType, AnswerType DEF IInv, TypeOK
<1>4. Planned(c) \subseteq done'[c] /\ op[c].from \in done'[c]
  <2>1. Planned(c) \subseteq done[c]
    BY PlannedIsPlannedIn DEF IInv, CallInv, Sound
  <2> QED BY <1>2, <2>1
<1> QED BY <1>2, <1>3, <1>4, AnswerKeeps DEF Erase, slotVars

(* Permanent deletions. *)
LEMMA RemoveIInv ==
    ASSUME IInv, NEW c \in Call, UnlinkNote(c) \/ UnlinkEntry(c) \/ RemoveDir(c)
    PROVE  IInv'
<1>1. CASE UnlinkNote(c)
  BY <1>1, ErasedKeeps DEF UnlinkNote, IInv, TypeOK
<1>2. CASE RemoveDir(c)
  BY <1>2, ErasedKeeps DEF RemoveDir
<1>3. CASE UnlinkEntry(c)
  <2>1. PICK n \in Name :
          /\ Erase(c, <<dst[c][1], n>>)
          /\ todo' = [todo EXCEPT ![c] = @ \ {n}]
    BY <1>3 DEF UnlinkEntry
  <2>2. TypeOK'
    <3>1. todo' \in [Call -> SUBSET (NotePath \cup Name)]
      BY <1>3, <2>1 DEF IInv, TypeOK, UnlinkEntry
    <3>2. UNCHANGED <<lock, held, op, plan, src, dst, writing, late, edits, pc,
                      ans, done>>
      BY <1>3, <2>1 DEF UnlinkEntry, Erase, lockVars, callVars, slotVars
    <3> QED BY <2>1, <3>1, <3>2, EraseType DEF IInv, TypeOK
  <2>3. Others(c)
    BY <1>3, <2>1 DEF IInv, TypeOK, UnlinkEntry, Erase, lockVars, callVars, slotVars, Others
  <2>4. CallInv(c)'
    BY <1>3, <2>1 DEF IInv, CallInv, Sound, Opened, UnlinkEntry, Erase, lockVars,
                      callVars, slotVars
  <2> QED BY <2>1, <2>2, <2>3, <2>4, SameLocks, StepKeepsIInv DEF Erase, IInv
<1> QED BY <1>1, <1>2, <1>3

(* The call gives back all its locks and no other, and forgets what it had. *)
LEMMA ReleaseIInv ==
    ASSUME IInv, NEW c \in Call, Release(c)
    PROVE  IInv'
<1>1. NoPlan \in [NotePath -> Text \cup {Nothing}] /\ PlannedIn(NoPlan) = {}
  BY DEF NoPlan, PlannedIn
<1>2. NoSlot \in Dir \X (Name \cup {Nothing})
  BY DEF NoSlot, Dir
<1>3. TypeOK'
  <2>1. plan' \in [Call -> [NotePath -> Text \cup {Nothing}]]
    BY <1>1 DEF IInv, TypeOK, Release, Ends
  <2>2. /\ src' \in [Call -> Dir \X (Name \cup {Nothing})]
        /\ dst' \in [Call -> Dir \X (Name \cup {Nothing})]
        /\ writing' \in [Call -> [path : NotePath \cup {<<>>}, missing : BOOLEAN]]
    BY <1>2 DEF IInv, TypeOK, Release, Ends, NoWriting
  <2>3. /\ pc' \in [Call -> Steps]
        /\ lock' \in [LockName -> Call \cup {NoCall}]
        /\ held' \in [Call -> SUBSET LockName]
        /\ ans' \in [Call -> {"none", "ok", "timeout", "failed"}]
        /\ done' \in [Call -> SUBSET LockName]
        /\ late' \in [Call -> SUBSET Edit]
    BY DEF IInv, TypeOK, Release, Ends, Goto, Steps
  <2>4. raced' \in [Call -> BOOLEAN]
    BY DEF IInv, TypeOK, Release, Ends
  <2>5. UNCHANGED <<dir, trashed, op, todo, edits>>
    BY DEF Release, Ends, treeVars
  <2> QED BY <2>1, <2>2, <2>3, <2>4, <2>5 DEF IInv, TypeOK
<1>4. Others(c)
  BY DEF IInv, TypeOK, Release, Ends, Goto, Others
<1>5. CallInv(c)'
  <2>1. Sound("release", op[c], todo[c], plan[c], held[c], ans[c], done[c])
    BY DEF IInv, CallInv, Release
  <2>2. /\ pc'[c] = "done" /\ todo'[c] = todo[c] /\ held'[c] = {}
        /\ op'[c] = op[c] /\ plan'[c] = NoPlan /\ ans'[c] = "none" /\ done'[c] = {}
    BY DEF IInv, TypeOK, Release, Ends, Goto
  <2> QED BY <1>1, <2>1, <2>2 DEF CallInv, Sound, Opened
<1>6. LocksMatch'
  BY NameAssumption DEF IInv, TypeOK, LocksMatch, Release, Ends
<1>7. \A d \in Call : late'[d] = {}
  BY DEF Release, Ends, IInv, TypeOK
<1> QED BY <1>3, <1>4, <1>5, <1>6, <1>7, StepKeepsIInv

(* Nobody else gets the lock of a note that a call has locked to rewrite. *)
LEMMA BelievedIsLocked ==
    ASSUME IInv, NEW c \in Call, NEW p \in NotePath, Believes(c, p)
    PROVE  p \in held[c] /\ lock[p] = c /\ lock[p] # NoCall
<1>1. p \in held[c]
  BY PlannedIsPlannedIn DEF IInv, CallInv, Sound, Believes
<1>2. p \in LockName
  BY DEF LockName, Path
<1> QED BY <1>1, <1>2, NameAssumption DEF IInv, LocksMatch

(* Nobody edits a note that a call believes to have locked. *)
LEMMA WriteOtherIInv ==
    ASSUME IInv, NEW p \in NotePath, NEW d \in Tree, NEW text \in Text, WriteOther(p, d, text)
    PROVE  IInv'
<1>1. \A c \in Call : late'[c] = {}
  <2>1. \A c \in Call : ~Believes(c, p)
    BY BelievedIsLocked DEF WriteOther
  <2> QED BY <2>1 DEF WriteOther, IInv
<1>2. TypeOK'
  <2>1. dir' \in [Dir -> [Name -> Node]]
    BY WithType DEF WriteOther, Tree, Node
  <2>2. raced' \in [Call -> BOOLEAN]
    BY DisturbType DEF WriteOther, IInv, TypeOK
  <2>3. late' \in [Call -> SUBSET Edit]
    <3>1. late' = [c \in Call |-> late'[c]]
      BY DEF WriteOther
    <3> QED BY <1>1, <3>1
  <2>4. edits' \in 0..MaxEdits
    BY BoundAssumption DEF WriteOther, IInv, TypeOK
  <2>5. UNCHANGED <<lock, held, pc, todo, op, plan, src, dst, writing, ans, done,
                    trashed>>
    BY DEF WriteOther, lockVars, callVars, slotVars
  <2> QED BY <2>1, <2>2, <2>3, <2>4, <2>5 DEF IInv, TypeOK
<1>3. \A c \in Call : CallInv(c)'
  BY DEF IInv, CallInv, WriteOther, lockVars, callVars, slotVars
<1> QED BY <1>1, <1>2, <1>3, SameLocks DEF WriteOther, IInv

(* Other tools. *)
LEMMA OthersIInv ==
    ASSUME IInv, EditNote \/ CreateNote \/ CreateFolder
    PROVE  IInv'
<1>1. CASE EditNote
  <2>1. PICK p \in NotesIn(dir) :
          WriteOther(p, dir, [At(p) EXCEPT !.edits = @ \cup {edits + 1}])
    BY <1>1 DEF EditNote
  <2>2. p \in NotePath /\ At(p) \in Text /\ dir \in Tree
    BY DEF NotesIn, At, IInv, TypeOK, Tree
  <2>3. edits + 1 \in Edit
    BY <2>1, BoundAssumption DEF WriteOther, IInv, TypeOK, Edit
  <2>4. [At(p) EXCEPT !.edits = @ \cup {edits + 1}] \in Text
    BY <2>2, <2>3 DEF Text
  <2> QED BY <2>1, <2>2, <2>4, WriteOtherIInv
<1>2. CASE CreateNote
  <2>1. PICK p \in NotePath, i \in Note : \E d \in WithParent(p) :
          WriteOther(p, d, [id |-> i, edits |-> {edits + 1}, link |-> Nothing])
    BY <1>2 DEF CreateNote
  <2>2. PICK d \in WithParent(p) :
          WriteOther(p, d, [id |-> i, edits |-> {edits + 1}, link |-> Nothing])
    BY <2>1
  <2>3. edits + 1 \in Edit
    BY <2>2, BoundAssumption DEF WriteOther, IInv, TypeOK, Edit
  <2>4. [id |-> i, edits |-> {edits + 1}, link |-> Nothing] \in Text
    BY <2>3 DEF Text
  <2>5. d \in Tree
    BY WithParentType DEF IInv, Path
  <2> QED BY <2>2, <2>4, <2>5, WriteOtherIInv
<1>3. CASE CreateFolder
  <2>1. PICK f \in FolderName, n \in NoteName :
          /\ edits < MaxEdits /\ edits' = edits + 1
          /\ dir' \in WithParent(<<f, n>>)
          /\ Disturb(NoCall, dir, dir')
          /\ UNCHANGED <<lockVars, pc, todo, callVars, slotVars, ans, done, late,
                         trashed>>
    BY <1>3 DEF CreateFolder
  <2>2. dir' \in [Dir -> [Name -> Node]]
    BY <2>1, WithParentType DEF IInv, Path, NotePath, Tree
  <2>3. raced' \in [Call -> BOOLEAN]
    BY <2>1, DisturbType DEF IInv, TypeOK
  <2>4. edits' \in 0..MaxEdits
    BY <2>1, BoundAssumption DEF IInv, TypeOK
  <2>5. TypeOK'
    BY <2>1, <2>2, <2>3, <2>4 DEF IInv, TypeOK, lockVars, callVars, slotVars
  <2>6. \A c \in Call : CallInv(c)'
    BY <2>1 DEF IInv, CallInv, lockVars, callVars, slotVars
  <2> QED BY <2>1, <2>5, <2>6, SameLocks DEF IInv
<1> QED BY <1>1, <1>2, <1>3

(* Every step of a call. *)
LEMMA ProgressIInv ==
    ASSUME IInv, NEW c \in Call, Progress(c)
    PROVE  IInv'
<1>1. CASE LockTimeout(c)
  <2>1. Raise(c, "timeout") /\ pc[c] = "lock"
    BY <1>1 DEF LockTimeout
  <2>2. done[c] = {}
    BY <2>1 DEF IInv, CallInv, Sound
  <2> QED BY <2>1, <2>2, RaiseKeeps
<1>2. CASE StorageError(c)
  BY <1>2, RaiseKeeps DEF StorageError
<1>3. CASE UnlinkNote(c) \/ UnlinkEntry(c) \/ RemoveDir(c)
  BY <1>3, RemoveIInv
<1> QED BY <1>1, <1>2, <1>3, ReadNoteIInv, EndScanIInv, AcquireLockIInv, EndLockIInv,
           OpenNoteIInv, CommitNoteIInv, LookTrashIInv, LookTargetIInv, RenameIInv,
           ReleaseIInv DEF Progress

(* No step. *)
LEMMA StutterIInv ==
    ASSUME IInv, UNCHANGED vars
    PROVE  IInv'
<1>1. TypeOK'
  BY DEF IInv, TypeOK, vars
<1>2. \A c \in Call : CallInv(c)'
  BY DEF IInv, CallInv, vars
<1>3. LocksMatch'
  BY DEF IInv, LocksMatch, vars
<1> QED BY <1>1, <1>2, <1>3 DEF IInv, vars

-----------------------------------------------------------------------------
(* Theorems *)

(* The inductive invariant: what each call has locked, planned and done,    *)
(* step by step.                                                            *)
THEOREM TreeInvariance == Spec => []IInv
<1>1. ASSUME IInv, [Next]_vars PROVE IInv'
  <2>1. ASSUME NEW c \in Call, Begins(c) PROVE IInv'
    BY <1>1, <2>1, BeginsIInv
  <2>2. ASSUME NEW c \in Call, Progress(c) PROVE IInv'
    BY <1>1, <2>2, ProgressIInv
  <2>3. CASE EditNote \/ CreateNote \/ CreateFolder
    BY <1>1, <2>3, OthersIInv
  <2>4. CASE UNCHANGED vars
    BY <1>1, <2>4, StutterIInv
  <2> QED BY <1>1, <2>1, <2>2, <2>3, <2>4 DEF Next, Begins
<1> QED BY <1>1, InitIInv, PTL DEF Spec

(* Variables only take values of their types: in particular a rewritten     *)
(* link is a link, and directories hold notes and directories.              *)
THEOREM TreeTypeCorrect == Spec => []TypeOK
<1>1. IInv => TypeOK
  BY DEF IInv
<1> QED BY <1>1, TreeInvariance, PTL

(* Locks are taken before they are counted on, belong to one call, and are  *)
(* given back, for any number of calls and notes.                           *)
THEOREM TreeLocksSafe == Spec => []LockDiscipline
<1>1. IInv => LockDiscipline
  <2> SUFFICES ASSUME IInv, NEW c \in Call
               PROVE  /\ \A l \in LockName : lock[l] = c <=> l \in held[c]
                      /\ pc[c] \in {"idle", "scan", "done"} => held[c] = {}
                      /\ \A p \in NotePath : Believes(c, p) => p \in held[c]
                      /\ pc[c] = "rename" /\ op[c].kind = "move" => op[c].from \in held[c]
    BY DEF LockDiscipline
  <2>1. \A l \in LockName : lock[l] = c <=> l \in held[c]
    BY DEF IInv, LocksMatch
  <2>2. \A p \in NotePath : Believes(c, p) => p \in held[c]
    BY BelievedIsLocked
  <2> QED BY <2>1, <2>2 DEF IInv, CallInv, Sound
<1> QED BY <1>1, TreeInvariance, PTL

(* A success means that every planned rewrite and the rename took place, a  *)
(* lock timeout that nothing did.                                           *)
THEOREM TreeAnswersSafe == Spec => []AnswerTellsEffect
<1>1. IInv => AnswerTellsEffect
  BY PlannedIsPlannedIn DEF IInv, CallInv, Sound, AnswerTellsEffect
<1> QED BY <1>1, TreeInvariance, PTL

(* Rewriting several notes discards no edit that another tool made under a  *)
(* path whose lock the call had by then: there are none.  Edits under       *)
(* another path of the note, which it has from a rename in between, are     *)
(* outside the theorem, as they are outside the lock.                       *)
THEOREM NothingLateIsLost == Spec => LossOnlyBeforeLock
<1>1. IInv => [\A c \in Call : Discards(c) \cap late[c] = {}]_dir
  BY DEF IInv
<1>2. Spec => [][\A c \in Call : Discards(c) \cap late[c] = {}]_dir
  BY <1>1, TreeInvariance, PTL
<1> QED BY <1>2 DEF LossOnlyBeforeLock

-----------------------------------------------------------------------------
(* Losses: a call that is about to rename has its destination free of notes *)
(* unless somebody else has been there, and one that empties a folder has   *)
(* opened a folder.                                                         *)

Free(c) == pc[c] = "rename" /\ ~raced[c] => dir[dst[c][1]][dst[c][2]] \notin Text

Aimed(c) == pc[c] = "remove" /\ op[c].from \in FolderPath => dst[c][1] \in Folders

LossInv == \A c \in Call : Free(c) /\ Aimed(c)

NoNewText(d, e) == \A s \in Slot : e[s[1]][s[2]] \in Text => d[s[1]][s[2]] \in Text

(* What disturbs a call is recorded. *)
LEMMA DisturbedOrSame ==
    ASSUME NEW c, NEW d, NEW e, Disturb(c, d, e), NEW x \in Call, x # c, pc[x] = "rename",
           ~raced'[x]
    PROVE  ~raced[x] /\ d[dst[x][1]][dst[x][2]] = e[dst[x][1]][dst[x][2]]
<1>1. raced'[x] = (\/ raced[x]
                   \/ /\ x # c
                      /\ pc[x] = "rename"
                      /\ d[dst[x][1]][dst[x][2]] # e[dst[x][1]][dst[x][2]])
  BY Zenon DEF Disturb
<1> QED BY <1>1

(* Who writes under a name records it with those who looked at it. *)
LEMMA LossKept ==
    ASSUME IInv, LossInv, NEW c, Others(c),
           c \in Call => Free(c)' /\ Aimed(c)',
           \/ Disturb(c, dir, dir')
           \/ NoNewText(dir, dir') /\ \A x \in Call \ {c} : raced'[x] = raced[x]
    PROVE  LossInv'
<1>1. ASSUME NEW x \in Call, x # c PROVE Free(x)' /\ Aimed(x)'
  <2>1. pc'[x] = pc[x] /\ op'[x] = op[x] /\ dst'[x] = dst[x]
    BY <1>1 DEF Others
  <2>2. Free(x) /\ Aimed(x)
    BY DEF LossInv
  <2>3. Aimed(x)'
    BY <2>1, <2>2 DEF Aimed
  <2>4. ASSUME pc[x] = "rename", ~raced'[x]
        PROVE  dir'[dst[x][1]][dst[x][2]] \notin Text
    <3>1. CASE Disturb(c, dir, dir')
      BY <1>1, <2>2, <2>4, <3>1, DisturbedOrSame DEF Free
    <3>2. CASE NoNewText(dir, dir') /\ raced'[x] = raced[x]
      <4>1. dst[x] \in Slot
        BY <2>4 DEF IInv, CallInv, Opened
      <4> QED BY <2>2, <2>4, <3>2, <4>1 DEF Free, NoNewText
    <3> QED BY <1>1, <3>1, <3>2
  <2> QED BY <2>1, <2>3, <2>4 DEF Free
<1>2. ASSUME NEW x \in Call PROVE Free(x)' /\ Aimed(x)'
  BY <1>1
<1> QED BY <1>2 DEF LossInv

(* No new notes where the tree does not change. *)
LEMMA SameTreeSameText ==
    ASSUME dir' = dir
    PROVE  NoNewText(dir, dir')
  BY DEF NoNewText

(* A path whose directory is there names an entry of it. *)
LEMMA PathSlot ==
    ASSUME NEW d, NEW p \in LockName, ParentIn(d, p) # Nothing
    PROVE  /\ <<ParentIn(d, p), Leaf(p)>> \in Slot
           /\ AtIn(d, p) = d[ParentIn(d, p)][Leaf(p)]
  BY ParentType, LeafIsName DEF Slot, AtIn

(* Making the directory of a path changes no entry that was taken. *)
LEMMA WithParentAdds ==
    ASSUME TypeOK, NEW p \in Path, NEW d \in WithParent(p)
    PROVE  /\ \A s \in Slot : \/ d[s[1]][s[2]] = dir[s[1]][s[2]]
                              \/ dir[s[1]][s[2]] = Nothing /\ d[s[1]][s[2]] \in Folders
           /\ AtIn(d, p) \in Text => AtIn(dir, p) = AtIn(d, p)
<1>1. CASE d = dir
  BY <1>1
<1>2. CASE d # dir
  <2>1. ParentIn(dir, p) = Nothing
    BY <1>2 DEF WithParent
  <2>2. p[1] \in FolderName /\ Len(p) = 2
    BY <2>1, PathForm, NodeAssumption DEF ParentIn
  <2>3. PICK f \in Folders \ LinkedIn(dir) :
          Empty(f) /\ dir[Top][p[1]] = Nothing /\ d = [dir EXCEPT ![Top][p[1]] = f]
    BY <2>1 DEF WithParent, Unused
  <2>4. Top \in Dir /\ p[1] \in Name
    BY <2>2 DEF Dir, Name
  <2>5. ASSUME NEW s \in Slot
        PROVE  \/ d[s[1]][s[2]] = dir[s[1]][s[2]]
               \/ dir[s[1]][s[2]] = Nothing /\ d[s[1]][s[2]] \in Folders
    <3>1. s[1] \in Dir /\ s[2] \in Name
      BY DEF Slot
    <3> QED BY <2>3, <2>4, <3>1 DEF TypeOK
  <2>6. AtIn(d, p) = Nothing
    <3>1. d[Top][p[1]] = f /\ d[f] = dir[f]
      BY <2>3, <2>4, NodeAssumption DEF TypeOK, Dir
    <3>2. ParentIn(d, p) = f
      BY <2>2, <2>3, <3>1, NameAssumption DEF ParentIn
    <3>3. Leaf(p) \in Name
      BY PathForm
    <3> QED BY <2>3, <3>1, <3>2, <3>3 DEF AtIn, Empty
  <2> QED BY <2>5, <2>6, NodeAssumption
<1> QED BY <1>1, <1>2

(* A step of a call changes nothing that another call has. *)
LEMMA OthersKept ==
    ASSUME TypeOK, NEW c \in Call, Begins(c) \/ Progress(c)
    PROVE  Others(c)
<1> USE DEF TypeOK, Others, Goto, lockVars, callVars, slotVars
<1>1. CASE Begins(c)
  BY <1>1 DEF Begins, BeginDelete, BeginRestore, BeginMove, BeginRenameFolder, BeginReplace,
              Begin
<1>2. CASE ReadNote(c) BY <1>2 DEF ReadNote
<1>3. CASE EndScan(c) BY <1>3 DEF EndScan, Answer
<1>4. CASE AcquireLock(c) BY <1>4 DEF AcquireLock
<1>5. CASE LockTimeout(c) BY <1>5 DEF LockTimeout, Raise, Answer
<1>6. CASE EndLock(c) BY <1>6 DEF EndLock
<1>7. CASE OpenNote(c) \/ CommitNote(c) BY <1>7 DEF OpenNote, CommitNote, Answer
<1>8. CASE LookTrash(c) BY <1>8 DEF LookTrash, Look
<1>9. CASE LookTarget(c) BY <1>9 DEF LookTarget, Look
<1>10. CASE Rename(c) BY <1>10 DEF Rename, Answer
<1>11. CASE UnlinkNote(c) BY <1>11 DEF UnlinkNote, Erase, Answer
<1>12. CASE UnlinkEntry(c) BY <1>12 DEF UnlinkEntry, Erase
<1>13. CASE RemoveDir(c) BY <1>13 DEF RemoveDir, Erase, Answer
<1>14. CASE StorageError(c) BY <1>14 DEF StorageError, Raise, Answer
<1>15. CASE Release(c) BY <1>15 DEF Release, Ends
<1> QED BY <1>1, <1>2, <1>3, <1>4, <1>5, <1>6, <1>7, <1>8, <1>9, <1>10, <1>11, <1>12,
           <1>13, <1>14, <1>15 DEF Progress

(* Steps that leave the tree alone. *)
LEMMA QuietLoss ==
    ASSUME IInv, LossInv, NEW c \in Call,
           \/ Begins(c) \/ ReadNote(c) \/ EndScan(c) \/ AcquireLock(c) \/ LockTimeout(c)
           \/ EndLock(c) \/ StorageError(c) \/ Release(c)
    PROVE  LossInv'
<1>1. Others(c)
  BY OthersKept DEF IInv, Progress
<1> USE DEF Goto, treeVars
<1>2. dir' = dir /\ \A x \in Call \ {c} : raced'[x] = raced[x]
  <2>1. CASE Begins(c)
    BY <2>1 DEF Begins, BeginDelete, BeginRestore, BeginMove, BeginRenameFolder,
                BeginReplace, Begin
  <2>2. CASE \/ ReadNote(c) \/ EndScan(c) \/ AcquireLock(c) \/ LockTimeout(c)
             \/ EndLock(c) \/ StorageError(c) \/ Release(c)
    BY <2>2 DEF ReadNote, EndScan, AcquireLock, LockTimeout, EndLock, StorageError, Raise,
                Release, Ends, IInv, TypeOK
  <2> QED BY <2>1, <2>2
<1>3. pc'[c] \notin {"rename", "remove"}
  <2> USE DEF IInv, TypeOK
  <2>1. CASE Begins(c)
    BY <2>1 DEF Begins, BeginDelete, BeginRestore, BeginMove, BeginRenameFolder,
                BeginReplace, Begin
  <2>2. CASE ReadNote(c) BY <2>2 DEF ReadNote
  <2>3. CASE EndScan(c) BY <2>3 DEF EndScan, Answer
  <2>4. CASE AcquireLock(c) BY <2>4 DEF AcquireLock
  <2>5. CASE LockTimeout(c) BY <2>5 DEF LockTimeout, Raise, Answer
  <2>6. CASE EndLock(c) BY <2>6 DEF EndLock
  <2>7. CASE StorageError(c) BY <2>7 DEF StorageError, Raise, Answer
  <2>8. CASE Release(c) BY <2>8 DEF Release, Ends
  <2> QED BY <2>1, <2>2, <2>3, <2>4, <2>5, <2>6, <2>7, <2>8
<1>4. Free(c)' /\ Aimed(c)'
  BY <1>3 DEF Free, Aimed
<1> QED BY <1>1, <1>2, <1>4, SameTreeSameText, LossKept

(* Steps that change the tree and record whom they disturb. *)
LEMMA ChangeLoss ==
    ASSUME IInv, LossInv, NEW c \in Call,
           \/ OpenNote(c) \/ CommitNote(c) \/ Rename(c) \/ UnlinkNote(c)
           \/ UnlinkEntry(c) \/ RemoveDir(c)
    PROVE  LossInv'
<1>1. Others(c)
  BY OthersKept DEF IInv, Progress
<1>2. Disturb(c, dir, dir')
  <2>1. CASE OpenNote(c) \/ CommitNote(c) BY <2>1 DEF OpenNote, CommitNote
  <2>2. CASE Rename(c) BY <2>2, Zenon DEF Rename
  <2>3. CASE UnlinkNote(c) BY <2>3 DEF UnlinkNote, Erase
  <2>4. CASE UnlinkEntry(c) BY <2>4 DEF UnlinkEntry, Erase
  <2>5. CASE RemoveDir(c) BY <2>5 DEF RemoveDir, Erase
  <2> QED BY <2>1, <2>2, <2>3, <2>4, <2>5
<1>3. CASE UnlinkEntry(c)
  <2>1. UNCHANGED <<pc, op, dst>> /\ pc[c] = "remove" /\ Aimed(c)
    BY <1>3 DEF UnlinkEntry, Erase, callVars, slotVars, LossInv
  <2>2. Free(c)' /\ Aimed(c)'
    BY <2>1 DEF Free, Aimed
  <2> QED BY <1>1, <1>2, <2>2, LossKept
<1>4. CASE OpenNote(c) \/ CommitNote(c) \/ Rename(c) \/ UnlinkNote(c) \/ RemoveDir(c)
  <2>1. pc'[c] \notin {"rename", "remove"}
    BY <1>4 DEF OpenNote, CommitNote, Rename, UnlinkNote, RemoveDir, Answer, Goto, IInv,
                TypeOK
  <2>2. Free(c)' /\ Aimed(c)'
    BY <2>1 DEF Free, Aimed
  <2> QED BY <1>1, <1>2, <2>2, LossKept
<1> QED BY <1>3, <1>4

(* A deletion finds a name in the trash that is free. *)
LEMMA LookTrashLoss ==
    ASSUME IInv, LossInv, NEW c \in Call, LookTrash(c)
    PROVE  LossInv'
<1>1. Others(c)
  BY OthersKept DEF IInv, Progress
<1>2. dir' = dir /\ op' = op /\ \A x \in Call \ {c} : raced'[x] = raced[x]
  BY DEF LookTrash, Look, callVars, IInv, TypeOK
<1> DEFINE node == At(op[c].from)
<1>3. Free(c)' /\ Aimed(c)'
  <2>1. CASE op[c].trash
    <3>1. PICK n \in TrashName(Leaf(op[c].from)) :
            Look(c, <<ParentIn(dir, op[c].from), Leaf(op[c].from)>>, <<Trash, n>>, dir)
      BY <2>1 DEF LookTrash
    <3>2. pc'[c] = "rename" /\ dst'[c] = <<Trash, n>>
      BY <2>1, <3>1 DEF LookTrash, Look, Goto, IInv, TypeOK
    <3>3. dir[Trash][n] = Nothing
      BY DEF TrashName
    <3> QED BY <1>2, <3>2, <3>3, NodeAssumption DEF Free, Aimed
  <2>2. CASE ~op[c].trash
    <3>1. pc'[c] = "remove"
      BY <2>2 DEF LookTrash, Goto, IInv, TypeOK
    <3>2. ASSUME op[c].from \in FolderPath PROVE dst'[c][1] \in Folders
      <4>1. node \in Folders
        BY <3>2 DEF LookTrash
      <4>2. dst' = [dst EXCEPT ![c] = <<node, Nothing>>]
        BY <2>2, <4>1 DEF LookTrash, Look
      <4> HIDE DEF node
      <4>3. dst'[c] = <<node, Nothing>>
        BY <4>2 DEF IInv, TypeOK
      <4> QED BY <4>1, <4>3
    <3> QED BY <1>2, <3>1, <3>2 DEF Free, Aimed
  <2> QED BY <2>1, <2>2
<1> QED BY <1>1, <1>2, <1>3, SameTreeSameText, LossKept

(* A move finds its target free. *)
LEMMA LookTargetLoss ==
    ASSUME IInv, LossInv, NEW c \in Call, LookTarget(c)
    PROVE  LossInv'
<1>1. Others(c)
  BY OthersKept DEF IInv, Progress
<1>2. op[c].to \in Path /\ op[c].to \in LockName
  BY OperationFields DEF IInv, TypeOK, LookTarget, Path, LockName
<1>3. PICK d \in WithParent(op[c].to) :
        /\ AtIn(d, op[c].to) = Nothing
        /\ Look(c, <<ParentIn(dir, op[c].from), Leaf(op[c].from)>>,
                <<ParentIn(d, op[c].to), Leaf(op[c].to)>>, d)
  BY DEF LookTarget
<1>4. dir' = d /\ \A x \in Call \ {c} : raced'[x] = raced[x]
  BY <1>3 DEF Look, IInv, TypeOK
<1>5. NoNewText(dir, dir')
  BY <1>2, <1>4, WithParentAdds, NodeAssumption DEF NoNewText, IInv
<1>6. pc'[c] = "rename" /\ dst'[c] = <<ParentIn(d, op[c].to), Leaf(op[c].to)>>
  BY <1>3 DEF LookTarget, Look, Goto, IInv, TypeOK
<1>7. d[ParentIn(d, op[c].to)][Leaf(op[c].to)] = Nothing
  <2>1. ParentIn(d, op[c].to) # Nothing
    <3>1. ParentIn(d, op[c].to) \in Dir
      BY <1>2, WithParentType DEF IInv
    <3> QED BY <3>1, NodeAssumption DEF Dir
  <2> QED BY <1>2, <1>3, <2>1, PathSlot
<1>8. Free(c)' /\ Aimed(c)'
  BY <1>4, <1>6, <1>7, NodeAssumption DEF Free, Aimed
<1> QED BY <1>1, <1>4, <1>5, <1>8, LossKept

(* Files and folders that other tools make or change. *)
LEMMA OtherToolsLoss ==
    ASSUME IInv, LossInv, EditNote \/ CreateNote \/ CreateFolder \/ UNCHANGED vars
    PROVE  LossInv'
<1>1. Others(NoCall)
  BY DEF Others, EditNote, CreateNote, CreateFolder, WriteOther, vars, lockVars, callVars,
         slotVars
<1>2. CASE EditNote \/ CreateNote \/ CreateFolder
  <2>1. Disturb(NoCall, dir, dir')
    BY <1>2 DEF EditNote, CreateNote, CreateFolder, WriteOther
  <2> QED BY <1>1, <2>1, NameAssumption, LossKept
<1>3. CASE UNCHANGED vars
  BY <1>1, <1>3, NameAssumption, SameTreeSameText, LossKept DEF vars
<1> QED BY <1>2, <1>3

(* The invariant of the losses holds in every reachable state. *)
LEMMA LossInvariance == Spec => []LossInv
<1>1. Init => LossInv
  BY DEF Init, LossInv, Free, Aimed
<1>2. ASSUME IInv, LossInv, [Next]_vars PROVE LossInv'
  <2>1. ASSUME NEW c \in Call, Begins(c) PROVE LossInv'
    BY <1>2, <2>1, QuietLoss
  <2>2. ASSUME NEW c \in Call, Progress(c) PROVE LossInv'
    BY <1>2, <2>2, QuietLoss, ChangeLoss, LookTrashLoss, LookTargetLoss DEF Progress
  <2>3. CASE EditNote \/ CreateNote \/ CreateFolder \/ UNCHANGED vars
    BY <1>2, <2>3, OtherToolsLoss
  <2> QED BY <1>2, <2>1, <2>2, <2>3 DEF Next, Begins
<1> QED BY <1>1, <1>2, TreeInvariance, PTL DEF Spec
(* A note is present if a linked directory has an entry with it. *)
LEMMA PresentMeans ==
    ASSUME NEW d, NEW i
    PROVE  i \in PresentIn(d)
             <=> \E s \in Slot : /\ s[1] \in LinkedIn(d) /\ d[s[1]][s[2]] \in Text
                                 /\ d[s[1]][s[2]].id = i
<1>1. \A f \in LinkedIn(d), n \in Name : <<f, n>> \in Slot
  BY DEF LinkedIn, Slot, Dir
<1>2. ASSUME i \in PresentIn(d)
      PROVE  \E s \in Slot : /\ s[1] \in LinkedIn(d) /\ d[s[1]][s[2]] \in Text
                             /\ d[s[1]][s[2]].id = i
  <2>1. PICK f \in LinkedIn(d), n \in Name : i \in IdOf(d[f][n])
    BY <1>2 DEF PresentIn
  <2> DEFINE s == <<f, n>>
  <2>2. s \in Slot /\ s[1] = f /\ s[2] = n
    BY <1>1
  <2> HIDE DEF s
  <2> QED BY <2>1, <2>2 DEF IdOf
<1>3. ASSUME NEW s \in Slot, s[1] \in LinkedIn(d), d[s[1]][s[2]] \in Text,
             d[s[1]][s[2]].id = i
      PROVE  i \in PresentIn(d)
  <2>1. s[2] \in Name /\ i \in IdOf(d[s[1]][s[2]])
    BY <1>3 DEF Slot, IdOf
  <2> QED BY <1>3, <2>1 DEF PresentIn
<1> QED BY <1>2, <1>3

(* What is lost was at an entry that changed, unless a folder lost its name *)
(* with notes in it.                                                        *)
LEMMA LostWhereChanged ==
    ASSUME NEW d, NEW e, NEW i, i \in PresentIn(d), i \notin PresentIn(e),
           \A f \in LinkedIn(d) \ LinkedIn(e) : \A n \in Name : d[f][n] = Nothing
    PROVE  \E s \in Slot : /\ s[1] \in LinkedIn(d) /\ s[1] \in LinkedIn(e)
                           /\ d[s[1]][s[2]] \in Text /\ d[s[1]][s[2]].id = i
                           /\ e[s[1]][s[2]] # d[s[1]][s[2]]
<1>1. PICK s \in Slot : /\ s[1] \in LinkedIn(d) /\ d[s[1]][s[2]] \in Text
                        /\ d[s[1]][s[2]].id = i
  BY PresentMeans
<1>2. s[2] \in Name
  BY DEF Slot
<1>3. s[1] \in LinkedIn(e)
  BY <1>1, <1>2, NodeAssumption
<1>4. e[s[1]][s[2]] # d[s[1]][s[2]]
  BY <1>1, <1>3, PresentMeans
<1> QED BY <1>1, <1>3, <1>4

(* Where no folder is moved, folders keep their names. *)
LEMMA SameLinked ==
    ASSUME NEW d, NEW e,
           \A s \in Slot : d[s[1]][s[2]] \in Folders => e[s[1]][s[2]] = d[s[1]][s[2]]
    PROVE  LinkedIn(d) \subseteq LinkedIn(e)
  BY DEF LinkedIn

(* The kinds of nodes are disjoint. *)
LEMMA NothingIsNoFolder == Nothing \notin Folders /\ Nothing \notin Text /\ Folders \cap Text = {}
  BY NodeAssumption

(* Making the folder of a path loses nothing. *)
LEMMA ParentsLoseNothing ==
    ASSUME TypeOK, NEW p \in Path, NEW d \in WithParent(p)
    PROVE  LinkedIn(dir) \subseteq LinkedIn(d) /\ PresentIn(dir) \subseteq PresentIn(d)
<1>1. \A s \in Slot : d[s[1]][s[2]] = dir[s[1]][s[2]] \/ dir[s[1]][s[2]] = Nothing
  BY WithParentAdds
<1>2. LinkedIn(dir) \subseteq LinkedIn(d)
  BY <1>1, SameLinked, NothingIsNoFolder
<1>3. ASSUME NEW i \in PresentIn(dir) PROVE i \in PresentIn(d)
  BY <1>1, <1>2, LostWhereChanged, NothingIsNoFolder
<1> QED BY <1>2, <1>3

(* What a commit loses was not what the call had read. *)
LEMMA CommitLoses ==
    ASSUME IInv, NEW c \in Call, CommitNote(c),
           NEW i \in PresentIn(dir), i \notin PresentIn(dir')
    PROVE  Loses(c, i)
<1> DEFINE p == writing[c].path
           new == Rewritten(op[c], plan[c][p])
           s == dst[c]
<1>1. /\ new \in Text /\ new.id = plan[c][p].id /\ plan[c][p] \in Text /\ p \in todo[c]
      /\ s \in Slot /\ dir \in Tree /\ dir' = With(dir, s, new)
  BY CommitFacts
<1>2. /\ pc[c] = "commit" /\ dir[s[1]][s[2]] \notin Folders
  BY DEF CommitNote
<1> HIDE DEF new, s, p
<1>3. \A t \in Slot : dir'[t[1]][t[2]] = IF t = s THEN new ELSE dir[t[1]][t[2]]
  BY <1>1, WithEntries
<1>4. LinkedIn(dir) \subseteq LinkedIn(dir')
  BY <1>1, <1>2, <1>3, SameLinked
<1>5. PICK t \in Slot : /\ t[1] \in LinkedIn(dir') /\ dir[t[1]][t[2]] \in Text
                        /\ dir[t[1]][t[2]].id = i /\ dir'[t[1]][t[2]] # dir[t[1]][t[2]]
  BY <1>4, LostWhereChanged
<1>6. t = s /\ dir'[t[1]][t[2]] = new
  BY <1>3, <1>5
<1>7. dir[s[1]][s[2]] # plan[c][p]
  <2> SUFFICES ASSUME dir[s[1]][s[2]] = plan[c][p] PROVE FALSE
    OBVIOUS
  <2>1. new.id = i
    BY <1>1, <1>5, <1>6
  <2> QED BY <1>1, <1>5, <1>6, <2>1, PresentMeans
<1>8. Moves(c)
  <2>1. pc'[c] \in {"write", "look", "release"}
    BY DEF CommitNote, Answer, Goto, IInv, TypeOK
  <2> QED BY <1>2, <2>1 DEF Moves
<1>9. i \in IdOf(dir[s[1]][s[2]])
  BY <1>5, <1>6 DEF IdOf
<1> QED BY <1>2, <1>7, <1>8, <1>9 DEF Loses, s, p

(* What a rename loses has come there since the call looked. *)
LEMMA RenameLoses ==
    ASSUME IInv, LossInv, NEW c \in Call, Rename(c),
           NEW i \in PresentIn(dir), i \notin PresentIn(dir')
    PROVE  Loses(c, i)
<1> DEFINE node == dir[src[c][1]][src[c][2]]
           old == dir[dst[c][1]][dst[c][2]]
<1>1. /\ dir \in Tree /\ src[c] \in Slot /\ dst[c] \in Slot /\ pc[c] = "rename"
  BY DEF IInv, TypeOK, Tree, CallInv, Opened, Rename
<1>2. /\ node # Nothing /\ dst[c][1] \in LinkedIn(dir) /\ Replaceable(node, old)
      /\ dir' = With(With(dir, src[c], Nothing), dst[c], node)
  BY DEF Rename
<1>3. node \in Node
  BY <1>1 DEF Tree, Slot
<1> HIDE DEF node, old
<1>4. \A t \in Slot :
        dir'[t[1]][t[2]] = IF t = dst[c] THEN node
                           ELSE IF t = src[c] THEN Nothing ELSE dir[t[1]][t[2]]
  <2>1. With(dir, src[c], Nothing) \in Tree
    BY <1>1, WithType DEF Node
  <2> QED BY <1>1, <1>2, <2>1, WithEntries
<1>5. ASSUME NEW f \in LinkedIn(dir) \ LinkedIn(dir')
      PROVE  f = old /\ node \in Folders /\ \A n \in Name : dir[f][n] = Nothing
  <2>1. f \in Folders /\ \A t \in Slot : dir'[t[1]][t[2]] # f
    BY <1>5 DEF LinkedIn
  <2>2. PICK t \in Slot : dir[t[1]][t[2]] = f
    BY <1>5, <2>1 DEF LinkedIn
  <2>3. t # src[c]
    BY <1>1, <1>4, <2>1, <2>2 DEF node
  <2>4. t = dst[c]
    BY <1>4, <2>1, <2>2, <2>3
  <2>5. f = old
    BY <2>2, <2>4 DEF old
  <2> QED BY <1>2, <2>1, <2>5, NothingIsNoFolder DEF Replaceable, Empty
<1>6. PICK t \in Slot : /\ t[1] \in LinkedIn(dir) /\ dir[t[1]][t[2]] \in Text
                        /\ dir[t[1]][t[2]].id = i /\ dir'[t[1]][t[2]] # dir[t[1]][t[2]]
  BY <1>5, LostWhereChanged
<1>7. t = src[c] \/ t = dst[c]
  BY <1>4, <1>6
<1>8. CASE t = dst[c]
  <2>1. old \in Text /\ i \in IdOf(old)
    BY <1>6, <1>8 DEF old, IdOf
  <2>2. raced[c]
    BY <1>1, <2>1 DEF old, LossInv, Free
  <2>3. Moves(c)
    BY <1>1 DEF Moves, Rename, Answer, Goto, IInv, TypeOK
  <2> QED BY <1>1, <2>1, <2>2, <2>3 DEF Loses, old
<1>9. CASE t = src[c] /\ t # dst[c]
  <2>1. node \in Text /\ node.id = i
    BY <1>6, <1>9 DEF node
  <2>2. dst[c][1] \in LinkedIn(dir')
    BY <1>2, <1>5, <2>1, NothingIsNoFolder
  <2>3. dir'[dst[c][1]][dst[c][2]] = node
    BY <1>1, <1>4
  <2> QED BY <1>1, <2>1, <2>2, <2>3, PresentMeans
<1> QED BY <1>7, <1>8, <1>9

(* What a permanent deletion loses is what it was asked for. *)
LEMMA RemoveLoses ==
    ASSUME IInv, LossInv, NEW c \in Call, UnlinkNote(c) \/ UnlinkEntry(c) \/ RemoveDir(c),
           NEW i \in PresentIn(dir), i \notin PresentIn(dir')
    PROVE  Loses(c, i)
<1>1. pc[c] = "remove" /\ dir \in Tree /\ src[c] \in Slot
  BY DEF UnlinkNote, UnlinkEntry, RemoveDir, IInv, TypeOK, Tree, CallInv, Opened
<1>2. ASSUME NEW s \in Slot, dir[s[1]][s[2]] \in Text, dir' = With(dir, s, Nothing)
      PROVE  dir[s[1]][s[2]].id = i
  <2>1. \A t \in Slot : dir'[t[1]][t[2]] = IF t = s THEN Nothing ELSE dir[t[1]][t[2]]
    BY <1>1, <1>2, WithEntries
  <2>2. LinkedIn(dir) \subseteq LinkedIn(dir')
    BY <1>2, <2>1, SameLinked, NothingIsNoFolder
  <2> QED BY <2>1, <2>2, LostWhereChanged
<1>3. CASE UnlinkNote(c)
  <2>1. dir[src[c][1]][src[c][2]] \in Text /\ dir' = With(dir, src[c], Nothing)
    BY <1>3 DEF UnlinkNote, Erase
  <2>2. i \in IdsBelow(dir, dir[src[c][1]][src[c][2]])
    BY <1>1, <1>2, <2>1, NothingIsNoFolder DEF IdsBelow, IdOf
  <2> QED BY <1>1, <2>2 DEF Loses
<1>4. CASE UnlinkEntry(c)
  <2>1. PICK n \in Name : /\ dir[dst[c][1]][n] \in Text
                          /\ dir' = With(dir, <<dst[c][1], n>>, Nothing)
    BY <1>4 DEF UnlinkEntry, Erase
  <2>2. dst[c][1] \in Folders
    BY <1>1, <1>4 DEF LossInv, Aimed, UnlinkEntry
  <2> DEFINE s == <<dst[c][1], n>>
  <2>3. s \in Slot /\ s[1] = dst[c][1] /\ s[2] = n
    BY <2>2 DEF Slot, Dir
  <2> HIDE DEF s
  <2>4. dir' = With(dir, s, Nothing)
    BY <2>1 DEF s
  <2>5. i \in IdOf(dir[dst[c][1]][n])
    BY <1>2, <2>1, <2>3, <2>4 DEF IdOf
  <2>6. i \in IdsBelow(dir, dst[c][1])
    BY <2>2, <2>5 DEF IdsBelow
  <2> QED BY <1>1, <2>6 DEF Loses
<1>5. CASE RemoveDir(c)
  <2> DEFINE gone == dir[src[c][1]][src[c][2]]
  <2>1. /\ gone \in Folders /\ Empty(gone) /\ dir' = With(dir, src[c], Nothing)
    BY <1>5, Zenon DEF RemoveDir, Erase
  <2> HIDE DEF gone
  <2>2. \A t \in Slot : dir'[t[1]][t[2]] = IF t = src[c] THEN Nothing ELSE dir[t[1]][t[2]]
    BY <1>1, <2>1, WithEntries
  <2>3. \A f \in LinkedIn(dir) \ LinkedIn(dir') : f = gone
    BY <2>2 DEF LinkedIn, gone
  <2>4. PICK t \in Slot : dir[t[1]][t[2]] \in Text /\ dir'[t[1]][t[2]] # dir[t[1]][t[2]]
    BY <2>1, <2>3, LostWhereChanged DEF Empty
  <2>5. dir[t[1]][t[2]] = gone
    BY <2>2, <2>4 DEF gone
  <2> QED BY <2>1, <2>4, <2>5, NothingIsNoFolder
<1> QED BY <1>3, <1>4, <1>5

(* Tools that make or change a note or a folder lose none. *)
LEMMA OtherToolsLoseNothing ==
    ASSUME IInv, EditNote \/ CreateNote \/ CreateFolder
    PROVE  PresentIn(dir) \subseteq PresentIn(dir')
<1>1. CASE EditNote
  <2>1. PICK p \in NotesIn(dir) :
          WriteOther(p, dir, [At(p) EXCEPT !.edits = @ \cup {edits + 1}])
    BY <1>1 DEF EditNote
  <2> DEFINE s == <<ParentIn(dir, p), Leaf(p)>>
             new == [At(p) EXCEPT !.edits = @ \cup {edits + 1}]
  <2>2. /\ s \in Slot /\ dir[s[1]][s[2]] \in Text /\ At(p) = dir[s[1]][s[2]]
        /\ dir' = With(dir, s, new)
    BY <2>1, NoteHasParent, PathSlot DEF WriteOther, At
  <2>3. edits + 1 \in Edit
    BY <2>1, BoundAssumption DEF WriteOther, IInv, TypeOK, Edit
  <2>4. new \in Text /\ new.id = At(p).id
    BY <2>2, <2>3 DEF Text
  <2> HIDE DEF s, new
  <2>5. dir \in Tree
    BY DEF IInv, TypeOK, Tree
  <2>6. \A t \in Slot : dir'[t[1]][t[2]] = IF t = s THEN new ELSE dir[t[1]][t[2]]
    BY <2>2, <2>5, WithEntries
  <2>7. LinkedIn(dir) \subseteq LinkedIn(dir')
    BY <2>2, <2>6, SameLinked, NothingIsNoFolder
  <2>8. ASSUME NEW i \in PresentIn(dir), i \notin PresentIn(dir') PROVE FALSE
    <3>1. PICK t \in Slot : /\ t[1] \in LinkedIn(dir') /\ dir[t[1]][t[2]].id = i
                            /\ dir'[t[1]][t[2]] # dir[t[1]][t[2]]
      BY <2>7, <2>8, LostWhereChanged
    <3>2. t = s /\ dir'[t[1]][t[2]] = new
      BY <2>6, <3>1
    <3> QED BY <2>2, <2>4, <2>8, <3>1, <3>2, PresentMeans
  <2> QED BY <2>8
<1>2. CASE CreateNote
  <2>1. PICK p \in NotePath, i \in Note : \E d \in WithParent(p) :
          /\ AtIn(d, p) = Nothing
          /\ WriteOther(p, d, [id |-> i, edits |-> {edits + 1}, link |-> Nothing])
    BY <1>2 DEF CreateNote
  <2>2. PICK d \in WithParent(p) :
          /\ AtIn(d, p) = Nothing
          /\ WriteOther(p, d, [id |-> i, edits |-> {edits + 1}, link |-> Nothing])
    BY <2>1
  <2> DEFINE s == <<ParentIn(d, p), Leaf(p)>>
             new == [id |-> i, edits |-> {edits + 1}, link |-> Nothing]
  <2>3. p \in LockName /\ p \in Path
    BY DEF LockName, Path
  <2>4. d \in Tree /\ ParentIn(d, p) # Nothing
    <3>1. d \in Tree /\ ParentIn(d, p) \in Dir
      BY <2>3, WithParentType DEF IInv
    <3> QED BY <3>1, NodeAssumption DEF Dir
  <2>5. s \in Slot /\ d[s[1]][s[2]] = Nothing /\ dir' = With(d, s, new)
    BY <2>2, <2>3, <2>4, PathSlot DEF WriteOther
  <2> HIDE DEF s, new
  <2>6. \A t \in Slot : dir'[t[1]][t[2]] = IF t = s THEN new ELSE d[t[1]][t[2]]
    BY <2>4, <2>5, WithEntries
  <2>7. LinkedIn(d) \subseteq LinkedIn(dir')
    BY <2>5, <2>6, SameLinked, NothingIsNoFolder
  <2>8. PresentIn(d) \subseteq PresentIn(dir')
    BY <2>5, <2>6, <2>7, LostWhereChanged, NothingIsNoFolder
  <2> QED BY <2>3, <2>8, ParentsLoseNothing DEF IInv
<1>3. CASE CreateFolder
  <2>1. PICK f \in FolderName, n \in NoteName : dir' \in WithParent(<<f, n>>)
    BY <1>3 DEF CreateFolder
  <2>2. <<f, n>> \in Path
    BY DEF Path, NotePath
  <2> QED BY <2>1, <2>2, ParentsLoseNothing DEF IInv
<1> QED BY <1>1, <1>2, <1>3

(* Steps that leave the tree alone. *)
LEMMA SameTree ==
    ASSUME NEW c \in Call,
           \/ Begins(c) \/ ReadNote(c) \/ EndScan(c) \/ AcquireLock(c) \/ LockTimeout(c)
           \/ EndLock(c) \/ StorageError(c) \/ Release(c) \/ LookTrash(c)
    PROVE  dir' = dir
<1> USE DEF treeVars
<1>1. CASE Begins(c)
  BY <1>1 DEF Begins, BeginDelete, BeginRestore, BeginMove, BeginRenameFolder,
              BeginReplace, Begin
<1>2. CASE LookTrash(c)
  BY <1>2 DEF LookTrash, Look
<1>3. CASE \/ ReadNote(c) \/ EndScan(c) \/ AcquireLock(c) \/ LockTimeout(c)
           \/ EndLock(c) \/ StorageError(c) \/ Release(c)
  BY <1>3 DEF ReadNote, EndScan, AcquireLock, LockTimeout, EndLock, StorageError, Raise,
              Release, Ends
<1> QED BY <1>1, <1>2, <1>3

(* A note disappears only where it is deleted for good, or where another    *)
(* call took the name of a rename or a rewrite in between, for any calls.   *)
THEOREM NothingIsLostOtherwise == Spec => NothingVanishes
<1>1. ASSUME IInv, LossInv, Next, NEW i \in PresentIn(dir), i \notin PresentIn(dir')
      PROVE  \E c \in Call : Loses(c, i)
  <2>1. dir' # dir
    BY <1>1
  <2>2. ~(EditNote \/ CreateNote \/ CreateFolder)
    BY <1>1, OtherToolsLoseNothing
  <2>3. PICK c \in Call : Begins(c) \/ Progress(c)
    BY <1>1, <2>2 DEF Next, Begins
  <2>4. CASE LookTarget(c)
    <3>1. op[c].to \in Path
      BY <1>1, <2>4, OperationFields DEF IInv, TypeOK, LookTarget, Path
    <3>2. dir' \in WithParent(op[c].to)
      BY <2>4 DEF LookTarget, Look
    <3> QED BY <1>1, <3>1, <3>2, ParentsLoseNothing DEF IInv
  <2>5. CASE OpenNote(c)
    <3>1. PICK p \in todo[c] : dir' \in WithParent(p)
      BY <2>5 DEF OpenNote
    <3>2. Sound("write", op[c], todo[c], plan[c], held[c], ans[c], done[c])
      BY <1>1, <2>5 DEF IInv, CallInv, OpenNote
    <3>3. p \in Path
      BY <3>2 DEF Sound, PlannedIn, Path
    <3> QED BY <1>1, <3>1, <3>3, ParentsLoseNothing DEF IInv
  <2> QED BY <1>1, <2>1, <2>3, <2>4, <2>5, SameTree, CommitLoses, RenameLoses, RemoveLoses
          DEF Progress
<1>2. ASSUME IInv, LossInv, [Next]_vars
      PROVE  [\A i \in PresentIn(dir) \ PresentIn(dir') : \E c \in Call : Loses(c, i)]_dir
  <2>1. CASE Next
    BY <1>1, <1>2, <2>1
  <2>2. CASE UNCHANGED vars
    BY <2>2 DEF vars
  <2> QED BY <1>2, <2>1, <2>2
<1>3. Spec => [][\A i \in PresentIn(dir) \ PresentIn(dir') : \E c \in Call : Loses(c, i)]_dir
  BY <1>2, TreeInvariance, LossInvariance, PTL DEF Spec
<1> QED BY <1>3 DEF NothingVanishes
=============================================================================
