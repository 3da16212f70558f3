------------------------------ MODULE VaultTree ------------------------------
(***************************************************************************)
(* The tree of a vault under the operations that name more than one file:  *)
(* delete and restore (storage/filesystem.py, tools/write.py,              *)
(* tools/folders.py), move_note, rename_folder and find_replace_in_vault.  *)
(* They look at paths, take the locks of some of them and rename over      *)
(* others.                                                                 *)
(*                                                                         *)
(* A directory is its inode: an operation that has opened a parent keeps   *)
(* it when the folder is renamed, as the code's dirfds do.  Folders lie    *)
(* directly in the vault.  A tool that writes one note takes effect in one *)
(* step, which is what AtomicWrite shows of it.  What the calls tell the   *)
(* index when they are done is VaultIndex.                                 *)
(***************************************************************************)
EXTENDS Naturals, Sequences, FiniteSets

CONSTANTS
    Top, Trash,              \* the vault's root and .trash
    Folders,                 \* the other directories
    NoteName, FolderName,    \* names of notes and of folders
    Unique,                  \* names with a random suffix
    Note,                    \* identities of notes, those still to be written included
    Nothing,                 \* no link, and no entry of a directory
    Call, NoCall,            \* calls of the tools
    Workloads,               \* what the calls may be, together
    Trees,                   \* the vaults at the start
    MaxEdits                 \* a bound

Dir == {Top, Trash} \cup Folders
Name == NoteName \cup FolderName \cup Unique
Edit == 1..MaxEdits

(* Paths of the vault, and what acquire_lock is asked for. *)
NotePath == {<<n>> : n \in NoteName} \cup (FolderName \X NoteName)
FolderPath == {<<f>> : f \in FolderName}
Path == NotePath \cup FolderPath
TrashPath == {<<Trash, n>> : n \in Name}
LockName == Path \cup TrashPath

(* A note: which one, the edits it has received, and its wikilink, which is *)
(* a stem or a path without ".md".                                          *)
Link == NotePath
Text == [id : Note, edits : SUBSET Edit, link : Link \cup {Nothing}]
Node == {Nothing} \cup Folders \cup Text
Slot == Dir \X Name

(* The calls of delete_tool, restore_tool, move_note_tool,                  *)
(* rename_folder_tool and find_replace_in_vault_tool.                       *)
Operation ==
    [kind : {"delete"}, from : Path, to : {<<>>}, trash : BOOLEAN] \cup
    [kind : {"restore"}, from : TrashPath, to : Path, trash : {FALSE}] \cup
    [kind : {"move"}, from : NotePath, to : NotePath, trash : {FALSE}] \cup
    [kind : {"rename"}, from : FolderPath, to : FolderPath, trash : {FALSE}] \cup
    [kind : {"replace"}, from : Link, to : Link, trash : {FALSE}]

ASSUME NodeAssumption ==
    /\ Top # Trash /\ Top \notin Folders /\ Trash \notin Folders
    /\ Nothing # Top /\ Nothing # Trash
    /\ Folders \cap Text = {}
    /\ Nothing \notin Folders \cup Text \cup NotePath

ASSUME NameAssumption ==
    /\ NoteName \cap FolderName = {}
    /\ Unique \cap (NoteName \cup FolderName) = {}
    /\ Trash \notin FolderName
    /\ Nothing \notin Name
    /\ NoCall \notin Call

ASSUME WorkloadAssumption == Workloads \subseteq [Call -> Operation]

ASSUME BoundAssumption == MaxEdits \in Nat

VARIABLES
    dir,       \* the directories
    lock,      \* per lock file, who holds it
    pc,        \* per call: its next step
    op,        \* per call: its kind and arguments
    todo,      \* per call: paths still to be read, locked or written, or names
               \* still to be unlinked
    plan,      \* per call: files_to_rewrite or candidates, what was read of each
    src, dst,  \* per call: the entries it has opened the parents of
    writing,   \* per call: the note it is rewriting, and whether it was missing
    held,      \* per call: its locks
    ans,       \* per call: how it ended
    done,      \* history: what it has rewritten, moved or removed
    raced,     \* history: dst is not as it was looked at (but for a new folder)
    late,      \* history: edits at paths whose lock the call had by then
    trashed,   \* history: notes moved to .trash by a call that succeeded
    edits

treeVars == <<dir, trashed>>
callVars == <<op, plan>>
slotVars == <<src, dst, writing>>
lockVars == <<lock, held>>

vars == <<dir, lock, pc, op, todo, plan, src, dst, writing, held, ans, done, raced,
          late, trashed, edits>>

Steps == {"idle", "scan", "lock", "write", "commit", "look", "rename", "remove",
          "release", "done"}

NoSlot == <<Trash, Nothing>>
NoWriting == [path |-> <<>>, missing |-> FALSE]
NoPlan == [p \in NotePath |-> Nothing]

TypeOK ==
    /\ dir \in [Dir -> [Name -> Node]]
    /\ lock \in [LockName -> Call \cup {NoCall}]
    /\ pc \in [Call -> Steps]
    /\ op \in [Call -> Operation]
    /\ todo \in [Call -> SUBSET (NotePath \cup Name)]
    /\ plan \in [Call -> [NotePath -> Text \cup {Nothing}]]
    /\ src \in [Call -> Dir \X (Name \cup {Nothing})]
    /\ dst \in [Call -> Dir \X (Name \cup {Nothing})]
    /\ writing \in [Call -> [path : NotePath \cup {<<>>}, missing : BOOLEAN]]
    /\ held \in [Call -> SUBSET LockName]
    /\ ans \in [Call -> {"none", "ok", "timeout", "failed"}]
    /\ done \in [Call -> SUBSET LockName]
    /\ raced \in [Call -> BOOLEAN]
    /\ late \in [Call -> SUBSET Edit]
    /\ trashed \in SUBSET Note
    /\ edits \in 0..MaxEdits

-----------------------------------------------------------------------------
(* The tree *)

Leaf(p) == p[Len(p)]

(* The directory a path leads to, Nothing if there is none. *)
ParentIn(d, p) ==
    IF Len(p) = 1 THEN Top
    ELSE IF p[1] = Trash THEN Trash
    ELSE IF d[Top][p[1]] \in Folders THEN d[Top][p[1]] ELSE Nothing

AtIn(d, p) == IF ParentIn(d, p) = Nothing THEN Nothing ELSE d[ParentIn(d, p)][Leaf(p)]

At(p) == AtIn(dir, p)

NotesIn(d) == {p \in NotePath : AtIn(d, p) \in Text}

Empty(f) == \A n \in Name : dir[f][n] = Nothing

(* The directories that have a name; mkdir makes one of the others. *)
LinkedIn(d) == {Top, Trash} \cup {f \in Folders : \E s \in Slot : d[s[1]][s[2]] = f}

Unused ==
    {f \in Folders \ LinkedIn(dir) :
        Empty(f) /\ \A c \in Call : f # src[c][1] /\ f # dst[c][1]}

(* A directory is one of these or somewhere below them. *)
Closed(d, S) == \A f \in S, n \in Name : d[f][n] \in Folders => d[f][n] \in S

Within(d, f, roots) == \A S \in SUBSET Dir : roots \subseteq S /\ Closed(d, S) => f \in S

(* The directories with the parents of a path created where missing, as    *)
(* _opened_write_parent leaves them; none if a new one is not to be had.   *)
WithParent(p) ==
    IF ParentIn(dir, p) # Nothing THEN {dir}
    ELSE {[dir EXCEPT ![Top][p[1]] = f] :
             f \in IF dir[Top][p[1]] = Nothing THEN Unused ELSE {}}

ASSUME TreeAssumption == Trees \subseteq [Dir -> [Name -> Node]]

With(d, s, node) == [d EXCEPT ![s[1]][s[2]] = node]

(* Somebody other than c changed a directory from d to e. *)
Disturb(c, d, e) ==
    raced' = [x \in Call |->
                \/ raced[x]
                \/ /\ x # c
                   /\ pc[x] = "rename"
                   /\ LET s == dst[x] IN d[s[1]][s[2]] # e[s[1]][s[2]]]

Init ==
    /\ dir \in Trees
    /\ lock = [l \in LockName |-> NoCall]
    /\ pc = [c \in Call |-> "idle"]
    /\ op \in Workloads
    /\ todo = [c \in Call |-> {}]
    /\ plan = [c \in Call |-> NoPlan]
    /\ src = [c \in Call |-> NoSlot]
    /\ dst = [c \in Call |-> NoSlot]
    /\ writing = [c \in Call |-> NoWriting]
    /\ held = [c \in Call |-> {}]
    /\ ans = [c \in Call |-> "none"]
    /\ done = [c \in Call |-> {}]
    /\ raced = [c \in Call |-> FALSE]
    /\ late = [c \in Call |-> {}]
    /\ trashed = {}
    /\ edits = 0

Goto(c, step) == pc' = [pc EXCEPT ![c] = step]

(* The call has its answer; the finally block has still to release its locks. *)
Answer(c, a) ==
    /\ ans' = [ans EXCEPT ![c] = a]
    /\ todo' = [todo EXCEPT ![c] = {}]
    /\ Goto(c, "release")

(* An exception. *)
Raise(c, a) ==
    /\ Answer(c, a)
    /\ UNCHANGED <<treeVars, lockVars, callVars, slotVars, done, raced,
                   late, edits>>

-----------------------------------------------------------------------------
(* Beginning.  The first looks at the tree are part of the call's first     *)
(* step; a call that they refuse changes nothing and is not a step.         *)

Begin(c, kind, step) ==
    /\ pc[c] = "idle"
    /\ op[c].kind = kind
    /\ Goto(c, step)
    /\ UNCHANGED <<treeVars, lockVars, op, plan, slotVars, ans, done, raced,
                   late, edits>>

(* delete_tool looks whether it is a note or a folder; delete_folder lists  *)
(* and authorizes the tree before it locks it.                              *)
BeginDelete(c) ==
    LET from == op[c].from IN
    /\ Begin(c, "delete", "lock")
    /\ At(from) # Nothing
    /\ At(from) \in Folders <=> from \in FolderPath
    /\ UNCHANGED todo

(* restore_note locks the trash entry; restore_folder locks nothing. *)
BeginRestore(c) ==
    LET node == At(op[c].from) IN
    /\ Begin(c, "restore", IF node \in Folders THEN "look" ELSE "lock")
    /\ node # Nothing
    /\ node \in Folders <=> op[c].to \in FolderPath
    /\ UNCHANGED todo

BeginMove(c) ==
    /\ Begin(c, "move", "scan")
    /\ At(op[c].from) # Nothing /\ At(op[c].to) = Nothing
    /\ todo' = [todo EXCEPT ![c] = NotesIn(dir) \ {op[c].from}]

BeginRenameFolder(c) ==
    /\ Begin(c, "rename", "scan")
    /\ At(op[c].from) \in Folders /\ At(op[c].to) = Nothing
    /\ todo' = [todo EXCEPT ![c] = NotesIn(dir)]

BeginReplace(c) ==
    /\ Begin(c, "replace", "scan")
    /\ todo' = [todo EXCEPT ![c] = NotesIn(dir)]

-----------------------------------------------------------------------------
(* Reading: without any lock, note by note. *)

(* The link is one that the operation rewrites: for move_note the stem of   *)
(* the note (a path is only matched with its ".md"), for rename_folder a    *)
(* path into the folder, for find_replace_in_vault the text searched for.   *)
Affects(o, link) ==
    /\ link # Nothing
    /\ CASE o.kind = "move" -> link = <<Leaf(o.from)>>
         [] o.kind = "rename" -> Len(link) = 2 /\ link[1] = o.from[1]
         [] o.kind = "replace" -> link = o.from

(* A mutant: the name of the note is lost. *)
NewLinkToFolder(o, link) == o.to

NewLink(o, link) ==
    CASE o.kind = "move" -> <<Leaf(o.to)>>
      [] o.kind = "rename" -> <<o.to[1], link[2]>>
      [] o.kind = "replace" -> o.to

Rewritten(o, text) == [text EXCEPT !.link = NewLink(o, text.link)]

Planned(c) == {p \in NotePath : plan[c][p] # Nothing}

(* A note that is gone by then is skipped. *)
ReadNote(c) ==
    /\ pc[c] = "scan"
    /\ \E p \in todo[c] :
          /\ todo' = [todo EXCEPT ![c] = @ \ {p}]
          /\ plan' = IF At(p) \in Text /\ Affects(op[c], At(p).link)
                     THEN [plan EXCEPT ![c][p] = At(p)] ELSE plan
    /\ UNCHANGED <<treeVars, lockVars, pc, op, slotVars, ans, done,
                   raced, late, edits>>

EndScan(c) ==
    /\ pc[c] = "scan"
    /\ todo[c] = {}
    /\ IF op[c].kind = "replace" /\ Planned(c) = {}
       THEN Answer(c, "ok")
       ELSE /\ Goto(c, "lock")
            /\ todo' = [todo EXCEPT ![c] = Planned(c)]
            /\ UNCHANGED ans
    /\ UNCHANGED <<treeVars, lockVars, callVars, slotVars, done, raced, late,
                   edits>>

-----------------------------------------------------------------------------
(* Locks.  The notes to rewrite are locked in the order of the directory    *)
(* listing, which is any, and the path of the call last.                    *)

OwnLock(o) == IF o.kind = "replace" THEN {} ELSE {o.from}

(* The lock it waits for is one of these. *)
Wanted(c) == IF todo[c] # {} THEN todo[c] ELSE OwnLock(op[c]) \ held[c]

(* A mutant: the list is walked and nothing is locked. *)
SkipLock(c) ==
    /\ pc[c] = "lock"
    /\ \E l \in Wanted(c) :
          /\ todo' = [todo EXCEPT ![c] = @ \ {l}]
          /\ held' = [held EXCEPT ![c] = IF l \in OwnLock(op[c]) THEN {l} ELSE {}]
    /\ UNCHANGED <<treeVars, lock, pc, callVars, slotVars, ans, done,
                   raced, late, edits>>

(* A mutant: each note is rewritten as soon as it is locked. *)
LockAndRewrite(c) ==
    /\ pc[c] = "lock"
    /\ \E l \in Wanted(c) :
          /\ lock[l] = NoCall
          /\ lock' = [lock EXCEPT ![l] = c]
          /\ held' = [held EXCEPT ![c] = @ \cup {l}]
          /\ todo' = [todo EXCEPT ![c] = @ \ {l}]
          /\ done' = [done EXCEPT ![c] = @ \cup (todo[c] \cap {l})]
    /\ UNCHANGED <<treeVars, pc, callVars, slotVars, ans, raced, late,
                   edits>>

AcquireLock(c) ==
    /\ pc[c] = "lock"
    /\ \E l \in Wanted(c) :
          /\ lock[l] = NoCall
          /\ lock' = [lock EXCEPT ![l] = c]
          /\ held' = [held EXCEPT ![c] = @ \cup {l}]
          /\ todo' = [todo EXCEPT ![c] = @ \ {l}]
    /\ UNCHANGED <<treeVars, pc, callVars, slotVars, ans, done, raced, late,
                   edits>>

(* A mutant: the lock is waited for without a timeout. *)
WaitForEver(c) == FALSE

LockTimeout(c) ==
    /\ pc[c] = "lock"
    /\ \E l \in Wanted(c) : lock[l] # NoCall
    /\ Raise(c, "timeout")

EndLock(c) ==
    /\ pc[c] = "lock"
    /\ Wanted(c) = {}
    /\ Goto(c, IF Planned(c) # {} THEN "write" ELSE "look")
    /\ todo' = [todo EXCEPT ![c] = Planned(c)]
    /\ UNCHANGED <<treeVars, lockVars, callVars, slotVars, ans, done, raced,
                   late, edits>>

-----------------------------------------------------------------------------
(* Rewriting: write_text_atomic without expected_revision, of what was read *)
(* before the locks were taken.                                             *)

(* The parent is opened, and made again if it is gone. *)
OpenNote(c) ==
    /\ pc[c] = "write"
    /\ \E p \in todo[c] : \E d \in WithParent(p) :
          /\ AtIn(d, p) \notin Folders
          /\ dir' = d
          /\ dst' = [dst EXCEPT ![c] = <<ParentIn(d, p), Leaf(p)>>]
          /\ writing' = [writing EXCEPT ![c] = [path |-> p, missing |-> AtIn(d, p) = Nothing]]
    /\ Disturb(c, dir, dir')
    /\ Goto(c, "commit")
    /\ UNCHANGED <<lockVars, todo, callVars, src, ans, done, late, trashed, edits>>

(* os.link, which replaces nothing, for a note that was missing, os.rename  *)
(* for the others: in the directory that was opened, whatever its path by   *)
(* now.  The last reading of the note can still fail.                       *)
CommitNote(c) ==
    LET p == writing[c].path
        old == dir[dst[c][1]][dst[c][2]]
    IN
    /\ pc[c] = "commit"
    /\ dst[c][1] \in LinkedIn(dir)
    /\ old \notin Folders
    /\ writing[c].missing => old = Nothing
    /\ dir' = With(dir, dst[c], Rewritten(op[c], plan[c][p]))
    /\ Disturb(c, dir, dir')
    /\ done' = [done EXCEPT ![c] = @ \cup {p}]
    /\ dst' = [dst EXCEPT ![c] = NoSlot]
    /\ writing' = [writing EXCEPT ![c] = NoWriting]
    /\ IF todo[c] # {p}
       THEN todo' = [todo EXCEPT ![c] = @ \ {p}] /\ Goto(c, "write") /\ UNCHANGED ans
       ELSE IF op[c].kind = "replace" THEN \E a \in {"ok", "failed"} : Answer(c, a)
       ELSE Goto(c, "look") /\ todo' = [todo EXCEPT ![c] = {}] /\ UNCHANGED ans
    /\ UNCHANGED <<lockVars, callVars, src, late, trashed, edits>>

-----------------------------------------------------------------------------
(* Renaming: the parents are opened and both names looked at; then os.rename. *)

(* A mutant: no look at what is in the trash already. *)
SameTrashName(leaf) == {leaf}

(* A name that is taken gets a suffix that is new. *)
TrashName(leaf) ==
    IF dir[Trash][leaf] = Nothing THEN {leaf}
    ELSE {u \in Unique : dir[Trash][u] = Nothing}

Look(c, s, t, d) ==
    /\ src' = [src EXCEPT ![c] = s]
    /\ dst' = [dst EXCEPT ![c] = t]
    /\ UNCHANGED writing
    /\ dir' = d
    /\ raced' = [raced EXCEPT ![c] = FALSE]
    /\ UNCHANGED <<lockVars, callVars, ans, done, late, trashed, edits>>

(* delete_note takes the revision first, which a folder has not.  A folder  *)
(* that is deleted for good is opened and listed.                           *)
LookTrash(c) ==
    LET s == <<ParentIn(dir, op[c].from), Leaf(op[c].from)>>
        node == At(op[c].from)
    IN
    /\ pc[c] = "look"
    /\ op[c].kind = "delete"
    /\ node # Nothing
    /\ node \in Folders <=> op[c].from \in FolderPath
    /\ IF op[c].trash
       THEN /\ \E n \in TrashName(s[2]) : Look(c, s, <<Trash, n>>, dir)
            /\ Goto(c, "rename")
            /\ UNCHANGED todo
       ELSE /\ Look(c, s, IF node \in Folders THEN <<node, Nothing>> ELSE NoSlot, dir)
            /\ Goto(c, "remove")
            /\ todo' = [todo EXCEPT ![c] =
                          IF node \in Folders THEN {n \in Name : dir[node][n] # Nothing}
                          ELSE {}]

(* move, restore: the destination must not exist; its parents are created. *)
LookTarget(c) ==
    /\ pc[c] = "look"
    /\ op[c].kind \in {"move", "rename", "restore"}
    /\ At(op[c].from) # Nothing
    /\ At(op[c].from) \in Folders <=> op[c].to \in FolderPath
    /\ \E d \in WithParent(op[c].to) :
          /\ AtIn(d, op[c].to) = Nothing
          /\ Look(c, <<ParentIn(dir, op[c].from), Leaf(op[c].from)>>,
                  <<ParentIn(d, op[c].to), Leaf(op[c].to)>>, d)
    /\ Goto(c, "rename")
    /\ UNCHANGED todo

(* FileNotFoundError, FileExistsError, IsADirectoryError, or any I/O error. *)
StorageError(c) ==
    /\ pc[c] \in {"write", "commit", "look", "rename", "remove"}
    /\ Raise(c, "failed")

(* os.rename replaces a note by a note and an empty directory by a          *)
(* directory; anything else it finds is an error, as are a parent directory *)
(* that has been removed and a directory moved to below itself.             *)
Replaceable(node, old) ==
    \/ old = Nothing
    \/ node \in Text /\ old \in Text
    \/ node \in Folders /\ old \in Folders /\ old # node /\ Empty(old)

IdOf(node) == IF node \in Text THEN {node.id} ELSE {}

IdsBelow(d, node) ==
    IF node \in Folders THEN UNION {IdOf(d[node][n]) : n \in Name} ELSE IdOf(node)

Rename(c) ==
    LET node == dir[src[c][1]][src[c][2]]
        old == dir[dst[c][1]][dst[c][2]]
    IN
    /\ pc[c] = "rename"
    /\ node # Nothing
    /\ dst[c][1] \in LinkedIn(dir)
    /\ node \in Folders => ~Within(dir, dst[c][1], {node})
    /\ Replaceable(node, old)
    /\ dir' = With(With(dir, src[c], Nothing), dst[c], node)
    /\ Disturb(c, dir, dir')
    /\ trashed' = IF op[c].kind = "delete" THEN trashed \cup IdsBelow(dir, node)
                  ELSE trashed
    /\ done' = [done EXCEPT ![c] = @ \cup {op[c].from}]
    /\ Answer(c, "ok")
    /\ UNCHANGED <<lockVars, callVars, slotVars, late, edits>>

-----------------------------------------------------------------------------
(* Permanent deletion: a folder's entries one by one, then the folder. *)

Erase(c, s) ==
    /\ dir' = With(dir, s, Nothing)
    /\ Disturb(c, dir, dir')
    /\ trashed' = trashed \ IdOf(dir[s[1]][s[2]])
    /\ UNCHANGED <<lockVars, callVars, slotVars, late, edits>>

UnlinkNote(c) ==
    /\ pc[c] = "remove"
    /\ op[c].from \in NotePath
    /\ dir[src[c][1]][src[c][2]] \in Text
    /\ Erase(c, src[c])
    /\ done' = [done EXCEPT ![c] = @ \cup {op[c].from}]
    /\ Answer(c, "ok")

(* What the open directory holds now, whether it was there when the tree    *)
(* was authorized or not.                                                   *)
UnlinkEntry(c) ==
    /\ pc[c] = "remove"
    /\ op[c].from \in FolderPath
    /\ \E n \in Name :
          /\ dir[dst[c][1]][n] \in Text
          /\ Erase(c, <<dst[c][1], n>>)
          /\ todo' = [todo EXCEPT ![c] = @ \ {n}]
    /\ UNCHANGED <<pc, ans, done>>

(* rmdir of the name, once every entry that was listed is gone. *)
RemoveDir(c) ==
    /\ pc[c] = "remove"
    /\ op[c].from \in FolderPath
    /\ todo[c] = {}
    /\ dir[src[c][1]][src[c][2]] \in Folders
    /\ Empty(dir[src[c][1]][src[c][2]])
    /\ Erase(c, src[c])
    /\ done' = [done EXCEPT ![c] = @ \cup {op[c].from}]
    /\ Answer(c, "ok")

-----------------------------------------------------------------------------
(* The end *)

Ends(c) ==
    /\ held' = [held EXCEPT ![c] = {}]
    /\ Goto(c, "done")
    /\ plan' = [plan EXCEPT ![c] = NoPlan]
    /\ src' = [src EXCEPT ![c] = NoSlot]
    /\ dst' = [dst EXCEPT ![c] = NoSlot]
    /\ writing' = [writing EXCEPT ![c] = NoWriting]
    /\ ans' = [ans EXCEPT ![c] = "none"]
    /\ done' = [done EXCEPT ![c] = {}]
    /\ raced' = [raced EXCEPT ![c] = FALSE]
    /\ late' = [late EXCEPT ![c] = {}]
    /\ UNCHANGED <<treeVars, op, todo, edits>>

(* A mutant: the lock of the path itself is forgotten. *)
ReleaseOthers(c) ==
    /\ pc[c] = "release"
    /\ lock' = [l \in LockName |->
                  IF lock[l] = c /\ l # op[c].from THEN NoCall ELSE lock[l]]
    /\ Ends(c)

Release(c) ==
    /\ pc[c] = "release"
    /\ lock' = [l \in LockName |-> IF lock[l] = c THEN NoCall ELSE lock[l]]
    /\ Ends(c)

-----------------------------------------------------------------------------
(* Other tools that write one note, each under the lock of its path. *)

(* The call is sure to have the lock of this path by now. *)
Believes(c, p) ==
    /\ p \in Planned(c)
    /\ \/ pc[c] = "lock" /\ p \notin todo[c]
       \/ pc[c] \in {"write", "commit"}

WriteOther(p, d, text) ==
    /\ edits < MaxEdits
    /\ lock[p] = NoCall
    /\ edits' = edits + 1
    /\ dir' = With(d, <<ParentIn(d, p), Leaf(p)>>, text)
    /\ Disturb(NoCall, dir, dir')
    /\ late' = [c \in Call |-> late[c] \cup IF Believes(c, p) THEN {edits + 1} ELSE {}]
    /\ UNCHANGED <<lockVars, pc, todo, callVars, slotVars, ans, done, trashed>>

EditNote ==
    \E p \in NotesIn(dir) :
        WriteOther(p, dir, [At(p) EXCEPT !.edits = @ \cup {edits + 1}])

CreateNote ==
    \E p \in NotePath, i \in Note : \E d \in WithParent(p) :
        /\ AtIn(d, p) = Nothing
        /\ \A s \in Slot : i \notin IdOf(dir[s[1]][s[2]])
        /\ \A c \in Call, q \in NotePath : i \notin IdOf(plan[c][q])
        /\ WriteOther(p, d, [id |-> i, edits |-> {edits + 1}, link |-> Nothing])

(* create_folder *)
CreateFolder ==
    \E f \in FolderName, n \in NoteName :
        /\ edits < MaxEdits
        /\ dir[Top][f] = Nothing
        /\ dir' \in WithParent(<<f, n>>)
        /\ Disturb(NoCall, dir, dir')
        /\ edits' = edits + 1
        /\ UNCHANGED <<lockVars, pc, todo, callVars, slotVars, ans, done, late,
                       trashed>>

-----------------------------------------------------------------------------
Progress(c) ==
    \/ ReadNote(c) \/ EndScan(c)
    \/ AcquireLock(c) \/ LockTimeout(c) \/ EndLock(c)
    \/ OpenNote(c) \/ CommitNote(c) \/ LookTrash(c) \/ LookTarget(c) \/ Rename(c)
    \/ UnlinkNote(c) \/ UnlinkEntry(c) \/ RemoveDir(c)
    \/ StorageError(c) \/ Release(c)

Next ==
    \/ \E c \in Call :
          \/ BeginDelete(c) \/ BeginRestore(c) \/ BeginMove(c) \/ BeginRenameFolder(c)
          \/ BeginReplace(c)
          \/ Progress(c)
    \/ EditNote \/ CreateNote \/ CreateFolder

Spec == Init /\ [][Next]_vars

(* A worker thread keeps running, and a lock is waited for at most five     *)
(* seconds.                                                                 *)
FairSpec == Spec /\ \A c \in Call : WF_vars(Progress(c))

-----------------------------------------------------------------------------
(* Properties *)

(* The step is one of this call, and not one of its UnlinkEntry. *)
Moves(c) == pc'[c] # pc[c] \/ todo'[c] # todo[c]

(* The notes that are in the vault or in its trash. *)
PresentIn(d) ==
    UNION {IdOf(d[f][n]) : f \in LinkedIn(d), n \in Name}

(* A note disappears, from the vault and the trash, only by a permanent     *)
(* deletion of it or of its folder, by a rename onto a name that was free   *)
(* when the call looked at it and has been taken since, or by a rewrite of  *)
(* an entry that another note has got since it was read.  (trash, restore,  *)
(* _rename_relative, _remove_tree_fd, find_replace_in_vault)                *)
Loses(c, i) ==
    \/ /\ pc[c] = "remove"
       /\ i \in IdsBelow(dir, dir[src[c][1]][src[c][2]]) \cup IdsBelow(dir, dst[c][1])
    \/ /\ pc[c] = "rename" /\ Moves(c)
       /\ raced[c] /\ i \in IdOf(dir[dst[c][1]][dst[c][2]])
    \/ /\ pc[c] = "commit" /\ Moves(c)
       /\ i \in IdOf(dir[dst[c][1]][dst[c][2]])
       /\ dir[dst[c][1]][dst[c][2]] # plan[c][writing[c].path]

NothingVanishes ==
    [][\A i \in PresentIn(dir) \ PresentIn(dir') : \E c \in Call : Loses(c, i)]_dir

(* Edits of a note that a commit of the call discards. *)
Discards(c) ==
    LET s == dst[c]
        old == dir[s[1]][s[2]]
        new == dir'[s[1]][s[2]]
    IN  IF pc[c] = "commit" /\ Moves(c) /\ old \in Text /\ new \in Text /\ old.id = new.id
        THEN old.edits \ new.edits ELSE {}

(* A rewrite of several notes discards an edit of another tool only if that *)
(* was made before the lock of the note's path was taken, or under another  *)
(* path, to which the note or its folder has been renamed since (the commit *)
(* is in the directory that was opened).  Under the path that is locked     *)
(* nobody else's edit gets in until all notes are rewritten.                *)
LossOnlyBeforeLock ==
    [][\A c \in Call : Discards(c) \cap late[c] = {}]_dir

(* Every lock file belongs to the call that counts on it, from the moment   *)
(* it was taken until the finally block; the notes that are rewritten are   *)
(* locked, all of them, before the first is written; and no call leaves a   *)
(* lock behind however it ends.                                             *)
LockDiscipline ==
    \A c \in Call :
        /\ \A l \in LockName : lock[l] = c <=> l \in held[c]
        /\ pc[c] \in {"idle", "scan", "done"} => held[c] = {}
        /\ \A p \in NotePath : Believes(c, p) => p \in held[c]
        /\ pc[c] = "rename" /\ op[c].kind = "move" => op[c].from \in held[c]

(* The answer tells what was done: after a success every note that was read *)
(* with a link to rewrite has been rewritten, and the note or folder moved  *)
(* or removed; a lock timeout leaves everything as it was, however many     *)
(* notes and locks were involved.  (move_note, rename_folder,               *)
(* find_replace_in_vault)                                                   *)
AnswerTellsEffect ==
    \A c \in Call :
        /\ ans[c] = "ok" =>
              /\ Planned(c) \subseteq done[c]
              /\ op[c].kind # "replace" => op[c].from \in done[c]
        /\ ans[c] = "timeout" => done[c] = {}

(* What delete_tool moved to the trash can be restored, or was, until it is *)
(* deleted for good.                                                        *)
TrashedIsRecoverable == trashed \subseteq PresentIn(dir)

(* Calls that wait for each other's locks all return: the timeout ends it.  *)
EveryCallReturns == \A c \in Call : pc[c] # "idle" ~> pc[c] = "done"
==============================================================================
