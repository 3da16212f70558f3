------------------------------ MODULE VaultIndex ------------------------------
(***************************************************************************)
(* The in-memory index of one vault (domain/index.py) and the threads that *)
(* keep it in step with the files: the start-up thread of server.main, the *)
(* periodic reconciliation thread and the file watcher's timers            *)
(* (storage/watcher.py), and tool calls, which update or remove the notes  *)
(* they have changed.                                                      *)
(*                                                                         *)
(* A step of an operation is one access to the file system or one section  *)
(* under VaultIndex._lock.  _mutation_lock is held from "locked" steps to  *)
(* the end of build, update and reconcile; remove does not take it.        *)
(***************************************************************************)
EXTENDS FiniteSets, Naturals

CONSTANTS
    Notes,      \* paths of Markdown notes
    Hidden,     \* those the policy denies or INDEX_EXCLUDE_PATHS excludes
    Contents,   \* contents of a note
    Unreadable, \* those that make a read fail: no permission, an I/O error
    Nothing,    \* no file, no revision, no note
    Names,      \* lower-cased link targets, stems and aliases
    Tags,
    StemOf,     \* the stem of a note
    LinksOf,    \* per content: the targets of its wikilinks
    TagsOf,     \* per content: its tags
    AliasesOf,  \* per content: its aliases
    Updaters,   \* tool calls and debounce timers
    Boot,       \* the start-up thread
    Sweeper,    \* the periodic reconciliation thread
    Free,       \* nobody holds the mutation lock
    MaxEdits    \* bound on changes of the vault

ASSUME NotesAssumption ==
    /\ Hidden \subseteq Notes /\ Unreadable \subseteq Contents
    /\ Nothing \notin Notes /\ Nothing \notin Contents
    /\ StemOf \in [Notes -> Names]

ASSUME ParseAssumption ==
    /\ LinksOf \in [Contents -> SUBSET Names]
    /\ TagsOf \in [Contents -> SUBSET Tags]
    /\ AliasesOf \in [Contents -> SUBSET Names]

ASSUME ThreadsAssumption ==
    /\ Boot \notin Updaters /\ Sweeper \notin Updaters /\ Boot # Sweeper
    /\ Free \notin Updaters \cup {Boot, Sweeper}
    /\ MaxEdits \in Nat

Threads == Updaters \cup {Boot, Sweeper}

VARIABLES
    vault,      \* the content of every note's file
    revisions,  \* _revisions, whose keys are _all_notes
    outlinks, backlinks, tags, alias,
    ready,      \* _ready
    mutation,   \* holder of _mutation_lock
    pc,         \* per thread: its next step
    path,       \* per thread: the note it works on
    text,       \* per thread: the content it has read
    todo,       \* per thread: the notes it has still to visit
    found,      \* per thread: the notes that list_files has returned
    events,     \* notes with a pending debounce timer
    watching,   \* the watcher has been started
    changed,    \* history: notes changed, or removed late, since it was started
    edits

indexVars == <<revisions, outlinks, backlinks, tags, alias>>
localVars == <<path, text, todo, found>>
watchVars == <<events, watching, changed>>

vars == <<vault, revisions, outlinks, backlinks, tags, alias, ready, mutation,
          pc, path, text, todo, found, events, watching, changed, edits>>

UpdateSteps == {"purge", "look", "read", "purge_again", "index"}
BuildSteps == {"build_list", "build_clear", "build_read", "build_index"}
SweepSteps == {"list", "stale", "drop", "sweep_read", "compare", "replace",
               "sweep_index", "gone"}
LockedSteps == UpdateSteps \cup BuildSteps \cup SweepSteps

Steps == LockedSteps \cup
    {"idle", "update", "remove", "build", "watch", "reconcile", "publish", "done"}

TypeOK ==
    /\ vault \in [Notes -> {Nothing} \cup Contents]
    /\ revisions \in [Notes -> {Nothing} \cup Contents]
    /\ outlinks \in [Notes -> SUBSET Names]
    /\ backlinks \in [Names -> SUBSET Notes]
    /\ tags \in [Tags -> SUBSET Notes]
    /\ alias \in [Names -> {Nothing} \cup Notes]
    /\ ready \in BOOLEAN
    /\ mutation \in {Free} \cup Threads
    /\ pc \in [Threads -> Steps]
    /\ path \in [Threads -> {Nothing} \cup Notes]
    /\ text \in [Threads -> {Nothing} \cup Contents]
    /\ todo \in [Threads -> SUBSET Notes]
    /\ found \in [Threads -> SUBSET Notes]
    /\ events \in SUBSET Notes
    /\ watching \in BOOLEAN
    /\ changed \in SUBSET Notes
    /\ edits \in 0..MaxEdits

Init ==
    /\ vault \in [Notes -> {Nothing} \cup Contents]
    /\ revisions = [n \in Notes |-> Nothing]
    /\ outlinks = [n \in Notes |-> {}]
    /\ backlinks = [k \in Names |-> {}]
    /\ tags = [g \in Tags |-> {}]
    /\ alias = [k \in Names |-> Nothing]
    /\ ready = FALSE
    /\ mutation = Free
    /\ pc = [t \in Threads |-> IF t = Boot THEN "build" ELSE "idle"]
    /\ path = [t \in Threads |-> Nothing]
    /\ text = [t \in Threads |-> Nothing]
    /\ todo = [t \in Threads |-> {}]
    /\ found = [t \in Threads |-> {}]
    /\ events = {}
    /\ watching = FALSE
    /\ changed = {}
    /\ edits = 0

-----------------------------------------------------------------------------
(* The sections under _lock. *)

Indexed == { n \in Notes : revisions[n] # Nothing }

(* VaultIndex.remove *)
RemoveEntry(n) ==
    /\ revisions' = [revisions EXCEPT ![n] = Nothing]
    /\ outlinks' = [outlinks EXCEPT ![n] = {}]
    /\ backlinks' = [k \in Names |->
                       IF k \in outlinks[n] THEN backlinks[k] \ {n} ELSE backlinks[k]]
    /\ tags' = [g \in Tags |-> tags[g] \ {n}]
    /\ alias' = [k \in Names |-> IF alias[k] = n THEN Nothing ELSE alias[k]]

Keys(n, c) == {StemOf[n]} \cup AliasesOf[c]

(* Mutant: an alias leads to the stem instead of the path. *)
IndexByStem(n, c) ==
    /\ revisions' = [revisions EXCEPT ![n] = c]
    /\ outlinks' = [outlinks EXCEPT ![n] = LinksOf[c]]
    /\ backlinks' = [k \in Names |->
                       IF k \in LinksOf[c] THEN backlinks[k] \cup {n} ELSE backlinks[k]]
    /\ tags' = [g \in Tags |->
                  IF g \in TagsOf[c] THEN tags[g] \cup {n} ELSE tags[g]]
    /\ alias' = [k \in Names |-> IF k \in Keys(n, c) THEN StemOf[n] ELSE alias[k]]

(* VaultIndex._index_note: adds, and takes nothing of an old entry away. *)
IndexNote(n, c) ==
    /\ revisions' = [revisions EXCEPT ![n] = c]
    /\ outlinks' = [outlinks EXCEPT ![n] = LinksOf[c]]
    /\ backlinks' = [k \in Names |->
                       IF k \in LinksOf[c] THEN backlinks[k] \cup {n} ELSE backlinks[k]]
    /\ tags' = [g \in Tags |->
                  IF g \in TagsOf[c] THEN tags[g] \cup {n} ELSE tags[g]]
    /\ alias' = [k \in Names |-> IF k \in Keys(n, c) THEN n ELSE alias[k]]

Goto(t, step) == pc' = [pc EXCEPT ![t] = step]

(* Takes the mutation lock. *)
Lock(t) ==
    /\ mutation = Free
    /\ mutation' = t

(* The thread is done with the note it works on. *)
Leave(t, step) ==
    /\ path' = [path EXCEPT ![t] = Nothing]
    /\ text' = [text EXCEPT ![t] = Nothing]
    /\ Goto(t, step)

(* Gives the mutation lock back.  Boot goes on with the start-up sequence. *)
Unlock(t) ==
    /\ mutation' = Free
    /\ Leave(t, CASE t # Boot -> "idle"
                 [] t = Boot /\ pc[t] \in BuildSteps -> "watch"
                 [] OTHER -> "publish")

(* The thread works on with note n. *)
Take(t, n) ==
    /\ path' = [path EXCEPT ![t] = n]
    /\ todo' = [todo EXCEPT ![t] = @ \ {n}]

(* The notes that were found are visited next. *)
Found(t) ==
    /\ todo' = [todo EXCEPT ![t] = found[t]]
    /\ found' = [found EXCEPT ![t] = {}]

(* Mutant: the policy is not asked. *)
VisibleToAll(n) == vault[n] # Nothing

Visible(n) == n \notin Hidden /\ vault[n] # Nothing

Readable(n) == vault[n] \notin {Nothing} \cup Unreadable

-----------------------------------------------------------------------------
(* VaultIndex.update, for a tool or for the watcher. *)

(* Mutant: update does not take the mutation lock. *)
LockNothing(t) ==
    /\ pc[t] = "update"
    /\ Goto(t, "purge")
    /\ UNCHANGED <<vault, indexVars, ready, mutation, localVars, watchVars, edits>>

BeginUpdate(t) ==
    /\ pc[t] = "update"
    /\ Lock(t)
    /\ Goto(t, "purge")
    /\ UNCHANGED <<vault, indexVars, ready, localVars, watchVars, edits>>

(* The entry is removed before the file is looked at, and again before the *)
(* new entry is added.                                                     *)
Purge(t) ==
    /\ \/ pc[t] = "purge" /\ Goto(t, "look")
       \/ pc[t] = "purge_again" /\ Goto(t, "index")
    /\ RemoveEntry(path[t])
    /\ UNCHANGED <<vault, ready, mutation, localVars, watchVars, edits>>

Look(t) ==
    /\ pc[t] = "look"
    /\ \/ /\ Visible(path[t])
          /\ Goto(t, "read")
          /\ UNCHANGED <<mutation, path, text>>
       \/ ~Visible(path[t]) /\ Unlock(t)
    /\ UNCHANGED <<vault, indexVars, ready, todo, found, watchVars, edits>>

(* A failure to read is logged, and the note stays out. *)
Read(t) ==
    /\ pc[t] = "read"
    /\ \/ /\ Readable(path[t])
          /\ text' = [text EXCEPT ![t] = vault[path[t]]]
          /\ Goto(t, "purge_again")
          /\ UNCHANGED <<mutation, path>>
       \/ ~Readable(path[t]) /\ Unlock(t)
    /\ UNCHANGED <<vault, indexVars, ready, todo, found, watchVars, edits>>

Index(t) ==
    /\ pc[t] = "index"
    /\ IndexNote(path[t], text[t])
    /\ Unlock(t)
    /\ UNCHANGED <<vault, ready, todo, found, watchVars, edits>>

-----------------------------------------------------------------------------
(* The walk of list_files, at the start of build and of reconcile.  It     *)
(* passes over what it cannot look at.                                     *)

Visit(t, walking, walked) ==
    /\ pc[t] = walking
    /\ \/ \E n \in todo[t] :
             /\ todo' = [todo EXCEPT ![t] = @ \ {n}]
             /\ \/ Visible(n) /\ found' = [found EXCEPT ![t] = @ \cup {n}]
                \/ (n \in Hidden \/ ~Readable(n)) /\ UNCHANGED found
             /\ UNCHANGED pc
       \/ /\ todo[t] = {}
          /\ Goto(t, walked)
          /\ UNCHANGED <<todo, found>>
    /\ UNCHANGED <<vault, indexVars, ready, mutation, path, text, watchVars, edits>>

(* list_files fails: the start-up thread gives up for good. *)
ListError(t) ==
    /\ pc[t] \in {"list", "build_list"}
    /\ edits < MaxEdits
    /\ edits' = edits + 1
    /\ mutation' = Free
    /\ Goto(t, IF t = Boot THEN "done" ELSE "idle")
    /\ UNCHANGED <<vault, indexVars, ready, localVars, watchVars>>

StartWalk(t, step, walking) ==
    /\ pc[t] = step
    /\ Lock(t)
    /\ todo' = [todo EXCEPT ![t] = Notes]
    /\ found' = [found EXCEPT ![t] = {}]
    /\ Goto(t, walking)
    /\ UNCHANGED <<vault, indexVars, ready, path, text, watchVars, edits>>

-----------------------------------------------------------------------------
(* VaultIndex.build(publish_ready=False) *)

BuildClear ==
    /\ pc[Boot] = "build_clear"
    /\ ready' = FALSE
    /\ revisions' = [n \in Notes |-> Nothing]
    /\ outlinks' = [n \in Notes |-> {}]
    /\ backlinks' = [k \in Names |-> {}]
    /\ tags' = [g \in Tags |-> {}]
    /\ alias' = [k \in Names |-> Nothing]
    /\ Found(Boot)
    /\ Goto(Boot, "build_read")
    /\ UNCHANGED <<vault, mutation, path, text, watchVars, edits>>

BuildRead ==
    /\ pc[Boot] = "build_read"
    /\ \/ \E n \in todo[Boot] :
             /\ Take(Boot, n)
             /\ \/ /\ Readable(n)
                   /\ text' = [text EXCEPT ![Boot] = vault[n]]
                   /\ Goto(Boot, "build_index")
                \/ ~Readable(n) /\ UNCHANGED <<text, pc>>
             /\ UNCHANGED mutation
       \/ todo[Boot] = {} /\ Unlock(Boot) /\ UNCHANGED todo
    /\ UNCHANGED <<vault, indexVars, ready, found, watchVars, edits>>

BuildIndex ==
    /\ pc[Boot] = "build_index"
    /\ IndexNote(path[Boot], text[Boot])
    /\ Leave(Boot, "build_read")
    /\ UNCHANGED <<vault, ready, mutation, todo, found, watchVars, edits>>

Build ==
    \/ StartWalk(Boot, "build", "build_list")
    \/ Visit(Boot, "build_list", "build_clear")
    \/ BuildClear \/ BuildRead \/ BuildIndex

(* Mutant: the index is published without the initial reconciliation. *)
WatchAndPublish ==
    /\ pc[Boot] = "watch"
    /\ watching' = TRUE
    /\ changed' = {}
    /\ Goto(Boot, "publish")
    /\ UNCHANGED <<vault, indexVars, ready, mutation, localVars, events, edits>>

(* watcher.start: from now on changes are reported and swept for. *)
Watch ==
    /\ pc[Boot] = "watch"
    /\ watching' = TRUE
    /\ changed' = {}
    /\ Goto(Boot, "reconcile")
    /\ UNCHANGED <<vault, indexVars, ready, mutation, localVars, events, edits>>

(* mark_ready *)
Publish ==
    /\ pc[Boot] = "publish"
    /\ ready' = TRUE
    /\ Goto(Boot, "done")
    /\ UNCHANGED <<vault, indexVars, mutation, localVars, watchVars, edits>>

-----------------------------------------------------------------------------
(* VaultIndex.reconcile *)

(* The periodic thread wakes up. *)
Wake ==
    /\ pc[Sweeper] = "idle"
    /\ watching
    /\ Goto(Sweeper, "reconcile")
    /\ UNCHANGED <<vault, indexVars, ready, mutation, localVars, watchVars, edits>>

FindStale(t) ==
    /\ pc[t] = "stale"
    /\ todo' = [todo EXCEPT ![t] = Indexed \ found[t]]
    /\ Goto(t, "drop")
    /\ UNCHANGED <<vault, indexVars, ready, mutation, path, text, found,
                   watchVars, edits>>

(* Mutant: notes that are gone are not removed. *)
KeepStale(t) ==
    /\ pc[t] = "drop"
    /\ Found(t)
    /\ Goto(t, "sweep_read")
    /\ UNCHANGED <<vault, indexVars, ready, mutation, path, text, watchVars, edits>>

DropStale(t) ==
    /\ pc[t] = "drop"
    /\ \/ \E n \in todo[t] :
             /\ todo' = [todo EXCEPT ![t] = @ \ {n}]
             /\ RemoveEntry(n)
             /\ UNCHANGED <<found, pc>>
       \/ /\ todo[t] = {}
          /\ Found(t)
          /\ Goto(t, "sweep_read")
          /\ UNCHANGED indexVars
    /\ UNCHANGED <<vault, ready, mutation, path, text, watchVars, edits>>

(* A missing file and a PermissionError end in remove; after another error *)
(* the note keeps its old entry, if it has one.                            *)
SweepRead(t) ==
    /\ pc[t] = "sweep_read"
    /\ \/ \E n \in todo[t] :
             /\ Take(t, n)
             /\ \/ /\ Readable(n)
                   /\ text' = [text EXCEPT ![t] = vault[n]]
                   /\ Goto(t, "compare")
                \/ ~Readable(n) /\ Goto(t, "gone") /\ UNCHANGED text
                \/ vault[n] \in Unreadable /\ UNCHANGED <<text, pc>>
             /\ UNCHANGED mutation
       \/ todo[t] = {} /\ Unlock(t) /\ UNCHANGED todo
    /\ UNCHANGED <<vault, indexVars, ready, found, watchVars, edits>>

(* Mutant: a note that is known is never read again. *)
CompareKnown(t) ==
    /\ pc[t] = "compare"
    /\ IF revisions[path[t]] # Nothing THEN Leave(t, "sweep_read")
       ELSE Goto(t, "replace") /\ UNCHANGED <<path, text>>
    /\ UNCHANGED <<vault, indexVars, ready, mutation, todo, found, watchVars, edits>>

Compare(t) ==
    /\ pc[t] = "compare"
    /\ \/ revisions[path[t]] = text[t] /\ Leave(t, "sweep_read")
       \/ /\ revisions[path[t]] # text[t]
          /\ Goto(t, "replace")
          /\ UNCHANGED <<path, text>>
    /\ UNCHANGED <<vault, indexVars, ready, mutation, todo, found, watchVars, edits>>

(* Mutant: a note that has changed is indexed on top of its old entry. *)
ReplaceNothing(t) ==
    /\ pc[t] = "replace"
    /\ Goto(t, "sweep_index")
    /\ UNCHANGED <<vault, indexVars, ready, mutation, localVars, watchVars, edits>>

Replace(t) ==
    /\ pc[t] = "replace"
    /\ RemoveEntry(path[t])
    /\ Goto(t, "sweep_index")
    /\ UNCHANGED <<vault, ready, mutation, localVars, watchVars, edits>>

DropGone(t) ==
    /\ pc[t] = "gone"
    /\ RemoveEntry(path[t])
    /\ Leave(t, "sweep_read")
    /\ UNCHANGED <<vault, ready, mutation, todo, found, watchVars, edits>>

SweepIndex(t) ==
    /\ pc[t] = "sweep_index"
    /\ IndexNote(path[t], text[t])
    /\ Leave(t, "sweep_read")
    /\ UNCHANGED <<vault, ready, mutation, todo, found, watchVars, edits>>

Reconcile(t) ==
    \/ StartWalk(t, "reconcile", "list")
    \/ Visit(t, "list", "stale")
    \/ FindStale(t) \/ DropStale(t)
    \/ SweepRead(t) \/ Compare(t) \/ DropGone(t) \/ Replace(t) \/ SweepIndex(t)

-----------------------------------------------------------------------------
(* Changes of the vault. *)

(* The file of n changes, and the watcher may or may not report it. *)
Change(n, c) ==
    /\ edits < MaxEdits
    /\ edits' = edits + 1
    /\ vault' = [vault EXCEPT ![n] = c]
    /\ changed' = changed \cup {n}
    /\ events' \in {events} \cup (IF watching THEN {events \cup {n}} ELSE {})
    /\ UNCHANGED watching

ExternalEdit ==
    /\ \E n \in Notes : \E c \in ({Nothing} \cup Contents) \ {vault[n]} : Change(n, c)
    /\ UNCHANGED <<indexVars, ready, mutation, pc, localVars>>

(* A tool has stored a note and calls index.update. *)
ToolWrite(t) ==
    /\ pc[t] = "idle"
    /\ \E n \in Notes : \E c \in Contents \ (Unreadable \cup {vault[n]}) :
          Change(n, c) /\ path' = [path EXCEPT ![t] = n]
    /\ Goto(t, "update")
    /\ UNCHANGED <<indexVars, ready, mutation, text, todo, found>>

(* delete_note and move_note have taken a file away ... *)
ToolDelete(t) ==
    /\ pc[t] = "idle"
    /\ \E n \in Notes :
          /\ vault[n] # Nothing
          /\ Change(n, Nothing)
          /\ path' = [path EXCEPT ![t] = n]
    /\ Goto(t, "remove")
    /\ UNCHANGED <<indexVars, ready, mutation, text, todo, found>>

(* ... and call index.remove, which does not wait for the mutation lock:   *)
(* it may come after somebody else has created the note again.             *)
ToolRemove(t) ==
    /\ pc[t] = "remove"
    /\ RemoveEntry(path[t])
    /\ Leave(t, "idle")
    /\ changed' = changed \cup {path[t]}
    /\ UNCHANGED <<vault, ready, mutation, todo, found, events, watching, edits>>

(* A debounce timer fires. *)
Deliver(t) ==
    /\ pc[t] = "idle"
    /\ \E n \in events :
          /\ events' = events \ {n}
          /\ path' = [path EXCEPT ![t] = n]
    /\ Goto(t, "update")
    /\ UNCHANGED <<vault, indexVars, ready, mutation, text, todo, found,
                   watching, changed, edits>>

-----------------------------------------------------------------------------
Update(t) == BeginUpdate(t) \/ Purge(t) \/ Look(t) \/ Read(t) \/ Index(t)

UpdaterStep(t) == Update(t) \/ ToolRemove(t) \/ Deliver(t)
BootStep == Build \/ Watch \/ Reconcile(Boot) \/ Publish
SweeperStep == Wake \/ Reconcile(Sweeper)

Next ==
    \/ \E t \in Updaters : UpdaterStep(t) \/ ToolWrite(t) \/ ToolDelete(t)
    \/ BootStep \/ SweeperStep
    \/ ListError(Boot) \/ ListError(Sweeper)
    \/ ExternalEdit

Spec == Init /\ [][Next]_vars

(***************************************************************************)
(* Every thread keeps running.  The periodic thread sleeps between two     *)
(* sweeps without the mutation lock, so whoever waits for the lock gets it *)
(* in the end: strong fairness.                                            *)
(***************************************************************************)
FairSpec ==
    /\ Spec
    /\ \A t \in Updaters : SF_vars(UpdaterStep(t))
    /\ SF_vars(BootStep)
    /\ SF_vars(SweeperStep)
-----------------------------------------------------------------------------
(* Properties. *)

(***************************************************************************)
(* What the readers' tools are answered from agrees at every moment with   *)
(* the contents whose revisions are recorded: backlinks and outlinks are   *)
(* each other's inverse, no entry of an earlier content or of a removed    *)
(* note is left behind, and an alias leads to a note that has it.  Only    *)
(* _mutation_lock makes it so: _index_note by itself leaves old links in.  *)
(***************************************************************************)
IndexAgrees ==
    /\ \A n \in Notes :
          LET c == revisions[n]
          IN  /\ outlinks[n] = (IF c = Nothing THEN {} ELSE LinksOf[c])
              /\ \A k \in Names : n \in backlinks[k] <=> k \in outlinks[n]
              /\ \A g \in Tags : n \in tags[g] <=> c # Nothing /\ g \in TagsOf[c]
    /\ \A k \in Names :
          alias[k] # Nothing => /\ revisions[alias[k]] # Nothing
                                /\ k \in Keys(alias[k], revisions[alias[k]])

(***************************************************************************)
(* No note that the policy hides is ever in the index, at no moment of a   *)
(* build, an update or a sweep.                                            *)
(***************************************************************************)
NothingHiddenIsIndexed == Indexed \cap Hidden = {}

(***************************************************************************)
(* /health reports ready only when no change can have been missed: a note  *)
(* that has not changed since the watcher was started is indexed as it is  *)
(* in the vault, also when it changed during the initial build.  (Unless a *)
(* thread is re-indexing it just then.)                                    *)
(***************************************************************************)
UpToDate(n) ==
    IF n \in Hidden THEN revisions[n] = Nothing
    ELSE vault[n] \in Unreadable \/ revisions[n] = vault[n]

ReadyMeansComplete ==
    [][ ready' /\ ~ready =>
          \A n \in Notes \ changed :
             UpToDate(n) \/ (mutation # Free /\ path[mutation] = n) ]_vars

(***************************************************************************)
(* Once the vault is left alone the index converges to it, whatever events *)
(* the watcher missed and however removals and updates have overtaken each *)
(* other: the periodic sweep repairs it.                                   *)
(***************************************************************************)
Converges == <>watching => <>[](\A n \in Notes : UpToDate(n))

(***************************************************************************)
(* has_note: a target resolves to a known note by its stem.                *)
(***************************************************************************)
StemResolves ==
    ready /\ mutation = Free => \A n \in Indexed : alias[StemOf[n]] # Nothing
==============================================================================
