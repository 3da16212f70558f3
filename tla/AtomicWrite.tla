---------------------------- MODULE AtomicWrite ----------------------------
(***************************************************************************)
(* One vault file under the write tools: the per-path process lock         *)
(* (storage/locking.py), the optimistic-concurrency helpers                *)
(* (storage/revisions.py) and VaultStorage._write_atomic                   *)
(* (storage/filesystem.py), taken one system call at a time.               *)
(*                                                                         *)
(* Clients are concurrent tool calls: worker threads of one server, or of  *)
(* several servers that share LOCK_PATH.  Another program (Obsidian Sync,  *)
(* an editor, git) changes the file without taking the lock, and the       *)
(* machine can lose power between any two steps.                           *)
(***************************************************************************)
EXTENDS NoteContent, Naturals

CONSTANTS
    Clients,
    NoClient,      \* the lock is free
    NoReq,         \* no call in progress
    Requests,      \* the calls made on this file
    Unread,        \* the call has not pinned its write to any content
    Torn,          \* a prefix of what was written
    MaxExternal,   \* bound on edits by other programs
    MaxCrashes     \* bound on power losses

ASSUME ClientsAssumption == NoClient \notin Clients

ASSUME RequestsAssumption == Requests \subseteq Request

ASSUME SentinelAssumption ==
    /\ \A f \in File : f \notin {Unread, Torn}
    /\ \A r \in Requests : r # NoReq

ASSUME BoundAssumption == MaxExternal \in Nat /\ MaxCrashes \in Nat

VARIABLES
    file,        \* what a read of the path returns now
    afterCrash,  \* what the path may hold after a power loss now; empty when
                 \* the bound MaxCrashes rules out any further power loss
    acked,       \* a caller was told that the present content is stored
    lock,        \* holder of the path's lock file
    pc,          \* per client: the next step of its call
    req,         \* per client: the arguments of its call
    raw,         \* per client: the content its write is computed from
    creating,    \* per client: effective_create_only
    temp,        \* per client: its temporary file
    ans,         \* per client: the answer of its call, once there is one
    token,       \* per client: the revision in that answer
    stored,      \* history: the call has changed the file
    stale,       \* history: the file is not what the call was made for
    raced,       \* history: it moved after the call's last look at it
    owner,       \* history: whose unanswered call put the present file there
    externals,
    crashes,
    suffix,      \* what kind of file the path names; never changes
    folder       \* the folder it lies in: "missing", "new" (made, but its own
                 \* entry may not have reached the disk yet) or "durable"

sharedVars == <<file, afterCrash, acked, owner>>
callVars == <<req, raw, creating>>
historyVars == <<stored, stale, raced>>
worldVars == <<externals, crashes, suffix, folder>>

vars == <<file, afterCrash, acked, lock, pc, req, raw, creating, temp, ans,
          token, stored, stale, raced, owner, externals, crashes, suffix, folder>>

Steps == {"idle", "prepare", "acquire", "exists", "read", "check", "sync_temp",
          "recheck", "commit", "unlink_temp", "sync_parent", "final",
          "remove", "release"}

Answers == {"none", "ok", "conflict", "precondition", "missing",
            "error", "timeout", "dry_run"}

TypeOK ==
    /\ file \in File
    /\ afterCrash \in SUBSET ({Torn} \cup File)
    /\ acked \in BOOLEAN
    /\ lock \in Clients \cup {NoClient}
    /\ pc \in [Clients -> Steps]
    /\ req \in [Clients -> {NoReq} \cup Requests]
    /\ raw \in [Clients -> {Unread} \cup File]
    /\ creating \in [Clients -> BOOLEAN]
    /\ temp \in [Clients -> {"none", "open", "synced"}]
    /\ ans \in [Clients -> Answers]
    /\ token \in [Clients -> {NoPin} \cup Content]
    /\ stored \in [Clients -> BOOLEAN]
    /\ stale \in [Clients -> BOOLEAN]
    /\ raced \in [Clients -> BOOLEAN]
    /\ owner \in Clients \cup {NoClient}
    /\ externals \in 0..MaxExternal
    /\ crashes \in 0..MaxCrashes
    /\ suffix \in {"note", "attachment"}
    /\ folder \in {"missing", "new", "durable"}

Init ==
    /\ file \in File
    /\ afterCrash = IF 0 < MaxCrashes THEN {file} ELSE {}
    /\ acked = FALSE
    /\ lock = NoClient
    /\ pc = [c \in Clients |-> "idle"]
    /\ req = [c \in Clients |-> NoReq]
    /\ raw = [c \in Clients |-> Unread]
    /\ creating = [c \in Clients |-> FALSE]
    /\ temp = [c \in Clients |-> "none"]
    /\ ans = [c \in Clients |-> "none"]
    /\ token = [c \in Clients |-> NoPin]
    /\ stored = [c \in Clients |-> FALSE]
    /\ stale = [c \in Clients |-> FALSE]
    /\ raced = [c \in Clients |-> FALSE]
    /\ owner = NoClient
    /\ externals = 0
    /\ crashes = 0
    /\ suffix \in {"note", "attachment"}
    /\ folder \in IF file = Absent THEN {"missing", "durable"} ELSE {"durable"}

-----------------------------------------------------------------------------
(* Control flow shared by the steps of a call. *)

Locks(c) == req[c].kind \in LockingTools

New(c) == Rendered(req[c], raw[c])

Goto(c, step) == pc' = [pc EXCEPT ![c] = step]

(***************************************************************************)
(* What _write_atomic's finally block leaves of the temporary file.  Once  *)
(* the commit is done it removes nothing, so an error of the unlink after  *)
(* os.link leaves the file; before the commit it removes it, unless that   *)
(* fails too, which is the error the caller then sees.                     *)
(***************************************************************************)
Committed(c) == pc[c] \in {"unlink_temp", "sync_parent", "final"}

Leftover(c, a) ==
    IF Committed(c) THEN {temp[c]}
    ELSE {"none"} \cup (IF a = "error" THEN {temp[c]} ELSE {})

(* The call has its answer; the lock has still to be released. *)
Answer(c, a, rev) ==
    /\ ans' = [ans EXCEPT ![c] = a]
    /\ token' = [token EXCEPT ![c] = rev]
    /\ \E left \in Leftover(c, a) : temp' = [temp EXCEPT ![c] = left]
    /\ Goto(c, "release")
    /\ UNCHANGED <<lock, req, raw, creating, worldVars>>

(* An exception: nothing was stored by this step. *)
Raise(c, a) ==
    /\ Answer(c, a, NoPin)
    /\ UNCHANGED <<sharedVars, historyVars>>

(* The file changes under everyone who has a call in progress but c. *)
Disturb(others) ==
    /\ stale' = [d \in Clients |-> stale[d] \/ d \in others]
    /\ raced' = [d \in Clients |->
                   raced[d] \/ (d \in others /\ pc[d] \in {"commit", "remove"})]

(* What a further power loss may leave, after n of them. *)
MayLeave(n, fs) == IF n < MaxCrashes THEN fs ELSE {}

Busy == { c \in Clients : pc[c] # "idle" }

Store(c, f) ==
    /\ file' = f
    /\ acked' = FALSE
    /\ owner' = c
    /\ stored' = [stored EXCEPT ![c] = TRUE]
    /\ Disturb(IF f = file THEN {} ELSE Busy \ {c})

-----------------------------------------------------------------------------
(* The caller. *)

(***************************************************************************)
(* A tool call starts; its expected_revision may be any revision that the  *)
(* caller has ever been given.  patch_frontmatter, manage_tags and most    *)
(* other patch tools look for the file before they lock it; patch_note     *)
(* does not.                                                               *)
(***************************************************************************)
Entry(r) ==
    CASE r.kind = "full" -> {"prepare"}
      [] r.kind = "patch" -> {"prepare", "acquire"}
      [] r.kind = "attach" -> {"check"}
      [] OTHER -> {"acquire"}

(* Attachment suffixes and .md/.canvas/.base are disjoint: the tools that   *)
(* lock and the one that does not never meet on one path.                  *)
Fits(r) == r.kind \in LockingTools <=> suffix = "note"

Call(c) ==
    /\ pc[c] = "idle"
    /\ \E r \in Requests :
          /\ Fits(r)
          /\ req' = [req EXCEPT ![c] = r]
          /\ \E step \in Entry(r) : Goto(c, step)
          /\ stale' = [stale EXCEPT ![c] =
                         \/ r.pin # NoPin /\ r.pin # file
                         \/ r.create_only /\ file # Absent]
    /\ UNCHANGED <<sharedVars, lock, raw, creating, temp, ans, token,
                   stored, raced, worldVars>>

-----------------------------------------------------------------------------
(* Before the lock. *)

(***************************************************************************)
(* prepare_full_write: outside the lock, it settles what the write is      *)
(* pinned to.  For the patch tools, the early existence check.             *)
(***************************************************************************)
Pinned(c) ==
    /\ raw' = [raw EXCEPT ![c] = file]
    /\ UNCHANGED <<sharedVars, lock, req, creating, temp, ans, token,
                   historyVars, worldVars>>

PrepareFullWrite(c) ==
    /\ pc[c] = "prepare"
    /\ req[c].kind = "full"
    /\ \/ /\ file = Absent /\ req[c].pin # NoPin
          /\ Raise(c, "conflict")
       \/ /\ file = Absent /\ req[c].pin = NoPin
          /\ Pinned(c)
          /\ Goto(c, "acquire")
       \/ /\ file # Absent /\ req[c].create_only
          /\ Raise(c, "conflict")
       \/ /\ file # Absent /\ ~req[c].create_only
          /\ req[c].pin = NoPin /\ Strict
          /\ Raise(c, "precondition")
       \/ /\ file # Absent /\ ~req[c].create_only
          /\ req[c].pin # NoPin /\ req[c].pin # file
          /\ Raise(c, "conflict")
       \/ /\ file # Absent /\ ~req[c].create_only
          /\ IF req[c].pin = NoPin THEN ~Strict ELSE req[c].pin = file
          /\ Pinned(c)
          /\ Goto(c, "acquire")

CheckExists(c) ==
    /\ pc[c] = "prepare"
    /\ req[c].kind = "patch"
    /\ \/ /\ file = Absent
          /\ Raise(c, "missing")
       \/ /\ file # Absent
          /\ Goto(c, "acquire")
          /\ UNCHANGED <<sharedVars, lock, callVars, temp, ans, token,
                         historyVars, worldVars>>

-----------------------------------------------------------------------------
(* The lock. *)

AfterLock(kind) ==
    CASE kind = "full" -> "check"
      [] kind \in {"write", "append"} -> "exists"
      [] OTHER -> "read"

(* Mutant: every thread locks a file of its own. *)
AcquireOwnLock(c) ==
    /\ pc[c] = "acquire"
    /\ lock' = c
    /\ Goto(c, AfterLock(req[c].kind))
    /\ UNCHANGED <<sharedVars, callVars, temp, ans, token, historyVars, worldVars>>

AcquireLock(c) ==
    /\ pc[c] = "acquire"
    /\ lock = NoClient
    /\ lock' = c
    /\ Goto(c, AfterLock(req[c].kind))
    /\ UNCHANGED <<sharedVars, callVars, temp, ans, token,
                   historyVars, worldVars>>

(* Mutant: the lock is waited for without a timeout. *)
WaitForEver(c) == FALSE

(* FileLock gives up after five seconds: LockTimeoutError. *)
LockTimeout(c) ==
    /\ pc[c] = "acquire"
    /\ lock # NoClient
    /\ Raise(c, "timeout")

(* The lock's finally block and the return to the caller.  No later call   *)
(* meets a temporary file that was left: its name is never used again.     *)
ReturnFromCall(c) ==
    /\ pc[c] = "release"
    /\ Goto(c, "idle")
    /\ req' = [req EXCEPT ![c] = NoReq]
    /\ raw' = [raw EXCEPT ![c] = Unread]
    /\ creating' = [creating EXCEPT ![c] = FALSE]
    /\ ans' = [ans EXCEPT ![c] = "none"]
    /\ token' = [token EXCEPT ![c] = NoPin]
    /\ stored' = [stored EXCEPT ![c] = FALSE]
    /\ stale' = [stale EXCEPT ![c] = FALSE]
    /\ raced' = [raced EXCEPT ![c] = FALSE]
    /\ temp' = [temp EXCEPT ![c] = "none"]
    /\ UNCHANGED <<sharedVars, worldVars>>

(* Mutant: the release is not in a finally block. *)
ReleaseOnSuccess(c) ==
    /\ ReturnFromCall(c)
    /\ lock' = IF lock = c /\ ans[c] = "ok" THEN NoClient ELSE lock

Release(c) ==
    /\ ReturnFromCall(c)
    /\ lock' = IF lock = c THEN NoClient ELSE lock

-----------------------------------------------------------------------------
(* Under the lock: what the tools read. *)

(***************************************************************************)
(* storage.exists in write_note and append_to_note.  append_to_note has a  *)
(* create argument that the caller may have set to False.                  *)
(***************************************************************************)
Exists(c) ==
    /\ pc[c] = "exists"
    /\ \/ /\ file # Absent
          /\ Goto(c, "read")
          /\ UNCHANGED <<sharedVars, lock, callVars, temp, ans, token,
                         historyVars, worldVars>>
       \/ /\ file = Absent /\ req[c].kind = "append"
          /\ Raise(c, "missing")
       \/ /\ file = Absent /\ req[c].pin # NoPin
          /\ Raise(c, "conflict")
       \/ /\ file = Absent /\ req[c].pin = NoPin /\ req[c].dry_run
          /\ Raise(c, "dry_run")
       \/ /\ file = Absent /\ req[c].pin = NoPin /\ ~req[c].dry_run
          /\ Pinned(c)
          /\ Goto(c, "check")

(***************************************************************************)
(* read_text_for_update, or delete_note's look at the revision, and the    *)
(* checks up to the write.  A patch can fail to find its section, text or  *)
(* card (ValueError).  create_only lifts write_note's strict-mode check    *)
(* because _write_atomic will refuse the call anyway.                      *)
(***************************************************************************)
LacksPrecondition(c) ==
    /\ Strict /\ NeedsPin(req[c]) /\ req[c].pin = NoPin
    /\ ~req[c].create_only

Read(c) ==
    /\ pc[c] = "read"
    /\ \/ /\ file = Absent
          /\ Raise(c, "missing")
       \/ /\ file # Absent /\ req[c].pin \notin {NoPin, file}
          /\ Raise(c, "conflict")
       \/ /\ file # Absent /\ req[c].pin \in {NoPin, file}
          /\ \/ /\ req[c].kind \in {"append", "patch"}
                /\ Raise(c, "error")
             \/ /\ req[c].dry_run
                /\ Answer(c, "dry_run", file)
                /\ UNCHANGED <<sharedVars, historyVars>>
             \/ /\ ~req[c].dry_run /\ LacksPrecondition(c)
                /\ Raise(c, "precondition")
             \/ /\ ~req[c].dry_run /\ ~LacksPrecondition(c)
                /\ Pinned(c)
                /\ Goto(c, IF req[c].kind = "delete" THEN "remove" ELSE "check")

-----------------------------------------------------------------------------
(* VaultStorage._write_atomic. *)

(***************************************************************************)
(* _opened_write_parent makes the folders that are missing above the file. *)
(* Nobody syncs the folder that a new one is entered in.                   *)
(***************************************************************************)
MakeParent(c) ==
    /\ pc[c] = "check"
    /\ folder = "missing"
    /\ folder' = "new"
    /\ UNCHANGED <<sharedVars, lock, pc, callVars, temp, ans, token, historyVars,
                   externals, crashes, suffix>>

(***************************************************************************)
(* The first revision check, then the temporary file is created.  The      *)
(* tools pass the content they read as expected_revision, and create_only  *)
(* when there was none; an attachment passes neither.                      *)
(***************************************************************************)
(* Mutant: a tool that found no file does not ask for create_only. *)
CreateOnlyIfAsked(c) == req[c].create_only

(* Mutant: a call without expected_revision is taken for a creation. *)
CreateOnlyUnlessPinned(c) == req[c].create_only \/ req[c].pin = NoPin

CreateOnly(c) == req[c].create_only \/ raw[c] = Absent

(* Mutant: expected_revision is not passed on to the write. *)
NeverMoved(c) == FALSE

Moved(c) == raw[c] \notin {Absent, Unread} /\ file # raw[c]

Check(c) ==
    /\ pc[c] = "check"
    /\ folder # "missing"
    /\ \/ /\ (CreateOnly(c) /\ file # Absent) \/ Moved(c)
          /\ Raise(c, "conflict")
       \/ /\ ~(CreateOnly(c) /\ file # Absent) /\ ~Moved(c)
          /\ creating' = [creating EXCEPT ![c] = CreateOnly(c) \/ file = Absent]
          /\ temp' = [temp EXCEPT ![c] = "open"]
          /\ Goto(c, "sync_temp")
          /\ UNCHANGED <<sharedVars, lock, req, raw, ans, token,
                         historyVars, worldVars>>

(* Mutant: no fsync of the temporary file. *)
CloseTemp(c) ==
    /\ pc[c] = "sync_temp"
    /\ Goto(c, "recheck")
    /\ UNCHANGED <<sharedVars, lock, callVars, temp, ans, token,
                   historyVars, worldVars>>

(* _write_all, fchmod, fsync and close of the temporary file. *)
SyncTemp(c) ==
    /\ pc[c] = "sync_temp"
    /\ temp' = [temp EXCEPT ![c] = "synced"]
    /\ Goto(c, "recheck")
    /\ UNCHANGED <<sharedVars, lock, callVars, ans, token,
                   historyVars, worldVars>>

(* Mutant: no second look at the file. *)
NoRecheck(c) ==
    /\ pc[c] = "recheck"
    /\ Goto(c, "commit")
    /\ UNCHANGED <<sharedVars, lock, callVars, temp, ans, token,
                   historyVars, worldVars>>

(* The second look at the file, with the temporary file ready. *)
Recheck(c) ==
    /\ pc[c] = "recheck"
    /\ \/ /\ IF creating[c] THEN file # Absent ELSE Moved(c)
          /\ Raise(c, "conflict")
       \/ /\ IF creating[c] THEN file = Absent ELSE ~Moved(c)
          /\ Goto(c, "commit")
          /\ UNCHANGED <<sharedVars, lock, callVars, temp, ans, token,
                         historyVars, worldVars>>

(* A crash may now find the old entry or the new one, and only a prefix of *)
(* the new one's bytes if the temporary file was not synced.               *)
CommitDurability(c) ==
    afterCrash' = MayLeave(crashes, afterCrash \cup {New(c)}
                             \cup (IF temp[c] = "synced" THEN {} ELSE {Torn}))

(* Mutant: os.rename also for new files. *)
ReplacingLinkCommit(c) ==
    /\ pc[c] = "commit"
    /\ creating[c]
    /\ Store(c, New(c))
    /\ CommitDurability(c)
    /\ Goto(c, "unlink_temp")
    /\ UNCHANGED <<lock, callVars, temp, ans, token, worldVars>>

(* os.link: the kernel refuses to replace an existing name. *)
LinkCommit(c) ==
    /\ pc[c] = "commit"
    /\ creating[c]
    /\ \/ /\ file # Absent
          /\ Raise(c, "conflict")
       \/ /\ file = Absent
          /\ Store(c, New(c))
          /\ CommitDurability(c)
          /\ Goto(c, "unlink_temp")
          /\ UNCHANGED <<lock, callVars, temp, ans, token, worldVars>>

UnlinkTemp(c) ==
    /\ pc[c] = "unlink_temp"
    /\ temp' = [temp EXCEPT ![c] = "none"]
    /\ Goto(c, "sync_parent")
    /\ UNCHANGED <<sharedVars, lock, callVars, ans, token,
                   historyVars, worldVars>>

(* os.rename: replaces whatever is there. *)
RenameCommit(c) ==
    /\ pc[c] = "commit"
    /\ ~creating[c]
    /\ Store(c, New(c))
    /\ CommitDurability(c)
    /\ temp' = [temp EXCEPT ![c] = "none"]
    /\ Goto(c, "sync_parent")
    /\ UNCHANGED <<lock, callVars, ans, token, worldVars>>

(* Mutant: no fsync of the directory. *)
NoSyncParent(c) ==
    /\ pc[c] = "sync_parent"
    /\ Goto(c, "final")
    /\ UNCHANGED <<sharedVars, lock, callVars, temp, ans, token,
                   historyVars, worldVars>>

(* os.fsync(parent_fd): the file's entry in its folder is on disk.  The    *)
(* folder's own entry, further up, is not, if the folder has been made.    *)
SyncParent(c) ==
    /\ pc[c] = "sync_parent"
    /\ afterCrash' = MayLeave(crashes,
                         {file} \cup (IF folder = "new" THEN {Absent} ELSE {}))
    /\ Goto(c, "final")
    /\ UNCHANGED <<file, acked, owner, lock, callVars, temp, ans, token,
                   historyVars, worldVars>>

(* Mutant: the revision is compared once more, after the commit. *)
FinalWithCheck(c) ==
    /\ pc[c] = "final"
    /\ IF Moved(c) THEN Raise(c, "conflict")
       ELSE /\ Answer(c, "ok", IF Locks(c) THEN file ELSE NoPin)
            /\ acked' = (acked \/ owner = c)
            /\ owner' = IF owner = c THEN NoClient ELSE owner
            /\ UNCHANGED <<file, afterCrash, historyVars>>

(* The revision that is returned is read back from the path.  The attach   *)
(* tool drops it.                                                          *)
Final(c) ==
    /\ pc[c] = "final"
    /\ \/ /\ file = Absent
          /\ Raise(c, "error")
       \/ /\ file # Absent
          /\ Answer(c, "ok", IF Locks(c) THEN file ELSE NoPin)
          /\ acked' = (acked \/ owner = c)
          /\ owner' = IF owner = c THEN NoClient ELSE owner
          /\ UNCHANGED <<file, afterCrash, historyVars>>

(* Any system call of the write can fail (disk full, I/O error); after the *)
(* commit the note has changed although the caller sees an error.          *)
StorageError(c) ==
    /\ pc[c] \notin {"idle", "release"}
    /\ Raise(c, "error")

-----------------------------------------------------------------------------
(* delete_note: rename into .trash or unlink, without an fsync. *)
Remove(c) ==
    /\ pc[c] = "remove"
    /\ \/ /\ file = Absent
          /\ Raise(c, "missing")
       \/ /\ file # Absent
          /\ Store(c, Absent)
          /\ afterCrash' = MayLeave(crashes, afterCrash \cup {Absent})
          /\ Answer(c, "ok", NoPin)

-----------------------------------------------------------------------------
(* The environment. *)

(* Another program creates, changes or deletes the file. *)
ExternalEdit ==
    /\ externals < MaxExternal
    /\ externals' = externals + 1
    /\ \E f \in File \ {file} :
          /\ file' = f
          /\ afterCrash' = MayLeave(crashes, afterCrash \cup {f})
    /\ folder' = IF folder = "missing" THEN "new" ELSE folder
    /\ acked' = FALSE
    /\ owner' = NoClient
    /\ Disturb(Busy)
    /\ UNCHANGED <<lock, pc, callVars, temp, ans, token, stored, crashes, suffix>>

(* The folder after a power loss that leaves f: with its entry goes all    *)
(* that was in it, and what is there afterwards is on the disk.            *)
FolderLeft(f) ==
    CASE folder # "new" -> {folder}
      [] folder = "new" /\ f = Absent -> {"missing", "durable"}
      [] folder = "new" /\ f # Absent -> {"durable"}

(* Power loss: calls and locks are gone, their callers get no answer.      *)
(* Temporary files stay behind under names that are never used again.      *)
Crash ==
    /\ crashes < MaxCrashes
    /\ crashes' = crashes + 1
    /\ \E f \in afterCrash :
          /\ file' = f
          /\ afterCrash' = MayLeave(crashes + 1, {f})
          /\ acked' = (acked /\ f = file)
          /\ folder' \in FolderLeft(f)
    /\ owner' = NoClient
    /\ lock' = NoClient
    /\ pc' = [c \in Clients |-> "idle"]
    /\ req' = [c \in Clients |-> NoReq]
    /\ raw' = [c \in Clients |-> Unread]
    /\ creating' = [c \in Clients |-> FALSE]
    /\ temp' = [c \in Clients |-> "none"]
    /\ ans' = [c \in Clients |-> "none"]
    /\ token' = [c \in Clients |-> NoPin]
    /\ stored' = [c \in Clients |-> FALSE]
    /\ stale' = [c \in Clients |-> FALSE]
    /\ raced' = [c \in Clients |-> FALSE]
    /\ UNCHANGED <<externals, suffix>>

-----------------------------------------------------------------------------
(* The steps the server takes by itself once a call has begun. *)
Progress(c) ==
    \/ PrepareFullWrite(c) \/ CheckExists(c)
    \/ AcquireLock(c) \/ LockTimeout(c)
    \/ Exists(c) \/ Read(c)
    \/ MakeParent(c) \/ Check(c) \/ SyncTemp(c) \/ Recheck(c)
    \/ LinkCommit(c) \/ UnlinkTemp(c) \/ RenameCommit(c)
    \/ SyncParent(c) \/ Final(c) \/ Remove(c)
    \/ Release(c)

Next ==
    \/ \E c \in Clients :
          Call(c) \/ Progress(c) \/ StorageError(c)
    \/ ExternalEdit
    \/ Crash

Spec == Init /\ [][Next]_vars

(* A worker thread keeps running, and a lock is waited for at most five    *)
(* seconds.                                                                *)
FairSpec == Spec /\ \A c \in Clients : WF_vars(Progress(c))
-----------------------------------------------------------------------------
(* Properties. *)

(* The step at which the call of client c takes effect on the file. *)
TakesEffect(c) == ~stored[c] /\ stored'[c]

(***************************************************************************)
(* A tool never replaces or removes content other than the content its     *)
(* result was computed from: of two read-modify-write calls on one note,   *)
(* neither drops the other's edit.  This is what the lock together with    *)
(* _write_atomic's two checks is for.                                      *)
(***************************************************************************)
NoLostUpdate ==
    [][\A c \in Clients : TakesEffect(c) /\ Locks(c) => file = raw[c]]_vars

(***************************************************************************)
(* When another program edits the file, an edit can only be lost in the    *)
(* window after the tool's last look at the file (_write_atomic's second   *)
(* revision check, delete_note's revision check).                          *)
(***************************************************************************)
LossOnlyInCommitWindow ==
    [][\A c \in Clients :
          TakesEffect(c) /\ Locks(c) /\ file # raw[c] => raced[c]]_vars

(***************************************************************************)
(* create_only, and every tool that found no file, attachments included,   *)
(* never overwrites a file that appeared meanwhile, whoever created it:    *)
(* os.link refuses.                                                        *)
(***************************************************************************)
CreateNeverOverwrites ==
    [][\A c \in Clients :
          TakesEffect(c) /\ (CreateOnly(c) \/ creating[c]) => file = Absent]_vars

(***************************************************************************)
(* In strict mode, what changes an existing file without expected_revision *)
(* is an incremental tool, which protects the version it has read itself,  *)
(* or the upload of an attachment, which takes no revision and replaces    *)
(* whatever is there.  No other tool does, even when the file appears or   *)
(* is replaced while the call runs.                                        *)
(***************************************************************************)
StrictOverwritesArePinned ==
    [][\A c \in Clients :
          Strict /\ TakesEffect(c) /\ file # Absent /\ req[c].pin = NoPin
             => req[c].kind \in {"append", "patch", "attach"}]_vars

(***************************************************************************)
(* A call with expected_revision takes effect only on the bytes that the   *)
(* revision names.                                                         *)
(***************************************************************************)
PinHonoured ==
    [][\A c \in Clients :
          TakesEffect(c) /\ req[c].pin # NoPin => file = req[c].pin]_vars

(***************************************************************************)
(* revision_conflict is only reported when the file really moved: it was   *)
(* not what the caller named when the call began, or it changed during the *)
(* call.  Temporary files, the second check and the lock never cause a     *)
(* conflict by themselves.                                                 *)
(***************************************************************************)
NoSpuriousConflict == \A c \in Clients : ans[c] = "conflict" => stale[c]

(***************************************************************************)
(* The answer tells the caller whether the file was changed: a success     *)
(* only for a call that took effect, a refusal only for one that did not.  *)
(* Only an I/O error leaves it open (an fsync can fail after the commit).  *)
(***************************************************************************)
AnswerTellsEffect ==
    \A c \in Clients :
        /\ ans[c] = "ok" => stored[c]
        /\ ans[c] \notin {"none", "ok", "error"} => ~stored[c]

(***************************************************************************)
(* The steps between acquire_lock and release are never taken by two calls *)
(* at once, and no exit path (exception, dry run, refusal) keeps the lock. *)
(* A temporary file outlives its call only when the caller is told of an   *)
(* I/O error: successes, refusals and conflicts leave none.                *)
(***************************************************************************)
LockedSteps == {"exists", "read", "check", "sync_temp", "recheck", "commit",
                "unlink_temp", "sync_parent", "final", "remove"}

TempSteps == {"sync_temp", "recheck", "commit", "unlink_temp"}

LockDiscipline ==
    \A c \in Clients :
        /\ pc[c] \in LockedSteps /\ Locks(c) => lock = c
        /\ lock = c => pc[c] \in LockedSteps \cup {"release"}
        /\ temp[c] # "none" => pc[c] \in TempSteps \/ ans[c] = "error"

(***************************************************************************)
(* Content that a caller was told is stored survives a power loss, because *)
(* its directory is synced before the answer - unless a call made that     *)
(* directory: its own entry is never synced, so all of it can be gone, and *)
(* only all of it, never an older or another content in its place.  And a  *)
(* power loss never leaves a partly written note, because the temporary    *)
(* file is synced before it gets the note's name.                          *)
(***************************************************************************)
AcknowledgedIsDurable ==
    /\ acked => \A f \in afterCrash : f = file \/ (folder = "new" /\ f = Absent)
    /\ Torn \notin afterCrash

(***************************************************************************)
(* The revision in the answer of a write names the bytes that this write   *)
(* stored, although it is read back from the path after the commit: the    *)
(* path's lock is still held.  It holds without edits of programs that do  *)
(* not take the lock, whose bytes the revision may name otherwise.         *)
(***************************************************************************)
RevisionIsOfOwnWrite ==
    \A c \in Clients :
        pc[c] = "release" /\ ans[c] = "ok" /\ token[c] # NoPin
           => token[c] = New(c)

(***************************************************************************)
(* Every tool call returns, however the calls of others interleave: nobody *)
(* waits for a lock for ever.                                              *)
(***************************************************************************)
EveryCallReturns == \A c \in Clients : pc[c] # "idle" ~> pc[c] = "idle"

(***************************************************************************)
(* Without edits by other programs the protocol implements the conditional *)
(* file: every call takes effect in one step on content its preconditions  *)
(* hold for, or it is refused and changes nothing.                         *)
(***************************************************************************)
absPhase ==
    [c \in Clients |->
        IF pc[c] = "idle" THEN "idle" ELSE IF stored[c] THEN "done" ELSE "pending"]

Abs == INSTANCE ConditionalFile WITH phase <- absPhase

ImplementsConditionalFile == Abs!AbsSpec
=============================================================================
