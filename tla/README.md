# A verification project for brain-mcp

brain-mcp is a Model Context Protocol server that lets clients read and change
Obsidian vaults. These TLA+ modules model the parts of it where several actors
meet: tool calls in worker threads, other programs that edit the same files,
operations on several notes, the index and the threads that maintain it, the
watcher's timers, and requests of several identities. TLC checks them on small
instances (`*.cfg`), and TLAPS proves the main results for every value of the
constants (`*_proofs.tla`). Paths below are relative to `src/src/obsidian_mcp/`.

    tlc -workers 4 -config AtomicWrite_tools.cfg MCAtomicWrite.tla
    tlapm AtomicWrite_proofs.tla

## The system

| Component | State it keeps | Operations | Meets |
|---|---|---|---|
| Single-file writes (`storage/filesystem.py`, `revisions.py`, `locking.py`, `tools/write.py`, `templates.py`, Kanban, canvas, Excalidraw, bases) | the file, a lock file per path in `LOCK_PATH`, a temporary file | write, append, patch, tag, create from template, delete, attach (which replaces) | other calls, other servers on the same `LOCK_PATH`, other programs, power loss |
| Multi-note operations (`tools/write.py`, `tools/folders.py`) | several locks at once | find_replace_in_vault, move_note, rename_folder, create_folder, delete_folder | single-file writes, each other, the index |
| Trash (`filesystem.trash`, `restore`) | `.trash/` | delete, restore_note, restore_folder, list | moves, other deletions |
| Vault index (`domain/index.py`) | revisions, outlinks, backlinks, tags, aliases, block ids, ready flag, two locks | build, update, remove, reconcile, mark_ready, queries | tools, watcher timers, start-up and sweep threads, the vault |
| Watcher (`storage/watcher.py`) | pending debounce timers, mtimes of the last poll, stop flag, threads | start, event, deliver, poll, sweep, stop | file system events, `index.update`, `index.reconcile` |
| Access policy (`storage/policy.py`) | rules, a cache of policies per identity | canonicalize, permits_read, permits_write, merge | every storage access |
| Vault selection and authentication (`server.py`, `config.py`) | context variables, tokens | choose and reset vault and identity per call | every tool |
| Attachment tokens and route (`server.py`, `tools/attachments.py`) | signed expiring tokens | sign, check, upload, download | single-file writes |
| Queries (`tools/query.py`, `tools/read.py`) | none: they filter one index for each identity | notes, backlinks, orphans, link graph, tags, tasks, search | index, access policy |
| Audit log (`storage/audit.py`) | a JSONL file and its lock | append, read | every logged tool |
| Parser, envelope, prompts | none | pure functions of text and index | index |

What is hard in it: read-modify-write calls that race with each other and with
programs that know nothing of the locks; checks made before a system call and
used after it; power loss between system calls; operations on several notes
that plan without locks, take several, and can fail half way; an index
maintained from several threads through events that can be lost, late or
overtaken; timers that are cancelled while they go off; one index that serves
identities with different rights. `PROJECT.json` lists these hazards with their
lines and the properties that would catch them going wrong.

What makes each component correct:

* writes: no edit of a tool call is lost; creation never overwrites;
  `expected_revision` pins the bytes; a success means stored and durable, a
  refusal means untouched; every call returns and leaves no lock behind;
* multi-note operations and trash: what is rewritten is locked, what was edited
  under those locks is not lost, answers tell what was done, no note disappears
  but by the ways the code leaves open, and waiting for each other ends;
* index: the derived maps agree with the recorded revisions, hidden notes are
  never in it, ready means complete, and it converges to the vault;
* watcher: every change is delivered after it happened, nothing after stop;
* policy: an override never widens what the vault allows, deny rules win, whole
  folders are only moved or deleted if everything in them may be;
* selection: a call only ever sees the vault and the identity it was given;
* queries: they show what their identity could read one by one, and nothing that
  only others' notes could tell.

## Modules

| Module | Models | Extends |
|---|---|---|
| `NoteContent` | what a tool computes from what it read; requests and their preconditions | |
| `ConditionalFile` | abstract: a call takes effect in one step on content it accepts, or is refused | `NoteContent` |
| `AtomicWrite` | one file and its folder: lock, preparation, reads, `_write_atomic` by system call, delete, attachments, other programs, power loss | `NoteContent` |
| `VaultTree` | the vault's tree: deletions, restores, moves, folder renames, replacement in all notes, with several locks at once | |
| `VaultIndex` | the index of one vault and the threads that maintain it | |
| `Watcher` | observer and polling thread, debounce timers, `stop()` | |
| `PathPolicy` | the rules of `storage/policy.py` as operators: matching, merging, the walk of `list_files` | |
| `AccessControl` | requests, identities, vaults, what they read, write, list, query, delete and move, attachment tokens, restarts of the server | `PathPolicy` |
| `AtomicWrite_proofs`, `VaultTree_proofs`, `VaultIndex_proofs`, `Watcher_proofs`, `PathPolicy_proofs`, `AccessControl_proofs` | theorems | the module of that name (the last also `PathPolicy_proofs` and `Induction_proofs`) |
| `Induction_proofs` | induction on the naturals, of sets; iterated functions | |
| `MCAtomicWrite`, `MCVaultTree`, `MCVaultIndex`, `MCWatcher`, `MCAccessControl` | small instances for TLC | the module of that name |

The modules meet at these seams. `VaultTree` takes another tool's write of one
note as one step, and that is what `AtomicWrite` shows of it, by refinement of
`ConditionalFile`; its own rewrites are two steps, because between the opening of
a note's parent and the commit the folder can be renamed. What calls tell the
index once their locks are gone is left to `VaultIndex`, where `update` and
`remove` are taken apart. `Watcher` ends where it calls `on_change`; `VaultIndex` begins
there, with events that may also be lost. `AccessControl` decides which paths
the others are ever asked for, and shows what queries make of the index.

### Single-file writes: `AtomicWrite`

`file` is the content of one path, `Absent` when there is none. A content is
the set of edits it holds, which is what tells a lost update from a kept one;
some edits are frontmatter, because `write_note` carries the old frontmatter
over. A revision token is the SHA-256 of the bytes, so it is modelled by the
content itself: equal tokens mean equal bytes.

A client is one call in a worker thread, of this server or of another that
shares `LOCK_PATH`. `pc` names the next system call: `prepare`
(`prepare_full_write`, or the existence check that `patch_frontmatter` and
others make before the lock), `acquire` (`acquire_lock`, with its five-second
timeout), `exists` and `read` (what the tools look at under the lock),
`check`, `sync_temp`, `recheck`, `commit`, `unlink_temp`, `sync_parent`,
`final` (`_write_atomic`), `remove` (`delete_note`) and `release` (the
`finally` blocks). Every step before `release` can also fail with an I/O error.
`raw` is the content the call is pinned to, passed to `_write_atomic` as
`expected_revision`, and `Absent` stands for `create_only`.

`temp` is the temporary file. The `finally` block of `_write_atomic` removes it
unless `committed` is set, and that is set between `os.link` and the `unlink`: if
the `unlink` fails the file stays and the caller gets an error for a note that
is stored (`Committed`, `Leftover`). A file that has been left is never used again.

An attachment takes no lock and no revision (`write_attachment_bytes` calls
`write_bytes_atomic` with neither): it pins nothing, and replaces the file that
has its name by then. Only when the first look of `_write_atomic` finds no file
is it committed by `os.link`, which replaces nothing.

`afterCrash` is the set of contents the path may hold after a power loss:
rename and link add the new content, fsync of the directory leaves only that.
`folder` is the directory the file lies in. `_opened_write_parent` makes it when
it is missing (`MakeParent`), and nobody syncs the directory which the new one is
entered in: after the fsync of the file's parent a power loss can still take
the new folder with all that is in it. A folder that was there at the start is
taken to be on the disk.
`stored`, `stale`, `raced`, `owner` and `acked` are history variables used by
the properties only.

Three things that follow from this, which a reader of the documentation may not
expect:

* acknowledged content is durable only if the folder was not made for it
  (`AcknowledgedIsDurable` says exactly this);
* `CHANGELOG.md`, lines 79-80, describes `REQUIRE_WRITE_PRECONDITIONS` as
  requiring `expected_revision` on every overwrite. Attachments take no revision
  (`tools/attachments.py:126`) and are overwritten in strict mode too, and the
  incremental tools (append, patch) may be called without one; they protect the
  version they have read themselves. `StrictOverwritesArePinned` is therefore
  stated for the other tools;
* of two uploads under one name the later one wins, whatever it was computed from.

### The tree: `VaultTree`

A directory is its inode, and holds notes and directories by name. A call that
has opened a parent (`src`, `dst`: a directory and a name in it) keeps it when
the folder is renamed or removed, as the code's directory descriptors do. A note
has an identity, the edits it has received and its wikilink.

A call goes through `scan` (read every note, without locks, and put those with a
link to rewrite into `plan`), `lock` (the lock of each planned note, in any
order, since two calls may list the directories differently, and the lock of the
call's own path; any wait may end in the timeout), `write` and `commit` (one
planned note after the other, from what the scan read, with no expected
revision: the parent is opened, and made again if it is missing, and the commit
then happens in the directory that was opened, whatever its path by then, by
`os.link` for a note that was missing and by `os.rename` for the others), `look`
(open the parents, see that the target is free), `rename` (`os.rename`, which
replaces a note or an empty directory and refuses to move a directory to below
itself or into one that is gone), or `remove` (permanent deletion, a folder entry
by entry and then `rmdir`), and `release`. Which steps it takes depends on its
kind: `delete` (note or folder, to the trash or for good), `restore`, `move`,
`rename` (a folder) and `replace`. Any step on the file system can fail.
The environment is every other tool that edits or creates one note under its
lock, and `create_folder`, which takes none.
`done`, `raced`, `late` and `trashed` are history variables.

What the model shows beside its properties, and a reader should know:

* `move_note` rewrites links by stem but not `[[folder/x]]` without `.md`,
  although its description in `server.py` speaks of all wikilinks;
* a rewrite stores what was read before the lock was taken: it undoes an edit
  made in between, and brings back a note that was moved or deleted in between;
* a lock is on a path. When a folder is renamed while a note in it is being
  rewritten, the rewrite lands in the renamed folder and discards what was edited
  there under the new path, whose lock nobody asked it for.
  `LossOnlyBeforeLock` speaks of edits under the path that was locked;
* `restore_folder` takes no lock; `rename_folder` locks the folder's path, and
  the notes it rewrites, but not the notes that move;
* a call can answer with an error after some of its notes were rewritten;
  `AnswerTellsEffect` promises something of successes and lock timeouts only.

### Vault index: `VaultIndex`

A step is one access to the file system or one critical section under `_lock`;
`mutation` is `_mutation_lock`. `Boot` runs `initialize_index` of
`server.main`: build, start the watcher, reconcile, mark ready. `Sweeper` is
the periodic thread. `Updaters` are tool calls and debounce timers, which call
`update` or `remove` after a change. Every change of a note's file may or may
not leave an event. Links, tags and aliases of a content are functions given as
constants; names are lower case, as the index stores them. A content in
`Unreadable` stands for a file whose read raises an error.

### Watcher: `Watcher`

A version of a note stands for its content and mtime; `view` is the version that
`on_change` has read last. With `mode` observer, `events` are what inotify has
told and `handling` the paths of an event (two for a rename) still to be passed
on; with `mode` poll, `mtimes` are those of the last completed round, `current`
those of this one and `todo` what it has still to look at or to report. With
`debounce`, a change cancels the path's pending timer and starts another, one
step, since `_debounce_lock` is held. A timer that goes off runs through
`popping` (`_pending.pop`, under the lock), `checking` (the stop event) and
`calling`; `Timer.cancel` only works before that. So a timer can pop the entry
of a newer one, which later events then do not cancel and `stop()` does not
find; the properties say what remains true all the same. `stop()` collects the
pending timers, cancels them, and joins the observer; no tool of the server
calls it. A poll can miss an entry whose stat fails, or end half way with an
exception. `lost` records what polling cannot see by comparing mtimes: a note
that is gone before the first round, and a change that takes a path back to an
mtime that was seen. The periodic sweep, which is in `VaultIndex`, repairs both.

### Access control: `PathPolicy` and `AccessControl`

`PathPolicy` takes canonical paths as sequences of components, so that "starts
with `Notes/`" is a proper prefix. A rule is a scope and whether it ends in a
slash. `Fold` is `str.casefold` of a component: deny rules are compared folded,
allow rules as spelt. `Discovers` is the walk of `list_files`: the folder itself
and every folder on the way must pass with `allow_ancestor`, the file without.

In `AccessControl` a call is one request in its own asyncio task. Admission
(`OnCallTool`, `OnReadResource`, `AttachmentByBearer`, `AttachmentByToken`)
chooses a vault and sets the context variables of the task; every later access
looks them up again, and `Return` is the `finally` block. A refused request is
no step. `done` is the last access that was granted:

* `ResolveRead`, `ResolveWrite`: one path; `CreateAttachmentToken`, `Download`,
  `Upload`: attachments, by bearer or by token;
* `Delete`, `Move`: a note or a whole folder. `TreePaths` is what
  `_authorize_resolved_tree` walks, `Authorizes` the right to write each of
  these here and under the new name, `CrossesProtected` the deny rules that
  name something below the folder;
* `ListFiles`, `ListFolder`: the listed folder must itself be readable
  (`Listable`: `storage.exists` and `stat` make no allowance for a folder that
  only leads to a read scope), below it the walk goes through such folders; names
  that start with a dot are left out, the second has a depth;
* `QueryIndex`, `QueryOrphans`, `QueryGraph`: what `ReadScope` leaves of the
  index. `Walk` is the breadth-first search of `get_link_graph`, in each
  direction. A link target is a path as it is written, or a stem. Going out, a
  target is what the alias map makes of its stem, or else the target itself
  (`Resolved`); coming in, it counts if it is one of the note's own names or an
  alias key that leads to the note (`Backlinks`). The two need not agree, and a
  name that several notes share leads to one of them or, after a removal, to
  none: `Indexes` are all alias maps an index may have. `exclude_folders` of the
  caller is left out.

`Start` loads any acceptable `vaults.json` and `Stop` drops all requests, but
tokens stay with the clients. HMAC is taken as perfect: a signature verifies iff
key and signed fields are equal, and the signed fields are those of
`_sign_attachment_token`. `who`, `want`, `via` and `since` record what a request
came with; the properties judge by them, the server decides by `context`. The
index holds what `list_files` finds under the vault's own policy;
`exclude_paths`, which narrow the index further for everyone, are the hidden
notes of `VaultIndex`.

Three rules of the code that a reader may not expect: an exact deny rule that
names a folder hides the files below it from listings, index and search,
although each can be read by its path (`docs/configuration.md`, lines 20-22, says that
exact entries deny only the exact path; `ListingComplete` excepts these files); a folder that only leads to a read scope cannot be listed itself; and
the look for protected names in a folder that is to be moved or deleted minds the
case, while deny rules otherwise do not.

## Runs

| Run | Instance | Question |
|---|---|---|
| `write_tools` (`AtomicWrite_tools.cfg`) | 2 callers, every locking tool, 2 edits | no lost update, atomicity, truthful answers and revisions, lock discipline |
| `write_external` (`AtomicWrite_external.cfg`) | the same and attachments, strict mode, 1 edit by another program | what can be lost, and only when; creation never overwrites, nor do the tools that take a revision without one |
| `write_crash` (`AtomicWrite_crash.cfg`) | 2 callers appending, deleting and attaching without pins, 1 power loss, fairness | durability, every call returns |
| `write_pin` (`AtomicWrite_pin.cfg`) | expected violation | a pinned write can replace a foreign edit |
| `tree_operations` (`VaultTree_operations.cfg`) | any 2 of 11 operations, 2 folders, 2 notes of one name, 1 edit by others, fairness | locks of several notes, answers, what vanishes and what edits are lost, mutual waiting ends |
| `tree_trash` (`VaultTree_trash.cfg`) | expected violation | of two notes deleted at once, one is gone for good |
| `index_threads` (`VaultIndex_threads.cfg`) | 2 notes with one stem, 2 updaters, 2 changes | agreement, completeness of ready |
| `index_hidden` (`VaultIndex_hidden.cfg`) | 2 notes, one hidden, an unreadable content, 1 updater, 2 changes, fairness | hidden notes, completeness, convergence |
| `index_stem` (`VaultIndex_stem.cfg`) | expected violation | a stem can stop resolving |
| `watcher` (`Watcher_changes.cfg`) | 2 paths, one hidden, both modes, with and without debounce, 2 timers, fairness | no change is forgotten, each is reported, silence after stop |
| `access_policy` (`AccessControl_policy.cfg`) | 1 vault, 1 identity, 450 pairs of policy and override, 4 files, 2 links | what is read, written, listed, found, walked, deleted and moved is what both permit |
| `access_requests` (`AccessControl_requests.cfg`) | 2 vaults, 2 identities, 2 requests, 1 token, clock to 2, 1 restart | requests keep their vault and identity; what a token is good for, and for how long |

The longest take one to three minutes with two workers (`write_tools`, 1,280,100
states; `write_external`, 3,314,046; `write_crash`, 313,218; `access_requests`,
217,311; `watcher`, 937,793; `tree_operations`, 103,036; `access_policy`, 26,367).

Bounds. Two callers are enough for every race on one file, because each
property speaks of one call and whatever changed the file under it, and the
other caller can make any number of calls. Two edits distinguish body from
frontmatter and one's own edit from the other's. `MaxExternal` bounds edits of
other programs: one is enough to separate any two steps of a call. `MaxCrashes`
is one: after a power loss every variable but the file is as at the start.

In `VaultTree` every unordered pair of the eleven operations runs, an operation
with itself included. The notes `a` and `F/a` both link to that name, so that
moves, renames and replacements rewrite what others move, delete and rewrite,
and two calls can wait for each other's locks. One edit by others (`MaxEdits`)
separates any two steps of a call; an I/O error is possible at each. A third
call would add deeper chains of the same pairs; where that could matter it is
said below.

`MaxEdits` of `VaultIndex` bounds changes of the vault and failures of
`list_files`: two let a note change, and change back or disappear, within one
operation. Two notes share a stem so that they meet in the alias map.
In `Watcher`, two timers let one pop the other's entry, and a hidden path makes
renames appear and disappear; three versions (`MaxVersion`) are a note and two
writes of it, the second of which overtakes the news of the first. One rename or
removal (`MaxMoves`) and one error of a poll (`MaxErrors`) can fall between any
two steps.

The policies of `AccessControl_policy.cfg` combine recursive and exact rules on
a folder, a folder in it and a file of each, and deny rules spelt in another
case, one of them an exact rule on a folder with a readable file; a third level
would add no new relation between a path and two rules. The link of the innermost
file names the file above it by folder and stem, and that one names all three
notes with their common stem, so that the chain to the file in the root passes
through a note that can be hidden, and the alias map has to choose. One
restart (`MaxStarts` 2) takes a token from any configuration to any other, in
which its identity has lost the vault, has a narrower policy or another default;
the clock (`MaxTime`) passes the longest life of a token (`MaxTtl`), and life
times below and above the limits are asked for (`Ttls`). One token (`MaxTokens`)
is enough, since each is judged alone. The theorems have no bounds.

Deadlock is checked for `AtomicWrite`. It is not for `VaultIndex`: when
`list_files` fails during start-up the thread ends, no watcher runs, and with
the bound on changes used up nothing is left to do; for `AccessControl`: the
server may stay stopped when its starts are used up; for `VaultTree`: a workload
is finitely many calls, all of which return, which `EveryCallReturns` says; for
`Watcher`: after `stop()` and the last change nothing is left to do.

Fairness. `AtomicWrite` and `VaultTree` let a worker thread that can take a step
take one in the end (weak fairness of `Progress`), which the thread pool and the
lock's timeout justify; nothing is assumed of callers, other tools or other
programs. `Watcher` lets timers go off and the observer's and the polling thread
run (weak fairness of their steps); changes, errors and `stop()` have none.
`VaultIndex` is strongly fair for each thread, because waiting for
`_mutation_lock` is interrupted by other holders: the sweep waits
`INDEX_RECONCILE_INTERVAL` without the lock between two sweeps, so the lock is
free again and again and long enough.

Expected violations, described under "findings" in `PROJECT.json`: a pinned
write can still discard an edit made between the second revision check and
`os.rename`; removing a note drops the stem of another note with the same stem
and no sweep repairs it; two deletions of notes with one name find the same name
free in `.trash`, and the second rename replaces what the first has moved there.

## Proofs

`AtomicWrite_proofs` proves for any set of callers, edits and requests, and any
number of foreign edits and power losses: types, the lock discipline and mutual
exclusion, durability, that conflicts are real, that answers are truthful, that
edits are lost only in the commit window, that creation never overwrites, that
in strict mode the tools that check for a revision overwrite only with one.
Without foreign edits no update is lost and the revision a write returns is that
of the bytes it stored; without power loss either, the protocol implements
`ConditionalFile`. The assumptions are those of the module: sentinels are no
contents. That attachments and the tools that lock do not meet on one path is
part of the model (`Fits`): the suffixes they accept are disjoint.

The inductive invariant `IInv` says for each program counter what the call
holds. A lock-free statement such as `NoLostUpdate` is not inductive: it needs
that a call past `recheck` has seen the file equal to what it read, that
nothing but a call with the lock or another program changes it since (`raced`),
and that only one call is between `acquire` and `release`. Durability needs
that `temp` is synced from `recheck` on, so that a torn file never gets the
name, that the owner of an acknowledged content has passed `sync_parent`, and
that only a folder that is new can be lost with what is in it.
`RevisionSafe` adds `OwnInv`: from its commit to its final read a call finds in
the file what it stored, because the lock keeps out every other call that could
store on a path of that suffix.

`VaultTree_proofs` is about any vault, any calls and any number of edits: types,
the lock discipline, truthful answers, and that rewrites discard no edit made
under the path of a lock the call already had. Its invariant says for each step
what the call holds of locks, plan and opened parents, what it has rewritten so
far, and that the locks it believes in are its own, so that nobody else edits
notes under these paths (`late` stays empty).

That a note disappears in no other way than `NothingVanishes` lists rests on
`LossInv`: the name a rename goes to holds no note unless it has been taken since
the call looked (`raced`), and a permanent deletion has a folder open. What is
lost was at an entry that changed, unless a folder lost its name with notes in
it; a rename replaces only empty folders and finds its target directory still
linked, so a folder that loses its name holds nothing. The theorem needs no bound
on the number of calls.

The assumptions: names of notes, folders and suffixed names differ, and sentinels
are distinct. Any tree may be there at the start.

`VaultIndex_proofs` proves types, that only the holder of the mutation lock is
inside a locked operation, that the maps agree in every state, and that hidden
notes never get in. The invariant needs that a note which is about to be indexed
has no entry: this is what the second removal in `_update` and the one in
`_reconcile` are for, and it holds only because the mutation lock keeps others
from adding one; `remove` without that lock does no harm here. That ready means
complete (`ReadySafe`) rests on a second invariant, `ReadyInv`: who holds the
mutation lock in which step, in which order start-up goes, how far a sweep has
come, and that a note which has not changed (`changed`) and which it has passed is
indexed as it is, or is in the hand of the thread that has still to store it.

`Watcher_proofs` proves types, that no change is forgotten and that nothing
comes after `stop()`, for any paths, timers, changes and errors. `pending` always
names a live timer of that path; and for each note that `on_change` has not read
since it changed, the invariant names who is going to report it, which in the
middle of a poll's reports includes the notes already passed on, until the round
ends and its mtimes are kept.

`PathPolicy_proofs` is about the operators, for paths of any length: with an
override that passes the start-up check, `merged_with` permits a read or a write
iff the vault's policy and the override both do (the check `rule_covers_rule`
implies that whatever an override rule reaches some rule of the vault reaches);
a path that is not denied has no denied case variant; the walk of `list_files`
reaches every readable file unless an exact rule denies a folder on the way.
`AccessControl_proofs` proves all properties of the runs,
for any number of vaults, identities, requests, tokens and restarts. Its
invariant ties the context variables of a request to what it came with, and
says that the loaded configuration was accepted: `merged_with` alone replaces an
allowlist by the override's, and is an intersection only because of the check at
start-up. A token in hand is proved good only for the configuration that runs
when it is used. Queries are proved to show what their identity could read, and
orphans to be counted by visible links only; folder operations to be authorized
entry by entry at both places; listings to be complete but below folders that an
exact deny rule names. That the link graph only shows what is on visible chains of
the given length is induction on the rounds of the search: after `n` rounds the
set holds what `n` links lead to. That it shows all of them is not claimed: an
alias key leads to one of several notes, or to none (`index_stem`). The library's induction theorem takes a predicate, which the
provers cannot instantiate; `Induction_proofs` gets induction over sets from the
least element of a set of naturals, and with it that the recursive function that
iterates a step exists. The assumptions: `Fold`
is idempotent, sentinels are distinct, files are not the root, `MaxTtl` is
positive.

Only model-checked: the four liveness properties (`EveryCallReturns` of
`AtomicWrite` and of `VaultTree`, `Converges`, `EveryChangeReported`), for which
TLAPS has no rules here. Every invariant and action property of a passing run is
stated by a theorem.

## Not modelled

* Audit log: one append under a lock and a reader without it; what the reader
  makes of a partial last line is JSON parsing.
* Parser, Kanban, canvas, Excalidraw, bases, patch operators, templates: text
  transformations. They store through the helpers that `AtomicWrite` models;
  `VaultIndex` takes links, tags and aliases as functions of a content.
* Result envelope, prompts, tool registration: nothing keeps state.
* Directory events: `on_change` with a directory's path, and what
  `VaultIndex.update` makes of it (`_remove_descendants`, the recursion). The
  block index is kept like outlinks and left out.
* What `move_note`, `rename_folder`, `restore` and the deletions tell the index
  when they are done: which paths, in which order, and that `rename_folder` and
  `delete_folder` leave entries to a directory event or the next sweep.
* Of paths: canonicalization of the strings clients send, symbolic links, the
  switch for permanent deletion. In `VaultTree` folders lie directly in the
  vault: a nested folder adds a longer path and no other step.
* Of configuration: environment variables, JSON parsing, single-vault mode (one
  vault, no identities: `AccessControl` with nothing to select), OAuth itself.
* Tags, tasks, statistics, full-text search, similarity and lint: they filter as
  the modelled queries do and format more. Size limits and base64 of attachments.
* Scripts, container files and tests.
