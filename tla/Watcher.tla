------------------------------- MODULE Watcher -------------------------------
(***************************************************************************)
(* VaultWatcher (storage/watcher.py): watchdog's observer thread or the    *)
(* polling thread finds that notes have changed, debounce timers delay the *)
(* news, and on_change, which is VaultIndex.update, reads the note.  The   *)
(* reconciliation thread, which calls VaultIndex.reconcile again and       *)
(* again, is the Sweeper of VaultIndex.                                    *)
(*                                                                         *)
(* A version of a note stands for its content and its mtime.  Every write  *)
(* gives a new one; a rename takes it along.  inotify may lose events,     *)
(* which VaultIndex models; here it does not.                              *)
(***************************************************************************)
EXTENDS Naturals, FiniteSets

CONSTANTS
    Paths,        \* paths of Markdown notes
    Hidden,       \* those the policy denies
    Timers,       \* threading.Timer objects, numbered
    NoTimer, NoPath,
    MaxVersion,   \* bound on writes
    MaxMoves,     \* bound on renames and removals
    MaxErrors     \* bound on errors of a poll

ASSUME WatcherAssumption ==
    /\ Hidden \subseteq Paths /\ NoPath \notin Paths
    /\ Timers \subseteq Nat /\ NoTimer \notin Timers
    /\ MaxVersion \in Nat \ {0} /\ MaxMoves \in Nat /\ MaxErrors \in Nat

Absent == 0
Version == 0..MaxVersion

VARIABLES
    mode,       \* "observer" or "poll"; never changes
    debounce,   \* _debounce_seconds > 0; never changes
    file,       \* the version at each path, Absent if there is none
    view,       \* the version that on_change has read there last
    events,     \* what inotify has told the observer of
    handling,   \* the paths of an event that the handler has still to pass on
    timer,      \* per timer: its path and how far it has come
    pending,    \* _pending
    mtimes,     \* of the last poll that was completed
    current,    \* of this poll, as far as it has come
    todo,       \* the paths that this poll has still to look at or pass on
    polling,    \* the next step of the polling thread
    stopper,    \* the next step of stop(), "no" before it is called
    doomed,     \* the timers that stop() is going to cancel
    lost,       \* history: paths whose last change polling cannot see
    newest, moves, errors

fileVars == <<file, lost, newest, moves>>
timerVars == <<timer, pending>>
pollVars == <<mtimes, current, todo, polling, errors>>
observerVars == <<events, handling>>
stopVars == <<stopper, doomed>>
configVars == <<mode, debounce>>

vars == <<mode, debounce, file, view, events, handling, timer, pending, mtimes,
          current, todo, polling, stopper, doomed, lost, newest, moves, errors>>

TimerState == {"unused", "armed", "popping", "checking", "calling"}

Running == stopper = "no"

TypeOK ==
    /\ mode \in {"observer", "poll"} /\ debounce \in BOOLEAN
    /\ file \in [Paths -> Version]
    /\ view \in [Paths -> Version]
    /\ events \subseteq SUBSET Paths
    /\ handling \in SUBSET Paths
    /\ timer \in [Timers -> [path : Paths \cup {NoPath}, state : TimerState]]
    /\ pending \in [Paths -> Timers \cup {NoTimer}]
    /\ \A p \in Paths : pending[p] # NoTimer => timer[pending[p]].path = p
    /\ mtimes \in [Paths -> Version]
    /\ current \in [Paths -> Version]
    /\ todo \in SUBSET Paths
    /\ polling \in {"list", "report", "wait", "ended"}
    /\ stopper \in {"no", "collect", "cancel", "join", "stopped"}
    /\ doomed \in SUBSET Timers
    /\ lost \in SUBSET Paths
    /\ newest \in Version
    /\ moves \in 0..MaxMoves
    /\ errors \in 0..MaxErrors

(* What the watcher's policy lets anyone see of a path. *)
Visible(p) == IF p \in Hidden THEN Absent ELSE file[p]

Listed == Paths \ Hidden

Unused == [path |-> NoPath, state |-> "unused"]

(* The index has just been built from the files. *)
Init ==
    /\ mode \in {"observer", "poll"} /\ debounce \in BOOLEAN
    /\ newest = 1
    /\ file \in [Paths -> {Absent, newest}]
    /\ view = [p \in Paths |-> Visible(p)]
    /\ events = {} /\ handling = {}
    /\ timer = [t \in Timers |-> Unused]
    /\ pending = [p \in Paths |-> NoTimer]
    /\ mtimes = [p \in Paths |-> Absent]
    /\ current = [p \in Paths |-> Absent]
    /\ todo = IF mode = "poll" THEN Listed ELSE {}
    /\ polling = "list"
    /\ stopper = "no" /\ doomed = {}
    /\ lost = {}
    /\ moves = 0 /\ errors = 0

-----------------------------------------------------------------------------
(* The vault changes, and inotify tells the observer. *)

Emit(paths) == events' = IF mode = "observer" THEN events \cup {paths} ELSE events

(* Polling compares mtimes with those it remembers: it cannot see a change  *)
(* that takes a path back to one of these, as when a note is removed before *)
(* the first round or renamed back.                                         *)
Change(new) ==
    /\ file' = new
    /\ lost' = {p \in Paths :
                  /\ mode = "poll"
                  /\ IF new[p] = file[p] THEN p \in lost
                     ELSE new[p] \in {mtimes[p], current[p]}}
    /\ UNCHANGED <<configVars, view, handling, timerVars, pollVars, stopVars>>

(* on_created, on_modified: of notes that may be read.  Writes of others    *)
(* tell nobody anything, and are left out.                                  *)
Write(p) ==
    /\ p \in Listed
    /\ newest < MaxVersion /\ newest' = newest + 1
    /\ Change([file EXCEPT ![p] = newest'])
    /\ Emit({p})
    /\ UNCHANGED moves

(* on_deleted: of all notes. *)
Remove(p) ==
    /\ file[p] # Absent
    /\ moves < MaxMoves /\ moves' = moves + 1
    /\ Change([file EXCEPT ![p] = Absent])
    /\ Emit({p})
    /\ UNCHANGED newest

(* A mutant: on_moved passes on the new path only. *)
MovedTo(p, q) == {q} \ Hidden

(* on_moved: the old path, and the new one if it may be read. *)
Moved(p, q) == {p} \cup ({q} \ Hidden)

Move(p, q) ==
    /\ p # q /\ file[p] # Absent
    /\ moves < MaxMoves /\ moves' = moves + 1
    /\ Change([file EXCEPT ![p] = Absent, ![q] = file[p]])
    /\ Emit(Moved(p, q))
    /\ UNCHANGED newest

-----------------------------------------------------------------------------
(* on_change: the index reads the note. *)
Call(p) == view' = [view EXCEPT ![p] = Visible(p)]

SetTimer(t, state) == timer' = [timer EXCEPT ![t].state = state]

(* Timer.cancel: nothing happens to a timer that has gone off. *)
Cancelled(tm, ts) ==
    [t \in Timers |-> IF t \in ts /\ tm[t].state = "armed" THEN Unused ELSE tm[t]]

(* A Timer object that nothing refers to stands for a new one; one is enough. *)
Idle(t) == timer[t] = Unused /\ t \notin doomed
Free(t) == Idle(t) /\ \A s \in Timers : Idle(s) => t <= s

(* debounced, under _debounce_lock: the timer that is pending is cancelled  *)
(* and a new one started.                                                   *)
Arm(p) ==
    \E t \in Timers :
        /\ Free(t)
        /\ timer' = [Cancelled(timer, {pending[p]}) EXCEPT
                       ![t] = [path |-> p, state |-> "armed"]]
        /\ pending' = [pending EXCEPT ![p] = t]

(* debounced as a whole. *)
Debounced(p) ==
    \/ /\ debounce
       /\ Arm(p)
       /\ UNCHANGED view
    \/ /\ ~debounce
       /\ Call(p)
       /\ UNCHANGED timerVars

(* The timer goes off and calls deliver. *)
Fire(t) ==
    /\ timer[t].state = "armed"
    /\ SetTimer(t, "popping")
    /\ UNCHANGED <<pending, view>>

(* A mutant: the entry stays. *)
KeepEntry(t) ==
    /\ timer[t].state = "popping"
    /\ SetTimer(t, "checking")
    /\ UNCHANGED <<pending, view>>

(* What is popped is whatever timer is pending for the path by now. *)
Pop(t) ==
    /\ timer[t].state = "popping"
    /\ SetTimer(t, "checking")
    /\ pending' = [pending EXCEPT ![timer[t].path] = NoTimer]
    /\ UNCHANGED view

CheckStop(t) ==
    /\ timer[t].state = "checking"
    /\ timer' = [timer EXCEPT ![t] =
                   IF Running THEN [@ EXCEPT !.state = "calling"] ELSE Unused]
    /\ UNCHANGED <<pending, view>>

Deliver(t) ==
    /\ timer[t].state = "calling"
    /\ Call(timer[t].path)
    /\ timer' = [timer EXCEPT ![t] = Unused]
    /\ UNCHANGED pending

TimerStep(t) ==
    /\ Fire(t) \/ Pop(t) \/ CheckStop(t) \/ Deliver(t)
    /\ UNCHANGED <<configVars, fileVars, observerVars, pollVars, stopVars>>

-----------------------------------------------------------------------------
(* The observer thread. *)

TakeEvent ==
    /\ handling = {}
    /\ stopper # "stopped"
    /\ \E e \in events : events' = events \ {e} /\ handling' = e
    /\ UNCHANGED <<configVars, fileVars, view, timerVars, pollVars, stopVars>>

PassOn ==
    /\ \E p \in handling : Debounced(p) /\ handling' = handling \ {p}
    /\ UNCHANGED <<configVars, fileVars, events, pollVars, stopVars>>

-----------------------------------------------------------------------------
(* The polling thread. *)

PollGoto(step, left) == polling' = step /\ todo' = left

(* list_files, path by path; an entry whose stat fails is left out. *)
PollStat ==
    /\ mode = "poll" /\ polling = "list"
    /\ \E p \in todo :
          /\ \/ /\ current' = [current EXCEPT ![p] = Visible(p)]
                /\ UNCHANGED errors
             \/ /\ current' = [current EXCEPT ![p] = Absent]
                /\ errors < MaxErrors /\ errors' = errors + 1
          /\ PollGoto("list", todo \ {p})
    /\ UNCHANGED <<configVars, fileVars, view, observerVars, timerVars, mtimes, stopVars>>

PollCompare ==
    /\ mode = "poll" /\ polling = "list" /\ todo = {}
    /\ PollGoto("report", {p \in Paths : mtimes[p] # current[p]})
    /\ UNCHANGED <<configVars, fileVars, view, observerVars, timerVars, mtimes, current,
                   errors, stopVars>>

PollReport ==
    /\ polling = "report"
    /\ \E p \in todo : Debounced(p) /\ PollGoto("report", todo \ {p})
    /\ UNCHANGED <<configVars, fileVars, observerVars, mtimes, current, errors, stopVars>>

(* A mutant: what was listed counts as reported even if a call has failed. *)
PollErrorKeeping ==
    /\ mode = "poll" /\ polling \in {"list", "report"}
    /\ errors < MaxErrors /\ errors' = errors + 1
    /\ PollGoto("wait", {})
    /\ mtimes' = current
    /\ UNCHANGED <<configVars, fileVars, view, observerVars, timerVars, current,
                   stopVars>>

(* A mutant: the exception ends the thread. *)
PollErrorFatal ==
    /\ mode = "poll" /\ polling \in {"list", "report"}
    /\ errors < MaxErrors /\ errors' = errors + 1
    /\ PollGoto("ended", {})
    /\ current' = mtimes
    /\ UNCHANGED <<configVars, fileVars, view, observerVars, timerVars, mtimes, stopVars>>

(* An exception of list_files or of on_change ends the round; the next one  *)
(* starts again from the mtimes of the round before.                        *)
PollError ==
    /\ mode = "poll" /\ polling \in {"list", "report"}
    /\ errors < MaxErrors /\ errors' = errors + 1
    /\ PollGoto("wait", {})
    /\ current' = mtimes
    /\ UNCHANGED <<configVars, fileVars, view, observerVars, timerVars, mtimes, stopVars>>

PollEnd ==
    /\ polling = "report" /\ todo = {}
    /\ mtimes' = current
    /\ PollGoto("wait", {})
    /\ UNCHANGED <<configVars, fileVars, view, observerVars, timerVars, current, errors,
                   stopVars>>

PollAgain ==
    /\ polling = "wait"
    /\ IF Running THEN PollGoto("list", Listed) ELSE PollGoto("ended", {})
    /\ UNCHANGED <<configVars, fileVars, view, observerVars, timerVars, mtimes, current,
                   errors, stopVars>>

Poll == PollStat \/ PollCompare \/ PollReport \/ PollEnd \/ PollAgain

-----------------------------------------------------------------------------
(* stop() *)

CallStop ==
    /\ Running
    /\ stopper' = "collect"
    /\ UNCHANGED <<doomed, timerVars>>

Collect ==
    /\ stopper = "collect"
    /\ stopper' = "cancel"
    /\ doomed' = {pending[p] : p \in Paths} \ {NoTimer}
    /\ pending' = [p \in Paths |-> NoTimer]
    /\ UNCHANGED timer

CancelAll ==
    /\ stopper = "cancel"
    /\ stopper' = "join"
    /\ timer' = Cancelled(timer, doomed)
    /\ doomed' = {}
    /\ UNCHANGED pending

(* A mutant: the observer is stopped but not waited for. *)
StopOnly ==
    /\ stopper = "join"
    /\ stopper' = "stopped"
    /\ UNCHANGED <<doomed, timerVars>>

(* Only the join of the observer has no timeout. *)
Join ==
    /\ stopper = "join"
    /\ handling = {}
    /\ stopper' = "stopped"
    /\ UNCHANGED <<doomed, timerVars>>

Stop ==
    /\ CallStop \/ Collect \/ CancelAll \/ Join
    /\ UNCHANGED <<configVars, fileVars, view, observerVars, pollVars>>

-----------------------------------------------------------------------------
Next ==
    \/ \E p \in Paths : Write(p) \/ Remove(p) \/ (\E q \in Paths : Move(p, q))
    \/ \E t \in Timers : TimerStep(t)
    \/ TakeEvent \/ PassOn
    \/ Poll \/ PollError
    \/ Stop

Spec == Init /\ [][Next]_vars

(* Threads keep running and timers go off. *)
FairSpec ==
    /\ Spec
    /\ WF_vars(TakeEvent) /\ WF_vars(PassOn) /\ WF_vars(Poll)
    /\ \A t \in Timers : WF_vars(TimerStep(t))

-----------------------------------------------------------------------------
(* Properties *)

Stale(p) == view[p] # Visible(p)

Live(t, p) == timer[t].path = p /\ timer[t].state # "unused"

(* While the watcher runs no change of a note is forgotten: as long as what *)
(* on_change has read last differs from the file, an event, a handler, a    *)
(* live timer or the mtimes of the last poll will lead to another call.     *)
(* Cancelled timers, timers that pop each other's entry, and polls that     *)
(* fail half-way never drop the last word on a path.  (Polling misses what  *)
(* "lost" records.)                                                         *)
NothingForgotten ==
    \A p \in Paths :
        Running /\ Stale(p) =>
            \/ \E e \in events : p \in e
            \/ p \in handling
            \/ \E t \in Timers : Live(t, p)
            \/ mode = "poll" /\ (mtimes[p] # Visible(p) \/ p \in lost)

(* Every change is reported in the end, however many follow on it, unless   *)
(* the watcher is stopped.                                                  *)
EveryChangeReported ==
    \A p \in Listed :
        Stale(p) ~> ~Stale(p) \/ ~Running \/ (mode = "poll" /\ p \in lost)

(* After stop() has returned, on_change is called with an observer only by  *)
(* timers that were about to do so when it was called.                      *)
NoReportAfterStop ==
    [][mode = "observer" /\ stopper = "stopped" /\ view' # view
          => \E t \in Timers : timer[t].state = "calling" /\ timer'[t] = Unused]_vars
==============================================================================
