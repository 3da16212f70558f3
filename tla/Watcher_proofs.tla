---------------------------- MODULE Watcher_proofs ----------------------------
(***************************************************************************)
(* Theorems about Watcher, for any notes, timers and numbers of changes    *)
(* and errors.  The invariant says which timers are pending, and of every  *)
(* note whose last change has not been read who will report it; in a poll  *)
(* that is reporting, also of the notes it has already passed on.          *)
(***************************************************************************)
EXTENDS Watcher, TLAPS

LiveTimer(p) == \E t \in Timers : Live(t, p)

Covered(p) ==
    \/ \E e \in events : p \in e
    \/ p \in handling
    \/ LiveTimer(p)
    \/ mode = "poll" /\ p \in lost

Remembered(p) ==
    Running /\ Stale(p) => Covered(p) \/ (mode = "poll" /\ mtimes[p] # Visible(p))

HandedOn(p) ==
    /\ Running /\ Stale(p)
    /\ polling = "report" /\ p \notin todo /\ current[p] = Visible(p)
    => Covered(p)

(* A pending timer belongs to its path and is not about to be cancelled for *)
(* another reason.                                                          *)
PendingAlive ==
    \A p \in Paths :
        pending[p] # NoTimer =>
            /\ timer[pending[p]].state \in {"armed", "popping"}
            /\ pending[p] \notin doomed

IInv ==
    /\ TypeOK
    /\ PendingAlive
    /\ \A p \in Hidden : view[p] = Absent
    /\ mode = "observer" => polling = "list"
    /\ mode = "observer" /\ stopper = "stopped" => handling = {}
    /\ \A p \in Paths : Remembered(p) /\ HandedOn(p)

-----------------------------------------------------------------------------
(* What debounced does, with and without a debounce time *)

(* A hidden note looks absent. *)
LEMMA VisibleType ==
    ASSUME TypeOK, NEW p \in Paths
    PROVE  Visible(p) \in Version /\ (p \in Hidden => Visible(p) = Absent)
  BY WatcherAssumption DEF TypeOK, Visible, Absent, Version

(* What a step of the debouncing may do to the timers and to the view. *)
TimersKept ==
    /\ timer' \in [Timers -> [path : Paths \cup {NoPath}, state : TimerState]]
    /\ pending' \in [Paths -> Timers \cup {NoTimer}]
    /\ \A p \in Paths : pending'[p] # NoTimer =>
          /\ timer'[pending'[p]].path = p
          /\ timer'[pending'[p]].state \in {"armed", "popping"}
          /\ pending'[p] \notin doomed

ViewKept ==
    /\ view' \in [Paths -> Version]
    /\ \A p \in Paths : view'[p] = view[p] \/ view'[p] = Visible(p)

(* on_change has read the present version of its note. *)
LEMMA CallKeepsView ==
    ASSUME TypeOK, NEW p \in Paths, Call(p)
    PROVE  ViewKept /\ view'[p] = Visible(p)
  BY VisibleType DEF TypeOK, Call, ViewKept

(* A timer that is replaced leaves a live one for its path. *)
LEMMA ArmKeepsTimers ==
    ASSUME TypeOK, PendingAlive, NEW p \in Paths, Arm(p)
    PROVE  /\ TimersKept
           /\ LiveTimer(p)'
           /\ \A q \in Paths : LiveTimer(q) => LiveTimer(q)'
<1>1. PICK t \in Timers :
        /\ timer[t] = Unused /\ t \notin doomed
        /\ timer' = [Cancelled(timer, {pending[p]}) EXCEPT
                       ![t] = [path |-> p, state |-> "armed"]]
        /\ pending' = [pending EXCEPT ![p] = t]
  BY DEF Arm, Free, Idle
<1>2. /\ timer'[t] = [path |-> p, state |-> "armed"]
      /\ \A u \in Timers \ {t} :
            timer'[u] = IF u = pending[p] /\ timer[u].state = "armed" THEN Unused ELSE timer[u]
      /\ timer' \in [Timers -> [path : Paths \cup {NoPath}, state : TimerState]]
  BY <1>1 DEF TypeOK, Cancelled, Unused, TimerState
<1>3. /\ pending'[p] = t
      /\ \A q \in Paths \ {p} : pending'[q] = pending[q]
      /\ pending' \in [Paths -> Timers \cup {NoTimer}]
  BY <1>1 DEF TypeOK
<1>4. \A q \in Paths : pending[q] # NoTimer =>
        pending[q] \in Timers /\ pending[q] # t /\ timer[pending[q]].path = q
  BY <1>1, WatcherAssumption DEF TypeOK, Unused
<1>5. TimersKept
  <2>1. ASSUME NEW q \in Paths, pending'[q] # NoTimer
        PROVE  /\ timer'[pending'[q]].path = q
               /\ timer'[pending'[q]].state \in {"armed", "popping"}
               /\ pending'[q] \notin doomed
    <3>1. CASE q = p
      BY <1>1, <1>2, <1>3, <3>1
    <3>2. CASE q # p
      <4>1. /\ pending'[q] = pending[q] /\ pending[q] \in Timers \ {t}
            /\ pending[q] # pending[p]
        <5>1. pending'[q] = pending[q] /\ pending[q] # NoTimer
          BY <1>3, <2>1, <3>2
        <5>2. pending[q] \in Timers \ {t} /\ timer[pending[q]].path = q
          BY <1>4, <5>1
        <5>3. CASE pending[p] = NoTimer
          BY <5>1, <5>2, <5>3
        <5>4. CASE pending[p] # NoTimer
          <6>1. timer[pending[p]].path = p
            BY <1>4, <5>4
          <6> QED BY <3>2, <5>1, <5>2, <6>1
        <5> QED BY <5>1, <5>2, <5>3, <5>4
      <4>2. timer'[pending[q]] = timer[pending[q]]
        BY <1>2, <4>1
      <4> QED BY <1>4, <2>1, <4>1, <4>2 DEF PendingAlive
    <3> QED BY <3>1, <3>2
  <2>2. /\ timer' \in [Timers -> [path : Paths \cup {NoPath}, state : TimerState]]
        /\ pending' \in [Paths -> Timers \cup {NoTimer}]
    BY <1>2, <1>3
  <2> QED BY <2>1, <2>2, Zenon DEF TimersKept
<1>6. LiveTimer(p)'
  BY <1>2 DEF LiveTimer, Live
<1>7. ASSUME NEW q \in Paths, LiveTimer(q) PROVE LiveTimer(q)'
  <2>1. PICK u \in Timers : timer[u].path = q /\ timer[u].state # "unused"
    BY <1>7 DEF LiveTimer, Live
  <2>2. u # t
    BY <1>1, <2>1 DEF Unused
  <2>3. CASE u = pending[p]
    <3>1. q = p
      BY <1>4, <2>1, <2>3, WatcherAssumption
    <3> QED BY <1>6, <3>1
  <2>4. CASE u # pending[p]
    BY <1>2, <2>1, <2>2, <2>4 DEF LiveTimer, Live
  <2> QED BY <2>3, <2>4
<1> QED BY <1>5, <1>6, <1>7

(* With or without debounce, a change is on its way or reported. *)
LEMMA DebouncedReports ==
    ASSUME TypeOK, PendingAlive, NEW p \in Paths, Debounced(p)
    PROVE  /\ TimersKept /\ ViewKept
           /\ LiveTimer(p)' \/ view'[p] = Visible(p)
           /\ \A q \in Paths : LiveTimer(q) => LiveTimer(q)'
<1>1. CASE Arm(p) /\ UNCHANGED view
  BY <1>1, ArmKeepsTimers DEF ViewKept, TypeOK
<1>2. CASE Call(p) /\ UNCHANGED timerVars
  <2>1. TimersKept
    BY <1>2 DEF TimersKept, TypeOK, PendingAlive, timerVars
  <2>2. \A q \in Paths : LiveTimer(q) => LiveTimer(q)'
    BY <1>2 DEF LiveTimer, Live, timerVars
  <2> QED BY <1>2, <2>1, <2>2, CallKeepsView
<1> QED BY <1>1, <1>2 DEF Debounced

-----------------------------------------------------------------------------
(* The steps *)

(* The invariant holds at the start. *)
LEMMA InitIInv == Init => IInv
<1> SUFFICES ASSUME Init PROVE IInv
  OBVIOUS
<1>1. Absent \in Version /\ 1 \in Version
  BY WatcherAssumption DEF Absent, Version
<1>2. \A p \in Paths : Visible(p) \in Version /\ ~Stale(p)
  BY <1>1 DEF Init, Visible, Stale
<1>3. TypeOK
  BY <1>1, <1>2, WatcherAssumption DEF Init, TypeOK, Unused, TimerState, Listed
<1>4. \A p \in Hidden : view[p] = Absent
  BY WatcherAssumption DEF Init, Visible
<1>5. PendingAlive
  BY DEF Init, PendingAlive
<1> QED BY <1>2, <1>3, <1>4, <1>5 DEF IInv, Init, Remembered, HandedOn

(* A step that changes no file, and after which every path that was covered *)
(* still is or has been read.                                               *)
LEMMA SameFiles ==
    ASSUME IInv, NEW p \in Paths,
           mode' = mode, file' = file, stopper' = "no" => stopper = "no",
           mtimes' = mtimes, ViewKept,
           Covered(p) => Covered(p)' \/ view'[p] = Visible(p),
           polling' = "report" /\ p \notin todo' /\ current'[p] = Visible(p)
             => \/ polling = "report" /\ p \notin todo /\ current'[p] = current[p]
                \/ mtimes[p] = current'[p]
                \/ Covered(p)' \/ view'[p] = Visible(p)
    PROVE  Remembered(p)' /\ HandedOn(p)'
<1>1. Visible(p)' = Visible(p)
  BY DEF Visible
<1>2. Stale(p)' => Stale(p) /\ view'[p] # Visible(p)
  BY <1>1 DEF Stale, ViewKept
<1>3. Running' => Running
  BY DEF Running
<1>4. Remembered(p) /\ HandedOn(p)
  BY DEF IInv
<1>5. Remembered(p)'
  BY <1>1, <1>2, <1>3, <1>4 DEF Remembered
<1>6. HandedOn(p)'
  <2>1. SUFFICES ASSUME Running', Stale(p)', polling' = "report", p \notin todo',
                        current'[p] = Visible(p)'
        PROVE  Covered(p)'
    BY DEF HandedOn
  <2> QED BY <1>1, <1>2, <1>3, <1>4, <2>1 DEF Remembered, HandedOn
<1> QED BY <1>5, <1>6

(* Notes are written, removed and renamed. *)
LEMMA ChangeIInv ==
    ASSUME IInv, NEW p \in Paths, Write(p) \/ Remove(p) \/ (\E q \in Paths : Move(p, q))
    PROVE  IInv'
<1> USE DEF IInv
<1>1. PICK new \in [Paths -> Version], paths \in SUBSET Paths :
        /\ Change(new) /\ Emit(paths)
        /\ \A x \in Paths \ Hidden : new[x] # file[x] => x \in paths
        /\ newest' \in Version /\ moves' \in 0..MaxMoves
  <2>0. Absent \in Version
    BY WatcherAssumption DEF Absent, Version
  <2>1. CASE Write(p)
    <3> DEFINE new == [file EXCEPT ![p] = newest']
    <3>1. newest' \in Version /\ Change(new) /\ Emit({p}) /\ moves' = moves
      BY <2>1, WatcherAssumption DEF Write, TypeOK, Version
    <3>2. new \in [Paths -> Version] /\ \A x \in Paths : new[x] # file[x] => x \in {p}
      BY <3>1 DEF TypeOK
    <3> HIDE DEF new
    <3> QED BY <3>1, <3>2 DEF TypeOK
  <2>2. CASE Remove(p)
    <3> DEFINE new == [file EXCEPT ![p] = Absent]
    <3>1. /\ newest' \in Version /\ moves' \in 0..MaxMoves /\ Change(new) /\ Emit({p})
      BY <2>2, WatcherAssumption DEF Remove, TypeOK
    <3>2. new \in [Paths -> Version] /\ \A x \in Paths : new[x] # file[x] => x \in {p}
      BY <2>0 DEF TypeOK
    <3> HIDE DEF new
    <3> QED BY <3>1, <3>2
  <2>3. CASE \E q \in Paths : Move(p, q)
    <3>1. PICK q \in Paths : Move(p, q)
      BY <2>3
    <3> DEFINE new == [file EXCEPT ![p] = Absent, ![q] = file[p]]
    <3>2. /\ newest' \in Version /\ moves' \in 0..MaxMoves /\ Change(new) /\ Emit(Moved(p, q))
      BY <3>1, WatcherAssumption DEF Move, TypeOK
    <3>3. new \in [Paths -> Version]
      BY <2>0 DEF TypeOK
    <3>4. \A x \in Paths \ Hidden : new[x] # file[x] => x \in Moved(p, q)
      BY DEF TypeOK, Moved
    <3>5. Moved(p, q) \in SUBSET Paths
      BY DEF Moved
    <3> HIDE DEF new
    <3> QED BY <3>2, <3>3, <3>4, <3>5
  <2> QED BY <2>1, <2>2, <2>3
<1>2. /\ file' = new /\ view' = view /\ handling' = handling /\ timer' = timer
      /\ pending' = pending /\ mode' = mode /\ debounce' = debounce
      /\ mtimes' = mtimes /\ current' = current
      /\ todo' = todo /\ polling' = polling /\ errors' = errors
      /\ stopper' = stopper /\ doomed' = doomed
      /\ lost' \subseteq Paths
      /\ events \subseteq events' /\ events' \subseteq SUBSET Paths
      /\ mode = "observer" => paths \in events'
  BY <1>1 DEF Change, Emit, configVars, timerVars, pollVars, stopVars, TypeOK
<1>3. TypeOK'
  BY <1>1, <1>2 DEF TypeOK
<1>4. PendingAlive'
  BY <1>2 DEF PendingAlive
<1>5. ASSUME NEW x \in Paths PROVE Remembered(x)' /\ HandedOn(x)'
  <2>0. LiveTimer(x)' = LiveTimer(x)
    BY <1>2 DEF LiveTimer, Live
  <2>1. CASE x \in Hidden
    <3>1. ~Stale(x)'
      BY <1>2, <2>1 DEF Stale, Visible
    <3> QED BY <3>1 DEF Remembered, HandedOn
  <2>2. CASE x \notin Hidden /\ new[x] = file[x]
    <3>1. Visible(x)' = Visible(x) /\ Stale(x)' = Stale(x) /\ Running' = Running
      BY <1>2, <2>2 DEF Visible, Stale, Running
    <3>2. mode = "poll" /\ x \in lost => x \in lost'
      BY <1>1, <2>2 DEF Change
    <3>3. Covered(x) => Covered(x)'
      BY <1>2, <2>0, <3>2 DEF Covered
    <3> QED BY <1>2, <3>1, <3>3 DEF Remembered, HandedOn
  <2>3. CASE x \notin Hidden /\ new[x] # file[x]
    <3>1. Visible(x)' = new[x]
      BY <1>2, <2>3 DEF Visible
    <3>2. CASE mode = "observer"
      <4>1. x \in paths /\ paths \in events'
        BY <1>1, <1>2, <2>3, <3>2
      <4> QED BY <4>1 DEF Remembered, HandedOn, Covered
    <3>3. CASE mode = "poll"
      <4>1. new[x] \in {mtimes[x], current[x]} => x \in lost'
        BY <1>1, <2>3, <3>3 DEF Change
      <4>2. new[x] \in {mtimes[x], current[x]} => Covered(x)'
        BY <1>2, <3>3, <4>1 DEF Covered
      <4> QED BY <1>2, <3>1, <3>3, <4>2 DEF Remembered, HandedOn
    <3> QED BY <3>2, <3>3 DEF TypeOK
  <2> QED BY <2>1, <2>2, <2>3
<1> QED BY <1>2, <1>3, <1>4, <1>5, WatcherAssumption

(* A timer goes off, pops its entry, checks the flag and calls. *)
LEMMA TimerIInv ==
    ASSUME IInv, NEW t \in Timers, TimerStep(t)
    PROVE  IInv'
<1> USE DEF IInv
<1>1. /\ mode' = mode /\ debounce' = debounce /\ file' = file /\ lost' = lost
      /\ newest' = newest /\ moves' = moves /\ events' = events /\ handling' = handling
      /\ mtimes' = mtimes /\ current' = current /\ todo' = todo /\ polling' = polling
      /\ errors' = errors /\ stopper' = stopper /\ doomed' = doomed
  BY DEF TimerStep, configVars, fileVars, observerVars, pollVars, stopVars
<1>2. /\ TimersKept /\ ViewKept
      /\ \A p \in Paths : LiveTimer(p) => LiveTimer(p)' \/ view'[p] = Visible(p) \/ ~Running
  <2>1. CASE Fire(t)
    <3>1. timer' = [timer EXCEPT ![t].state = "popping"] /\ timer[t].state = "armed"
          /\ pending' = pending /\ view' = view
      BY <2>1 DEF Fire, SetTimer
    <3>2. /\ \A u \in Timers : timer'[u].path = timer[u].path
          /\ \A u \in Timers : timer'[u].state = IF u = t THEN "popping" ELSE timer[u].state
          /\ timer' \in [Timers -> [path : Paths \cup {NoPath}, state : TimerState]]
      BY <3>1 DEF TypeOK, TimerState
    <3>3. TimersKept
      BY <3>1, <3>2 DEF TimersKept, TypeOK, PendingAlive
    <3> QED BY <3>1, <3>2, <3>3 DEF ViewKept, LiveTimer, Live, TypeOK
  <2>2. CASE Pop(t)
    <3>1. timer' = [timer EXCEPT ![t].state = "checking"] /\ timer[t].state = "popping"
          /\ pending' = [pending EXCEPT ![timer[t].path] = NoTimer] /\ view' = view
      BY <2>2 DEF Pop, SetTimer
    <3>2. /\ \A u \in Timers : timer'[u].path = timer[u].path
          /\ \A u \in Timers : timer'[u].state = IF u = t THEN "checking" ELSE timer[u].state
          /\ timer' \in [Timers -> [path : Paths \cup {NoPath}, state : TimerState]]
      BY <3>1 DEF TypeOK, TimerState
    <3>3. /\ pending' \in [Paths -> Timers \cup {NoTimer}]
          /\ \A p \in Paths : pending'[p] # NoTimer =>
                pending'[p] = pending[p] /\ p # timer[t].path
      BY <3>1 DEF TypeOK
    <3>4. \A p \in Paths : pending'[p] # NoTimer => pending[p] # t
      BY <3>3 DEF TypeOK
    <3>5. TimersKept
      BY <3>2, <3>3, <3>4 DEF TimersKept, TypeOK, PendingAlive
    <3> QED BY <3>1, <3>2, <3>5 DEF ViewKept, LiveTimer, Live, TypeOK
  <2>3. CASE CheckStop(t)
    <3>1. /\ timer[t].state = "checking" /\ pending' = pending /\ view' = view
          /\ \A u \in Timers \ {t} : timer'[u] = timer[u]
          /\ timer' \in [Timers -> [path : Paths \cup {NoPath}, state : TimerState]]
          /\ Running => timer'[t].path = timer[t].path /\ timer'[t].state = "calling"
      BY <2>3 DEF CheckStop, TypeOK, TimerState, Unused
    <3>2. \A p \in Paths : pending[p] # NoTimer => pending[p] # t
      BY <3>1 DEF PendingAlive
    <3>3. TimersKept
      BY <3>1, <3>2 DEF TimersKept, TypeOK, PendingAlive
    <3>4. ASSUME NEW p \in Paths, LiveTimer(p), Running PROVE LiveTimer(p)'
      <4>1. PICK u \in Timers : timer[u].path = p /\ timer[u].state # "unused"
        BY <3>4 DEF LiveTimer, Live
      <4>2. timer'[u].path = p /\ timer'[u].state # "unused"
        BY <3>1, <3>4, <4>1
      <4> QED BY <4>2 DEF LiveTimer, Live
    <3> QED BY <3>1, <3>3, <3>4 DEF ViewKept, TypeOK
  <2>4. CASE Deliver(t)
    <3>1. /\ timer[t].state = "calling" /\ pending' = pending /\ Call(timer[t].path)
          /\ \A u \in Timers \ {t} : timer'[u] = timer[u]
          /\ timer' \in [Timers -> [path : Paths \cup {NoPath}, state : TimerState]]
      BY <2>4 DEF Deliver, TypeOK, TimerState, Unused
    <3>2. \A p \in Paths : pending[p] # NoTimer => pending[p] # t
      BY <3>1 DEF PendingAlive
    <3>3. TimersKept
      BY <3>1, <3>2 DEF TimersKept, TypeOK, PendingAlive
    <3>4. ViewKept /\ (timer[t].path \in Paths => view'[timer[t].path] = Visible(timer[t].path))
      <4>1. CASE timer[t].path \in Paths
        BY <3>1, <4>1, CallKeepsView
      <4>2. CASE timer[t].path \notin Paths
        BY <3>1, <4>2 DEF Call, ViewKept, TypeOK
      <4> QED BY <4>1, <4>2
    <3>5. ASSUME NEW p \in Paths, LiveTimer(p) PROVE LiveTimer(p)' \/ view'[p] = Visible(p)
      <4>1. PICK u \in Timers : timer[u].path = p /\ timer[u].state # "unused"
        BY <3>5 DEF LiveTimer, Live
      <4>2. CASE u = t
        BY <3>4, <4>1, <4>2
      <4>3. CASE u # t
        BY <3>1, <4>1, <4>3 DEF LiveTimer, Live
      <4> QED BY <4>2, <4>3
    <3> QED BY <3>3, <3>4, <3>5
  <2> QED BY <2>1, <2>2, <2>3, <2>4 DEF TimerStep
<1>3. TypeOK' /\ PendingAlive'
  BY <1>1, <1>2 DEF TypeOK, PendingAlive, TimersKept, ViewKept
<1>4. \A p \in Hidden : view'[p] = Absent
  BY <1>2, VisibleType, WatcherAssumption DEF ViewKept
<1>5. ASSUME NEW p \in Paths PROVE Remembered(p)' /\ HandedOn(p)'
  <2>1. CASE Running
    <3>1. Covered(p) => Covered(p)' \/ view'[p] = Visible(p)
      BY <1>1, <1>2, <2>1 DEF Covered
    <3> QED BY <1>1, <1>2, <3>1, SameFiles
  <2>2. CASE ~Running
    BY <1>1, <2>2 DEF Running, Remembered, HandedOn
  <2> QED BY <2>1, <2>2
<1> QED BY <1>1, <1>3, <1>4, <1>5

(* An event is taken and its paths passed on. *)
LEMMA ObserverIInv ==
    ASSUME IInv, TakeEvent \/ PassOn
    PROVE  IInv'
<1> USE DEF IInv
<1>1. /\ mode' = mode /\ debounce' = debounce /\ file' = file /\ lost' = lost
      /\ newest' = newest /\ moves' = moves
      /\ mtimes' = mtimes /\ current' = current /\ todo' = todo /\ polling' = polling
      /\ errors' = errors /\ stopper' = stopper /\ doomed' = doomed
  BY DEF TakeEvent, PassOn, configVars, fileVars, pollVars, stopVars
<1>2. /\ TimersKept /\ ViewKept
      /\ events' \subseteq SUBSET Paths /\ handling' \in SUBSET Paths
      /\ stopper = "stopped" => handling' \subseteq handling
      /\ \A p \in Paths : Covered(p) => Covered(p)' \/ view'[p] = Visible(p)
  <2>1. CASE TakeEvent
    <3>1. PICK e \in events : events' = events \ {e} /\ handling' = e
      BY <2>1 DEF TakeEvent
    <3>2. handling = {} /\ stopper # "stopped" /\ UNCHANGED <<view, timer, pending>>
      BY <2>1 DEF TakeEvent, timerVars
    <3>3. TimersKept /\ ViewKept
      BY <3>2 DEF TimersKept, ViewKept, TypeOK, PendingAlive
    <3>4. \A p \in Paths : LiveTimer(p)' = LiveTimer(p)
      BY <3>2 DEF LiveTimer, Live
    <3>5. \A p \in Paths : Covered(p) => Covered(p)'
      BY <1>1, <3>1, <3>2, <3>4 DEF Covered
    <3> QED BY <3>1, <3>2, <3>3, <3>5 DEF TypeOK
  <2>2. CASE PassOn
    <3>1. PICK x \in handling : Debounced(x) /\ handling' = handling \ {x}
      BY <2>2 DEF PassOn
    <3>2. x \in Paths /\ events' = events
      BY <2>2 DEF PassOn, TypeOK
    <3>3. /\ TimersKept /\ ViewKept
          /\ LiveTimer(x)' \/ view'[x] = Visible(x)
          /\ \A q \in Paths : LiveTimer(q) => LiveTimer(q)'
      BY <3>1, <3>2, DebouncedReports
    <3>4. ASSUME NEW p \in Paths, Covered(p) PROVE Covered(p)' \/ view'[p] = Visible(p)
      <4>1. CASE p = x
        BY <3>3, <4>1 DEF Covered
      <4>2. CASE p # x
        BY <1>1, <3>1, <3>2, <3>3, <3>4, <4>2 DEF Covered
      <4> QED BY <4>1, <4>2
    <3> QED BY <3>1, <3>2, <3>3, <3>4 DEF TypeOK
  <2> QED BY <2>1, <2>2
<1>3. TypeOK' /\ PendingAlive'
  BY <1>1, <1>2 DEF TypeOK, PendingAlive, TimersKept, ViewKept
<1>4. \A p \in Hidden : view'[p] = Absent
  BY <1>2, VisibleType, WatcherAssumption DEF ViewKept
<1>5. ASSUME NEW p \in Paths PROVE Remembered(p)' /\ HandedOn(p)'
  BY <1>1, <1>2, SameFiles
<1> QED BY <1>1, <1>2, <1>3, <1>4, <1>5

(* A round of the poll goes on or fails. *)
LEMMA PollIInv ==
    ASSUME IInv, Poll \/ PollError
    PROVE  IInv'
<1> USE DEF IInv
<1>1. /\ mode' = mode /\ debounce' = debounce /\ file' = file /\ lost' = lost
      /\ newest' = newest /\ moves' = moves /\ events' = events /\ handling' = handling
      /\ stopper' = stopper /\ doomed' = doomed
  BY DEF Poll, PollStat, PollCompare, PollReport, PollEnd, PollAgain, PollError,
     configVars, fileVars, observerVars, stopVars
<1>2. mode = "poll"
  BY DEF Poll, PollStat, PollCompare, PollReport, PollEnd, PollAgain, PollError, TypeOK
<1>3. /\ mtimes' \in [Paths -> Version] /\ current' \in [Paths -> Version]
      /\ todo' \in SUBSET Paths /\ polling' \in {"list", "report", "wait", "ended"}
      /\ errors' \in 0..MaxErrors
  <2>1. Absent \in Version
    BY WatcherAssumption DEF Absent, Version
  <2>2. CASE PollStat
    BY <2>1, <2>2, VisibleType, WatcherAssumption DEF PollStat, PollGoto, TypeOK
  <2>3. CASE PollCompare
    BY <2>3 DEF PollCompare, PollGoto, TypeOK
  <2>4. CASE PollReport
    BY <2>4 DEF PollReport, PollGoto, TypeOK
  <2>5. CASE PollEnd
    BY <2>5 DEF PollEnd, PollGoto, TypeOK
  <2>6. CASE PollAgain
    BY <2>6 DEF PollAgain, PollGoto, TypeOK, Listed
  <2>7. CASE PollError
    BY <2>7, WatcherAssumption DEF PollError, PollGoto, TypeOK
  <2> QED BY <2>2, <2>3, <2>4, <2>5, <2>6, <2>7 DEF Poll
<1>4. CASE PollReport
  <2>1. PICK x \in todo : Debounced(x) /\ todo' = todo \ {x}
    BY <1>4 DEF PollReport, PollGoto
  <2>2. x \in Paths /\ polling = "report" /\ mtimes' = mtimes /\ current' = current
    BY <1>4, <2>1 DEF PollReport, TypeOK
  <2>3. /\ TimersKept /\ ViewKept
        /\ LiveTimer(x)' \/ view'[x] = Visible(x)
        /\ \A q \in Paths : LiveTimer(q) => LiveTimer(q)'
    BY <2>1, <2>2, DebouncedReports
  <2>4. TypeOK' /\ PendingAlive'
    BY <1>1, <1>3, <2>3 DEF TypeOK, PendingAlive, TimersKept, ViewKept
  <2>5. \A p \in Hidden : view'[p] = Absent
    BY <2>3, VisibleType, WatcherAssumption DEF ViewKept
  <2>6. ASSUME NEW p \in Paths PROVE Remembered(p)' /\ HandedOn(p)'
    <3>1. Covered(p) => Covered(p)'
      BY <1>1, <2>3 DEF Covered
    <3>2. p = x => Covered(p)' \/ view'[p] = Visible(p)
      BY <2>3 DEF Covered
    <3>3. p # x /\ p \notin todo' => p \notin todo
      BY <2>1
    <3> QED BY <1>1, <2>2, <2>3, <3>1, <3>2, <3>3, SameFiles
  <2> QED BY <1>1, <1>2, <2>4, <2>5, <2>6
<1>5. CASE ~PollReport
  <2>1. view' = view /\ timer' = timer /\ pending' = pending
    BY <1>5 DEF Poll, PollStat, PollCompare, PollReport, PollEnd, PollAgain, PollError,
       timerVars
  <2>2. TypeOK' /\ PendingAlive'
    BY <1>1, <1>3, <2>1 DEF TypeOK, PendingAlive
  <2>3. ViewKept
    BY <2>1 DEF ViewKept, TypeOK
  <2>4. ASSUME NEW p \in Paths PROVE Remembered(p)' /\ HandedOn(p)'
    <3>1. Covered(p)' = Covered(p)
      BY <1>1, <2>1 DEF Covered, LiveTimer, Live
    <3>2. CASE PollEnd
      <4>1. polling = "report" /\ todo = {} /\ mtimes' = current /\ polling' = "wait"
        BY <3>2 DEF PollEnd, PollGoto
      <4>2. Visible(p)' = Visible(p) /\ Stale(p)' = Stale(p) /\ Running' = Running
        BY <1>1, <2>1 DEF Visible, Stale, Running
      <4> QED BY <1>1, <1>2, <3>1, <4>1, <4>2 DEF Remembered, HandedOn
    <3>3. CASE PollCompare
      <4>1. mtimes' = mtimes /\ current' = current
            /\ (p \notin todo' => mtimes[p] = current'[p])
        BY <3>3 DEF PollCompare, PollGoto
      <4> QED BY <1>1, <2>3, <3>1, <4>1, SameFiles
    <3>4. CASE PollStat \/ PollAgain \/ PollError
      <4>1. mtimes' = mtimes /\ polling' # "report"
        BY <3>4 DEF PollStat, PollAgain, PollError, PollGoto
      <4> QED BY <1>1, <2>3, <3>1, <4>1, SameFiles
    <3> QED BY <1>5, <3>2, <3>3, <3>4 DEF Poll
  <2> QED BY <1>1, <1>2, <2>1, <2>2, <2>4
<1> QED BY <1>4, <1>5

(* stop() cancels what it finds. *)
LEMMA StopIInv ==
    ASSUME IInv, Stop
    PROVE  IInv'
<1> USE DEF IInv
<1>1. /\ mode' = mode /\ debounce' = debounce /\ file' = file /\ lost' = lost
      /\ newest' = newest /\ moves' = moves /\ events' = events /\ handling' = handling
      /\ mtimes' = mtimes /\ current' = current /\ todo' = todo /\ polling' = polling
      /\ errors' = errors /\ view' = view /\ ~Running'
  BY DEF Stop, CallStop, Collect, CancelAll, Join, configVars, fileVars, observerVars,
     pollVars, Running
<1>2. TypeOK' /\ PendingAlive'
  <2>1. CASE CallStop
    BY <1>1, <2>1 DEF CallStop, TypeOK, PendingAlive, timerVars
  <2>2. CASE Collect
    <3>1. /\ stopper' = "cancel" /\ timer' = timer
          /\ doomed' \subseteq Timers
          /\ pending' = [p \in Paths |-> NoTimer]
      BY <2>2 DEF Collect, TypeOK
    <3> QED BY <1>1, <3>1 DEF TypeOK, PendingAlive
  <2>3. CASE CancelAll
    <3>1. /\ stopper' = "join" /\ pending' = pending /\ doomed' = {}
          /\ timer' = Cancelled(timer, doomed)
      BY <2>3 DEF CancelAll
    <3>2. timer' \in [Timers -> [path : Paths \cup {NoPath}, state : TimerState]]
      BY <3>1 DEF TypeOK, Cancelled, Unused, TimerState
    <3>3. \A p \in Paths : pending[p] # NoTimer => timer'[pending[p]] = timer[pending[p]]
      BY <3>1 DEF Cancelled, TypeOK, PendingAlive
    <3> QED BY <1>1, <3>1, <3>2, <3>3 DEF TypeOK, PendingAlive
  <2>4. CASE Join
    BY <1>1, <2>4 DEF Join, TypeOK, PendingAlive, timerVars
  <2> QED BY <2>1, <2>2, <2>3, <2>4 DEF Stop
<1>3. stopper' = "stopped" => handling = {} \/ stopper = "stopped"
  BY DEF Stop, CallStop, Collect, CancelAll, Join
<1>4. \A p \in Paths : Remembered(p)' /\ HandedOn(p)'
  BY <1>1 DEF Remembered, HandedOn
<1> QED BY <1>1, <1>2, <1>3, <1>4

(* No step. *)
LEMMA StutterIInv ==
    ASSUME IInv, UNCHANGED vars
    PROVE  IInv'
<1> USE DEF IInv, vars
<1>1. TypeOK' /\ PendingAlive'
  BY DEF TypeOK, PendingAlive
<1>2. ASSUME NEW p \in Paths PROVE Remembered(p)' /\ HandedOn(p)'
  BY DEF Remembered, HandedOn, Stale, Visible, Covered, LiveTimer, Live, Running
<1> QED BY <1>1, <1>2

(* The inductive invariant holds in every reachable state. *)
THEOREM WatcherInvariance == Spec => []IInv
<1>1. ASSUME IInv, [Next]_vars PROVE IInv'
  <2>1. ASSUME NEW p \in Paths, Write(p) \/ Remove(p) \/ (\E q \in Paths : Move(p, q))
        PROVE  IInv'
    BY <1>1, <2>1, ChangeIInv
  <2>2. ASSUME NEW t \in Timers, TimerStep(t) PROVE IInv'
    BY <1>1, <2>2, TimerIInv
  <2>3. CASE TakeEvent \/ PassOn BY <1>1, <2>3, ObserverIInv
  <2>4. CASE Poll \/ PollError BY <1>1, <2>4, PollIInv
  <2>5. CASE Stop BY <1>1, <2>5, StopIInv
  <2>6. CASE UNCHANGED vars BY <1>1, <2>6, StutterIInv
  <2> QED BY <1>1, <2>1, <2>2, <2>3, <2>4, <2>5, <2>6 DEF Next
<1> QED BY <1>1, InitIInv, PTL DEF Spec

(* Variables only take values of their types, and a pending timer is its    *)
(* path's.                                                                  *)
THEOREM WatcherTypeCorrect == Spec => []TypeOK
<1>1. IInv => TypeOK
  BY DEF IInv
<1> QED BY <1>1, WatcherInvariance, PTL

(* While the watcher runs, every change that on_change has not read yet is  *)
(* on its way, whatever timers, handlers and failing polls there are.       *)
THEOREM NoChangeForgotten == Spec => []NothingForgotten
<1>1. IInv => NothingForgotten
  BY DEF IInv, NothingForgotten, Remembered, Covered, LiveTimer
<1> QED BY <1>1, WatcherInvariance, PTL

(* After stop() has returned, an observer's news are only delivered by      *)
(* timers that had already passed the check of the stop event.              *)
THEOREM SilentAfterStop == Spec => NoReportAfterStop
<1> DEFINE Silent ==
      mode = "observer" /\ stopper = "stopped" /\ view' # view
        => \E t \in Timers : timer[t].state = "calling" /\ timer'[t] = Unused
<1>1. ASSUME IInv, [Next]_vars PROVE [Silent]_vars
  <2>1. SUFFICES ASSUME mode = "observer", stopper = "stopped", view' # view
        PROVE  \E t \in Timers : timer[t].state = "calling" /\ timer'[t] = Unused
    OBVIOUS
  <2>2. handling = {} /\ polling = "list"
    BY <1>1, <2>1 DEF IInv
  <2>3. ASSUME NEW t \in Timers, TimerStep(t)
        PROVE  timer[t].state = "calling" /\ timer'[t] = Unused
    <3>1. Deliver(t)
      BY <2>1, <2>3 DEF TimerStep, Fire, Pop, CheckStop
    <3> QED BY <1>1, <3>1 DEF Deliver, IInv, TypeOK
  <2>4. ASSUME NEW p \in Paths, Write(p) \/ Remove(p) \/ (\E q \in Paths : Move(p, q))
        PROVE  FALSE
    BY <2>1, <2>4 DEF Write, Remove, Move, Change
  <2>5. ~(TakeEvent \/ PassOn)
    BY <2>1, <2>2 DEF TakeEvent, PassOn
  <2>6. ~(Poll \/ PollError)
    BY <2>1, <2>2 DEF Poll, PollStat, PollCompare, PollReport, PollEnd, PollAgain, PollError
  <2>7. ~Stop
    BY <2>1 DEF Stop
  <2>8. ~UNCHANGED vars
    BY <2>1 DEF vars
  <2> QED BY <1>1, <2>3, <2>4, <2>5, <2>6, <2>7, <2>8 DEF Next
<1>2. Spec => [][Silent]_vars
  BY <1>1, WatcherInvariance, PTL DEF Spec
<1> QED BY <1>2 DEF NoReportAfterStop
==============================================================================
