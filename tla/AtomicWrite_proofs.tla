------------------------- MODULE AtomicWrite_proofs -------------------------
(***************************************************************************)
(* Proofs about AtomicWrite, for any callers, edits and calls, any number  *)
(* of edits by other programs and any number of power losses.              *)
(***************************************************************************)
EXTENDS AtomicWrite, TLAPS

(***************************************************************************)
(* What is known of a call at each of its steps.  From the first revision  *)
(* check on, a locking tool has read the file and creates it exactly when  *)
(* it found none.                                                          *)
(***************************************************************************)
WriteSteps == {"check", "sync_temp", "recheck", "commit"}

CallInv(c) ==
    /\ pc[c] # "idle" => req[c] \in Requests
    /\ pc[c] = "prepare" => req[c].kind \in {"full", "patch"}
    /\ pc[c] = "acquire" => Locks(c)
    /\ pc[c] = "acquire" /\ req[c].kind = "full" => raw[c] \in File
    /\ pc[c] = "exists" => req[c].kind \in {"write", "append"}
    /\ pc[c] = "read" => req[c].kind \in {"write", "append", "patch", "delete"}
    /\ pc[c] = "remove" => req[c].kind = "delete" /\ raw[c] \in Content
    /\ pc[c] \in WriteSteps => req[c].kind # "delete"
    /\ pc[c] \in WriteSteps /\ Locks(c) => raw[c] \in File
    /\ pc[c] \in WriteSteps \ {"check"} /\ Locks(c)
          => (creating[c] <=> raw[c] = Absent)

(* The last look of a call at the file is still good unless it was raced.  *)
FreshInv(c) ==
    /\ pc[c] = "commit" /\ Locks(c) /\ ~creating[c] => file = raw[c] \/ raced[c]
    /\ pc[c] = "remove" => file = raw[c] \/ raced[c]

TypeInv == TypeOK /\ \A c \in Clients : CallInv(c)

-----------------------------------------------------------------------------
(* What a tool stores is the content of a file. *)
LEMMA RenderedType ==
    ASSUME NEW r \in Requests, NEW f \in {Unread} \cup File,
           r.kind = "attach" \/ f \in File
    PROVE  Rendered(r, f) \in File
  <1>1. r \in Request
    BY RequestsAssumption
  <1>2. r.kind \in Tools /\ r.edit \in Edits
    BY <1>1 DEF Request
  <1>3. CASE r.kind = "write"
    BY <1>2, <1>3, ContentAssumption DEF Rendered, Overwritten, Body, File, Content
  <1>4. CASE r.kind \in {"append", "patch"}
    BY <1>2, <1>4 DEF Rendered, Body, File, Content
  <1>5. CASE r.kind \in {"full", "attach", "delete"}
    BY <1>2, <1>5 DEF Rendered, File, Content
  <1> QED
    BY <1>2, <1>3, <1>4, <1>5 DEF Tools

(* What may be left of a temporary file. *)
LEMMA LeftoverType ==
    ASSUME TypeOK, NEW c \in Clients, NEW a
    PROVE  Leftover(c, a) \subseteq {"none", "open", "synced"}
  BY DEF TypeOK, Leftover

(* Types at the start. *)
LEMMA InitTypeInv == Init => TypeInv
<1> SUFFICES ASSUME Init PROVE TypeInv
  OBVIOUS
<1>1. afterCrash \in SUBSET ({Torn} \cup File)
  <2>1. {file} \in SUBSET File
    BY DEF Init
  <2> QED
    BY <2>1 DEF Init
<1>2. TypeOK
  <2>1. /\ file \in File
        /\ acked \in BOOLEAN
        /\ lock \in Clients \cup {NoClient}
        /\ owner \in Clients \cup {NoClient}
    BY DEF Init
  <2>4. externals = 0 /\ crashes = 0
    BY DEF Init
  <2>5. /\ externals \in 0..MaxExternal /\ crashes \in 0..MaxCrashes
        /\ suffix \in {"note", "attachment"}
        /\ folder \in {"missing", "new", "durable"}
    BY <2>4, BoundAssumption DEF Init
  <2>2. /\ pc \in [Clients -> Steps]
        /\ req \in [Clients -> {NoReq} \cup Requests]
        /\ raw \in [Clients -> {Unread} \cup File]
        /\ ans \in [Clients -> Answers]
        /\ token \in [Clients -> {NoPin} \cup Content]
    BY DEF Init, Steps, Answers
  <2>3. /\ creating \in [Clients -> BOOLEAN]
        /\ temp \in [Clients -> {"none", "open", "synced"}]
        /\ stored \in [Clients -> BOOLEAN]
        /\ stale \in [Clients -> BOOLEAN]
        /\ raced \in [Clients -> BOOLEAN]
    BY DEF Init
  <2> QED
    BY <1>1, <2>1, <2>2, <2>3, <2>5 DEF TypeOK
<1>3. \A c \in Clients : CallInv(c)
  BY DEF Init, CallInv, WriteSteps
<1> QED
  BY <1>2, <1>3 DEF TypeInv
-----------------------------------------------------------------------------
(* Preservation of TypeInv, one lemma per kind of step. *)

(* A call that gets its answer is about to return: nothing else is known   *)
(* of it.  The others are as they were.                                    *)
LEMMA AnswerStep ==
    ASSUME TypeInv, NEW c \in Clients, pc[c] # "idle",
           NEW a \in Answers, NEW rev \in {NoPin} \cup Content,
           Answer(c, a, rev)
    PROVE  /\ \A d \in Clients : CallInv(d)'
           /\ pc' \in [Clients -> Steps]
           /\ temp' \in [Clients -> {"none", "open", "synced"}]
           /\ ans' \in [Clients -> Answers]
           /\ token' \in [Clients -> {NoPin} \cup Content]
<1>1. TypeOK /\ req[c] \in Requests
  BY DEF TypeInv, CallInv
<1>2. /\ pc' \in [Clients -> Steps]
      /\ temp' \in [Clients -> {"none", "open", "synced"}]
      /\ ans' \in [Clients -> Answers]
      /\ token' \in [Clients -> {NoPin} \cup Content]
  BY <1>1, LeftoverType DEF TypeOK, Answer, Goto, Steps
<1>3. ASSUME NEW d \in Clients PROVE CallInv(d)'
  <2>1. CASE d = c
    <3>1. pc'[c] = "release" /\ req'[c] \in Requests
      BY <1>1 DEF TypeOK, Answer, Goto
    <3> QED
      BY <2>1, <3>1 DEF CallInv, WriteSteps
  <2>2. CASE d # c
    <3>1. /\ pc'[d] = pc[d] /\ req'[d] = req[d]
          /\ raw'[d] = raw[d] /\ creating'[d] = creating[d]
      BY <1>1, <2>2 DEF TypeOK, Answer, Goto
    <3> QED
      BY <3>1 DEF TypeInv, CallInv, Locks
  <2> QED
    BY <2>1, <2>2
<1> QED
  BY <1>2, <1>3

(* An exception keeps the types. *)
LEMMA RaiseStep ==
    ASSUME TypeInv, NEW c \in Clients, pc[c] # "idle",
           NEW a \in Answers, Raise(c, a)
    PROVE  TypeInv'
<1>1. Answer(c, a, NoPin)
  BY DEF Raise
<1>2. /\ \A d \in Clients : CallInv(d)'
      /\ pc' \in [Clients -> Steps]
      /\ temp' \in [Clients -> {"none", "open", "synced"}]
      /\ ans' \in [Clients -> Answers]
      /\ token' \in [Clients -> {NoPin} \cup Content]
  BY <1>1, AnswerStep
<1>3. TypeOK'
  BY <1>1, <1>2 DEF TypeInv, TypeOK, Raise, Answer, sharedVars, historyVars,
     worldVars
<1> QED
  BY <1>2, <1>3 DEF TypeInv

(* A step that only moves c to another step of its call. *)
LEMMA GotoStep ==
    ASSUME TypeInv, NEW c \in Clients, NEW step \in Steps, Goto(c, step),
           UNCHANGED <<sharedVars, lock, req, ans, token, historyVars, worldVars>>,
           raw' \in [Clients -> {Unread} \cup File],
           creating' \in [Clients -> BOOLEAN],
           temp' \in [Clients -> {"none", "open", "synced"}],
           \A d \in Clients \ {c} : raw'[d] = raw[d] /\ creating'[d] = creating[d],
           CallInv(c)'
    PROVE  TypeInv'
<1>1. pc' \in [Clients -> Steps]
  BY DEF TypeInv, TypeOK, Goto
<1>2. TypeOK'
  BY <1>1 DEF TypeInv, TypeOK, sharedVars, historyVars, worldVars
<1>3. ASSUME NEW d \in Clients, d # c PROVE CallInv(d)'
  <2>1. /\ pc'[d] = pc[d] /\ req'[d] = req[d]
        /\ raw'[d] = raw[d] /\ creating'[d] = creating[d]
    BY <1>3 DEF TypeInv, TypeOK, Goto
  <2> QED
    BY <2>1 DEF TypeInv, CallInv, Locks
<1> QED
  BY <1>2, <1>3 DEF TypeInv
(* A commit keeps the types. *)
LEMMA StoreType ==
    ASSUME TypeOK, NEW c \in Clients, NEW f \in File, Store(c, f)
    PROVE  /\ file' \in File /\ acked' \in BOOLEAN
           /\ owner' \in Clients \cup {NoClient}
           /\ stored' \in [Clients -> BOOLEAN]
           /\ stale' \in [Clients -> BOOLEAN]
           /\ raced' \in [Clients -> BOOLEAN]
  BY DEF TypeOK, Store, Disturb

(* At its commit a call has a file content to store. *)
LEMMA NewType ==
    ASSUME TypeInv, NEW c \in Clients, pc[c] \in WriteSteps
    PROVE  New(c) \in File
<1>1. req[c] \in Requests /\ raw[c] \in {Unread} \cup File
  BY DEF TypeInv, TypeOK, CallInv, WriteSteps
<1>2. req[c].kind = "attach" \/ Locks(c)
  BY <1>1, RequestsAssumption DEF Request, Locks, LockingTools
<1>3. req[c].kind = "attach" \/ raw[c] \in File
  BY <1>2 DEF TypeInv, CallInv
<1> QED
  BY <1>1, <1>3, RenderedType DEF New

(* A request comes in. *)
LEMMA CallType == ASSUME TypeInv, NEW c \in Clients, Call(c) PROVE TypeInv'
<1> PICK r \in Requests :
       /\ Fits(r)
       /\ req' = [req EXCEPT ![c] = r]
       /\ \E step \in Entry(r) : Goto(c, step)
       /\ stale' = [stale EXCEPT ![c] =
                      \/ r.pin # NoPin /\ r.pin # file
                      \/ r.create_only /\ file # Absent]
  BY DEF Call
<1> PICK step \in Entry(r) : Goto(c, step)
  OBVIOUS
<1>1. r.kind \in Tools
  BY RequestsAssumption DEF Request
<1>2. step \in {"prepare", "acquire", "check"}
  BY DEF Entry
<1>3. TypeOK'
  BY <1>2 DEF TypeInv, TypeOK, Call, Goto, Steps, sharedVars, worldVars
<1>4. CallInv(c)'
  <2>1. pc'[c] = step /\ req'[c] = r
    BY DEF TypeInv, TypeOK, Goto
  <2> QED
    BY <1>1, <2>1 DEF CallInv, Entry, Locks, Tools, LockingTools, WriteSteps
<1>5. ASSUME NEW d \in Clients, d # c PROVE CallInv(d)'
  <2>1. /\ pc'[d] = pc[d] /\ req'[d] = req[d]
        /\ raw'[d] = raw[d] /\ creating'[d] = creating[d]
    BY <1>5 DEF TypeInv, TypeOK, Goto, Call
  <2> QED
    BY <2>1 DEF TypeInv, CallInv, Locks
<1> QED
  BY <1>3, <1>4, <1>5 DEF TypeInv

(* The call remembers the file's content and goes on. *)
LEMMA PinnedStep ==
    ASSUME TypeInv, NEW c \in Clients, pc[c] # "idle",
           NEW step \in {"acquire", "check", "remove"},
           Pinned(c), Goto(c, step),
           step = "acquire" => req[c].kind = "full",
           step = "check" => req[c].kind # "delete",
           step = "remove" => req[c].kind = "delete" /\ file # Absent
    PROVE  TypeInv'
<1>1. TypeOK /\ req[c] \in Requests
  BY DEF TypeInv, CallInv
<1>2. CallInv(c)'
  <2>1. /\ pc'[c] = step /\ req'[c] = req[c] /\ raw'[c] = file
    BY <1>1 DEF TypeOK, Goto, Pinned
  <2> QED
    BY <1>1, <2>1 DEF TypeOK, CallInv, Locks, LockingTools, Tools, WriteSteps,
       File
<1>3. /\ raw' \in [Clients -> {Unread} \cup File]
      /\ \A d \in Clients \ {c} : raw'[d] = raw[d] /\ creating'[d] = creating[d]
      /\ UNCHANGED <<sharedVars, lock, req, creating, temp, ans, token,
                     historyVars, worldVars>>
      /\ step \in Steps
  BY <1>1 DEF TypeOK, Pinned, Steps
<1> QED
  BY <1>1, <1>2, <1>3, GotoStep DEF TypeOK
(* The two commits: the file and the histories change, the call goes on. *)
LEMMA CommitStep ==
    ASSUME TypeInv, NEW c \in Clients, pc[c] = "commit",
           NEW step \in {"unlink_temp", "sync_parent"}, Goto(c, step),
           Store(c, New(c)), CommitDurability(c),
           temp' \in [Clients -> {"none", "open", "synced"}],
           UNCHANGED <<lock, callVars, ans, token, worldVars>>
    PROVE  TypeInv'
<1>1. New(c) \in File
  BY NewType DEF WriteSteps
<1>2. TypeOK
  BY DEF TypeInv
<1>3. /\ file' \in File /\ acked' \in BOOLEAN
      /\ owner' \in Clients \cup {NoClient}
      /\ stored' \in [Clients -> BOOLEAN]
      /\ stale' \in [Clients -> BOOLEAN]
      /\ raced' \in [Clients -> BOOLEAN]
  BY <1>1, <1>2, StoreType
<1>4. afterCrash' \in SUBSET ({Torn} \cup File)
  BY <1>1, <1>2 DEF TypeOK, CommitDurability, MayLeave
<1>5. pc' \in [Clients -> Steps]
  BY <1>2 DEF TypeOK, Goto, Steps
<1>6. TypeOK'
  BY <1>2, <1>3, <1>4, <1>5 DEF TypeOK, callVars, worldVars
<1>7. CallInv(c)'
  BY <1>2 DEF TypeInv, TypeOK, CallInv, Goto, WriteSteps, callVars
<1>8. ASSUME NEW d \in Clients, d # c PROVE CallInv(d)'
  <2>1. /\ pc'[d] = pc[d] /\ req'[d] = req[d]
        /\ raw'[d] = raw[d] /\ creating'[d] = creating[d]
    BY <1>8, <1>2 DEF TypeOK, Goto, callVars
  <2> QED
    BY <2>1 DEF TypeInv, CallInv, Locks
<1> QED
  BY <1>6, <1>7, <1>8 DEF TypeInv

(* Steps that change only temp, afterCrash or the lock besides pc. *)
LEMMA PlainStep ==
    ASSUME TypeInv, NEW c \in Clients, pc[c] # "idle",
           NEW step \in Steps, Goto(c, step),
           lock' \in Clients \cup {NoClient},
           temp' \in [Clients -> {"none", "open", "synced"}],
           afterCrash' \in SUBSET ({Torn} \cup File),
           UNCHANGED <<file, acked, owner, callVars, ans, token, historyVars,
                       worldVars>>,
           CallInv(c)'
    PROVE  TypeInv'
<1>1. pc' \in [Clients -> Steps]
  BY DEF TypeInv, TypeOK, Goto
<1>2. TypeOK'
  BY <1>1 DEF TypeInv, TypeOK, callVars, historyVars, worldVars
<1>3. ASSUME NEW d \in Clients, d # c PROVE CallInv(d)'
  <2>1. /\ pc'[d] = pc[d] /\ req'[d] = req[d]
        /\ raw'[d] = raw[d] /\ creating'[d] = creating[d]
    BY <1>3 DEF TypeInv, TypeOK, Goto, callVars
  <2> QED
    BY <2>1 DEF TypeInv, CallInv, Locks
<1> QED
  BY <1>2, <1>3 DEF TypeInv

(* Looks at the file before the lock. *)
LEMMA PrepareType ==
    ASSUME TypeInv, NEW c \in Clients, PrepareFullWrite(c) \/ CheckExists(c)
    PROVE  TypeInv'
<1>1. TypeOK /\ pc[c] = "prepare"
  BY DEF TypeInv, PrepareFullWrite, CheckExists
<1>2. ASSUME NEW a \in Answers, Raise(c, a) PROVE TypeInv'
  BY <1>1, <1>2, RaiseStep
<1>3. CASE PrepareFullWrite(c)
  <2>1. CASE Raise(c, "conflict") \/ Raise(c, "precondition")
    BY <1>2, <2>1 DEF Answers
  <2>2. CASE Pinned(c) /\ Goto(c, "acquire")
    BY <1>1, <1>3, <2>2, PinnedStep DEF PrepareFullWrite
  <2> QED
    BY <1>3, <2>1, <2>2 DEF PrepareFullWrite
<1>4. CASE CheckExists(c)
  <2>1. CASE Raise(c, "missing")
    BY <1>2, <2>1 DEF Answers
  <2>2. CASE /\ Goto(c, "acquire")
             /\ UNCHANGED <<sharedVars, lock, callVars, temp, ans, token,
                            historyVars, worldVars>>
    <3>1. CallInv(c)'
      <4>1. pc'[c] = "acquire" /\ req'[c] = req[c] /\ req[c] \in Requests
        BY <1>1, <2>2 DEF TypeInv, TypeOK, CallInv, Goto, callVars
      <4> QED
        BY <1>4, <4>1 DEF CheckExists, CallInv, Locks, LockingTools, Tools,
           WriteSteps
    <3> QED
      BY <1>1, <2>2, <3>1, PlainStep DEF TypeOK, sharedVars, Steps
  <2> QED
    BY <1>4, <2>1, <2>2 DEF CheckExists
<1> QED
  BY <1>3, <1>4

(* The lock is taken or waited for in vain. *)
LEMMA LockType ==
    ASSUME TypeInv, NEW c \in Clients, AcquireLock(c) \/ LockTimeout(c)
    PROVE  TypeInv'
<1>1. TypeOK /\ pc[c] = "acquire" /\ req[c] \in Requests
  BY DEF TypeInv, CallInv, AcquireLock, LockTimeout
<1>2. CASE LockTimeout(c)
  BY <1>1, <1>2, RaiseStep DEF LockTimeout, Answers
<1>3. CASE AcquireLock(c)
  <2>1. CallInv(c)'
    <3>1. /\ pc'[c] = AfterLock(req[c].kind) /\ req'[c] = req[c]
          /\ raw'[c] = raw[c] /\ creating'[c] = creating[c]
      BY <1>1, <1>3 DEF TypeOK, AcquireLock, Goto, callVars
    <3> QED
      BY <1>1, <3>1 DEF TypeInv, CallInv, AfterLock, Locks, LockingTools, Tools,
                        WriteSteps
  <2>2. AfterLock(req[c].kind) \in Steps
    BY DEF AfterLock, Steps
  <2> QED
    BY <1>1, <1>3, <2>1, <2>2, PlainStep DEF TypeOK, AcquireLock, sharedVars
<1> QED
  BY <1>2, <1>3
(* Looks at the file under the lock. *)
LEMMA ReadType ==
    ASSUME TypeInv, NEW c \in Clients, Exists(c) \/ Read(c)
    PROVE  TypeInv'
<1>1. TypeOK /\ pc[c] \in {"exists", "read"} /\ req[c] \in Requests
  BY DEF TypeInv, CallInv, Exists, Read
<1>2. ASSUME NEW a \in Answers, Raise(c, a) PROVE TypeInv'
  BY <1>1, <1>2, RaiseStep
<1>3. CASE Exists(c)
  <2>1. CASE Raise(c, "missing") \/ Raise(c, "conflict") \/ Raise(c, "dry_run")
    BY <1>2, <2>1 DEF Answers
  <2>2. CASE Pinned(c) /\ Goto(c, "check")
    <3>1. req[c].kind # "delete"
      BY <1>3 DEF Exists, TypeInv, CallInv
    <3> QED
      BY <1>1, <2>2, <3>1, PinnedStep
  <2>3. CASE /\ Goto(c, "read")
             /\ UNCHANGED <<sharedVars, lock, callVars, temp, ans, token,
                            historyVars, worldVars>>
    <3>1. CallInv(c)'
      <4>1. pc'[c] = "read" /\ req'[c] = req[c]
        BY <1>1, <2>3 DEF TypeOK, Goto, callVars
      <4> QED
        BY <1>1, <1>3, <4>1 DEF Exists, TypeInv, CallInv, WriteSteps
    <3> QED
      BY <1>1, <2>3, <3>1, PlainStep DEF TypeOK, sharedVars, Steps
  <2> QED
    BY <1>3, <2>1, <2>2, <2>3 DEF Exists
<1>4. CASE Read(c)
  <2>1. CASE \/ Raise(c, "missing") \/ Raise(c, "conflict")
             \/ Raise(c, "error") \/ Raise(c, "precondition")
    BY <1>2, <2>1 DEF Answers
  <2>2. CASE /\ file # Absent
             /\ Answer(c, "dry_run", file)
             /\ UNCHANGED <<sharedVars, historyVars>>
    <3>1. file \in Content
      BY <1>1, <2>2 DEF TypeOK, File
    <3>2. /\ \A d \in Clients : CallInv(d)'
          /\ pc' \in [Clients -> Steps]
          /\ temp' \in [Clients -> {"none", "open", "synced"}]
          /\ ans' \in [Clients -> Answers]
          /\ token' \in [Clients -> {NoPin} \cup Content]
      BY <1>1, <2>2, <3>1, AnswerStep DEF Answers
    <3>3. TypeOK'
      BY <1>1, <2>2, <3>2 DEF TypeOK, Answer, sharedVars, historyVars, worldVars
    <3> QED
      BY <3>2, <3>3 DEF TypeInv
  <2>3. CASE /\ file # Absent
             /\ Pinned(c)
             /\ Goto(c, IF req[c].kind = "delete" THEN "remove" ELSE "check")
    BY <1>1, <2>3, PinnedStep
  <2> QED
    BY <1>4, <2>1, <2>2, <2>3 DEF Read
<1> QED
  BY <1>3, <1>4

(* _write_atomic up to its commit. *)
LEMMA WriteType ==
    ASSUME TypeInv, NEW c \in Clients,
           \/ MakeParent(c) \/ Check(c) \/ SyncTemp(c)
           \/ Recheck(c) \/ LinkCommit(c) \/ RenameCommit(c)
    PROVE  TypeInv'
<1>1. TypeOK /\ pc[c] \in WriteSteps /\ req[c] \in Requests
  BY DEF TypeInv, CallInv, MakeParent, Check, SyncTemp, Recheck, LinkCommit,
         RenameCommit, WriteSteps
<1>2. ASSUME Raise(c, "conflict") PROVE TypeInv'
  BY <1>1, <1>2, RaiseStep DEF WriteSteps, Answers
<1>3. CASE Check(c)
  <2>1. CASE /\ ~(CreateOnly(c) /\ file # Absent) /\ ~Moved(c)
             /\ creating' = [creating EXCEPT ![c] = CreateOnly(c) \/ file = Absent]
             /\ temp' = [temp EXCEPT ![c] = "open"]
             /\ Goto(c, "sync_temp")
             /\ UNCHANGED <<sharedVars, lock, req, raw, ans, token, historyVars,
                            worldVars>>
    <3>1. CallInv(c)'
      <4>1. /\ pc'[c] = "sync_temp" /\ req'[c] = req[c] /\ raw'[c] = raw[c]
            /\ creating'[c] = (CreateOnly(c) \/ file = Absent)
        BY <1>1, <2>1 DEF TypeOK, Goto
      <4>2. raw[c] \in File => (creating'[c] <=> raw[c] = Absent)
        BY <2>1, <4>1, SentinelAssumption DEF CreateOnly, Moved
      <4> QED
        BY <1>1, <1>3, <4>1, <4>2 DEF TypeInv, CallInv, Check, Locks, WriteSteps
    <3> QED
      BY <1>1, <2>1, <3>1, GotoStep DEF TypeOK, Steps
  <2> QED
    BY <1>2, <1>3, <2>1 DEF Check
<1>4. CASE SyncTemp(c) \/ (Recheck(c) /\ Goto(c, "commit") /\ UNCHANGED temp
                           /\ UNCHANGED <<sharedVars, lock, callVars, ans, token,
                                          historyVars, worldVars>>)
  <2>1. PICK step \in {"recheck", "commit"} : Goto(c, step)
    BY <1>4 DEF SyncTemp
  <2>2. CallInv(c)'
    <3>1. /\ pc'[c] = step /\ req'[c] = req[c]
          /\ raw'[c] = raw[c] /\ creating'[c] = creating[c]
      BY <1>1, <1>4, <2>1 DEF TypeOK, Goto, SyncTemp, callVars
    <3> QED
      BY <1>1, <1>4, <3>1 DEF TypeInv, CallInv, Locks, WriteSteps, SyncTemp,
         Recheck
  <2> QED
    BY <1>1, <1>4, <2>1, <2>2, PlainStep
       DEF TypeOK, sharedVars, Steps, SyncTemp, WriteSteps
<1>5. CASE Recheck(c)
  BY <1>2, <1>4, <1>5 DEF Recheck
<1>6. CASE LinkCommit(c)
  <2>1. CASE Raise(c, "conflict")
    BY <1>2, <2>1
  <2>2. CASE ~Raise(c, "conflict")
    BY <1>1, <1>6, <2>2, CommitStep DEF LinkCommit, TypeOK
  <2> QED
    BY <2>1, <2>2
<1>7. CASE RenameCommit(c)
  BY <1>1, <1>7, CommitStep DEF RenameCommit, TypeOK
<1>8. CASE MakeParent(c)
  <2>1. TypeOK'
    BY <1>1, <1>8 DEF TypeOK, MakeParent, sharedVars, callVars, historyVars
  <2>2. \A d \in Clients : CallInv(d)'
    BY <1>8 DEF TypeInv, CallInv, Locks, MakeParent, callVars
  <2> QED
    BY <2>1, <2>2 DEF TypeInv
<1> QED
  BY <1>3, <1>4, <1>5, <1>6, <1>7, <1>8
(* The steps after the commit, errors and deletions. *)
LEMMA FinishType ==
    ASSUME TypeInv, NEW c \in Clients,
           \/ UnlinkTemp(c) \/ SyncParent(c) \/ Final(c)
           \/ StorageError(c) \/ Remove(c)
    PROVE  TypeInv'
<1>1. TypeOK /\ pc[c] # "idle" /\ req[c] \in Requests
  BY DEF TypeInv, CallInv, UnlinkTemp, SyncParent, Final, StorageError, Remove
<1>2. ASSUME NEW a \in {"error", "missing"}, Raise(c, a) PROVE TypeInv'
  BY <1>1, <1>2, RaiseStep DEF Answers
<1>3. CASE UnlinkTemp(c) \/ SyncParent(c)
  <2>1. PICK step \in {"sync_parent", "final"} : Goto(c, step)
    BY <1>3 DEF UnlinkTemp, SyncParent
  <2>2. CallInv(c)'
    BY <1>1, <1>3, <2>1
       DEF TypeOK, CallInv, Goto, UnlinkTemp, SyncParent, callVars, WriteSteps
  <2>3. /\ afterCrash' \in SUBSET ({Torn} \cup File)
        /\ temp' \in [Clients -> {"none", "open", "synced"}]
    BY <1>1, <1>3 DEF TypeOK, UnlinkTemp, SyncParent, MayLeave, File, sharedVars
  <2> QED
    BY <1>1, <1>3, <2>1, <2>2, <2>3, PlainStep
       DEF TypeOK, UnlinkTemp, SyncParent, sharedVars, Steps
<1>4. CASE StorageError(c)
  BY <1>2, <1>4 DEF StorageError
<1>5. CASE Final(c)
  <2>1. CASE /\ file # Absent
             /\ Answer(c, "ok", IF Locks(c) THEN file ELSE NoPin)
             /\ acked' = (acked \/ owner = c)
             /\ owner' = IF owner = c THEN NoClient ELSE owner
             /\ UNCHANGED <<file, afterCrash, historyVars>>
    <3>1. (IF Locks(c) THEN file ELSE NoPin) \in {NoPin} \cup Content
      BY <1>1, <2>1 DEF TypeOK, File
    <3>2. /\ \A d \in Clients : CallInv(d)'
          /\ pc' \in [Clients -> Steps]
          /\ temp' \in [Clients -> {"none", "open", "synced"}]
          /\ ans' \in [Clients -> Answers]
          /\ token' \in [Clients -> {NoPin} \cup Content]
      BY <1>1, <2>1, <3>1, AnswerStep DEF Answers
    <3>3. TypeOK'
      <4>1. acked' \in BOOLEAN /\ owner' \in Clients \cup {NoClient}
        BY <1>1, <2>1 DEF TypeOK
      <4> QED
        BY <1>1, <2>1, <3>2, <4>1 DEF TypeOK, Answer, historyVars, worldVars
    <3> QED
      BY <3>2, <3>3 DEF TypeInv
  <2> QED
    BY <1>2, <1>5, <2>1 DEF Final
<1>6. CASE Remove(c)
  <2>1. CASE /\ Store(c, Absent)
             /\ afterCrash' = MayLeave(crashes, afterCrash \cup {Absent})
             /\ Answer(c, "ok", NoPin)
    <3>1. /\ \A d \in Clients : CallInv(d)'
          /\ pc' \in [Clients -> Steps]
          /\ temp' \in [Clients -> {"none", "open", "synced"}]
          /\ ans' \in [Clients -> Answers]
          /\ token' \in [Clients -> {NoPin} \cup Content]
      BY <1>1, <2>1, AnswerStep DEF Answers
    <3>2. Absent \in File
      BY DEF File
    <3>3. /\ file' \in File /\ acked' \in BOOLEAN
          /\ owner' \in Clients \cup {NoClient}
          /\ stored' \in [Clients -> BOOLEAN]
          /\ stale' \in [Clients -> BOOLEAN]
          /\ raced' \in [Clients -> BOOLEAN]
      BY <1>1, <2>1, <3>2, StoreType
    <3>4. afterCrash' \in SUBSET ({Torn} \cup File)
      BY <1>1, <2>1, <3>2 DEF TypeOK, MayLeave
    <3>5. TypeOK'
      BY <1>1, <2>1, <3>1, <3>3, <3>4 DEF TypeOK, Answer, worldVars
    <3> QED
      BY <3>1, <3>5 DEF TypeInv
  <2> QED
    BY <1>2, <1>6, <2>1 DEF Remove
<1> QED
  BY <1>3, <1>4, <1>5, <1>6

(* The finally blocks. *)
LEMMA ReleaseType == ASSUME TypeInv, NEW c \in Clients, Release(c) PROVE TypeInv'
<1>1. TypeOK
  BY DEF TypeInv
<1>2. TypeOK'
  BY <1>1 DEF TypeOK, Release, ReturnFromCall, Goto, Steps, Answers, sharedVars,
              worldVars
<1>3. ASSUME NEW d \in Clients PROVE CallInv(d)'
  <2>1. CASE d = c
    <3>1. pc'[c] = "idle"
      BY <1>1 DEF TypeOK, Release, ReturnFromCall, Goto
    <3> QED
      BY <2>1, <3>1 DEF CallInv, WriteSteps
  <2>2. CASE d # c
    <3>1. /\ pc'[d] = pc[d] /\ req'[d] = req[d]
          /\ raw'[d] = raw[d] /\ creating'[d] = creating[d]
      BY <1>1, <2>2 DEF TypeOK, Release, ReturnFromCall, Goto
    <3> QED
      BY <3>1 DEF TypeInv, CallInv, Locks
  <2> QED
    BY <2>1, <2>2
<1> QED
  BY <1>2, <1>3 DEF TypeInv

(* Other programs and power loss. *)
LEMMA EnvironmentType ==
    ASSUME TypeInv, ExternalEdit \/ Crash, Torn \notin afterCrash
    PROVE  TypeInv'
<1>1. TypeOK
  BY DEF TypeInv
<1>2. CASE ExternalEdit
  <2>1. /\ file' \in File /\ externals' \in 0..MaxExternal
        /\ stale' \in [Clients -> BOOLEAN] /\ raced' \in [Clients -> BOOLEAN]
    BY <1>1, <1>2, BoundAssumption DEF TypeOK, ExternalEdit, Disturb
  <2>2. afterCrash' \in SUBSET ({Torn} \cup File)
    BY <1>1, <1>2 DEF TypeOK, ExternalEdit, MayLeave
  <2>5. folder' \in {"missing", "new", "durable"}
    BY <1>1, <1>2 DEF TypeOK, ExternalEdit
  <2>3. TypeOK'
    BY <1>1, <1>2, <2>1, <2>2, <2>5 DEF TypeOK, ExternalEdit, callVars
  <2>4. \A d \in Clients : CallInv(d)'
    BY <1>2 DEF TypeInv, CallInv, Locks, ExternalEdit, callVars
  <2> QED
    BY <2>3, <2>4 DEF TypeInv
<1>3. CASE Crash
  <2>1. file' \in File /\ acked' \in BOOLEAN /\ crashes' \in 0..MaxCrashes
    BY <1>1, <1>3, BoundAssumption DEF TypeOK, Crash
  <2>2. afterCrash' \in SUBSET ({Torn} \cup File)
    BY <1>1, <1>3 DEF TypeOK, Crash, MayLeave
  <2>5. folder' \in {"missing", "new", "durable"}
    BY <1>1, <1>3 DEF TypeOK, Crash, FolderLeft
  <2>3. TypeOK'
    BY <1>1, <1>3, <2>1, <2>2, <2>5 DEF TypeOK, Crash, Steps, Answers
  <2>4. \A d \in Clients : CallInv(d)'
    BY <1>3 DEF CallInv, Crash, WriteSteps
  <2> QED
    BY <2>3, <2>4 DEF TypeInv
<1> QED
  BY <1>2, <1>3

(* No step. *)
LEMMA StutterType == ASSUME TypeInv, UNCHANGED vars PROVE TypeInv'
  BY DEF TypeInv, TypeOK, CallInv, Locks, vars
-----------------------------------------------------------------------------
(***************************************************************************)
(* The inductive invariant: types and control, the lock, what a call knows *)
(* of the file, and what a power loss may leave.                           *)
(***************************************************************************)
RacedInv ==
    \A c \in Clients : externals = 0 /\ raced[c] => pc[c] # "idle" /\ ~Locks(c)

(* All calls on the file are of the kind that its suffix allows.           *)
FitInv == \A c \in Clients : pc[c] # "idle" => Fits(req[c])

DurableInv ==
    /\ AcknowledgedIsDurable
    /\ \A c \in Clients :
          /\ pc[c] \in {"recheck", "commit"} => temp[c] = "synced"
          /\ pc[c] = "final" /\ owner = c
                => \A f \in afterCrash : f = file \/ (folder = "new" /\ f = Absent)

(* What the checks before the write have established about the request.   *)
Decided(c) ==
    \/ pc[c] \in WriteSteps \cup {"remove"}
    \/ pc[c] = "acquire" /\ req[c].kind = "full"

PromiseInv(c) ==
    /\ Decided(c) /\ pc[c] # "acquire" => ~req[c].dry_run
    /\ Decided(c) /\ req[c].pin # NoPin => req[c].pin = raw[c]
    /\ Decided(c) /\ Strict /\ NeedsPin(req[c]) /\ raw[c] # Absent
          => req[c].pin # NoPin \/ req[c].create_only
    /\ pc[c] \in WriteSteps /\ req[c].kind = "patch" => raw[c] # Absent
    /\ pc[c] \in WriteSteps /\ req[c].kind = "attach" => raw[c] = Unread
    /\ pc[c] \in WriteSteps \ {"check"} /\ req[c].create_only => creating[c]

(* Whether the call has changed the file, step by step.                    *)
EffectInv(c) ==
    /\ pc[c] \in {"idle", "prepare", "acquire", "exists", "read", "check",
                   "sync_temp", "recheck", "commit", "remove"} => ~stored[c]
    /\ pc[c] \in {"unlink_temp", "sync_parent", "final"} => stored[c]
    /\ creating[c] => pc[c] \in {"sync_temp", "recheck", "commit", "unlink_temp",
                                 "sync_parent", "final", "release"}
    /\ pc[c] # "release" => ans[c] = "none"
    /\ ans[c] = "ok" => stored[c]
    /\ ans[c] \notin {"none", "ok", "error"} => ~stored[c]

(* While the file has not moved under a call, all it was told still holds. *)
StaleInv(c) ==
    /\ pc[c] # "idle" /\ ~stale[c] /\ ~stored[c]
          => /\ req[c].pin # NoPin => req[c].pin = file
             /\ req[c].create_only => file = Absent
             /\ raw[c] # Unread => raw[c] = file
             /\ pc[c] \in {"sync_temp", "recheck", "commit"} /\ creating[c]
                   => file = Absent
    /\ pc[c] = "idle" => raw[c] = Unread
    /\ ans[c] = "conflict" => stale[c]

IInv ==
    /\ TypeInv
    /\ LockDiscipline
    /\ \A c \in Clients : FreshInv(c)
    /\ RacedInv
    /\ FitInv
    /\ DurableInv
    /\ \A c \in Clients : PromiseInv(c) /\ EffectInv(c) /\ StaleInv(c)

(* Types, for every step. *)
LEMMA TypeStep == ASSUME IInv, [Next]_vars PROVE TypeInv'
<1>1. CASE ExternalEdit \/ Crash
  BY <1>1, EnvironmentType DEF IInv, DurableInv, AcknowledgedIsDurable
<1>2. ASSUME NEW c \in Clients, Call(c) \/ Progress(c) \/ StorageError(c)
      PROVE  TypeInv'
  BY <1>2, CallType, PrepareType, LockType, ReadType, WriteType, FinishType,
     ReleaseType DEF IInv, Progress
<1>3. CASE UNCHANGED vars
  BY <1>3, StutterType DEF IInv
<1> QED
  BY <1>1, <1>2, <1>3 DEF Next

(* Only acquiring takes the lock, and only when it is free; every other    *)
(* step keeps a call on the side of the lock where it is.                  *)
LEMMA LockStep == ASSUME IInv, [Next]_vars PROVE LockDiscipline'
<1> USE ClientsAssumption
    DEF IInv, TypeInv, TypeOK, CallInv, LockDiscipline, LockedSteps, TempSteps,
        WriteSteps, Locks, Steps, LockingTools, Tools,
        Raise, Answer, Leftover, Committed, Pinned, Store, Disturb, Goto,
        ReturnFromCall, sharedVars, callVars, historyVars, worldVars
<1>1. ASSUME NEW c \in Clients, Call(c) PROVE LockDiscipline'
  BY <1>1 DEF Call, Entry
<1>2. ASSUME NEW c \in Clients, PrepareFullWrite(c) PROVE LockDiscipline'
  BY <1>2 DEF PrepareFullWrite
<1>3. ASSUME NEW c \in Clients, CheckExists(c) PROVE LockDiscipline'
  BY <1>3 DEF CheckExists
<1>4. ASSUME NEW c \in Clients, AcquireLock(c) PROVE LockDiscipline'
  BY <1>4 DEF AcquireLock, AfterLock
<1>5. ASSUME NEW c \in Clients, LockTimeout(c) PROVE LockDiscipline'
  BY <1>5 DEF LockTimeout
<1>6. ASSUME NEW c \in Clients, Exists(c) PROVE LockDiscipline'
  BY <1>6 DEF Exists
<1>7. ASSUME NEW c \in Clients, Read(c) PROVE LockDiscipline'
  BY <1>7 DEF Read
<1>8. ASSUME NEW c \in Clients, MakeParent(c) \/ Check(c)
      PROVE  LockDiscipline'
  BY <1>8 DEF MakeParent, Check
<1>9. ASSUME NEW c \in Clients, SyncTemp(c) PROVE LockDiscipline'
  BY <1>9 DEF SyncTemp
<1>10. ASSUME NEW c \in Clients, Recheck(c) PROVE LockDiscipline'
  BY <1>10 DEF Recheck
<1>11. ASSUME NEW c \in Clients, LinkCommit(c) PROVE LockDiscipline'
  BY <1>11 DEF LinkCommit
<1>12. ASSUME NEW c \in Clients, UnlinkTemp(c) PROVE LockDiscipline'
  BY <1>12 DEF UnlinkTemp
<1>13. ASSUME NEW c \in Clients, RenameCommit(c) PROVE LockDiscipline'
  BY <1>13 DEF RenameCommit
<1>14. ASSUME NEW c \in Clients, SyncParent(c) PROVE LockDiscipline'
  BY <1>14 DEF SyncParent
<1>15. ASSUME NEW c \in Clients, Final(c) PROVE LockDiscipline'
  BY <1>15 DEF Final, EffectInv
<1>16. ASSUME NEW c \in Clients, Remove(c) PROVE LockDiscipline'
  BY <1>16 DEF Remove
<1>17. ASSUME NEW c \in Clients, Release(c) PROVE LockDiscipline'
  BY <1>17 DEF Release
<1>18. ASSUME NEW c \in Clients, StorageError(c) PROVE LockDiscipline'
  BY <1>18 DEF StorageError
<1>19. CASE ExternalEdit
  BY <1>19 DEF ExternalEdit
<1>20. CASE Crash
  BY <1>20 DEF Crash
<1>21. CASE UNCHANGED vars
  BY <1>21 DEF vars
<1> QED
  BY <1>1, <1>2, <1>3, <1>4, <1>5, <1>6, <1>7, <1>8, <1>9, <1>10, <1>11, <1>12,
     <1>13, <1>14, <1>15, <1>16, <1>17, <1>18, <1>19, <1>20, <1>21 DEF Next,
     Progress

(* What a call saw last stays true while it holds the lock, unless another *)
(* program edits the file.                                                 *)
LEMMA FreshStep ==
    ASSUME IInv, [Next]_vars
    PROVE  (\A d \in Clients : FreshInv(d))'
<1> USE RequestsAssumption, SentinelAssumption
    DEF IInv, TypeInv, TypeOK, CallInv, FreshInv, LockDiscipline, LockedSteps,
        WriteSteps, Locks, Steps, LockingTools, Tools, Busy,
        Raise, Answer, Pinned, Store, Disturb, Goto, ReturnFromCall, sharedVars,
        callVars, historyVars, worldVars
<1>1. ASSUME NEW c \in Clients, Call(c) PROVE (\A d \in Clients : FreshInv(d))'
  BY <1>1 DEF Call, Entry
<1>2. ASSUME NEW c \in Clients, PrepareFullWrite(c)
      PROVE  (\A d \in Clients : FreshInv(d))'
  BY <1>2 DEF PrepareFullWrite
<1>3. ASSUME NEW c \in Clients, CheckExists(c)
      PROVE  (\A d \in Clients : FreshInv(d))'
  BY <1>3 DEF CheckExists
<1>4. ASSUME NEW c \in Clients, AcquireLock(c)
      PROVE  (\A d \in Clients : FreshInv(d))'
  BY <1>4 DEF AcquireLock, AfterLock
<1>5. ASSUME NEW c \in Clients, LockTimeout(c)
      PROVE  (\A d \in Clients : FreshInv(d))'
  BY <1>5 DEF LockTimeout
<1>6. ASSUME NEW c \in Clients, Exists(c)
      PROVE  (\A d \in Clients : FreshInv(d))'
  BY <1>6 DEF Exists
<1>7. ASSUME NEW c \in Clients, Read(c) PROVE (\A d \in Clients : FreshInv(d))'
  BY <1>7 DEF Read
<1>8. ASSUME NEW c \in Clients, MakeParent(c) \/ Check(c)
      PROVE  (\A d \in Clients : FreshInv(d))'
  BY <1>8 DEF MakeParent, Check
<1>9. ASSUME NEW c \in Clients, SyncTemp(c)
      PROVE  (\A d \in Clients : FreshInv(d))'
  BY <1>9 DEF SyncTemp
<1>10. ASSUME NEW c \in Clients, Recheck(c)
       PROVE  (\A d \in Clients : FreshInv(d))'
  BY <1>10 DEF Recheck, Moved
<1>11. ASSUME NEW c \in Clients, LinkCommit(c)
       PROVE  (\A d \in Clients : FreshInv(d))'
  BY <1>11 DEF LinkCommit
<1>12. ASSUME NEW c \in Clients, UnlinkTemp(c)
       PROVE  (\A d \in Clients : FreshInv(d))'
  BY <1>12 DEF UnlinkTemp
<1>13. ASSUME NEW c \in Clients, RenameCommit(c)
       PROVE  (\A d \in Clients : FreshInv(d))'
  BY <1>13 DEF RenameCommit
<1>14. ASSUME NEW c \in Clients, SyncParent(c)
       PROVE  (\A d \in Clients : FreshInv(d))'
  BY <1>14 DEF SyncParent
<1>15. ASSUME NEW c \in Clients, Final(c)
       PROVE  (\A d \in Clients : FreshInv(d))'
  BY <1>15 DEF Final
<1>16. ASSUME NEW c \in Clients, Remove(c)
       PROVE  (\A d \in Clients : FreshInv(d))'
  BY <1>16 DEF Remove
<1>17. ASSUME NEW c \in Clients, Release(c)
       PROVE  (\A d \in Clients : FreshInv(d))'
  BY <1>17 DEF Release
<1>18. ASSUME NEW c \in Clients, StorageError(c)
       PROVE  (\A d \in Clients : FreshInv(d))'
  BY <1>18 DEF StorageError
<1>19. CASE ExternalEdit
  BY <1>19 DEF ExternalEdit
<1>20. CASE Crash
  BY <1>20 DEF Crash
<1>21. CASE UNCHANGED vars
  BY <1>21 DEF vars
<1> QED
  BY <1>1, <1>2, <1>3, <1>4, <1>5, <1>6, <1>7, <1>8, <1>9, <1>10, <1>11, <1>12,
     <1>13, <1>14, <1>15, <1>16, <1>17, <1>18, <1>19, <1>20, <1>21 DEF Next,
     Progress

(* Requests keep fitting their tools. *)
LEMMA FitStep == ASSUME IInv, [Next]_vars PROVE FitInv'
<1> USE DEF IInv, TypeInv, TypeOK, FitInv, Fits, Steps, Raise, Answer, Pinned, Store,
        Goto, ReturnFromCall, sharedVars, callVars, historyVars, worldVars
<1>1. ASSUME NEW c \in Clients, Call(c) PROVE FitInv'
  BY <1>1 DEF Call
<1>2. ASSUME NEW c \in Clients, Release(c) PROVE FitInv'
  BY <1>2 DEF Release
<1>3. ASSUME NEW c \in Clients, StorageError(c) PROVE FitInv'
  BY <1>3 DEF StorageError
<1>4. ASSUME NEW c \in Clients,
             \/ PrepareFullWrite(c) \/ CheckExists(c) \/ AcquireLock(c)
             \/ LockTimeout(c) \/ Exists(c) \/ Read(c)
      PROVE  FitInv'
  BY <1>4 DEF PrepareFullWrite, CheckExists, AcquireLock, LockTimeout, Exists, Read
<1>5. ASSUME NEW c \in Clients,
             \/ MakeParent(c) \/ Check(c) \/ SyncTemp(c) \/ Recheck(c)
             \/ LinkCommit(c)
             \/ UnlinkTemp(c) \/ RenameCommit(c) \/ SyncParent(c)
             \/ Final(c) \/ Remove(c)
      PROVE  FitInv'
  BY <1>5 DEF MakeParent, Check, SyncTemp, Recheck, LinkCommit, UnlinkTemp,
     RenameCommit, SyncParent, Final, Remove
<1>6. CASE ExternalEdit
  BY <1>6 DEF ExternalEdit
<1>7. CASE Crash
  BY <1>7 DEF Crash
<1>8. CASE UNCHANGED vars
  BY <1>8 DEF vars
<1> QED
  BY <1>1, <1>2, <1>3, <1>4, <1>5, <1>6, <1>7, <1>8 DEF Next, Progress

(* Calls never race each other under the lock. *)
LEMMA RacedStep == ASSUME IInv, [Next]_vars PROVE RacedInv'
<1> USE RequestsAssumption
    DEF IInv, TypeInv, TypeOK, CallInv, RacedInv, FitInv, Fits, LockDiscipline, LockedSteps,
        WriteSteps, Locks, Steps, LockingTools, Tools, Busy,
        Raise, Answer, Pinned, Store, Disturb, Goto, ReturnFromCall, sharedVars,
        callVars, historyVars, worldVars
<1>1. ASSUME NEW c \in Clients, Call(c) PROVE RacedInv'
  BY <1>1 DEF Call, Entry
<1>2. ASSUME NEW c \in Clients, PrepareFullWrite(c) PROVE RacedInv'
  BY <1>2 DEF PrepareFullWrite
<1>3. ASSUME NEW c \in Clients, CheckExists(c) PROVE RacedInv'
  BY <1>3 DEF CheckExists
<1>4. ASSUME NEW c \in Clients, AcquireLock(c) PROVE RacedInv'
  BY <1>4 DEF AcquireLock, AfterLock
<1>5. ASSUME NEW c \in Clients, LockTimeout(c) PROVE RacedInv'
  BY <1>5 DEF LockTimeout
<1>6. ASSUME NEW c \in Clients, Exists(c) PROVE RacedInv'
  BY <1>6 DEF Exists
<1>7. ASSUME NEW c \in Clients, Read(c) PROVE RacedInv'
  BY <1>7 DEF Read
<1>8. ASSUME NEW c \in Clients, MakeParent(c) \/ Check(c)
      PROVE  RacedInv'
  BY <1>8 DEF MakeParent, Check
<1>9. ASSUME NEW c \in Clients, SyncTemp(c) PROVE RacedInv'
  BY <1>9 DEF SyncTemp
<1>10. ASSUME NEW c \in Clients, Recheck(c) PROVE RacedInv'
  BY <1>10 DEF Recheck
<1>11. ASSUME NEW c \in Clients, LinkCommit(c) PROVE RacedInv'
  BY <1>11 DEF LinkCommit
<1>12. ASSUME NEW c \in Clients, UnlinkTemp(c) PROVE RacedInv'
  BY <1>12 DEF UnlinkTemp
<1>13. ASSUME NEW c \in Clients, RenameCommit(c) PROVE RacedInv'
  BY <1>13 DEF RenameCommit
<1>14. ASSUME NEW c \in Clients, SyncParent(c) PROVE RacedInv'
  BY <1>14 DEF SyncParent
<1>15. ASSUME NEW c \in Clients, Final(c) PROVE RacedInv'
  BY <1>15 DEF Final
<1>16. ASSUME NEW c \in Clients, Remove(c) PROVE RacedInv'
  BY <1>16 DEF Remove
<1>17. ASSUME NEW c \in Clients, Release(c) PROVE RacedInv'
  BY <1>17 DEF Release
<1>18. ASSUME NEW c \in Clients, StorageError(c) PROVE RacedInv'
  BY <1>18 DEF StorageError
<1>19. CASE ExternalEdit
  BY <1>19 DEF ExternalEdit
<1>20. CASE Crash
  BY <1>20 DEF Crash
<1>21. CASE UNCHANGED vars
  BY <1>21 DEF vars
<1> QED
  BY <1>1, <1>2, <1>3, <1>4, <1>5, <1>6, <1>7, <1>8, <1>9, <1>10, <1>11, <1>12,
     <1>13, <1>14, <1>15, <1>16, <1>17, <1>18, <1>19, <1>20, <1>21 DEF Next,
     Progress

(* What is stored under a name is synced before it is acknowledged.        *)
LEMMA DurableStep == ASSUME IInv, [Next]_vars PROVE DurableInv'
<1> USE SentinelAssumption, ClientsAssumption, NewType
    DEF IInv, TypeInv, TypeOK, CallInv, DurableInv, AcknowledgedIsDurable,
        MayLeave,
        WriteSteps, Locks, Steps, File,
        Raise, Answer, Pinned, Store, Disturb, Goto, ReturnFromCall, sharedVars,
        callVars, historyVars, worldVars
<1>1. ASSUME NEW c \in Clients, Call(c) PROVE DurableInv'
  BY <1>1 DEF Call, Entry
<1>2. ASSUME NEW c \in Clients, PrepareFullWrite(c) PROVE DurableInv'
  BY <1>2 DEF PrepareFullWrite
<1>3. ASSUME NEW c \in Clients, CheckExists(c) PROVE DurableInv'
  BY <1>3 DEF CheckExists
<1>4. ASSUME NEW c \in Clients, AcquireLock(c) PROVE DurableInv'
  BY <1>4 DEF AcquireLock, AfterLock
<1>5. ASSUME NEW c \in Clients, LockTimeout(c) PROVE DurableInv'
  BY <1>5 DEF LockTimeout
<1>6. ASSUME NEW c \in Clients, Exists(c) PROVE DurableInv'
  BY <1>6 DEF Exists
<1>7. ASSUME NEW c \in Clients, Read(c) PROVE DurableInv'
  BY <1>7 DEF Read
<1>8. ASSUME NEW c \in Clients, MakeParent(c) \/ Check(c)
      PROVE  DurableInv'
  BY <1>8 DEF MakeParent, Check
<1>9. ASSUME NEW c \in Clients, SyncTemp(c) PROVE DurableInv'
  BY <1>9 DEF SyncTemp
<1>10. ASSUME NEW c \in Clients, Recheck(c) PROVE DurableInv'
  BY <1>10 DEF Recheck
<1>11. ASSUME NEW c \in Clients, LinkCommit(c) PROVE DurableInv'
  BY <1>11 DEF LinkCommit, CommitDurability
<1>12. ASSUME NEW c \in Clients, UnlinkTemp(c) PROVE DurableInv'
  BY <1>12 DEF UnlinkTemp
<1>13. ASSUME NEW c \in Clients, RenameCommit(c) PROVE DurableInv'
  BY <1>13 DEF RenameCommit, CommitDurability
<1>14. ASSUME NEW c \in Clients, SyncParent(c) PROVE DurableInv'
  BY <1>14 DEF SyncParent
<1>15. ASSUME NEW c \in Clients, Final(c) PROVE DurableInv'
  BY <1>15 DEF Final
<1>16. ASSUME NEW c \in Clients, Remove(c) PROVE DurableInv'
  <2>1. Absent # Torn
    BY DEF File
  <2>2. CASE Raise(c, "missing")
    BY <2>2
  <2>3. CASE /\ Store(c, Absent)
             /\ afterCrash' = MayLeave(crashes, afterCrash \cup {Absent})
             /\ Answer(c, "ok", NoPin)
    BY <2>1, <2>3
  <2> QED
    BY <1>16, <2>2, <2>3 DEF Remove
<1>17. ASSUME NEW c \in Clients, Release(c) PROVE DurableInv'
  BY <1>17 DEF Release
<1>18. ASSUME NEW c \in Clients, StorageError(c) PROVE DurableInv'
  BY <1>18 DEF StorageError
<1>19. CASE ExternalEdit
  BY <1>19 DEF ExternalEdit
<1>20. CASE Crash
  BY <1>20 DEF Crash, FolderLeft
<1>21. CASE UNCHANGED vars
  BY <1>21 DEF vars
<1> QED
  BY <1>1, <1>2, <1>3, <1>4, <1>5, <1>6, <1>7, <1>8, <1>9, <1>10, <1>11, <1>12,
     <1>13, <1>14, <1>15, <1>16, <1>17, <1>18, <1>19, <1>20, <1>21 DEF Next,
     Progress

(* The checks of the tools establish what the caller was promised. *)
LEMMA PromiseStep ==
    ASSUME IInv, [Next]_vars
    PROVE  (\A d \in Clients : PromiseInv(d))'
<1> USE RequestsAssumption, SentinelAssumption
    DEF IInv, TypeInv, TypeOK, CallInv, PromiseInv, Decided, LacksPrecondition,
        NeedsPin, WriteSteps, Locks, Steps, LockingTools, Tools, File, Request,
        Raise, Answer, Pinned, Store, Disturb, Goto, ReturnFromCall, sharedVars,
        callVars, historyVars, worldVars
<1>1. ASSUME NEW c \in Clients, Call(c)
      PROVE  (\A d \in Clients : PromiseInv(d))'
  BY <1>1 DEF Call, Entry, StaleInv
<1>2. ASSUME NEW c \in Clients, PrepareFullWrite(c)
      PROVE  (\A d \in Clients : PromiseInv(d))'
  BY <1>2 DEF PrepareFullWrite
<1>3. ASSUME NEW c \in Clients, CheckExists(c)
      PROVE  (\A d \in Clients : PromiseInv(d))'
  BY <1>3 DEF CheckExists
<1>4. ASSUME NEW c \in Clients, AcquireLock(c)
      PROVE  (\A d \in Clients : PromiseInv(d))'
  BY <1>4 DEF AcquireLock, AfterLock
<1>5. ASSUME NEW c \in Clients, LockTimeout(c)
      PROVE  (\A d \in Clients : PromiseInv(d))'
  BY <1>5 DEF LockTimeout
<1>6. ASSUME NEW c \in Clients, Exists(c)
      PROVE  (\A d \in Clients : PromiseInv(d))'
  BY <1>6 DEF Exists
<1>7. ASSUME NEW c \in Clients, Read(c)
      PROVE  (\A d \in Clients : PromiseInv(d))'
  BY <1>7 DEF Read
<1>8. ASSUME NEW c \in Clients, MakeParent(c) \/ Check(c)
      PROVE  (\A d \in Clients : PromiseInv(d))'
  BY <1>8 DEF MakeParent, Check, CreateOnly
<1>9. ASSUME NEW c \in Clients, SyncTemp(c)
      PROVE  (\A d \in Clients : PromiseInv(d))'
  BY <1>9 DEF SyncTemp
<1>10. ASSUME NEW c \in Clients, Recheck(c)
       PROVE  (\A d \in Clients : PromiseInv(d))'
  BY <1>10 DEF Recheck
<1>11. ASSUME NEW c \in Clients, LinkCommit(c)
       PROVE  (\A d \in Clients : PromiseInv(d))'
  BY <1>11 DEF LinkCommit
<1>12. ASSUME NEW c \in Clients, UnlinkTemp(c)
       PROVE  (\A d \in Clients : PromiseInv(d))'
  BY <1>12 DEF UnlinkTemp
<1>13. ASSUME NEW c \in Clients, RenameCommit(c)
       PROVE  (\A d \in Clients : PromiseInv(d))'
  BY <1>13 DEF RenameCommit
<1>14. ASSUME NEW c \in Clients, SyncParent(c)
       PROVE  (\A d \in Clients : PromiseInv(d))'
  BY <1>14 DEF SyncParent
<1>15. ASSUME NEW c \in Clients, Final(c)
       PROVE  (\A d \in Clients : PromiseInv(d))'
  BY <1>15 DEF Final
<1>16. ASSUME NEW c \in Clients, Remove(c)
       PROVE  (\A d \in Clients : PromiseInv(d))'
  BY <1>16 DEF Remove
<1>17. ASSUME NEW c \in Clients, Release(c)
       PROVE  (\A d \in Clients : PromiseInv(d))'
  BY <1>17 DEF Release
<1>18. ASSUME NEW c \in Clients, StorageError(c)
       PROVE  (\A d \in Clients : PromiseInv(d))'
  BY <1>18 DEF StorageError
<1>19. CASE ExternalEdit
  BY <1>19 DEF ExternalEdit
<1>20. CASE Crash
  BY <1>20 DEF Crash
<1>21. CASE UNCHANGED vars
  BY <1>21 DEF vars
<1> QED
  BY <1>1, <1>2, <1>3, <1>4, <1>5, <1>6, <1>7, <1>8, <1>9, <1>10, <1>11, <1>12,
     <1>13, <1>14, <1>15, <1>16, <1>17, <1>18, <1>19, <1>20, <1>21 DEF Next,
     Progress

(* Each step keeps track of whether the call has changed the file.         *)
LEMMA EffectStep ==
    ASSUME IInv, [Next]_vars
    PROVE  (\A d \in Clients : EffectInv(d))'
<1> USE DEF IInv, TypeInv, TypeOK, CallInv, EffectInv, WriteSteps, Steps, Answers,
        Raise, Answer, Pinned, Store, Disturb, Goto, ReturnFromCall, sharedVars,
        callVars, historyVars, worldVars
<1>1. ASSUME NEW c \in Clients, Call(c) PROVE (\A d \in Clients : EffectInv(d))'
  BY <1>1 DEF Call, Entry
<1>2. ASSUME NEW c \in Clients, PrepareFullWrite(c)
      PROVE  (\A d \in Clients : EffectInv(d))'
  BY <1>2 DEF PrepareFullWrite
<1>3. ASSUME NEW c \in Clients, CheckExists(c)
      PROVE  (\A d \in Clients : EffectInv(d))'
  BY <1>3 DEF CheckExists
<1>4. ASSUME NEW c \in Clients, AcquireLock(c)
      PROVE  (\A d \in Clients : EffectInv(d))'
  BY <1>4 DEF AcquireLock, AfterLock
<1>5. ASSUME NEW c \in Clients, LockTimeout(c)
      PROVE  (\A d \in Clients : EffectInv(d))'
  BY <1>5 DEF LockTimeout
<1>6. ASSUME NEW c \in Clients, Exists(c)
      PROVE  (\A d \in Clients : EffectInv(d))'
  BY <1>6 DEF Exists
<1>7. ASSUME NEW c \in Clients, Read(c) PROVE (\A d \in Clients : EffectInv(d))'
  BY <1>7 DEF Read
<1>8. ASSUME NEW c \in Clients, MakeParent(c) \/ Check(c)
      PROVE  (\A d \in Clients : EffectInv(d))'
  BY <1>8 DEF MakeParent, Check
<1>9. ASSUME NEW c \in Clients, SyncTemp(c)
      PROVE  (\A d \in Clients : EffectInv(d))'
  BY <1>9 DEF SyncTemp
<1>10. ASSUME NEW c \in Clients, Recheck(c)
       PROVE  (\A d \in Clients : EffectInv(d))'
  BY <1>10 DEF Recheck
<1>11. ASSUME NEW c \in Clients, LinkCommit(c)
       PROVE  (\A d \in Clients : EffectInv(d))'
  BY <1>11 DEF LinkCommit
<1>12. ASSUME NEW c \in Clients, UnlinkTemp(c)
       PROVE  (\A d \in Clients : EffectInv(d))'
  BY <1>12 DEF UnlinkTemp
<1>13. ASSUME NEW c \in Clients, RenameCommit(c)
       PROVE  (\A d \in Clients : EffectInv(d))'
  BY <1>13 DEF RenameCommit
<1>14. ASSUME NEW c \in Clients, SyncParent(c)
       PROVE  (\A d \in Clients : EffectInv(d))'
  BY <1>14 DEF SyncParent
<1>15. ASSUME NEW c \in Clients, Final(c)
       PROVE  (\A d \in Clients : EffectInv(d))'
  BY <1>15 DEF Final
<1>16. ASSUME NEW c \in Clients, Remove(c)
       PROVE  (\A d \in Clients : EffectInv(d))'
  BY <1>16 DEF Remove
<1>17. ASSUME NEW c \in Clients, Release(c)
       PROVE  (\A d \in Clients : EffectInv(d))'
  BY <1>17 DEF Release
<1>18. ASSUME NEW c \in Clients, StorageError(c)
       PROVE  (\A d \in Clients : EffectInv(d))'
  BY <1>18 DEF StorageError
<1>19. CASE ExternalEdit
  BY <1>19 DEF ExternalEdit
<1>20. CASE Crash
  BY <1>20 DEF Crash
<1>21. CASE UNCHANGED vars
  BY <1>21 DEF vars
<1> QED
  BY <1>1, <1>2, <1>3, <1>4, <1>5, <1>6, <1>7, <1>8, <1>9, <1>10, <1>11, <1>12,
     <1>13, <1>14, <1>15, <1>16, <1>17, <1>18, <1>19, <1>20, <1>21 DEF Next,
     Progress

(* A pin is the revision of a file that exists. *)
LEMMA PinIsContent == ASSUME NEW r \in Requests, r.pin # NoPin PROVE r.pin # Absent
<1>1. r.pin \in {NoPin} \cup Content
  BY RequestsAssumption DEF Request
<1> QED
  BY <1>1, ContentAssumption DEF Content

(* A change of the file is noted for every other call in progress. *)
LEMMA StoreHistory ==
    ASSUME TypeOK, NEW c \in Clients, NEW f, Store(c, f), NEW d \in Clients, d # c
    PROVE  /\ stored'[d] = stored[d]
           /\ stale[d] => stale'[d]
           /\ file' # file /\ pc[d] # "idle" => stale'[d]
  BY DEF TypeOK, Store, Disturb, Busy

(* A commit of another call is seen by the second look. *)
LEMMA RenameStale == ASSUME IInv, NEW c \in Clients, NEW d \in Clients, d # c,
                            RenameCommit(c) \/ Remove(c)
                     PROVE  StaleInv(d)'
<1>1. TypeOK /\ StaleInv(d)
  BY DEF IInv, TypeInv
<1>2. /\ pc'[d] = pc[d] /\ req'[d] = req[d] /\ raw'[d] = raw[d]
      /\ creating'[d] = creating[d] /\ ans'[d] = ans[d]
  BY <1>1 DEF TypeOK, RenameCommit, Remove, Answer, Raise, Goto, callVars
<1>3. CASE UNCHANGED <<file, historyVars>>
  BY <1>1, <1>2, <1>3 DEF StaleInv, historyVars
<1>4. CASE \E f \in {Absent, New(c)} : Store(c, f)
  <2>1. /\ stored'[d] = stored[d]
        /\ stale[d] => stale'[d]
        /\ file' # file /\ pc[d] # "idle" => stale'[d]
    BY <1>1, <1>4, StoreHistory
  <2> QED
    BY <1>1, <1>2, <2>1 DEF StaleInv
<1> QED
  BY <1>3, <1>4 DEF RenameCommit, Remove, Raise, sharedVars

(* Whether a call has missed a change, for every step. *)
LEMMA StaleStep ==
    ASSUME IInv, [Next]_vars
    PROVE  (\A d \in Clients : StaleInv(d))'
<1> USE SentinelAssumption, RequestsAssumption, ContentAssumption
    DEF IInv, TypeInv, TypeOK, CallInv, StaleInv, EffectInv, Content,
        WriteSteps, Locks, Steps, File, Request, Busy,
        Raise, Answer, Pinned, Store, Disturb, Goto, ReturnFromCall, sharedVars,
        callVars, historyVars, worldVars
<1>1. ASSUME NEW c \in Clients, Call(c) PROVE (\A d \in Clients : StaleInv(d))'
  BY <1>1 DEF Call, Entry
<1>2. ASSUME NEW c \in Clients, PrepareFullWrite(c)
      PROVE  (\A d \in Clients : StaleInv(d))'
  <2>1. ASSUME NEW d \in Clients, d # c PROVE StaleInv(d)'
    BY <1>2, <2>1 DEF PrepareFullWrite
  <2>2. CASE Raise(c, "conflict")
    <3>1. stale[c]
      BY <1>2, <2>2, PinIsContent DEF PrepareFullWrite
    <3> QED
      BY <2>1, <2>2, <3>1
  <2>3. CASE Raise(c, "precondition")
    BY <1>2, <2>1, <2>3 DEF PrepareFullWrite
  <2>4. CASE Pinned(c) /\ Goto(c, "acquire")
    BY <1>2, <2>1, <2>4 DEF PrepareFullWrite
  <2> QED
    BY <1>2, <2>2, <2>3, <2>4 DEF PrepareFullWrite
<1>3. ASSUME NEW c \in Clients, CheckExists(c)
      PROVE  (\A d \in Clients : StaleInv(d))'
  BY <1>3 DEF CheckExists
<1>4. ASSUME NEW c \in Clients, AcquireLock(c)
      PROVE  (\A d \in Clients : StaleInv(d))'
  BY <1>4 DEF AcquireLock, AfterLock
<1>5. ASSUME NEW c \in Clients, LockTimeout(c)
      PROVE  (\A d \in Clients : StaleInv(d))'
  BY <1>5 DEF LockTimeout
<1>6. ASSUME NEW c \in Clients, Exists(c)
      PROVE  (\A d \in Clients : StaleInv(d))'
  <2>1. ASSUME NEW d \in Clients, d # c PROVE StaleInv(d)'
    BY <1>6, <2>1 DEF Exists
  <2>2. CASE file = Absent /\ req[c].pin # NoPin /\ Raise(c, "conflict")
    <3>1. stale[c]
      BY <1>6, <2>2, PinIsContent DEF Exists
    <3> QED
      BY <1>6, <2>1, <2>2, <3>1 DEF Exists
  <2>3. CASE Raise(c, "missing") \/ Raise(c, "dry_run")
    BY <1>6, <2>1, <2>3 DEF Exists
  <2>4. CASE Pinned(c) /\ Goto(c, "check")
    BY <1>6, <2>1, <2>4 DEF Exists
  <2>5. CASE /\ Goto(c, "read")
             /\ UNCHANGED <<sharedVars, lock, callVars, temp, ans, token,
                            historyVars, worldVars>>
    BY <1>6, <2>1, <2>5 DEF Exists
  <2> QED
    BY <1>6, <2>2, <2>3, <2>4, <2>5 DEF Exists
<1>7. ASSUME NEW c \in Clients, Read(c) PROVE (\A d \in Clients : StaleInv(d))'
  BY <1>7 DEF Read
<1>8. ASSUME NEW c \in Clients, Check(c) \/ MakeParent(c)
      PROVE  (\A d \in Clients : StaleInv(d))'
  <2>4. CASE MakeParent(c)
    BY <2>4 DEF MakeParent
  <2> SUFFICES ASSUME Check(c) PROVE (\A d \in Clients : StaleInv(d))'
    BY <1>8, <2>4
  <2>1. ASSUME NEW d \in Clients, d # c PROVE StaleInv(d)'
    BY <2>1 DEF Check
  <2>2. CASE /\ (CreateOnly(c) /\ file # Absent) \/ Moved(c)
             /\ Raise(c, "conflict")
    <3>1. stale[c]
      BY <2>2 DEF Check, CreateOnly, Moved
    <3> QED
      BY <2>1, <2>2, <3>1 DEF Check
  <2>3. CASE /\ ~(CreateOnly(c) /\ file # Absent) /\ ~Moved(c)
             /\ ~Raise(c, "conflict")
    BY <2>1, <2>3 DEF Check, CreateOnly, Moved
  <2> QED
    BY <2>2, <2>3 DEF Check
<1>9. ASSUME NEW c \in Clients, SyncTemp(c)
      PROVE  (\A d \in Clients : StaleInv(d))'
  BY <1>9 DEF SyncTemp
<1>10. ASSUME NEW c \in Clients, Recheck(c)
       PROVE  (\A d \in Clients : StaleInv(d))'
  BY <1>10 DEF Recheck, Moved
<1>11. ASSUME NEW c \in Clients, LinkCommit(c)
       PROVE  (\A d \in Clients : StaleInv(d))'
  BY <1>11 DEF LinkCommit
<1>12. ASSUME NEW c \in Clients, UnlinkTemp(c)
       PROVE  (\A d \in Clients : StaleInv(d))'
  BY <1>12 DEF UnlinkTemp
<1>13. ASSUME NEW c \in Clients, RenameCommit(c)
       PROVE  (\A d \in Clients : StaleInv(d))'
  <2>1. StaleInv(c)'
    BY <1>13 DEF RenameCommit
  <2>2. ASSUME NEW d \in Clients, d # c PROVE StaleInv(d)'
    BY <1>13, <2>2, RenameStale
  <2> QED
    BY <2>1, <2>2
<1>14. ASSUME NEW c \in Clients, SyncParent(c)
       PROVE  (\A d \in Clients : StaleInv(d))'
  BY <1>14 DEF SyncParent
<1>15. ASSUME NEW c \in Clients, Final(c)
       PROVE  (\A d \in Clients : StaleInv(d))'
  BY <1>15 DEF Final
<1>16. ASSUME NEW c \in Clients, Remove(c)
       PROVE  (\A d \in Clients : StaleInv(d))'
  <2>1. StaleInv(c)'
    BY <1>16 DEF Remove
  <2>2. ASSUME NEW d \in Clients, d # c PROVE StaleInv(d)'
    BY <1>16, <2>2, RenameStale
  <2> QED
    BY <2>1, <2>2
<1>17. ASSUME NEW c \in Clients, Release(c)
       PROVE  (\A d \in Clients : StaleInv(d))'
  BY <1>17 DEF Release
<1>18. ASSUME NEW c \in Clients, StorageError(c)
       PROVE  (\A d \in Clients : StaleInv(d))'
  BY <1>18 DEF StorageError
<1>19. CASE ExternalEdit
  BY <1>19 DEF ExternalEdit
<1>20. CASE Crash
  BY <1>20 DEF Crash
<1>21. CASE UNCHANGED vars
  BY <1>21 DEF vars
<1> QED
  BY <1>1, <1>2, <1>3, <1>4, <1>5, <1>6, <1>7, <1>8, <1>9, <1>10, <1>11, <1>12,
     <1>13, <1>14, <1>15, <1>16, <1>17, <1>18, <1>19, <1>20, <1>21 DEF Next,
     Progress
-----------------------------------------------------------------------------
(* The invariant holds at the start. *)
LEMMA InitIInv == Init => IInv
<1> SUFFICES ASSUME Init PROVE IInv
  OBVIOUS
<1>1. TypeInv
  BY InitTypeInv
<1>2. LockDiscipline
  BY ClientsAssumption DEF Init, LockDiscipline, LockedSteps
<1>3. \A c \in Clients : FreshInv(c)
  BY DEF Init, FreshInv
<1>4. RacedInv
  BY DEF Init, RacedInv
<1>7. FitInv
  BY DEF Init, FitInv
<1>5. DurableInv
  BY SentinelAssumption DEF Init, DurableInv, AcknowledgedIsDurable
<1>6. \A c \in Clients : PromiseInv(c) /\ EffectInv(c) /\ StaleInv(c)
  BY DEF Init, PromiseInv, Decided, EffectInv, StaleInv, WriteSteps
<1> QED
  BY <1>1, <1>2, <1>3, <1>4, <1>5, <1>6, <1>7 DEF IInv

(* IInv holds in every reachable state, for every value of the constants.  *)
THEOREM Invariance == Spec => []IInv
<1>1. Init => IInv
  BY InitIInv
<1>2. IInv /\ [Next]_vars => IInv'
  <2> SUFFICES ASSUME IInv, [Next]_vars PROVE IInv'
    OBVIOUS
  <2> QED
    BY TypeStep, LockStep, FreshStep, FitStep, RacedStep, DurableStep, PromiseStep,
       EffectStep, StaleStep DEF IInv
<1> QED
  BY <1>1, <1>2, PTL DEF Spec

(* Types, and the control state of the calls, are as declared.             *)
THEOREM TypeCorrect == Spec => []TypeOK
  BY Invariance, PTL DEF IInv, TypeInv

(* acquire_lock excludes: the locked steps belong to the holder, and every *)
(* way out of a call gives the lock back; a temporary file is left only by *)
(* a call that answers with an I/O error.                                  *)
THEOREM LockSafe == Spec => []LockDiscipline
  BY Invariance, PTL DEF IInv

(* At most one call at a time is between acquire_lock and release.         *)
InSection(c) == pc[c] \in LockedSteps /\ Locks(c)

(* Two tool calls are never both between acquire_lock and the finally block
   that gives the lock back. *)
THEOREM MutualExclusion ==
    Spec => [](\A c, d \in Clients : InSection(c) /\ InSection(d) => c = d)
<1>1. LockDiscipline => \A c, d \in Clients : InSection(c) /\ InSection(d) => c = d
  BY DEF LockDiscipline, InSection
<1> QED
  BY <1>1, LockSafe, PTL

(* An acknowledged write survives a power loss, whole, or goes with the    *)
(* folder that was made for it.                                            *)
THEOREM DurableSafe == Spec => []AcknowledgedIsDurable
  BY Invariance, PTL DEF IInv, DurableInv

(* revision_conflict is never spurious.                                    *)
THEOREM ConflictSafe == Spec => []NoSpuriousConflict
<1>1. IInv => NoSpuriousConflict
  BY DEF IInv, StaleInv, NoSpuriousConflict
<1> QED
  BY <1>1, Invariance, PTL

(* The answer tells whether the file was changed.                          *)
THEOREM AnswerSafe == Spec => []AnswerTellsEffect
<1>1. IInv => AnswerTellsEffect
  BY DEF IInv, EffectInv, AnswerTellsEffect
<1> QED
  BY <1>1, Invariance, PTL

-----------------------------------------------------------------------------
(* What is known at the step at which a call takes effect. *)
LEMMA Effect ==
    ASSUME IInv, [Next]_vars, NEW c \in Clients, TakesEffect(c)
    PROVE  \/ LinkCommit(c) /\ pc[c] = "commit" /\ creating[c] /\ file = Absent
           \/ RenameCommit(c) /\ pc[c] = "commit" /\ ~creating[c]
           \/ Remove(c) /\ pc[c] = "remove" /\ file # Absent
<1> USE DEF TakesEffect
<1>1. TypeOK
  BY DEF IInv, TypeInv
<1>2. ASSUME NEW d \in Clients,
             UNCHANGED historyVars \/ Call(d) \/ Release(d)
      PROVE  FALSE
  BY <1>1, <1>2 DEF TypeOK, historyVars, Call, Release, ReturnFromCall
<1>3. CASE ExternalEdit \/ Crash \/ UNCHANGED vars
  BY <1>1, <1>3 DEF TypeOK, ExternalEdit, Crash, vars
<1>4. ASSUME NEW d \in Clients,
             Call(d) \/ Progress(d) \/ StorageError(d)
      PROVE  LinkCommit(d) \/ RenameCommit(d) \/ Remove(d)
  BY <1>2, <1>4
     DEF Progress, PrepareFullWrite, CheckExists, AcquireLock, LockTimeout,
         Exists,
         Read, MakeParent, Check, SyncTemp, Recheck, UnlinkTemp, SyncParent,
         Final, StorageError, Pinned, Raise
<1>5. ASSUME NEW d \in Clients, LinkCommit(d) \/ RenameCommit(d) \/ Remove(d)
      PROVE  /\ d = c
             /\ \/ LinkCommit(c) /\ pc[c] = "commit" /\ creating[c] /\ file = Absent
                \/ RenameCommit(c) /\ pc[c] = "commit" /\ ~creating[c]
                \/ Remove(c) /\ pc[c] = "remove" /\ file # Absent
  BY <1>1, <1>5 DEF TypeOK, LinkCommit, RenameCommit, Remove, Raise, Store,
                    historyVars
<1> QED
  BY <1>3, <1>4, <1>5 DEF Next

(* For a tool that locks, the content read is the content replaced, unless *)
(* the file was changed after the call's last look at it.                  *)
LEMMA EffectOnRead ==
    ASSUME IInv, [Next]_vars, NEW c \in Clients, TakesEffect(c), Locks(c)
    PROVE  raw[c] \in File /\ (file = raw[c] \/ (raced[c] /\ raw[c] # Absent))
<1>1. FreshInv(c) /\ CallInv(c)
  BY DEF IInv, TypeInv
<1>2. CASE pc[c] = "commit" /\ creating[c] /\ file = Absent
  BY <1>1, <1>2 DEF CallInv, WriteSteps
<1>3. CASE pc[c] = "commit" /\ ~creating[c]
  BY <1>1, <1>3 DEF CallInv, FreshInv, WriteSteps
<1>4. CASE pc[c] = "remove"
  BY <1>1, <1>4, ContentAssumption DEF CallInv, FreshInv, File, Content
<1> QED
  BY <1>2, <1>3, <1>4, Effect

(* With edits by other programs, an edit is only ever lost in the window   *)
(* after the last check of the revision.                                   *)
THEOREM LossWindow == Spec => LossOnlyInCommitWindow
<1>1. IInv /\ [Next]_vars
        => [\A c \in Clients :
              TakesEffect(c) /\ Locks(c) /\ file # raw[c] => raced[c]]_vars
  BY EffectOnRead
<1> QED
  BY <1>1, Invariance, PTL DEF Spec, LossOnlyInCommitWindow

(* Without edits by other programs no tool call loses the edit of another, *)
(* for any number of concurrent calls and with power losses.               *)
THEOREM LostUpdateSafe == ASSUME MaxExternal = 0 PROVE Spec => NoLostUpdate
<1>1. IInv /\ [Next]_vars
        => [\A c \in Clients : TakesEffect(c) /\ Locks(c) => file = raw[c]]_vars
  <2> SUFFICES ASSUME IInv, [Next]_vars, NEW c \in Clients,
                      TakesEffect(c), Locks(c)
               PROVE  file = raw[c]
    OBVIOUS
  <2>1. externals = 0
    BY DEF IInv, TypeInv, TypeOK
  <2>2. ~raced[c]
    BY <2>1 DEF IInv, RacedInv
  <2> QED
    BY <2>2, EffectOnRead
<1> QED
  BY <1>1, Invariance, PTL DEF Spec, NoLostUpdate

(* A creation never overwrites, whatever other programs do.                *)
THEOREM CreateSafe == Spec => CreateNeverOverwrites
<1>1. IInv /\ [Next]_vars
        => [\A c \in Clients :
              TakesEffect(c) /\ (CreateOnly(c) \/ creating[c]) => file = Absent]_vars
  <2> SUFFICES ASSUME IInv, [Next]_vars, NEW c \in Clients,
                      TakesEffect(c), CreateOnly(c) \/ creating[c], file # Absent
               PROVE  FALSE
    OBVIOUS
  <2>1. CASE pc[c] = "commit" /\ ~creating[c]
    <3>1. CallInv(c) /\ PromiseInv(c) /\ req[c] \in Request
      BY <2>1, RequestsAssumption DEF IInv, TypeInv, CallInv
    <3>2. Locks(c) \/ req[c].kind = "attach"
      BY <3>1 DEF Request, Locks, LockingTools
    <3>3. raw[c] # Absent
      BY <2>1, <3>1, <3>2, SentinelAssumption DEF CallInv, PromiseInv,
         WriteSteps, File
    <3> QED
      BY <2>1, <3>1, <3>3 DEF PromiseInv, CreateOnly, WriteSteps
  <2>2. CASE pc[c] = "remove"
    <3>1. CallInv(c) /\ req[c] \in Request
      BY <2>2, RequestsAssumption DEF IInv, TypeInv, CallInv
    <3>2. ~req[c].create_only /\ raw[c] # Absent
      BY <2>2, <3>1, ContentAssumption DEF CallInv, Request, Content
    <3>3. ~creating[c]
      BY <2>2 DEF IInv, EffectInv
    <3> QED
      BY <2>2, <3>2, <3>3 DEF CreateOnly
  <2> QED
    BY <2>1, <2>2, Effect
<1> QED
  BY <1>1, Invariance, PTL DEF Spec, CreateNeverOverwrites

(* In strict mode the tools that check for expected_revision replace or    *)
(* delete no file without it.                                              *)
THEOREM StrictSafe == Spec => StrictOverwritesArePinned
<1>1. IInv /\ [Next]_vars
        => [\A c \in Clients :
              Strict /\ TakesEffect(c) /\ file # Absent /\ req[c].pin = NoPin
                 => req[c].kind \in {"append", "patch", "attach"}]_vars
  <2> SUFFICES ASSUME IInv, [Next]_vars, NEW c \in Clients,
                      TakesEffect(c), Strict, file # Absent, req[c].pin = NoPin,
                      req[c].kind \notin {"append", "patch", "attach"}
               PROVE  FALSE
    OBVIOUS
  <2>1. CallInv(c) /\ PromiseInv(c)
    BY DEF IInv, TypeInv
  <2>4. NeedsPin(req[c])
    <3>1. req[c] \in Request
      BY <2>1, Effect, RequestsAssumption DEF CallInv
    <3> QED
      BY <3>1 DEF Request, Tools, NeedsPin
  <2>2. CASE pc[c] = "commit" /\ ~creating[c]
    <3>1. Locks(c)
      BY <2>4 DEF NeedsPin, Locks, LockingTools, Tools
    <3> QED
      BY <2>1, <2>2, <2>4, <3>1 DEF CallInv, PromiseInv, Decided, WriteSteps
  <2>3. CASE pc[c] = "remove"
    <3>1. req[c] \in Request
      BY <2>1, <2>3, RequestsAssumption DEF CallInv
    <3>2. ~req[c].create_only /\ raw[c] # Absent
      BY <2>1, <2>3, <3>1, ContentAssumption DEF CallInv, Request, Content
    <3> QED
      BY <2>1, <2>3, <2>4, <3>2 DEF PromiseInv, Decided
  <2> QED
    BY <2>2, <2>3, Effect
<1> QED
  BY <1>1, Invariance, PTL DEF Spec, StrictOverwritesArePinned

-----------------------------------------------------------------------------
(* After its commit the file is what the call stored; so is the revision   *)
(* it then reads back.                                                     *)
OwnInv(c) ==
    /\ pc[c] \in {"unlink_temp", "sync_parent", "final"} /\ Locks(c)
          => file = New(c)
    /\ pc[c] = "release" /\ ans[c] = "ok" /\ token[c] # NoPin
          => token[c] = New(c)

(* Of two calls on one path, one that locks and one that stores, the one   *)
(* that locks is not past its commit.                                      *)
LEMMA NoOtherStores ==
    ASSUME IInv, NEW c \in Clients, NEW d \in Clients, d # c,
           pc[c] \in {"commit", "remove"}, Locks(d)
    PROVE  pc[d] \notin {"unlink_temp", "sync_parent", "final"}
<1>1. SUFFICES ASSUME pc[d] \in {"unlink_temp", "sync_parent", "final"}
               PROVE  FALSE
  OBVIOUS
<1>2. Locks(c)
  BY <1>1 DEF IInv, FitInv, Fits, Locks
<1> QED
  BY <1>1, <1>2 DEF IInv, LockDiscipline, LockedSteps

(* A step of c that leaves the file alone leaves the others' part as it is.*)
LEMMA OwnOfOthers ==
    ASSUME TypeOK, NEW c \in Clients, NEW d \in Clients, d # c, OwnInv(d),
           pc'[d] = pc[d], req'[d] = req[d], raw'[d] = raw[d],
           ans'[d] = ans[d], token'[d] = token[d],
           \/ UNCHANGED file
           \/ Locks(d) => pc[d] \notin {"unlink_temp", "sync_parent", "final"}
    PROVE  OwnInv(d)'
  BY DEF OwnInv, Locks, New

(* The file keeps what a call stored until its final read. *)
LEMMA OwnStep ==
    ASSUME IInv, [Next]_vars, MaxExternal = 0, \A d \in Clients : OwnInv(d)
    PROVE  (\A d \in Clients : OwnInv(d))'
<1>1. TypeOK /\ TypeInv
  BY DEF IInv, TypeInv
<1>2. ASSUME NEW c \in Clients, Call(c) \/ Progress(c) \/ StorageError(c),
             NEW d \in Clients, d # c
      PROVE  OwnInv(d)'
  <2>1. /\ pc'[d] = pc[d] /\ req'[d] = req[d] /\ raw'[d] = raw[d]
        /\ ans'[d] = ans[d] /\ token'[d] = token[d]
    BY <1>1, <1>2
       DEF TypeOK, Call, Progress, StorageError, PrepareFullWrite, CheckExists,
           AcquireLock, LockTimeout, Exists, Read, MakeParent, Check, SyncTemp,
           Recheck,
           LinkCommit, UnlinkTemp, RenameCommit, SyncParent, Final, Remove,
           Release, ReturnFromCall, Pinned, Raise, Answer, Goto, sharedVars,
           callVars
  <2>2. UNCHANGED file \/ pc[c] \in {"commit", "remove"}
    BY <1>2
       DEF Call, Progress, StorageError, PrepareFullWrite, CheckExists,
           AcquireLock, LockTimeout, Exists, Read, MakeParent, Check, SyncTemp,
           Recheck,
           LinkCommit, UnlinkTemp, RenameCommit, SyncParent, Final, Remove,
           Release, ReturnFromCall, Pinned, Raise, sharedVars
  <2>3. CASE UNCHANGED file
    BY <1>1, <1>2, <2>1, <2>3, OwnOfOthers
  <2>4. CASE pc[c] \in {"commit", "remove"}
    BY <1>1, <1>2, <2>1, <2>4, OwnOfOthers, NoOtherStores
  <2> QED
    BY <2>2, <2>3, <2>4
<1>3. ASSUME NEW c \in Clients, NEW step \in Steps, Goto(c, step),
             step \notin {"unlink_temp", "sync_parent", "final", "release"}
      PROVE  OwnInv(c)'
  BY <1>1, <1>3 DEF TypeOK, Goto, OwnInv
<1>4. ASSUME NEW c \in Clients, NEW a, NEW rev, Answer(c, a, rev),
             a = "ok" => rev = NoPin
      PROVE  OwnInv(c)'
  BY <1>1, <1>4 DEF TypeOK, Answer, Goto, OwnInv
<1>5. ASSUME NEW c \in Clients, NEW a, Raise(c, a) PROVE OwnInv(c)'
  BY <1>4, <1>5 DEF Raise
<1>6. ASSUME NEW c \in Clients, Call(c) PROVE OwnInv(c)'
  BY <1>3, <1>6 DEF Call, Entry, Steps
<1>7. ASSUME NEW c \in Clients, PrepareFullWrite(c) \/ CheckExists(c)
      PROVE  OwnInv(c)'
  BY <1>3, <1>5, <1>7 DEF PrepareFullWrite, CheckExists, Steps
<1>8. ASSUME NEW c \in Clients, AcquireLock(c) PROVE OwnInv(c)'
  BY <1>3, <1>8 DEF AcquireLock, AfterLock, Steps
<1>9. ASSUME NEW c \in Clients, LockTimeout(c) \/ StorageError(c)
      PROVE  OwnInv(c)'
  BY <1>5, <1>9 DEF LockTimeout, StorageError
<1>10. ASSUME NEW c \in Clients, Exists(c) PROVE OwnInv(c)'
  BY <1>3, <1>5, <1>10 DEF Exists, Steps
<1>11. ASSUME NEW c \in Clients, Read(c) PROVE OwnInv(c)'
  BY <1>3, <1>4, <1>5, <1>11 DEF Read, Steps
<1>12. ASSUME NEW c \in Clients, Check(c) \/ SyncTemp(c) \/ Recheck(c)
       PROVE  OwnInv(c)'
  BY <1>3, <1>5, <1>12 DEF Check, SyncTemp, Recheck, Steps
<1>13. ASSUME NEW c \in Clients, LinkCommit(c) \/ RenameCommit(c)
       PROVE  OwnInv(c)'
  <2>1. CASE Raise(c, "conflict")
    BY <1>5, <2>1
  <2>2. CASE /\ Store(c, New(c)) /\ UNCHANGED callVars
             /\ \E step \in {"unlink_temp", "sync_parent"} : Goto(c, step)
    BY <1>1, <2>2 DEF TypeOK, Store, Goto, OwnInv, New, callVars
  <2> QED
    BY <1>13, <2>1, <2>2 DEF LinkCommit, RenameCommit
<1>14. ASSUME NEW c \in Clients, UnlinkTemp(c) \/ SyncParent(c)
       PROVE  OwnInv(c)'
  BY <1>1, <1>14 DEF TypeOK, UnlinkTemp, SyncParent, Goto, OwnInv, New, Locks,
                     sharedVars, callVars
<1>15. ASSUME NEW c \in Clients, Final(c) PROVE OwnInv(c)'
  <2>1. CASE Raise(c, "error")
    BY <1>5, <2>1
  <2>2. CASE Answer(c, "ok", IF Locks(c) THEN file ELSE NoPin)
    <3>1. CASE Locks(c)
      BY <1>1, <1>15, <2>2, <3>1
         DEF TypeOK, Final, Answer, Goto, OwnInv, New
    <3>2. CASE ~Locks(c)
      BY <1>4, <2>2, <3>2
    <3> QED
      BY <3>1, <3>2
  <2> QED
    BY <1>15, <2>1, <2>2 DEF Final
<1>16. ASSUME NEW c \in Clients, Remove(c) PROVE OwnInv(c)'
  BY <1>4, <1>5, <1>16 DEF Remove
<1>17. ASSUME NEW c \in Clients, Release(c) PROVE OwnInv(c)'
  BY <1>3, <1>17 DEF Release, ReturnFromCall, Steps
<1>22. ASSUME NEW c \in Clients, MakeParent(c) PROVE OwnInv(c)'
  BY <1>22 DEF MakeParent, OwnInv, New, Locks, sharedVars, callVars
<1>18. ASSUME NEW c \in Clients, Call(c) \/ Progress(c) \/ StorageError(c)
       PROVE  OwnInv(c)'
  BY <1>6, <1>7, <1>8, <1>9, <1>10, <1>11, <1>12, <1>13, <1>14, <1>15, <1>16,
     <1>17, <1>18, <1>22 DEF Progress
<1>19. ~ExternalEdit
  BY <1>1, SMT DEF TypeOK, ExternalEdit
<1>20. CASE Crash
  BY <1>20 DEF Crash, OwnInv
<1>21. CASE UNCHANGED vars
  BY <1>21 DEF vars, OwnInv, New, Locks
<1> QED
  BY <1>2, <1>18, <1>19, <1>20, <1>21 DEF Next

(* With no other program editing, the revision a write returns is that of  *)
(* the bytes it stored, although it is read back after the commit.         *)
THEOREM RevisionSafe ==
    ASSUME MaxExternal = 0 PROVE Spec => []RevisionIsOfOwnWrite
<1>1. Init => \A d \in Clients : OwnInv(d)
  BY DEF Init, OwnInv
<1>2. IInv /\ (\A d \in Clients : OwnInv(d)) /\ [Next]_vars
        => (\A d \in Clients : OwnInv(d))'
  BY OwnStep
<1>3. (\A d \in Clients : OwnInv(d)) => RevisionIsOfOwnWrite
  BY DEF OwnInv, RevisionIsOfOwnWrite
<1> QED
  BY <1>1, <1>2, <1>3, Invariance, PTL DEF Spec

-----------------------------------------------------------------------------
(* The refinement.  Without other programs and power losses, the step that *)
(* changes the file is the abstract call, on content it accepts.           *)

(* Initial states are abstract initial states. *)
LEMMA AbsInitialStates == Init => Abs!AbsInit
  BY DEF Init, Abs!AbsInit, absPhase, Abs!File, Abs!Content, File, Content

(* A step that neither begins nor ends a call nor changes the file.        *)
LEMMA Stutters ==
    ASSUME TypeOK, NEW c \in Clients, UNCHANGED <<file, req, stored>>,
           pc[c] # "idle", NEW s \in Steps \ {"idle"}, Goto(c, s)
    PROVE  UNCHANGED <<file, absPhase, req>>
<1>1. \A d \in Clients : (pc'[d] = "idle") <=> (pc[d] = "idle")
  BY DEF TypeOK, Goto
<1> QED
  BY <1>1 DEF absPhase

(* A commit stores what the abstract call would. *)
LEMMA AbsEffect ==
    ASSUME IInv, [Next]_vars, MaxExternal = 0, NEW c \in Clients,
           TakesEffect(c)
    PROVE  Accepts(req[c], file) /\ New(c) = Rendered(req[c], file)
<1>1. CallInv(c) /\ PromiseInv(c) /\ TypeOK /\ RacedInv
  BY DEF IInv, TypeInv
<1>2. externals = 0
  BY <1>1 DEF TypeOK
<1>3. /\ req[c] \in Request
      /\ pc[c] \in {"commit", "remove"}
  BY <1>1, Effect, RequestsAssumption DEF CallInv
<1>4. CASE Locks(c)
  <2>1. ~raced[c]
    BY <1>1, <1>2, <1>4 DEF RacedInv
  <2>2. file = raw[c]
    BY <1>4, <2>1, EffectOnRead
  <2>3. Accepts(req[c], raw[c])
    <3>1. CASE pc[c] = "commit"
      BY <1>1, <1>3, <1>4, <3>1, <2>2, Effect
         DEF Accepts, CallInv, PromiseInv, Decided, WriteSteps
    <3>2. CASE pc[c] = "remove"
      <4>1. req[c].kind = "delete" /\ raw[c] # Absent
        BY <1>1, <3>2, ContentAssumption DEF CallInv, Content
      <4>2. ~req[c].create_only
        BY <1>3, <4>1 DEF Request
      <4> QED
        BY <1>1, <3>2, <4>1, <4>2 DEF Accepts, PromiseInv, Decided
    <3> QED
      BY <1>3, <3>1, <3>2
  <2> QED
    BY <2>2, <2>3 DEF New
<1>5. CASE ~Locks(c)
  <2>1. req[c].kind = "attach"
    BY <1>3, <1>5 DEF Request, Locks, LockingTools
  <2>2. req[c].pin = NoPin /\ ~req[c].create_only /\ ~req[c].dry_run
    BY <1>3, <2>1 DEF Request
  <2> QED
    BY <2>1, <2>2 DEF Accepts, NeedsPin, New, Rendered, Overwritten
<1> QED
  BY <1>4, <1>5

(* Every step is an abstract step or a stutter. *)
LEMMA AbsStep ==
    ASSUME IInv, [Next]_vars, MaxExternal = 0, MaxCrashes = 0
    PROVE  [Abs!AbsNext]_<<file, absPhase, req>>
<1>1. TypeOK /\ (\A c \in Clients : EffectInv(c) /\ CallInv(c))
  BY DEF IInv, TypeInv
<1>2. ASSUME NEW c \in Clients, Call(c) PROVE Abs!AbsCall(c)
  <2>1. \E s \in Steps \ {"idle"} : Goto(c, s)
    <3>1. PICK r \in Requests : \E step \in Entry(r) : Goto(c, step)
      BY <1>2 DEF Call
    <3>2. Entry(r) \subseteq Steps \ {"idle"}
      BY DEF Entry, Steps
    <3> QED
      BY <3>1, <3>2
  <2>2. pc[c] = "idle" /\ ~stored[c] /\ UNCHANGED <<stored, file>>
    BY <1>1, <1>2 DEF EffectInv, Call, sharedVars
  <2>3. \A d \in Clients :
           (pc'[d] = "idle") <=> (d # c /\ pc[d] = "idle")
    BY <1>1, <2>1 DEF TypeOK, Goto
  <2>4. absPhase[c] = "idle" /\ absPhase' = [absPhase EXCEPT ![c] = "pending"]
    BY <2>2, <2>3 DEF absPhase
  <2> QED
    BY <1>2, <2>4 DEF Abs!AbsCall, Call, sharedVars
<1>3. ASSUME NEW c \in Clients, Release(c) PROVE Abs!AbsReturn(c)
  <2>1. absPhase[c] # "idle" /\ absPhase' = [absPhase EXCEPT ![c] = "idle"]
    BY <1>1, <1>3 DEF TypeOK, Release, ReturnFromCall, Goto, absPhase
  <2> QED
    BY <1>3, <2>1 DEF Abs!AbsReturn, Release, ReturnFromCall, sharedVars
<1>4. ASSUME NEW c \in Clients,
             PrepareFullWrite(c) \/ CheckExists(c) \/ AcquireLock(c)
             \/ LockTimeout(c) \/ Exists(c) \/ Read(c) \/ Check(c) \/ SyncTemp(c)
             \/ Recheck(c) \/ UnlinkTemp(c) \/ SyncParent(c) \/ Final(c)
             \/ StorageError(c)
      PROVE  UNCHANGED <<file, absPhase, req>>
  <2>1. UNCHANGED <<file, req, stored>> /\ pc[c] # "idle"
    BY <1>1, <1>4
       DEF TypeOK, PrepareFullWrite, CheckExists, AcquireLock, LockTimeout,
           Exists, Read,
           Check, SyncTemp, Recheck, UnlinkTemp, SyncParent, Final, StorageError,
           Pinned, Raise, Answer, sharedVars, callVars, historyVars
  <2>2. \E s \in Steps \ {"idle"} : Goto(c, s)
    BY <1>1, <1>4
       DEF PrepareFullWrite, CheckExists, AcquireLock, LockTimeout, Exists,
           Read,
           Check, SyncTemp, Recheck, UnlinkTemp, SyncParent, Final, StorageError,
           Raise, Answer, AfterLock, Steps
  <2> QED
    BY <1>1, <2>1, <2>2, Stutters
<1>5. ASSUME NEW c \in Clients, LinkCommit(c) \/ RenameCommit(c) \/ Remove(c)
      PROVE  Abs!AbsPerform(c) \/ UNCHANGED <<file, absPhase, req>>
  <2>1. CASE Raise(c, "conflict") \/ Raise(c, "missing")
    BY <1>1, <1>5, <2>1, Stutters
       DEF Raise, Answer, sharedVars, historyVars, Steps, LinkCommit,
           RenameCommit, Remove
  <2>2. CASE Store(c, New(c)) \/ Store(c, Absent)
    <3>1. /\ pc[c] \in {"commit", "remove"}
          /\ Store(c, New(c))
          /\ req' = req
          /\ \E s \in Steps \ {"idle"} : Goto(c, s)
      BY <1>1, <1>5, <2>2
         DEF LinkCommit, RenameCommit, Remove, Answer, callVars, Steps, New,
             Rendered, Overwritten,
             CallInv, Raise, sharedVars, Store
    <3>2. TakesEffect(c)
      BY <1>1, <3>1 DEF TakesEffect, Store, EffectInv, TypeOK
    <3>3. absPhase[c] = "pending" /\ absPhase' = [absPhase EXCEPT ![c] = "done"]
      BY <1>1, <3>1, <3>2 DEF absPhase, Store, TypeOK, TakesEffect, Goto
    <3>4. Accepts(req[c], file) /\ file' = Rendered(req[c], file)
      BY <3>1, <3>2, AbsEffect DEF Store
    <3> QED
      BY <3>1, <3>3, <3>4
         DEF Abs!AbsPerform, Abs!Accepts, Accepts, Abs!Rendered, Rendered,
             Abs!Overwritten, Overwritten,
             Abs!Body,
             Body, Abs!NeedsPin, NeedsPin
  <2> QED
    BY <1>5, <2>1, <2>2 DEF LinkCommit, RenameCommit, Remove
<1>8. ASSUME NEW c \in Clients, MakeParent(c)
      PROVE  UNCHANGED <<file, absPhase, req>>
  BY <1>8 DEF MakeParent, absPhase, sharedVars, callVars, historyVars
<1>6. ~ExternalEdit /\ ~Crash
  BY <1>1, SMT DEF TypeOK, ExternalEdit, Crash
<1>7. CASE UNCHANGED vars
  BY <1>7 DEF vars, absPhase
<1> QED
  BY <1>2, <1>3, <1>4, <1>5, <1>6, <1>7, <1>8 DEF Next, Progress, Abs!AbsNext

(* For every number of callers and every set of calls, the protocol        *)
(* implements the conditional file.                                        *)
THEOREM Refinement ==
    ASSUME MaxExternal = 0, MaxCrashes = 0
    PROVE  Spec => ImplementsConditionalFile
<1>1. Init => Abs!AbsInit
  BY AbsInitialStates
<1>2. IInv /\ [Next]_vars => [Abs!AbsNext]_<<file, absPhase, req>>
  BY AbsStep
<1> QED
  BY <1>1, <1>2, Invariance, PTL
     DEF Spec, ImplementsConditionalFile, Abs!AbsSpec, Abs!absVars
=============================================================================
