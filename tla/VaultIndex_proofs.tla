-------------------------- MODULE VaultIndex_proofs --------------------------
(***************************************************************************)
(* Proofs about VaultIndex, for any notes, contents and threads, and any   *)
(* number of changes of the vault.                                         *)
(***************************************************************************)
EXTENDS VaultIndex, TLAPS

(* build, update and reconcile exclude each other.                         *)
LockInv == \A t \in Threads : pc[t] \in LockedSteps => mutation = t

(***************************************************************************)
(* What a thread knows of the note it works on.  The point of the removals *)
(* before _index_note is the third conjunct: the note is not in the index. *)
(***************************************************************************)
IndexSteps == {"index", "sweep_index", "build_index"}

LocalInv(t) ==
    /\ pc[t] \in UpdateSteps \cup IndexSteps
                 \cup {"update", "remove", "compare", "replace", "gone"}
          => path[t] \in Notes
    /\ pc[t] \in IndexSteps \cup {"purge_again", "compare", "replace"}
          => text[t] \in Contents
    /\ pc[t] \in IndexSteps => revisions[path[t]] = Nothing
    /\ pc[t] \in {"build_read", "build_index"}
          => \A n \in todo[t] : revisions[n] = Nothing
    /\ pc[t] = "build_index" => path[t] \notin todo[t]
    /\ pc[t] \in BuildSteps => t = Boot

(* Nothing hidden is on its way into the index. *)
HiddenInv(t) ==
    /\ found[t] \cap Hidden = {}
    /\ pc[t] \in {"build_read", "build_index", "sweep_read", "compare",
                  "replace", "sweep_index", "gone"}
          => todo[t] \cap Hidden = {}
    /\ pc[t] \in IndexSteps \cup {"read", "purge_again", "compare", "replace"}
          => path[t] \notin Hidden

IInv ==
    /\ TypeOK
    /\ LockInv
    /\ \A t \in Threads : LocalInv(t) /\ HiddenInv(t)
    /\ IndexAgrees
    /\ NothingHiddenIsIndexed

-----------------------------------------------------------------------------
(* VaultIndex.remove takes away everything that _index_note put in.        *)
LEMMA RemoveAgrees ==
    ASSUME TypeOK, IndexAgrees, NEW n \in Notes, RemoveEntry(n)
    PROVE  IndexAgrees'
<1> USE NotesAssumption DEF RemoveEntry, IndexAgrees, TypeOK
<1>1. ASSUME NEW m \in Notes
      PROVE  /\ outlinks'[m] = (IF revisions'[m] = Nothing THEN {}
                                ELSE LinksOf[revisions'[m]])
             /\ \A k \in Names : m \in backlinks'[k] <=> k \in outlinks'[m]
             /\ \A g \in Tags :
                   m \in tags'[g] <=> revisions'[m] # Nothing /\ g \in TagsOf[revisions'[m]]
  <2>1. CASE m = n
    BY <2>1
  <2>2. CASE m # n
    BY <2>2
  <2> QED
    BY <2>1, <2>2
<1>2. ASSUME NEW k \in Names, alias'[k] # Nothing
      PROVE  /\ revisions'[alias'[k]] # Nothing
             /\ k \in Keys(alias'[k], revisions'[alias'[k]])
  BY <1>2
<1> QED
  BY <1>1, <1>2

(* _index_note keeps the index in agreement for a note that is not in it.  *)
LEMMA IndexNoteAgrees ==
    ASSUME TypeOK, IndexAgrees, NEW n \in Notes, NEW c \in Contents,
           revisions[n] = Nothing, IndexNote(n, c)
    PROVE  IndexAgrees'
<1> USE NotesAssumption, ParseAssumption DEF IndexNote, IndexAgrees, TypeOK
<1>1. ASSUME NEW m \in Notes
      PROVE  /\ outlinks'[m] = (IF revisions'[m] = Nothing THEN {}
                                ELSE LinksOf[revisions'[m]])
             /\ \A k \in Names : m \in backlinks'[k] <=> k \in outlinks'[m]
             /\ \A g \in Tags :
                   m \in tags'[g] <=> revisions'[m] # Nothing /\ g \in TagsOf[revisions'[m]]
  <2>1. CASE m = n
    BY <2>1
  <2>2. CASE m # n
    BY <2>2
  <2> QED
    BY <2>1, <2>2
<1>2. ASSUME NEW k \in Names, alias'[k] # Nothing
      PROVE  /\ revisions'[alias'[k]] # Nothing
             /\ k \in Keys(alias'[k], revisions'[alias'[k]])
  BY <1>2
<1> QED
  BY <1>1, <1>2

(* A removed entry keeps the types and the other entries. *)
LEMMA RemoveType ==
    ASSUME TypeOK, NEW n \in Notes, RemoveEntry(n)
    PROVE  /\ revisions' \in [Notes -> {Nothing} \cup Contents]
           /\ outlinks' \in [Notes -> SUBSET Names]
           /\ backlinks' \in [Names -> SUBSET Notes]
           /\ tags' \in [Tags -> SUBSET Notes]
           /\ alias' \in [Names -> {Nothing} \cup Notes]
           /\ \A m \in Notes : revisions'[m] \in {Nothing, revisions[m]}
           /\ revisions'[n] = Nothing
BY DEF TypeOK, RemoveEntry

(* A new entry keeps the types and the other entries. *)
LEMMA IndexNoteType ==
    ASSUME TypeOK, NEW n \in Notes, NEW c \in Contents, IndexNote(n, c)
    PROVE  /\ revisions' \in [Notes -> {Nothing} \cup Contents]
           /\ outlinks' \in [Notes -> SUBSET Names]
           /\ backlinks' \in [Names -> SUBSET Notes]
           /\ tags' \in [Tags -> SUBSET Notes]
           /\ alias' \in [Names -> {Nothing} \cup Notes]
           /\ \A m \in Notes \ {n} : revisions'[m] = revisions[m]
BY ParseAssumption DEF TypeOK, IndexNote

-----------------------------------------------------------------------------
(* The invariant holds at the start. *)
LEMMA InitInv == Init => IInv
<1> SUFFICES ASSUME Init PROVE IInv
  OBVIOUS
<1>1. TypeOK
  <2>1. edits \in 0..MaxEdits
    BY ThreadsAssumption DEF Init
  <2> QED
    BY <2>1, ThreadsAssumption DEF Init, TypeOK, Steps, Threads
<1>2. LockInv /\ \A t \in Threads : LocalInv(t) /\ HiddenInv(t)
  BY DEF Init, LockInv, LocalInv, HiddenInv, LockedSteps, UpdateSteps, IndexSteps,
         BuildSteps, SweepSteps
<1>3. IndexAgrees /\ NothingHiddenIsIndexed
  BY DEF Init, IndexAgrees, NothingHiddenIsIndexed, Indexed
<1> QED
  BY <1>1, <1>2, <1>3 DEF IInv

(* Types, for every step. *)
LEMMA TypeStep == ASSUME IInv, [Next]_vars PROVE TypeOK'
<1> USE ThreadsAssumption DEF IInv, TypeOK, LocalInv, Threads, Steps,
        LockedSteps, UpdateSteps, BuildSteps, SweepSteps, IndexSteps, Goto,
        Leave, Unlock, Found, Take, Change, indexVars, localVars, watchVars
<1>1. ASSUME NEW t \in Updaters, BeginUpdate(t) PROVE TypeOK'
  BY <1>1 DEF BeginUpdate, Lock
<1>2. ASSUME NEW t \in Updaters, Purge(t) PROVE TypeOK'
  BY <1>2, RemoveType DEF Purge
<1>3. ASSUME NEW t \in Updaters, Look(t) PROVE TypeOK'
  BY <1>3 DEF Look
<1>4. ASSUME NEW t \in Updaters, Read(t) PROVE TypeOK'
  BY <1>4 DEF Read, Readable
<1>5. ASSUME NEW t \in Updaters, Index(t) PROVE TypeOK'
  BY <1>5, IndexNoteType DEF Index
<1>6. ASSUME NEW t \in Updaters, ToolRemove(t) PROVE TypeOK'
  BY <1>6, RemoveType DEF ToolRemove
<1>7. ASSUME NEW t \in Updaters, Deliver(t) PROVE TypeOK'
  BY <1>7 DEF Deliver
<1>8. ASSUME NEW t \in Updaters, ToolWrite(t) PROVE TypeOK'
  BY <1>8 DEF ToolWrite
<1>9. ASSUME NEW t \in Updaters, ToolDelete(t) PROVE TypeOK'
  BY <1>9 DEF ToolDelete
<1>10. CASE StartWalk(Boot, "build", "build_list")
  BY <1>10 DEF StartWalk, Lock
<1>11. CASE Visit(Boot, "build_list", "build_clear")
  BY <1>11 DEF Visit
<1>12. CASE BuildClear
  BY <1>12 DEF BuildClear
<1>13. CASE BuildRead
  BY <1>13 DEF BuildRead, Readable
<1>14. CASE BuildIndex
  BY <1>14, IndexNoteType DEF BuildIndex
<1>15. CASE Watch
  BY <1>15 DEF Watch
<1>16. CASE Publish
  BY <1>16 DEF Publish
<1>17. CASE Wake
  BY <1>17 DEF Wake
<1>18. ASSUME NEW t \in {Boot, Sweeper}, StartWalk(t, "reconcile", "list")
       PROVE  TypeOK'
  BY <1>18 DEF StartWalk, Lock
<1>19. ASSUME NEW t \in {Boot, Sweeper}, Visit(t, "list", "stale") PROVE TypeOK'
  BY <1>19 DEF Visit
<1>20. ASSUME NEW t \in {Boot, Sweeper}, FindStale(t) PROVE TypeOK'
  BY <1>20 DEF FindStale, Indexed
<1>21. ASSUME NEW t \in {Boot, Sweeper}, DropStale(t) PROVE TypeOK'
  BY <1>21, RemoveType DEF DropStale
<1>22. ASSUME NEW t \in {Boot, Sweeper}, SweepRead(t) PROVE TypeOK'
  BY <1>22 DEF SweepRead, Readable
<1>23. ASSUME NEW t \in {Boot, Sweeper}, Compare(t) PROVE TypeOK'
  BY <1>23 DEF Compare
<1>24. ASSUME NEW t \in {Boot, Sweeper}, DropGone(t) PROVE TypeOK'
  BY <1>24, RemoveType DEF DropGone
<1>25. ASSUME NEW t \in {Boot, Sweeper}, Replace(t) PROVE TypeOK'
  BY <1>25, RemoveType DEF Replace
<1>26. ASSUME NEW t \in {Boot, Sweeper}, SweepIndex(t) PROVE TypeOK'
  BY <1>26, IndexNoteType DEF SweepIndex
<1>27. ASSUME NEW t \in {Boot, Sweeper}, ListError(t) PROVE TypeOK'
  BY <1>27 DEF ListError
<1>28. CASE ExternalEdit
  BY <1>28 DEF ExternalEdit
<1>29. CASE UNCHANGED vars
  BY <1>29 DEF vars
<1> QED
  BY <1>1, <1>2, <1>3, <1>4, <1>5, <1>6, <1>7, <1>8, <1>9, <1>10, <1>11, <1>12,
     <1>13, <1>14, <1>15, <1>16, <1>17, <1>18, <1>19, <1>20, <1>21, <1>22,
     <1>23, <1>24, <1>25, <1>26, <1>27, <1>28, <1>29 DEF Next, UpdaterStep,
     Update, BootStep, Build, SweeperStep, Reconcile

(* The mutation lock is only taken when it is free. *)
LEMMA LockStep == ASSUME IInv, [Next]_vars PROVE LockInv'
<1> USE ThreadsAssumption DEF IInv, TypeOK, LocalInv, LockInv, Threads,
        LockedSteps, UpdateSteps, BuildSteps, SweepSteps, Goto, Leave, Unlock,
        Found, Take, Change, indexVars, localVars, watchVars
<1>1. ASSUME NEW t \in Updaters, BeginUpdate(t) PROVE LockInv'
  BY <1>1 DEF BeginUpdate, Lock
<1>2. ASSUME NEW t \in Updaters, Purge(t) PROVE LockInv'
  BY <1>2 DEF Purge
<1>3. ASSUME NEW t \in Updaters, Look(t) PROVE LockInv'
  BY <1>3 DEF Look
<1>4. ASSUME NEW t \in Updaters, Read(t) PROVE LockInv'
  BY <1>4 DEF Read, Readable
<1>5. ASSUME NEW t \in Updaters, Index(t) PROVE LockInv'
  BY <1>5 DEF Index
<1>6. ASSUME NEW t \in Updaters, ToolRemove(t) PROVE LockInv'
  BY <1>6 DEF ToolRemove
<1>7. ASSUME NEW t \in Updaters, Deliver(t) PROVE LockInv'
  BY <1>7 DEF Deliver
<1>8. ASSUME NEW t \in Updaters, ToolWrite(t) PROVE LockInv'
  BY <1>8 DEF ToolWrite
<1>9. ASSUME NEW t \in Updaters, ToolDelete(t) PROVE LockInv'
  BY <1>9 DEF ToolDelete
<1>10. CASE StartWalk(Boot, "build", "build_list")
  BY <1>10 DEF StartWalk, Lock
<1>11. CASE Visit(Boot, "build_list", "build_clear")
  BY <1>11 DEF Visit
<1>12. CASE BuildClear
  BY <1>12 DEF BuildClear
<1>13. CASE BuildRead
  BY <1>13 DEF BuildRead, Readable
<1>14. CASE BuildIndex
  BY <1>14 DEF BuildIndex
<1>15. CASE Watch
  BY <1>15 DEF Watch
<1>16. CASE Publish
  BY <1>16 DEF Publish
<1>17. CASE Wake
  BY <1>17 DEF Wake
<1>18. ASSUME NEW t \in {Boot, Sweeper}, StartWalk(t, "reconcile", "list")
       PROVE  LockInv'
  BY <1>18 DEF StartWalk, Lock
<1>19. ASSUME NEW t \in {Boot, Sweeper}, Visit(t, "list", "stale")
       PROVE  LockInv'
  BY <1>19 DEF Visit
<1>20. ASSUME NEW t \in {Boot, Sweeper}, FindStale(t) PROVE LockInv'
  BY <1>20 DEF FindStale, Indexed
<1>21. ASSUME NEW t \in {Boot, Sweeper}, DropStale(t) PROVE LockInv'
  BY <1>21 DEF DropStale
<1>22. ASSUME NEW t \in {Boot, Sweeper}, SweepRead(t) PROVE LockInv'
  BY <1>22 DEF SweepRead, Readable
<1>23. ASSUME NEW t \in {Boot, Sweeper}, Compare(t) PROVE LockInv'
  BY <1>23 DEF Compare
<1>24. ASSUME NEW t \in {Boot, Sweeper}, DropGone(t) PROVE LockInv'
  BY <1>24 DEF DropGone
<1>25. ASSUME NEW t \in {Boot, Sweeper}, Replace(t) PROVE LockInv'
  BY <1>25 DEF Replace
<1>26. ASSUME NEW t \in {Boot, Sweeper}, SweepIndex(t) PROVE LockInv'
  BY <1>26 DEF SweepIndex
<1>27. ASSUME NEW t \in {Boot, Sweeper}, ListError(t) PROVE LockInv'
  BY <1>27 DEF ListError
<1>28. CASE ExternalEdit
  BY <1>28 DEF ExternalEdit
<1>29. CASE UNCHANGED vars
  BY <1>29 DEF vars
<1> QED
  BY <1>1, <1>2, <1>3, <1>4, <1>5, <1>6, <1>7, <1>8, <1>9, <1>10, <1>11, <1>12,
     <1>13, <1>14, <1>15, <1>16, <1>17, <1>18, <1>19, <1>20, <1>21, <1>22,
     <1>23, <1>24, <1>25, <1>26, <1>27, <1>28, <1>29 DEF Next, UpdaterStep,
     Update, BootStep, Build, SweeperStep, Reconcile

(* A thread's knowledge is only disturbed by the holder of the lock. *)
LEMMA LocalStep == ASSUME IInv, [Next]_vars PROVE (\A s \in Threads : LocalInv(s))'
<1> USE NotesAssumption, ThreadsAssumption DEF IInv, TypeOK, LocalInv, LockInv,
        Threads, LockedSteps, UpdateSteps, BuildSteps, SweepSteps, IndexSteps,
        Goto, Leave, Unlock, Found, Take, Change, indexVars, localVars,
        watchVars
<1>1. ASSUME NEW t \in Updaters, BeginUpdate(t)
      PROVE  (\A s \in Threads : LocalInv(s))'
  BY <1>1 DEF BeginUpdate, Lock
<1>2. ASSUME NEW t \in Updaters, Purge(t)
      PROVE  (\A s \in Threads : LocalInv(s))'
  BY <1>2, RemoveType DEF Purge
<1>3. ASSUME NEW t \in Updaters, Look(t) PROVE (\A s \in Threads : LocalInv(s))'
  BY <1>3 DEF Look
<1>4. ASSUME NEW t \in Updaters, Read(t) PROVE (\A s \in Threads : LocalInv(s))'
  BY <1>4 DEF Read, Readable
<1>5. ASSUME NEW t \in Updaters, Index(t)
      PROVE  (\A s \in Threads : LocalInv(s))'
  BY <1>5, IndexNoteType DEF Index
<1>6. ASSUME NEW t \in Updaters, ToolRemove(t)
      PROVE  (\A s \in Threads : LocalInv(s))'
  BY <1>6, RemoveType DEF ToolRemove
<1>7. ASSUME NEW t \in Updaters, Deliver(t)
      PROVE  (\A s \in Threads : LocalInv(s))'
  BY <1>7 DEF Deliver
<1>8. ASSUME NEW t \in Updaters, ToolWrite(t)
      PROVE  (\A s \in Threads : LocalInv(s))'
  BY <1>8 DEF ToolWrite
<1>9. ASSUME NEW t \in Updaters, ToolDelete(t)
      PROVE  (\A s \in Threads : LocalInv(s))'
  BY <1>9 DEF ToolDelete
<1>10. CASE StartWalk(Boot, "build", "build_list")
  BY <1>10 DEF StartWalk, Lock
<1>11. CASE Visit(Boot, "build_list", "build_clear")
  BY <1>11 DEF Visit
<1>12. CASE BuildClear
  BY <1>12 DEF BuildClear
<1>13. CASE BuildRead
  BY <1>13 DEF BuildRead, Readable
<1>14. CASE BuildIndex
  BY <1>14, IndexNoteType DEF BuildIndex
<1>15. CASE Watch
  BY <1>15 DEF Watch
<1>16. CASE Publish
  BY <1>16 DEF Publish
<1>17. CASE Wake
  BY <1>17 DEF Wake
<1>18. ASSUME NEW t \in {Boot, Sweeper}, StartWalk(t, "reconcile", "list")
       PROVE  (\A s \in Threads : LocalInv(s))'
  BY <1>18 DEF StartWalk, Lock
<1>19. ASSUME NEW t \in {Boot, Sweeper}, Visit(t, "list", "stale")
       PROVE  (\A s \in Threads : LocalInv(s))'
  BY <1>19 DEF Visit
<1>20. ASSUME NEW t \in {Boot, Sweeper}, FindStale(t)
       PROVE  (\A s \in Threads : LocalInv(s))'
  BY <1>20 DEF FindStale, Indexed
<1>21. ASSUME NEW t \in {Boot, Sweeper}, DropStale(t)
       PROVE  (\A s \in Threads : LocalInv(s))'
  BY <1>21, RemoveType DEF DropStale
<1>22. ASSUME NEW t \in {Boot, Sweeper}, SweepRead(t)
       PROVE  (\A s \in Threads : LocalInv(s))'
  BY <1>22 DEF SweepRead, Readable
<1>23. ASSUME NEW t \in {Boot, Sweeper}, Compare(t)
       PROVE  (\A s \in Threads : LocalInv(s))'
  BY <1>23 DEF Compare
<1>24. ASSUME NEW t \in {Boot, Sweeper}, DropGone(t)
       PROVE  (\A s \in Threads : LocalInv(s))'
  BY <1>24, RemoveType DEF DropGone
<1>25. ASSUME NEW t \in {Boot, Sweeper}, Replace(t)
       PROVE  (\A s \in Threads : LocalInv(s))'
  BY <1>25, RemoveType DEF Replace
<1>26. ASSUME NEW t \in {Boot, Sweeper}, SweepIndex(t)
       PROVE  (\A s \in Threads : LocalInv(s))'
  BY <1>26, IndexNoteType DEF SweepIndex
<1>27. ASSUME NEW t \in {Boot, Sweeper}, ListError(t)
       PROVE  (\A s \in Threads : LocalInv(s))'
  BY <1>27 DEF ListError
<1>28. CASE ExternalEdit
  BY <1>28 DEF ExternalEdit
<1>29. CASE UNCHANGED vars
  BY <1>29 DEF vars
<1> QED
  BY <1>1, <1>2, <1>3, <1>4, <1>5, <1>6, <1>7, <1>8, <1>9, <1>10, <1>11, <1>12,
     <1>13, <1>14, <1>15, <1>16, <1>17, <1>18, <1>19, <1>20, <1>21, <1>22,
     <1>23, <1>24, <1>25, <1>26, <1>27, <1>28, <1>29 DEF Next, UpdaterStep,
     Update, BootStep, Build, SweeperStep, Reconcile

(* list_files and the check in update leave hidden notes out. *)
LEMMA HiddenStep == ASSUME IInv, [Next]_vars PROVE (\A s \in Threads : HiddenInv(s))'
<1> USE NotesAssumption, ThreadsAssumption DEF IInv, TypeOK, HiddenInv, Threads,
        UpdateSteps, IndexSteps, Visible, Goto, Leave, Unlock, Found, Take,
        Change, indexVars, localVars, watchVars
<1>1. ASSUME NEW t \in Updaters, BeginUpdate(t)
      PROVE  (\A s \in Threads : HiddenInv(s))'
  BY <1>1 DEF BeginUpdate, Lock
<1>2. ASSUME NEW t \in Updaters, Purge(t)
      PROVE  (\A s \in Threads : HiddenInv(s))'
  BY <1>2 DEF Purge
<1>3. ASSUME NEW t \in Updaters, Look(t)
      PROVE  (\A s \in Threads : HiddenInv(s))'
  BY <1>3 DEF Look
<1>4. ASSUME NEW t \in Updaters, Read(t)
      PROVE  (\A s \in Threads : HiddenInv(s))'
  BY <1>4 DEF Read, Readable
<1>5. ASSUME NEW t \in Updaters, Index(t)
      PROVE  (\A s \in Threads : HiddenInv(s))'
  BY <1>5 DEF Index
<1>6. ASSUME NEW t \in Updaters, ToolRemove(t)
      PROVE  (\A s \in Threads : HiddenInv(s))'
  BY <1>6 DEF ToolRemove
<1>7. ASSUME NEW t \in Updaters, Deliver(t)
      PROVE  (\A s \in Threads : HiddenInv(s))'
  BY <1>7 DEF Deliver
<1>8. ASSUME NEW t \in Updaters, ToolWrite(t)
      PROVE  (\A s \in Threads : HiddenInv(s))'
  BY <1>8 DEF ToolWrite
<1>9. ASSUME NEW t \in Updaters, ToolDelete(t)
      PROVE  (\A s \in Threads : HiddenInv(s))'
  BY <1>9 DEF ToolDelete
<1>10. CASE StartWalk(Boot, "build", "build_list")
  BY <1>10 DEF StartWalk, Lock
<1>11. CASE Visit(Boot, "build_list", "build_clear")
  BY <1>11 DEF Visit
<1>12. CASE BuildClear
  BY <1>12 DEF BuildClear
<1>13. CASE BuildRead
  BY <1>13 DEF BuildRead, Readable
<1>14. CASE BuildIndex
  BY <1>14 DEF BuildIndex
<1>15. CASE Watch
  BY <1>15 DEF Watch
<1>16. CASE Publish
  BY <1>16 DEF Publish
<1>17. CASE Wake
  BY <1>17 DEF Wake
<1>18. ASSUME NEW t \in {Boot, Sweeper}, StartWalk(t, "reconcile", "list")
       PROVE  (\A s \in Threads : HiddenInv(s))'
  BY <1>18 DEF StartWalk, Lock
<1>19. ASSUME NEW t \in {Boot, Sweeper}, Visit(t, "list", "stale")
       PROVE  (\A s \in Threads : HiddenInv(s))'
  BY <1>19 DEF Visit
<1>20. ASSUME NEW t \in {Boot, Sweeper}, FindStale(t)
       PROVE  (\A s \in Threads : HiddenInv(s))'
  BY <1>20 DEF FindStale, Indexed
<1>21. ASSUME NEW t \in {Boot, Sweeper}, DropStale(t)
       PROVE  (\A s \in Threads : HiddenInv(s))'
  BY <1>21 DEF DropStale
<1>22. ASSUME NEW t \in {Boot, Sweeper}, SweepRead(t)
       PROVE  (\A s \in Threads : HiddenInv(s))'
  BY <1>22 DEF SweepRead, Readable
<1>23. ASSUME NEW t \in {Boot, Sweeper}, Compare(t)
       PROVE  (\A s \in Threads : HiddenInv(s))'
  BY <1>23 DEF Compare
<1>24. ASSUME NEW t \in {Boot, Sweeper}, DropGone(t)
       PROVE  (\A s \in Threads : HiddenInv(s))'
  BY <1>24 DEF DropGone
<1>25. ASSUME NEW t \in {Boot, Sweeper}, Replace(t)
       PROVE  (\A s \in Threads : HiddenInv(s))'
  BY <1>25 DEF Replace
<1>26. ASSUME NEW t \in {Boot, Sweeper}, SweepIndex(t)
       PROVE  (\A s \in Threads : HiddenInv(s))'
  BY <1>26 DEF SweepIndex
<1>27. ASSUME NEW t \in {Boot, Sweeper}, ListError(t)
       PROVE  (\A s \in Threads : HiddenInv(s))'
  BY <1>27 DEF ListError
<1>28. CASE ExternalEdit
  BY <1>28 DEF ExternalEdit
<1>29. CASE UNCHANGED vars
  BY <1>29 DEF vars
<1> QED
  BY <1>1, <1>2, <1>3, <1>4, <1>5, <1>6, <1>7, <1>8, <1>9, <1>10, <1>11, <1>12,
     <1>13, <1>14, <1>15, <1>16, <1>17, <1>18, <1>19, <1>20, <1>21, <1>22,
     <1>23, <1>24, <1>25, <1>26, <1>27, <1>28, <1>29 DEF Next, UpdaterStep,
     Update, BootStep, Build, SweeperStep, Reconcile

(* The only steps that change the index. *)
LEMMA IndexChanges ==
    ASSUME IInv, [Next]_vars
    PROVE  \/ UNCHANGED indexVars
           \/ \E n \in Notes : RemoveEntry(n)
           \/ \E t \in Threads : pc[t] \in IndexSteps /\ IndexNote(path[t], text[t])
           \/ BuildClear
<1> DEFINE Goal == \/ UNCHANGED indexVars
                   \/ \E n \in Notes : RemoveEntry(n)
                   \/ \E t \in Threads : pc[t] \in IndexSteps /\ IndexNote(path[t], text[t])
                   \/ BuildClear
<1> USE DEF IInv, LocalInv, Threads, UpdateSteps, IndexSteps, TypeOK, indexVars
<1>1. ASSUME NEW t \in Updaters, BeginUpdate(t) PROVE Goal
  BY <1>1 DEF BeginUpdate, Lock
<1>2. ASSUME NEW t \in Updaters, Purge(t) PROVE Goal
  BY <1>2 DEF Purge
<1>3. ASSUME NEW t \in Updaters, Look(t) PROVE Goal
  BY <1>3 DEF Look
<1>4. ASSUME NEW t \in Updaters, Read(t) PROVE Goal
  BY <1>4 DEF Read, Readable
<1>5. ASSUME NEW t \in Updaters, Index(t) PROVE Goal
  BY <1>5 DEF Index
<1>6. ASSUME NEW t \in Updaters, ToolRemove(t) PROVE Goal
  BY <1>6 DEF ToolRemove
<1>7. ASSUME NEW t \in Updaters, Deliver(t) PROVE Goal
  BY <1>7 DEF Deliver
<1>8. ASSUME NEW t \in Updaters, ToolWrite(t) PROVE Goal
  BY <1>8 DEF ToolWrite
<1>9. ASSUME NEW t \in Updaters, ToolDelete(t) PROVE Goal
  BY <1>9 DEF ToolDelete
<1>10. CASE StartWalk(Boot, "build", "build_list")
  BY <1>10 DEF StartWalk, Lock
<1>11. CASE Visit(Boot, "build_list", "build_clear")
  BY <1>11 DEF Visit
<1>12. CASE BuildClear
  BY <1>12
<1>13. CASE BuildRead
  BY <1>13 DEF BuildRead, Readable
<1>14. CASE BuildIndex
  BY <1>14 DEF BuildIndex
<1>15. CASE Watch
  BY <1>15 DEF Watch
<1>16. CASE Publish
  BY <1>16 DEF Publish
<1>17. CASE Wake
  BY <1>17 DEF Wake
<1>18. ASSUME NEW t \in {Boot, Sweeper}, StartWalk(t, "reconcile", "list")
       PROVE  Goal
  BY <1>18 DEF StartWalk, Lock
<1>19. ASSUME NEW t \in {Boot, Sweeper}, Visit(t, "list", "stale") PROVE Goal
  BY <1>19 DEF Visit
<1>20. ASSUME NEW t \in {Boot, Sweeper}, FindStale(t) PROVE Goal
  BY <1>20 DEF FindStale, Indexed
<1>21. ASSUME NEW t \in {Boot, Sweeper}, DropStale(t) PROVE Goal
  BY <1>21 DEF DropStale
<1>22. ASSUME NEW t \in {Boot, Sweeper}, SweepRead(t) PROVE Goal
  BY <1>22 DEF SweepRead, Readable
<1>23. ASSUME NEW t \in {Boot, Sweeper}, Compare(t) PROVE Goal
  BY <1>23 DEF Compare
<1>24. ASSUME NEW t \in {Boot, Sweeper}, DropGone(t) PROVE Goal
  BY <1>24 DEF DropGone
<1>25. ASSUME NEW t \in {Boot, Sweeper}, Replace(t) PROVE Goal
  BY <1>25 DEF Replace
<1>26. ASSUME NEW t \in {Boot, Sweeper}, SweepIndex(t) PROVE Goal
  BY <1>26 DEF SweepIndex
<1>27. ASSUME NEW t \in {Boot, Sweeper}, ListError(t) PROVE Goal
  BY <1>27 DEF ListError
<1>28. CASE ExternalEdit
  BY <1>28 DEF ExternalEdit
<1>29. CASE UNCHANGED vars
  BY <1>29 DEF vars
<1> QED
  BY <1>1, <1>2, <1>3, <1>4, <1>5, <1>6, <1>7, <1>8, <1>9, <1>10, <1>11, <1>12,
     <1>13, <1>14, <1>15, <1>16, <1>17, <1>18, <1>19, <1>20, <1>21, <1>22,
     <1>23, <1>24, <1>25, <1>26, <1>27, <1>28, <1>29 DEF Next, UpdaterStep,
     Update, BootStep, Build, SweeperStep, Reconcile

(* Every section under _lock keeps the index in agreement. *)
LEMMA AgreesStep == ASSUME IInv, [Next]_vars PROVE IndexAgrees'
<1> USE DEF IInv, LocalInv, Threads, IndexSteps, UpdateSteps
<1>1. CASE UNCHANGED indexVars
  BY <1>1 DEF IndexAgrees, indexVars
<1>2. ASSUME NEW n \in Notes, RemoveEntry(n) PROVE IndexAgrees'
  BY <1>2, RemoveAgrees
<1>3. ASSUME NEW t \in Threads, pc[t] \in IndexSteps, IndexNote(path[t], text[t])
      PROVE  IndexAgrees'
  BY <1>3, IndexNoteAgrees
<1>4. CASE BuildClear
  BY <1>4 DEF BuildClear, IndexAgrees
<1>5. \/ UNCHANGED indexVars
      \/ \E n \in Notes : RemoveEntry(n)
      \/ \E t \in Threads : pc[t] \in IndexSteps /\ IndexNote(path[t], text[t])
      \/ BuildClear
  BY IndexChanges
<1> QED
  BY <1>1, <1>2, <1>3, <1>4, <1>5

(* Hidden notes stay out, for every step. *)
LEMMA NothingHiddenStep == ASSUME IInv, [Next]_vars PROVE NothingHiddenIsIndexed'
<1> USE DEF IInv, LocalInv, HiddenInv, Threads, IndexSteps, UpdateSteps, TypeOK,
            NothingHiddenIsIndexed, Indexed
<1>1. CASE UNCHANGED indexVars
  BY <1>1 DEF indexVars
<1>2. ASSUME NEW n \in Notes, RemoveEntry(n) PROVE NothingHiddenIsIndexed'
  BY <1>2, RemoveType
<1>3. ASSUME NEW t \in Threads, pc[t] \in IndexSteps, IndexNote(path[t], text[t])
      PROVE  NothingHiddenIsIndexed'
  BY <1>3, IndexNoteType
<1>4. CASE BuildClear
  BY <1>4 DEF BuildClear
<1> QED
  BY <1>1, <1>2, <1>3, <1>4, IndexChanges

-----------------------------------------------------------------------------
(* The strengthening holds in every reachable state.                       *)
THEOREM Invariance == Spec => []IInv
<1>1. Init => IInv
  BY InitInv
<1>2. IInv /\ [Next]_vars => IInv'
  <2> SUFFICES ASSUME IInv, [Next]_vars PROVE IInv'
    OBVIOUS
  <2> QED
    BY TypeStep, LockStep, LocalStep, HiddenStep, AgreesStep, NothingHiddenStep
       DEF IInv
<1> QED
  BY <1>1, <1>2, PTL DEF Spec

(* Types, and the control state of the threads, are as declared.           *)
THEOREM TypeCorrect == Spec => []TypeOK
  BY Invariance, PTL DEF IInv

(* build, update and reconcile never run at the same time.                 *)
THEOREM MutationLockSafe == Spec => []LockInv
  BY Invariance, PTL DEF IInv

(* Backlinks, outlinks, tags and aliases agree with the recorded contents. *)
THEOREM AgreementSafe == Spec => []IndexAgrees
  BY Invariance, PTL DEF IInv

(* Nothing that the policy hides is ever indexed.                          *)
THEOREM HiddenSafe == Spec => []NothingHiddenIsIndexed
  BY Invariance, PTL DEF IInv

-----------------------------------------------------------------------------
(***************************************************************************)
(* What ready promises.  A note that has not changed since the watcher was *)
(* started is in the index as it is in the vault once the initial sweep    *)
(* has passed it, and stays so: only its own updates touch its entry, and  *)
(* they read what the sweep has read.                                      *)
(***************************************************************************)

(* Whoever has the mutation lock is in a locked operation. *)
HolderInv ==
    mutation # Free => mutation \in Threads /\ pc[mutation] \in LockedSteps

(* The order of start-up, and which thread does what. *)
OrderInv ==
    /\ pc[Boot] \in {"build", "watch"} \cup BuildSteps => ~watching
    /\ ~watching => pc[Sweeper] = "idle" /\ path[Sweeper] = Nothing
    /\ pc[Boot] = "watch" => path[Boot] = Nothing
    /\ pc[Boot] \in {"build", "watch", "reconcile", "publish", "done"}
                    \cup BuildSteps \cup SweepSteps
    /\ pc[Sweeper] \in {"idle", "reconcile"} \cup SweepSteps
    /\ \A t \in Updaters : pc[t] \in {"idle", "update", "remove"} \cup UpdateSteps

(* Between its two removals an update's note is not in the index. *)
EmptyInv ==
    \A t \in Updaters : pc[t] \in {"look", "read"} => revisions[path[t]] = Nothing

(* How far a sweep has come with the notes that do not change. *)
PairSteps == {"compare", "replace", "sweep_index"}
ReadSteps == {"sweep_read", "gone"} \cup PairSteps

Swept(t, n) ==
    /\ pc[t] = "list" /\ Readable(n) => n \in todo[t] \cup found[t]
    /\ pc[t] \in {"list", "stale", "drop"} /\ vault[n] = Nothing => n \notin found[t]
    /\ pc[t] \in {"stale", "drop"} /\ Readable(n) => n \in found[t]
    /\ pc[t] = "drop" /\ Readable(n) => n \notin todo[t]
    /\ pc[t] = "drop" /\ vault[n] = Nothing
          => revisions[n] = Nothing \/ n \in todo[t]
    /\ pc[t] \in ReadSteps /\ vault[n] = Nothing => revisions[n] = Nothing
    /\ pc[t] \in ReadSteps /\ Readable(n)
          => \/ revisions[n] = vault[n]
             \/ n \in todo[t]
             \/ path[t] = n /\ pc[t] \in PairSteps

(* What it holds of the note it is at; a note passed over cannot be read.  *)
AtHand(t) ==
    /\ pc[t] \in PairSteps => path[t] \in changed \/ text[t] = vault[path[t]]
    /\ pc[t] = "gone" => path[t] \in changed \/ ~Readable(path[t])
    /\ pc[t] \in {"idle", "reconcile", "list", "stale", "drop", "sweep_read"}
          => \/ path[t] = Nothing
             \/ path[t] \in changed
             \/ vault[path[t]] \in Unreadable

SweepInv(t) == AtHand(t) /\ \A n \in Notes \ (changed \cup Hidden) : Swept(t, n)

(* Between the initial sweep and mark_ready. *)
PublishInv ==
    pc[Boot] = "publish" =>
        /\ \A n \in Notes \ changed :
              UpToDate(n) \/ (mutation # Free /\ path[mutation] = n)
        /\ \A t \in Updaters :
              pc[t] \in {"purge_again", "index"}
                 => path[t] \in changed \/ text[t] = vault[path[t]]

ReadyInv ==
    /\ HolderInv /\ OrderInv /\ EmptyInv
    /\ \A t \in {Boot, Sweeper} : SweepInv(t)
    /\ PublishInv

(* A section under _lock changes the entry of one note. *)
LEMMA OneEntry ==
    ASSUME TypeOK, NEW n \in Notes
    PROVE  /\ RemoveEntry(n)
                 => revisions' = [revisions EXCEPT ![n] = Nothing]
           /\ \A c \in Contents :
                 IndexNote(n, c) => revisions' = [revisions EXCEPT ![n] = c]
  BY DEF RemoveEntry, IndexNote

(* The lock is given back with the last locked step. *)
LEMMA HolderStep ==
    ASSUME IInv, HolderInv, OrderInv, [Next]_vars
    PROVE  HolderInv'
<1> USE ThreadsAssumption DEF IInv, TypeOK, LockInv, HolderInv, OrderInv,
        Threads, LockedSteps, UpdateSteps, BuildSteps, SweepSteps, Goto, Leave,
        Unlock, Found, Take, Change, indexVars, localVars, watchVars
<1>1. ASSUME NEW t \in Updaters, BeginUpdate(t) PROVE HolderInv'
  BY <1>1 DEF BeginUpdate, Lock
<1>2. ASSUME NEW t \in Updaters, Purge(t) PROVE HolderInv'
  BY <1>2 DEF Purge
<1>3. ASSUME NEW t \in Updaters, Look(t) PROVE HolderInv'
  BY <1>3 DEF Look
<1>4. ASSUME NEW t \in Updaters, Read(t) PROVE HolderInv'
  BY <1>4 DEF Read
<1>5. ASSUME NEW t \in Updaters, Index(t) PROVE HolderInv'
  BY <1>5 DEF Index
<1>6. ASSUME NEW t \in Updaters, ToolRemove(t) PROVE HolderInv'
  BY <1>6 DEF ToolRemove
<1>7. ASSUME NEW t \in Updaters, Deliver(t) PROVE HolderInv'
  BY <1>7 DEF Deliver
<1>8. ASSUME NEW t \in Updaters, ToolWrite(t) PROVE HolderInv'
  BY <1>8 DEF ToolWrite
<1>9. ASSUME NEW t \in Updaters, ToolDelete(t) PROVE HolderInv'
  BY <1>9 DEF ToolDelete
<1>10. CASE StartWalk(Boot, "build", "build_list")
  BY <1>10 DEF StartWalk, Lock
<1>11. CASE Visit(Boot, "build_list", "build_clear")
  BY <1>11 DEF Visit
<1>12. CASE BuildClear
  BY <1>12 DEF BuildClear
<1>13. CASE BuildRead
  BY <1>13 DEF BuildRead
<1>14. CASE BuildIndex
  BY <1>14 DEF BuildIndex
<1>15. CASE Watch
  BY <1>15 DEF Watch
<1>16. CASE Publish
  BY <1>16 DEF Publish
<1>17. CASE Wake
  BY <1>17 DEF Wake
<1>18. ASSUME NEW t \in {Boot, Sweeper}, StartWalk(t, "reconcile", "list")
       PROVE  HolderInv'
  BY <1>18 DEF StartWalk, Lock
<1>19. ASSUME NEW t \in {Boot, Sweeper}, Visit(t, "list", "stale")
       PROVE  HolderInv'
  BY <1>19 DEF Visit
<1>20. ASSUME NEW t \in {Boot, Sweeper}, FindStale(t) PROVE HolderInv'
  BY <1>20 DEF FindStale
<1>21. ASSUME NEW t \in {Boot, Sweeper}, DropStale(t) PROVE HolderInv'
  BY <1>21 DEF DropStale
<1>22. ASSUME NEW t \in {Boot, Sweeper}, SweepRead(t) PROVE HolderInv'
  BY <1>22 DEF SweepRead
<1>23. ASSUME NEW t \in {Boot, Sweeper}, Compare(t) PROVE HolderInv'
  BY <1>23 DEF Compare
<1>24. ASSUME NEW t \in {Boot, Sweeper}, DropGone(t) PROVE HolderInv'
  BY <1>24 DEF DropGone
<1>25. ASSUME NEW t \in {Boot, Sweeper}, Replace(t) PROVE HolderInv'
  BY <1>25 DEF Replace
<1>26. ASSUME NEW t \in {Boot, Sweeper}, SweepIndex(t) PROVE HolderInv'
  BY <1>26 DEF SweepIndex
<1>27. ASSUME NEW t \in {Boot, Sweeper}, ListError(t) PROVE HolderInv'
  BY <1>27 DEF ListError
<1>28. CASE ExternalEdit
  BY <1>28 DEF ExternalEdit
<1>29. CASE UNCHANGED vars
  BY <1>29 DEF vars
<1> QED
  BY <1>1, <1>2, <1>3, <1>4, <1>5, <1>6, <1>7, <1>8, <1>9, <1>10, <1>11,
     <1>12, <1>13, <1>14, <1>15, <1>16, <1>17, <1>18, <1>19, <1>20, <1>21,
     <1>22, <1>23, <1>24, <1>25, <1>26, <1>27, <1>28, <1>29 DEF Next,
     UpdaterStep, Update, BootStep, Build, SweeperStep, Reconcile
(* The watcher is started between the build and the first sweep. *)
LEMMA OrderStep ==
    ASSUME IInv, HolderInv, OrderInv, [Next]_vars
    PROVE  OrderInv'
<1> USE ThreadsAssumption DEF IInv, TypeOK, OrderInv,
        Threads, LockedSteps, UpdateSteps, BuildSteps, SweepSteps, Goto, Leave,
        Unlock, Found, Take, Change, indexVars, localVars, watchVars
<1>1. ASSUME NEW t \in Updaters, BeginUpdate(t) PROVE OrderInv'
  BY <1>1 DEF BeginUpdate, Lock
<1>2. ASSUME NEW t \in Updaters, Purge(t) PROVE OrderInv'
  BY <1>2 DEF Purge
<1>3. ASSUME NEW t \in Updaters, Look(t) PROVE OrderInv'
  BY <1>3 DEF Look
<1>4. ASSUME NEW t \in Updaters, Read(t) PROVE OrderInv'
  BY <1>4 DEF Read
<1>5. ASSUME NEW t \in Updaters, Index(t) PROVE OrderInv'
  BY <1>5 DEF Index
<1>6. ASSUME NEW t \in Updaters, ToolRemove(t) PROVE OrderInv'
  BY <1>6 DEF ToolRemove
<1>7. ASSUME NEW t \in Updaters, Deliver(t) PROVE OrderInv'
  BY <1>7 DEF Deliver
<1>8. ASSUME NEW t \in Updaters, ToolWrite(t) PROVE OrderInv'
  BY <1>8 DEF ToolWrite
<1>9. ASSUME NEW t \in Updaters, ToolDelete(t) PROVE OrderInv'
  BY <1>9 DEF ToolDelete
<1>10. CASE StartWalk(Boot, "build", "build_list")
  BY <1>10 DEF StartWalk, Lock
<1>11. CASE Visit(Boot, "build_list", "build_clear")
  BY <1>11 DEF Visit
<1>12. CASE BuildClear
  BY <1>12 DEF BuildClear
<1>13. CASE BuildRead
  BY <1>13 DEF BuildRead
<1>14. CASE BuildIndex
  BY <1>14 DEF BuildIndex
<1>15. CASE Watch
  BY <1>15 DEF Watch
<1>16. CASE Publish
  BY <1>16 DEF Publish
<1>17. CASE Wake
  BY <1>17 DEF Wake
<1>18. ASSUME NEW t \in {Boot, Sweeper}, StartWalk(t, "reconcile", "list")
       PROVE  OrderInv'
  BY <1>18 DEF StartWalk, Lock
<1>19. ASSUME NEW t \in {Boot, Sweeper}, Visit(t, "list", "stale")
       PROVE  OrderInv'
  BY <1>19 DEF Visit
<1>20. ASSUME NEW t \in {Boot, Sweeper}, FindStale(t) PROVE OrderInv'
  BY <1>20 DEF FindStale
<1>21. ASSUME NEW t \in {Boot, Sweeper}, DropStale(t) PROVE OrderInv'
  BY <1>21 DEF DropStale
<1>22. ASSUME NEW t \in {Boot, Sweeper}, SweepRead(t) PROVE OrderInv'
  BY <1>22 DEF SweepRead
<1>23. ASSUME NEW t \in {Boot, Sweeper}, Compare(t) PROVE OrderInv'
  BY <1>23 DEF Compare
<1>24. ASSUME NEW t \in {Boot, Sweeper}, DropGone(t) PROVE OrderInv'
  BY <1>24 DEF DropGone
<1>25. ASSUME NEW t \in {Boot, Sweeper}, Replace(t) PROVE OrderInv'
  BY <1>25 DEF Replace
<1>26. ASSUME NEW t \in {Boot, Sweeper}, SweepIndex(t) PROVE OrderInv'
  BY <1>26 DEF SweepIndex
<1>27. ASSUME NEW t \in {Boot, Sweeper}, ListError(t) PROVE OrderInv'
  BY <1>27 DEF ListError
<1>28. CASE ExternalEdit
  BY <1>28 DEF ExternalEdit
<1>29. CASE UNCHANGED vars
  BY <1>29 DEF vars
<1> QED
  BY <1>1, <1>2, <1>3, <1>4, <1>5, <1>6, <1>7, <1>8, <1>9, <1>10, <1>11,
     <1>12, <1>13, <1>14, <1>15, <1>16, <1>17, <1>18, <1>19, <1>20, <1>21,
     <1>22, <1>23, <1>24, <1>25, <1>26, <1>27, <1>28, <1>29 DEF Next,
     UpdaterStep, Update, BootStep, Build, SweeperStep, Reconcile
(* Nobody else indexes the note of an update. *)
LEMMA EmptyStep ==
    ASSUME IInv, OrderInv, EmptyInv, [Next]_vars
    PROVE  EmptyInv'
<1> USE ThreadsAssumption DEF IInv, TypeOK, LockInv, LocalInv, OrderInv, EmptyInv,
        Threads, LockedSteps, UpdateSteps, BuildSteps, SweepSteps, Goto, Leave,
        Unlock, Found, Take, Change, indexVars, localVars, watchVars, IndexSteps
<1>1. ASSUME NEW t \in Updaters, BeginUpdate(t) PROVE EmptyInv'
  BY <1>1 DEF BeginUpdate, Lock
<1>2. ASSUME NEW t \in Updaters, Purge(t) PROVE EmptyInv'
  BY <1>2, RemoveType DEF Purge
<1>3. ASSUME NEW t \in Updaters, Look(t) PROVE EmptyInv'
  BY <1>3 DEF Look
<1>4. ASSUME NEW t \in Updaters, Read(t) PROVE EmptyInv'
  BY <1>4 DEF Read
<1>5. ASSUME NEW t \in Updaters, Index(t) PROVE EmptyInv'
  BY <1>5, IndexNoteType DEF Index
<1>6. ASSUME NEW t \in Updaters, ToolRemove(t) PROVE EmptyInv'
  BY <1>6, RemoveType DEF ToolRemove
<1>7. ASSUME NEW t \in Updaters, Deliver(t) PROVE EmptyInv'
  BY <1>7 DEF Deliver
<1>8. ASSUME NEW t \in Updaters, ToolWrite(t) PROVE EmptyInv'
  BY <1>8 DEF ToolWrite
<1>9. ASSUME NEW t \in Updaters, ToolDelete(t) PROVE EmptyInv'
  BY <1>9 DEF ToolDelete
<1>10. CASE StartWalk(Boot, "build", "build_list")
  BY <1>10 DEF StartWalk, Lock
<1>11. CASE Visit(Boot, "build_list", "build_clear")
  BY <1>11 DEF Visit
<1>12. CASE BuildClear
  BY <1>12 DEF BuildClear
<1>13. CASE BuildRead
  BY <1>13 DEF BuildRead
<1>14. CASE BuildIndex
  BY <1>14, IndexNoteType DEF BuildIndex
<1>15. CASE Watch
  BY <1>15 DEF Watch
<1>16. CASE Publish
  BY <1>16 DEF Publish
<1>17. CASE Wake
  BY <1>17 DEF Wake
<1>18. ASSUME NEW t \in {Boot, Sweeper}, StartWalk(t, "reconcile", "list")
       PROVE  EmptyInv'
  BY <1>18 DEF StartWalk, Lock
<1>19. ASSUME NEW t \in {Boot, Sweeper}, Visit(t, "list", "stale")
       PROVE  EmptyInv'
  BY <1>19 DEF Visit
<1>20. ASSUME NEW t \in {Boot, Sweeper}, FindStale(t) PROVE EmptyInv'
  BY <1>20 DEF FindStale
<1>21. ASSUME NEW t \in {Boot, Sweeper}, DropStale(t) PROVE EmptyInv'
  BY <1>21, RemoveType DEF DropStale
<1>22. ASSUME NEW t \in {Boot, Sweeper}, SweepRead(t) PROVE EmptyInv'
  BY <1>22 DEF SweepRead
<1>23. ASSUME NEW t \in {Boot, Sweeper}, Compare(t) PROVE EmptyInv'
  BY <1>23 DEF Compare
<1>24. ASSUME NEW t \in {Boot, Sweeper}, DropGone(t) PROVE EmptyInv'
  BY <1>24, RemoveType DEF DropGone
<1>25. ASSUME NEW t \in {Boot, Sweeper}, Replace(t) PROVE EmptyInv'
  BY <1>25, RemoveType DEF Replace
<1>26. ASSUME NEW t \in {Boot, Sweeper}, SweepIndex(t) PROVE EmptyInv'
  BY <1>26, IndexNoteType DEF SweepIndex
<1>27. ASSUME NEW t \in {Boot, Sweeper}, ListError(t) PROVE EmptyInv'
  BY <1>27 DEF ListError
<1>28. CASE ExternalEdit
  BY <1>28 DEF ExternalEdit
<1>29. CASE UNCHANGED vars
  BY <1>29 DEF vars
<1> QED
  BY <1>1, <1>2, <1>3, <1>4, <1>5, <1>6, <1>7, <1>8, <1>9, <1>10, <1>11,
     <1>12, <1>13, <1>14, <1>15, <1>16, <1>17, <1>18, <1>19, <1>20, <1>21,
     <1>22, <1>23, <1>24, <1>25, <1>26, <1>27, <1>28, <1>29 DEF Next,
     UpdaterStep, Update, BootStep, Build, SweeperStep, Reconcile
(* A sweep passes over nothing that does not change. *)
LEMMA SweepStep ==
    ASSUME IInv, ReadyInv, [Next]_vars
    PROVE  (\A s \in {Boot, Sweeper} : SweepInv(s))'
<1> USE NotesAssumption, ThreadsAssumption DEF IInv, TypeOK, LockInv, LocalInv,
        ReadyInv, OrderInv, Visible, Indexed,
        Threads, LockedSteps, UpdateSteps, BuildSteps, SweepSteps, Goto, Leave,
        Unlock, Found, Take, Change, indexVars, localVars, watchVars,
        IndexSteps, SweepInv, AtHand, Swept, PairSteps, ReadSteps, Readable
<1>1. ASSUME NEW t \in Updaters, BeginUpdate(t)
      PROVE  (\A s \in {Boot, Sweeper} : SweepInv(s))'
  BY <1>1 DEF BeginUpdate, Lock
<1>2. ASSUME NEW t \in Updaters, Purge(t)
      PROVE  (\A s \in {Boot, Sweeper} : SweepInv(s))'
  BY <1>2, OneEntry DEF Purge
<1>3. ASSUME NEW t \in Updaters, Look(t)
      PROVE  (\A s \in {Boot, Sweeper} : SweepInv(s))'
  BY <1>3 DEF Look
<1>4. ASSUME NEW t \in Updaters, Read(t)
      PROVE  (\A s \in {Boot, Sweeper} : SweepInv(s))'
  BY <1>4 DEF Read
<1>5. ASSUME NEW t \in Updaters, Index(t)
      PROVE  (\A s \in {Boot, Sweeper} : SweepInv(s))'
  BY <1>5, OneEntry DEF Index
<1>6. ASSUME NEW t \in Updaters, ToolRemove(t)
      PROVE  (\A s \in {Boot, Sweeper} : SweepInv(s))'
  BY <1>6, OneEntry DEF ToolRemove
<1>7. ASSUME NEW t \in Updaters, Deliver(t)
      PROVE  (\A s \in {Boot, Sweeper} : SweepInv(s))'
  BY <1>7 DEF Deliver
<1>8. ASSUME NEW t \in Updaters, ToolWrite(t)
      PROVE  (\A s \in {Boot, Sweeper} : SweepInv(s))'
  BY <1>8 DEF ToolWrite
<1>9. ASSUME NEW t \in Updaters, ToolDelete(t)
      PROVE  (\A s \in {Boot, Sweeper} : SweepInv(s))'
  BY <1>9 DEF ToolDelete
<1>10. CASE StartWalk(Boot, "build", "build_list")
  BY <1>10 DEF StartWalk, Lock
<1>11. CASE Visit(Boot, "build_list", "build_clear")
  BY <1>11 DEF Visit
<1>12. CASE BuildClear
  BY <1>12 DEF BuildClear
<1>13. CASE BuildRead
  BY <1>13 DEF BuildRead
<1>14. CASE BuildIndex
  BY <1>14, OneEntry DEF BuildIndex
<1>15. CASE Watch
  BY <1>15 DEF Watch
<1>16. CASE Publish
  BY <1>16 DEF Publish
<1>17. CASE Wake
  BY <1>17 DEF Wake
<1>18. ASSUME NEW t \in {Boot, Sweeper}, StartWalk(t, "reconcile", "list")
       PROVE  (\A s \in {Boot, Sweeper} : SweepInv(s))'
  BY <1>18 DEF StartWalk, Lock
<1>19. ASSUME NEW t \in {Boot, Sweeper}, Visit(t, "list", "stale")
       PROVE  (\A s \in {Boot, Sweeper} : SweepInv(s))'
  BY <1>19 DEF Visit
<1>20. ASSUME NEW t \in {Boot, Sweeper}, FindStale(t)
       PROVE  (\A s \in {Boot, Sweeper} : SweepInv(s))'
  BY <1>20 DEF FindStale
<1>21. ASSUME NEW t \in {Boot, Sweeper}, DropStale(t)
       PROVE  (\A s \in {Boot, Sweeper} : SweepInv(s))'
  BY <1>21, OneEntry DEF DropStale
<1>22. ASSUME NEW t \in {Boot, Sweeper}, SweepRead(t)
       PROVE  (\A s \in {Boot, Sweeper} : SweepInv(s))'
  BY <1>22 DEF SweepRead
<1>23. ASSUME NEW t \in {Boot, Sweeper}, Compare(t)
       PROVE  (\A s \in {Boot, Sweeper} : SweepInv(s))'
  BY <1>23 DEF Compare
<1>24. ASSUME NEW t \in {Boot, Sweeper}, DropGone(t)
       PROVE  (\A s \in {Boot, Sweeper} : SweepInv(s))'
  BY <1>24, OneEntry DEF DropGone
<1>25. ASSUME NEW t \in {Boot, Sweeper}, Replace(t)
       PROVE  (\A s \in {Boot, Sweeper} : SweepInv(s))'
  BY <1>25, OneEntry DEF Replace
<1>26. ASSUME NEW t \in {Boot, Sweeper}, SweepIndex(t)
       PROVE  (\A s \in {Boot, Sweeper} : SweepInv(s))'
  BY <1>26, OneEntry DEF SweepIndex
<1>27. ASSUME NEW t \in {Boot, Sweeper}, ListError(t)
       PROVE  (\A s \in {Boot, Sweeper} : SweepInv(s))'
  BY <1>27 DEF ListError
<1>28. CASE ExternalEdit
  BY <1>28 DEF ExternalEdit
<1>29. CASE UNCHANGED vars
  BY <1>29 DEF vars
<1> QED
  BY <1>1, <1>2, <1>3, <1>4, <1>5, <1>6, <1>7, <1>8, <1>9, <1>10, <1>11,
     <1>12, <1>13, <1>14, <1>15, <1>16, <1>17, <1>18, <1>19, <1>20, <1>21,
     <1>22, <1>23, <1>24, <1>25, <1>26, <1>27, <1>28, <1>29 DEF Next,
     UpdaterStep, Update, BootStep, Build, SweeperStep, Reconcile
(* What is up to date is only out of date while its own thread is at it. *)
LEMMA PublishStep ==
    ASSUME IInv, ReadyInv, [Next]_vars
    PROVE  PublishInv'
<1> USE NotesAssumption, ThreadsAssumption DEF IInv, TypeOK, LockInv, LocalInv,
        ReadyInv, HolderInv, OrderInv, EmptyInv, PublishInv, UpToDate,
        NothingHiddenIsIndexed, Indexed, Visible,
        Threads, LockedSteps, UpdateSteps, BuildSteps, SweepSteps, Goto, Leave,
        Unlock, Found, Take, Change, indexVars, localVars, watchVars,
        IndexSteps, SweepInv, AtHand, Swept, PairSteps, ReadSteps, Readable
<1>1. ASSUME NEW t \in Updaters, BeginUpdate(t) PROVE PublishInv'
  BY <1>1 DEF BeginUpdate, Lock
<1>2. ASSUME NEW t \in Updaters, Purge(t) PROVE PublishInv'
  BY <1>2, OneEntry DEF Purge
<1>3. ASSUME NEW t \in Updaters, Look(t) PROVE PublishInv'
  BY <1>3 DEF Look
<1>4. ASSUME NEW t \in Updaters, Read(t) PROVE PublishInv'
  BY <1>4 DEF Read
<1>5. ASSUME NEW t \in Updaters, Index(t) PROVE PublishInv'
  BY <1>5, OneEntry DEF Index, HiddenInv
<1>6. ASSUME NEW t \in Updaters, ToolRemove(t) PROVE PublishInv'
  BY <1>6, OneEntry DEF ToolRemove
<1>7. ASSUME NEW t \in Updaters, Deliver(t) PROVE PublishInv'
  BY <1>7 DEF Deliver
<1>8. ASSUME NEW t \in Updaters, ToolWrite(t) PROVE PublishInv'
  BY <1>8 DEF ToolWrite
<1>9. ASSUME NEW t \in Updaters, ToolDelete(t) PROVE PublishInv'
  BY <1>9 DEF ToolDelete
<1>10. CASE StartWalk(Boot, "build", "build_list")
  BY <1>10 DEF StartWalk, Lock
<1>11. CASE Visit(Boot, "build_list", "build_clear")
  BY <1>11 DEF Visit
<1>12. CASE BuildClear
  BY <1>12 DEF BuildClear
<1>13. CASE BuildRead
  BY <1>13 DEF BuildRead
<1>14. CASE BuildIndex
  BY <1>14, OneEntry DEF BuildIndex
<1>15. CASE Watch
  BY <1>15 DEF Watch
<1>16. CASE Publish
  BY <1>16 DEF Publish
<1>17. CASE Wake
  BY <1>17 DEF Wake
<1>18. ASSUME NEW t \in {Boot, Sweeper}, StartWalk(t, "reconcile", "list")
       PROVE  PublishInv'
  BY <1>18 DEF StartWalk, Lock
<1>19. ASSUME NEW t \in {Boot, Sweeper}, Visit(t, "list", "stale")
       PROVE  PublishInv'
  BY <1>19 DEF Visit
<1>20. ASSUME NEW t \in {Boot, Sweeper}, FindStale(t) PROVE PublishInv'
  BY <1>20 DEF FindStale
<1>21. ASSUME NEW t \in {Boot, Sweeper}, DropStale(t) PROVE PublishInv'
  BY <1>21, OneEntry DEF DropStale
<1>22. ASSUME NEW t \in {Boot, Sweeper}, SweepRead(t) PROVE PublishInv'
  BY <1>22 DEF SweepRead
<1>23. ASSUME NEW t \in {Boot, Sweeper}, Compare(t) PROVE PublishInv'
  BY <1>23 DEF Compare
<1>24. ASSUME NEW t \in {Boot, Sweeper}, DropGone(t) PROVE PublishInv'
  BY <1>24, OneEntry DEF DropGone
<1>25. ASSUME NEW t \in {Boot, Sweeper}, Replace(t) PROVE PublishInv'
  BY <1>25, OneEntry DEF Replace
<1>26. ASSUME NEW t \in {Boot, Sweeper}, SweepIndex(t) PROVE PublishInv'
  BY <1>26, OneEntry DEF SweepIndex, HiddenInv
<1>27. ASSUME NEW t \in {Boot, Sweeper}, ListError(t) PROVE PublishInv'
  BY <1>27 DEF ListError
<1>28. CASE ExternalEdit
  BY <1>28 DEF ExternalEdit
<1>29. CASE UNCHANGED vars
  BY <1>29 DEF vars
<1> QED
  BY <1>1, <1>2, <1>3, <1>4, <1>5, <1>6, <1>7, <1>8, <1>9, <1>10, <1>11,
     <1>12, <1>13, <1>14, <1>15, <1>16, <1>17, <1>18, <1>19, <1>20, <1>21,
     <1>22, <1>23, <1>24, <1>25, <1>26, <1>27, <1>28, <1>29 DEF Next,
     UpdaterStep, Update, BootStep, Build, SweeperStep, Reconcile

(* Nothing has been swept yet, and nobody believes it has.                 *)
LEMMA InitReady == Init => ReadyInv
<1> SUFFICES ASSUME Init PROVE ReadyInv
  OBVIOUS
<1>1. HolderInv /\ OrderInv /\ EmptyInv /\ PublishInv
  BY ThreadsAssumption DEF Init, Threads, HolderInv, OrderInv, EmptyInv, PublishInv,
         UpdateSteps, BuildSteps, SweepSteps
<1>2. ASSUME NEW t \in {Boot, Sweeper} PROVE SweepInv(t)
  BY <1>2, ThreadsAssumption DEF Init, Threads, SweepInv, AtHand, Swept, PairSteps,
         ReadSteps
<1> QED
  BY <1>1, <1>2 DEF ReadyInv

(* The progress of the sweeps, and what it means for the index, holds in  *)
(* every reachable state.                                                  *)
THEOREM ReadyInvariance == Spec => []ReadyInv
<1>1. Init => ReadyInv
  BY InitReady
<1>2. IInv /\ ReadyInv /\ [Next]_vars => ReadyInv'
  <2> SUFFICES ASSUME IInv, ReadyInv, [Next]_vars PROVE ReadyInv'
    OBVIOUS
  <2>1. HolderInv /\ OrderInv /\ EmptyInv
    BY DEF ReadyInv
  <2> QED
    BY <2>1, HolderStep, OrderStep, EmptyStep, SweepStep, PublishStep DEF ReadyInv
<1> QED
  BY <1>1, <1>2, Invariance, PTL DEF Spec

(* Only mark_ready publishes the index. *)
LEMMA OnlyPublish ==
    ASSUME IInv, [Next]_vars, ready' /\ ~ready
    PROVE  pc[Boot] = "publish"
<1>1. pc[Boot] = "publish" \/ ready' = ready \/ ready' = FALSE
  BY DEF Next, UpdaterStep, Update, BootStep, Build, SweeperStep, Reconcile,
         BeginUpdate, Purge, Look, Read, Index, ToolRemove, Deliver, ToolWrite,
         ToolDelete, StartWalk, Visit, BuildClear, BuildRead, BuildIndex, Watch,
         Publish, Wake, FindStale, DropStale, SweepRead, Compare, DropGone,
         Replace, SweepIndex, ListError, ExternalEdit, vars
<1> QED
  BY <1>1

(* When the index is reported ready, it is complete: no change has been    *)
(* missed, whatever happened during the build and the first sweep.         *)
THEOREM ReadySafe == Spec => ReadyMeansComplete
<1>1. IInv /\ ReadyInv /\ [Next]_vars
        => [ ready' /\ ~ready =>
               \A n \in Notes \ changed :
                  UpToDate(n) \/ (mutation # Free /\ path[mutation] = n) ]_vars
  BY OnlyPublish DEF ReadyInv, PublishInv
<1> QED
  BY <1>1, Invariance, ReadyInvariance, PTL DEF Spec, ReadyMeansComplete
==============================================================================
