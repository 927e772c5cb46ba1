--------------------------- MODULE FlusherProofs ---------------------------
(***************************************************************************)
(* Flusher's safety properties for any number of items and connection      *)
(* threads and any bounds.  FlusherInv is inductive; there is one lemma    *)
(* per action and under it one step per conjunct.                          *)
(***************************************************************************)
EXTENDS Flusher, TLAPS

\* The abbreviations for threads, pcs and moves are expanded everywhere.
USE DEF Threads, Dispatcher, Destroyer, Nobody, FlusherStates, TransitionPcs, DispatcherPcs,
        DestroyerPcs, Pcs, FlushPcs, At, Outside, Goto, Advance, TransitionState, Refused,
        Transitions, ValidTransition, Spend, Transiting, Replacing, Stopped, SeenLater,
        Stepping, Initialized, Serving, WriteBatch, FlushComplete, DrainOn, storeVars, taskVars

LEMMA CheckInv ==
    ASSUME FlusherInv, NEW self \in Threads, Check(self)
    PROVE  FlusherInv'
<1>1. TypeOK'
  BY FlusherAssumption DEF FlusherInv, TypeOK, Check
<1>2. ThreadsFit'
  BY FlusherAssumption DEF FlusherInv, TypeOK, ThreadsFit, Check
<1>3. TasksFit'
  BY FlusherAssumption DEF FlusherInv, TypeOK, ThreadsFit, TasksFit, Check
<1>4. WarmupFirst'
  BY FlusherAssumption DEF FlusherInv, TypeOK, ThreadsFit, TasksFit, WarmupFirst,
     StatesFit, Check
<1>5. FlushFits'
  BY FlusherAssumption DEF FlusherInv, TypeOK, ThreadsFit, FlushFits, StatesFit, Check
<1>6. StatesFit'
  BY FlusherAssumption DEF FlusherInv, TypeOK, ThreadsFit, WarmupFirst, FlushFits,
     StatesFit, Check
<1>7. ActsOnState'
  BY FlusherAssumption DEF FlusherInv, TypeOK, ThreadsFit, TasksFit, StatesFit,
     ActsOnState, Check
<1>8. NoLostWakeup'
  BY FlusherAssumption DEF FlusherInv, TypeOK, ThreadsFit, TasksFit, WarmupFirst,
     FlushFits, StatesFit, ActsOnState, NoLostWakeup, Check
<1>9. NothingForgotten'
  BY FlusherAssumption DEF FlusherInv, TypeOK, FlushFits, NothingForgotten, Check
<1> QED  BY <1>1, <1>2, <1>3, <1>4, <1>5, <1>6, <1>7, <1>8, <1>9 DEF FlusherInv

LEMMA WriteStateInv ==
    ASSUME FlusherInv, NEW self \in Threads, WriteState(self)
    PROVE  FlusherInv'
<1>1. TypeOK'
  BY FlusherAssumption DEF FlusherInv, TypeOK, WriteState
<1>2. ThreadsFit'
  BY FlusherAssumption DEF FlusherInv, TypeOK, ThreadsFit, WriteState
<1>3. TasksFit'
  BY FlusherAssumption DEF FlusherInv, TypeOK, ThreadsFit, TasksFit, WriteState
<1>4. WarmupFirst'
  BY FlusherAssumption DEF FlusherInv, TypeOK, ThreadsFit, TasksFit, WarmupFirst,
     StatesFit, WriteState
<1>5. FlushFits'
  BY FlusherAssumption DEF FlusherInv, TypeOK, ThreadsFit, FlushFits, StatesFit,
     WriteState
<1>6. StatesFit'
  BY FlusherAssumption DEF FlusherInv, TypeOK, ThreadsFit, WarmupFirst, FlushFits,
     StatesFit, WriteState
<1>7. ActsOnState'
  BY FlusherAssumption DEF FlusherInv, TypeOK, ThreadsFit, TasksFit, StatesFit,
     ActsOnState, WriteState
<1>8. NoLostWakeup'
  BY FlusherAssumption DEF FlusherInv, TypeOK, ThreadsFit, TasksFit, WarmupFirst,
     FlushFits, StatesFit, ActsOnState, NoLostWakeup, WriteState
<1>9. NothingForgotten'
  BY FlusherAssumption DEF FlusherInv, TypeOK, FlushFits, NothingForgotten, WriteState
<1> QED  BY <1>1, <1>2, <1>3, <1>4, <1>5, <1>6, <1>7, <1>8, <1>9 DEF FlusherInv

LEMMA CancelTaskInv ==
    ASSUME FlusherInv, NEW self \in Threads, CancelTask(self)
    PROVE  FlusherInv'
<1>1. TypeOK'
  BY FlusherAssumption DEF FlusherInv, TypeOK, CancelTask
<1>2. ThreadsFit'
  BY FlusherAssumption DEF FlusherInv, TypeOK, ThreadsFit, CancelTask
<1>3. TasksFit'
  <2>1. \A s \in Threads : taskMutex' = s <=> At(s, "schedule")'
    BY FlusherAssumption DEF FlusherInv, TypeOK, ThreadsFit, TasksFit, CancelTask
  <2>2. queue' \subseteq 1 .. task'
    BY FlusherAssumption DEF FlusherInv, TypeOK, ThreadsFit, TasksFit, CancelTask
  <2>3. 1 .. (task' - 1) \subseteq dead' /\ dead' \subseteq 1 .. task'
    BY FlusherAssumption DEF FlusherInv, TypeOK, ThreadsFit, TasksFit, CancelTask
  <2>4. task' > 0 /\ (task' \in dead' <=> taskMutex' # Nobody)
    BY FlusherAssumption DEF FlusherInv, TypeOK, ThreadsFit, TasksFit, CancelTask
  <2>5. IF th[Dispatcher].pc' \in {"idle", "snapshot", "exited"}
          THEN run' = 0 ELSE run' \in 1 .. task'
    BY FlusherAssumption DEF FlusherInv, TypeOK, ThreadsFit, TasksFit, CancelTask
  <2> QED  BY <2>1, <2>2, <2>3, <2>4, <2>5 DEF TasksFit
<1>4. WarmupFirst'
  BY FlusherAssumption DEF FlusherInv, TypeOK, ThreadsFit, TasksFit, WarmupFirst,
     StatesFit, CancelTask
<1>5. FlushFits'
  BY FlusherAssumption DEF FlusherInv, TypeOK, ThreadsFit, FlushFits, StatesFit,
     CancelTask
<1>6. StatesFit'
  BY FlusherAssumption DEF FlusherInv, TypeOK, ThreadsFit, WarmupFirst, FlushFits,
     StatesFit, CancelTask
<1>7. ActsOnState'
  BY FlusherAssumption DEF FlusherInv, TypeOK, ThreadsFit, TasksFit, StatesFit,
     ActsOnState, CancelTask
<1>8. NoLostWakeup'
  BY FlusherAssumption DEF FlusherInv, TypeOK, ThreadsFit, TasksFit, WarmupFirst,
     FlushFits, StatesFit, ActsOnState, NoLostWakeup, CancelTask
<1>9. NothingForgotten'
  BY FlusherAssumption DEF FlusherInv, TypeOK, FlushFits, NothingForgotten, CancelTask
<1> QED  BY <1>1, <1>2, <1>3, <1>4, <1>5, <1>6, <1>7, <1>8, <1>9 DEF FlusherInv

LEMMA ScheduleTaskInv ==
    ASSUME FlusherInv, NEW self \in Threads, ScheduleTask(self)
    PROVE  FlusherInv'
<1>1. TypeOK'
  BY FlusherAssumption DEF FlusherInv, TypeOK, ScheduleTask
<1>2. ThreadsFit'
  BY FlusherAssumption DEF FlusherInv, TypeOK, ThreadsFit, ScheduleTask
<1>3. TasksFit'
  <2>1. \A s \in Threads : taskMutex' = s <=> At(s, "schedule")'
    BY FlusherAssumption DEF FlusherInv, TypeOK, ThreadsFit, TasksFit, ScheduleTask
  <2>2. queue' \subseteq 1 .. task'
    BY FlusherAssumption DEF FlusherInv, TypeOK, ThreadsFit, TasksFit, ScheduleTask
  <2>3. 1 .. (task' - 1) \subseteq dead' /\ dead' \subseteq 1 .. task'
    BY FlusherAssumption DEF FlusherInv, TypeOK, ThreadsFit, TasksFit, ScheduleTask
  <2>4. task' > 0 /\ (task' \in dead' <=> taskMutex' # Nobody)
    BY FlusherAssumption DEF FlusherInv, TypeOK, ThreadsFit, TasksFit, ScheduleTask
  <2>5. IF th[Dispatcher].pc' \in {"idle", "snapshot", "exited"}
          THEN run' = 0 ELSE run' \in 1 .. task'
    BY FlusherAssumption DEF FlusherInv, TypeOK, ThreadsFit, TasksFit, ScheduleTask
  <2> QED  BY <2>1, <2>2, <2>3, <2>4, <2>5 DEF TasksFit
<1>4. WarmupFirst'
  BY FlusherAssumption DEF FlusherInv, TypeOK, ThreadsFit, TasksFit, WarmupFirst,
     StatesFit, ScheduleTask
<1>5. FlushFits'
  BY FlusherAssumption DEF FlusherInv, TypeOK, ThreadsFit, FlushFits, StatesFit,
     ScheduleTask
<1>6. StatesFit'
  BY FlusherAssumption DEF FlusherInv, TypeOK, ThreadsFit, WarmupFirst, FlushFits,
     StatesFit, ScheduleTask
<1>7. ActsOnState'
  BY FlusherAssumption DEF FlusherInv, TypeOK, ThreadsFit, TasksFit, StatesFit,
     ActsOnState, ScheduleTask
<1>8. NoLostWakeup'
  BY FlusherAssumption DEF FlusherInv, TypeOK, ThreadsFit, TasksFit, WarmupFirst,
     FlushFits, StatesFit, ActsOnState, NoLostWakeup, ScheduleTask
<1>9. NothingForgotten'
  BY FlusherAssumption DEF FlusherInv, TypeOK, FlushFits, NothingForgotten,
     ScheduleTask
<1> QED  BY <1>1, <1>2, <1>3, <1>4, <1>5, <1>6, <1>7, <1>8, <1>9 DEF FlusherInv

LEMMA MutateInv ==
    ASSUME FlusherInv, NEW i \in Items, Mutate(i)
    PROVE  FlusherInv'
<1>1. TypeOK'
  BY FlusherAssumption DEF FlusherInv, TypeOK, Mutate
<1>2. ThreadsFit'
  BY FlusherAssumption DEF FlusherInv, TypeOK, ThreadsFit, Mutate
<1>3. TasksFit'
  BY FlusherAssumption DEF FlusherInv, TypeOK, ThreadsFit, TasksFit, Mutate
<1>4. WarmupFirst'
  BY FlusherAssumption DEF FlusherInv, TypeOK, ThreadsFit, TasksFit, WarmupFirst,
     StatesFit, Mutate
<1>5. FlushFits'
  BY FlusherAssumption DEF FlusherInv, TypeOK, ThreadsFit, FlushFits, StatesFit,
     Mutate
<1>6. StatesFit'
  BY FlusherAssumption DEF FlusherInv, TypeOK, ThreadsFit, WarmupFirst, FlushFits,
     StatesFit, Mutate
<1>7. ActsOnState'
  BY FlusherAssumption DEF FlusherInv, TypeOK, ThreadsFit, TasksFit, StatesFit,
     ActsOnState, Mutate
<1>8. NoLostWakeup'
  BY FlusherAssumption DEF FlusherInv, TypeOK, ThreadsFit, TasksFit, WarmupFirst,
     FlushFits, StatesFit, ActsOnState, NoLostWakeup, Mutate
<1>9. NothingForgotten'
  BY FlusherAssumption DEF FlusherInv, TypeOK, FlushFits, NothingForgotten, Mutate
<1> QED  BY <1>1, <1>2, <1>3, <1>4, <1>5, <1>6, <1>7, <1>8, <1>9 DEF FlusherInv

LEMMA PauseFlusherInv ==
    ASSUME FlusherInv, NEW c \in Controls, PauseFlusher(c)
    PROVE  FlusherInv'
<1>1. TypeOK'
  BY FlusherAssumption DEF FlusherInv, TypeOK, PauseFlusher
<1>2. ThreadsFit'
  BY FlusherAssumption DEF FlusherInv, TypeOK, ThreadsFit, PauseFlusher
<1>3. TasksFit'
  BY FlusherAssumption DEF FlusherInv, TypeOK, ThreadsFit, TasksFit, PauseFlusher
<1>4. WarmupFirst'
  BY FlusherAssumption DEF FlusherInv, TypeOK, ThreadsFit, TasksFit, WarmupFirst,
     StatesFit, PauseFlusher
<1>5. FlushFits'
  BY FlusherAssumption DEF FlusherInv, TypeOK, ThreadsFit, FlushFits, StatesFit,
     PauseFlusher
<1>6. StatesFit'
  BY FlusherAssumption DEF FlusherInv, TypeOK, ThreadsFit, WarmupFirst, FlushFits,
     StatesFit, PauseFlusher
<1>7. ActsOnState'
  BY FlusherAssumption DEF FlusherInv, TypeOK, ThreadsFit, TasksFit, StatesFit,
     ActsOnState, PauseFlusher
<1>8. NoLostWakeup'
  BY FlusherAssumption DEF FlusherInv, TypeOK, ThreadsFit, TasksFit, WarmupFirst,
     FlushFits, StatesFit, ActsOnState, NoLostWakeup, PauseFlusher
<1>9. NothingForgotten'
  BY FlusherAssumption DEF FlusherInv, TypeOK, FlushFits, NothingForgotten,
     PauseFlusher
<1> QED  BY <1>1, <1>2, <1>3, <1>4, <1>5, <1>6, <1>7, <1>8, <1>9 DEF FlusherInv

LEMMA ResumeFlusherInv ==
    ASSUME FlusherInv, NEW c \in Controls, ResumeFlusher(c)
    PROVE  FlusherInv'
<1>1. TypeOK'
  BY FlusherAssumption DEF FlusherInv, TypeOK, ResumeFlusher
<1>2. ThreadsFit'
  BY FlusherAssumption DEF FlusherInv, TypeOK, ThreadsFit, ResumeFlusher
<1>3. TasksFit'
  BY FlusherAssumption DEF FlusherInv, TypeOK, ThreadsFit, TasksFit, ResumeFlusher
<1>4. WarmupFirst'
  BY FlusherAssumption DEF FlusherInv, TypeOK, ThreadsFit, TasksFit, WarmupFirst,
     StatesFit, ResumeFlusher
<1>5. FlushFits'
  BY FlusherAssumption DEF FlusherInv, TypeOK, ThreadsFit, FlushFits, StatesFit,
     ResumeFlusher
<1>6. StatesFit'
  BY FlusherAssumption DEF FlusherInv, TypeOK, ThreadsFit, WarmupFirst, FlushFits,
     StatesFit, ResumeFlusher
<1>7. ActsOnState'
  BY FlusherAssumption DEF FlusherInv, TypeOK, ThreadsFit, TasksFit, StatesFit,
     ActsOnState, ResumeFlusher
<1>8. NoLostWakeup'
  BY FlusherAssumption DEF FlusherInv, TypeOK, ThreadsFit, TasksFit, WarmupFirst,
     FlushFits, StatesFit, ActsOnState, NoLostWakeup, ResumeFlusher
<1>9. NothingForgotten'
  BY FlusherAssumption DEF FlusherInv, TypeOK, FlushFits, NothingForgotten,
     ResumeFlusher
<1> QED  BY <1>1, <1>2, <1>3, <1>4, <1>5, <1>6, <1>7, <1>8, <1>9 DEF FlusherInv

LEMMA ScheduleVBSnapshotInv ==
    ASSUME FlusherInv, ScheduleVBSnapshot
    PROVE  FlusherInv'
<1>1. TypeOK'
  BY FlusherAssumption DEF FlusherInv, TypeOK, ScheduleVBSnapshot
<1>2. ThreadsFit'
  BY FlusherAssumption DEF FlusherInv, TypeOK, ThreadsFit, ScheduleVBSnapshot
<1>3. TasksFit'
  BY FlusherAssumption DEF FlusherInv, TypeOK, ThreadsFit, TasksFit,
     ScheduleVBSnapshot
<1>4. WarmupFirst'
  BY FlusherAssumption DEF FlusherInv, TypeOK, ThreadsFit, TasksFit, WarmupFirst,
     StatesFit, ScheduleVBSnapshot
<1>5. FlushFits'
  BY FlusherAssumption DEF FlusherInv, TypeOK, ThreadsFit, FlushFits, StatesFit,
     ScheduleVBSnapshot
<1>6. StatesFit'
  BY FlusherAssumption DEF FlusherInv, TypeOK, ThreadsFit, WarmupFirst, FlushFits,
     StatesFit, ScheduleVBSnapshot
<1>7. ActsOnState'
  BY FlusherAssumption DEF FlusherInv, TypeOK, ThreadsFit, TasksFit, StatesFit,
     ActsOnState, ScheduleVBSnapshot
<1>8. NoLostWakeup'
  BY FlusherAssumption DEF FlusherInv, TypeOK, ThreadsFit, TasksFit, WarmupFirst,
     FlushFits, StatesFit, ActsOnState, NoLostWakeup, ScheduleVBSnapshot
<1>9. NothingForgotten'
  BY FlusherAssumption DEF FlusherInv, TypeOK, FlushFits, NothingForgotten,
     ScheduleVBSnapshot
<1> QED  BY <1>1, <1>2, <1>3, <1>4, <1>5, <1>6, <1>7, <1>8, <1>9 DEF FlusherInv

LEMMA StopFlusherInv ==
    ASSUME FlusherInv, NEW f \in Forces, StopFlusher(f)
    PROVE  FlusherInv'
<1>1. TypeOK'
  BY FlusherAssumption DEF FlusherInv, TypeOK, StopFlusher
<1>2. ThreadsFit'
  BY FlusherAssumption DEF FlusherInv, TypeOK, ThreadsFit, StopFlusher
<1>3. TasksFit'
  BY FlusherAssumption DEF FlusherInv, TypeOK, ThreadsFit, TasksFit, StopFlusher
<1>4. WarmupFirst'
  BY FlusherAssumption DEF FlusherInv, TypeOK, ThreadsFit, TasksFit, WarmupFirst,
     StatesFit, StopFlusher
<1>5. FlushFits'
  BY FlusherAssumption DEF FlusherInv, TypeOK, ThreadsFit, FlushFits, StatesFit,
     StopFlusher
<1>6. StatesFit'
  BY FlusherAssumption DEF FlusherInv, TypeOK, ThreadsFit, WarmupFirst, FlushFits,
     StatesFit, StopFlusher
<1>7. ActsOnState'
  BY FlusherAssumption DEF FlusherInv, TypeOK, ThreadsFit, TasksFit, StatesFit,
     ActsOnState, StopFlusher
<1>8. NoLostWakeup'
  BY FlusherAssumption DEF FlusherInv, TypeOK, ThreadsFit, TasksFit, WarmupFirst,
     FlushFits, StatesFit, ActsOnState, NoLostWakeup, StopFlusher
<1>9. NothingForgotten'
  BY FlusherAssumption DEF FlusherInv, TypeOK, FlushFits, NothingForgotten,
     StopFlusher
<1> QED  BY <1>1, <1>2, <1>3, <1>4, <1>5, <1>6, <1>7, <1>8, <1>9 DEF FlusherInv

LEMMA EngineInitializedInv ==
    ASSUME FlusherInv, EngineInitialized
    PROVE  FlusherInv'
<1>1. TypeOK'
  <2>1. th' \in [Threads -> [pc : Pcs, to : FlusherStates, next : Pcs]]
    BY DEF FlusherInv, TypeOK, EngineInitialized
  <2>2. /\ force' \in BOOLEAN /\ vbStateLoaded' \in BOOLEAN /\ draining' \in BOOLEAN
        /\ snapshot' \in BOOLEAN /\ flushing' \in BOOLEAN /\ commitSoon' \in BOOLEAN
    BY Zenon DEF FlusherInv, TypeOK, EngineInitialized
  <2>3. /\ fstate' \in FlusherStates /\ dstate' \in {"running", "stopping", "stopped"}
        /\ task' \in Nat /\ run' \in Nat /\ queue' \subseteq Nat /\ dead' \subseteq Nat
        /\ taskMutex' \in Threads \cup {Nobody}
    BY DEF FlusherInv, TypeOK, EngineInitialized
  <2>4. /\ dirty' \subseteq Items /\ writing' \subseteq Items
        /\ rejects' \subseteq Items /\ stored' \subseteq Items
    BY DEF FlusherInv, TypeOK, EngineInitialized
  <2>5. spent' \in [{"mutations", "requests", "snapshots", "failures"} -> Nat]
    BY DEF FlusherInv, TypeOK, EngineInitialized
  <2> QED  BY <2>1, <2>2, <2>3, <2>4, <2>5 DEF TypeOK
<1>2. ThreadsFit'
  BY FlusherAssumption DEF FlusherInv, TypeOK, ThreadsFit, EngineInitialized
<1>3. TasksFit'
  BY FlusherAssumption DEF FlusherInv, TypeOK, ThreadsFit, TasksFit, EngineInitialized
<1>4. WarmupFirst'
  BY FlusherAssumption DEF FlusherInv, TypeOK, ThreadsFit, TasksFit, WarmupFirst,
     StatesFit, EngineInitialized
<1>5. FlushFits'
  BY FlusherAssumption DEF FlusherInv, TypeOK, ThreadsFit, FlushFits, StatesFit,
     EngineInitialized
<1>6. StatesFit'
  BY FlusherAssumption DEF FlusherInv, TypeOK, ThreadsFit, WarmupFirst, FlushFits,
     StatesFit, EngineInitialized
<1>7. ActsOnState'
  BY FlusherAssumption DEF FlusherInv, TypeOK, ThreadsFit, TasksFit, StatesFit,
     ActsOnState, EngineInitialized
<1>8. NoLostWakeup'
  BY FlusherAssumption DEF FlusherInv, TypeOK, ThreadsFit, TasksFit, WarmupFirst,
     FlushFits, StatesFit, ActsOnState, NoLostWakeup, EngineInitialized
<1>9. NothingForgotten'
  BY FlusherAssumption DEF FlusherInv, TypeOK, FlushFits, NothingForgotten,
     EngineInitialized
<1> QED  BY <1>1, <1>2, <1>3, <1>4, <1>5, <1>6, <1>7, <1>8, <1>9 DEF FlusherInv

LEMMA FlusherWaitInv ==
    ASSUME FlusherInv, FlusherWait
    PROVE  FlusherInv'
<1>1. TypeOK'
  BY FlusherAssumption DEF FlusherInv, TypeOK, FlusherWait
<1>2. ThreadsFit'
  BY FlusherAssumption DEF FlusherInv, TypeOK, ThreadsFit, FlusherWait
<1>3. TasksFit'
  BY FlusherAssumption DEF FlusherInv, TypeOK, ThreadsFit, TasksFit, FlusherWait
<1>4. WarmupFirst'
  BY FlusherAssumption DEF FlusherInv, TypeOK, ThreadsFit, TasksFit, WarmupFirst,
     StatesFit, FlusherWait
<1>5. FlushFits'
  BY FlusherAssumption DEF FlusherInv, TypeOK, ThreadsFit, FlushFits, StatesFit,
     FlusherWait
<1>6. StatesFit'
  BY FlusherAssumption DEF FlusherInv, TypeOK, ThreadsFit, WarmupFirst, FlushFits,
     StatesFit, FlusherWait
<1>7. ActsOnState'
  BY FlusherAssumption DEF FlusherInv, TypeOK, ThreadsFit, TasksFit, StatesFit,
     ActsOnState, FlusherWait
<1>8. NoLostWakeup'
  BY FlusherAssumption DEF FlusherInv, TypeOK, ThreadsFit, TasksFit, WarmupFirst,
     FlushFits, StatesFit, ActsOnState, NoLostWakeup, FlusherWait
<1>9. NothingForgotten'
  BY FlusherAssumption DEF FlusherInv, TypeOK, FlushFits, NothingForgotten,
     FlusherWait
<1> QED  BY <1>1, <1>2, <1>3, <1>4, <1>5, <1>6, <1>7, <1>8, <1>9 DEF FlusherInv

LEMMA DispatcherStopInv ==
    ASSUME FlusherInv, DispatcherStop
    PROVE  FlusherInv'
<1>1. TypeOK'
  BY FlusherAssumption DEF FlusherInv, TypeOK, DispatcherStop
<1>2. ThreadsFit'
  BY FlusherAssumption DEF FlusherInv, TypeOK, ThreadsFit, DispatcherStop
<1>3. TasksFit'
  BY FlusherAssumption DEF FlusherInv, TypeOK, ThreadsFit, TasksFit, DispatcherStop
<1>4. WarmupFirst'
  BY FlusherAssumption DEF FlusherInv, TypeOK, ThreadsFit, TasksFit, WarmupFirst,
     StatesFit, DispatcherStop
<1>5. FlushFits'
  BY FlusherAssumption DEF FlusherInv, TypeOK, ThreadsFit, FlushFits, StatesFit,
     DispatcherStop
<1>6. StatesFit'
  BY FlusherAssumption DEF FlusherInv, TypeOK, ThreadsFit, WarmupFirst, FlushFits,
     StatesFit, DispatcherStop
<1>7. ActsOnState'
  BY FlusherAssumption DEF FlusherInv, TypeOK, ThreadsFit, TasksFit, StatesFit,
     ActsOnState, DispatcherStop
<1>8. NoLostWakeup'
  BY FlusherAssumption DEF FlusherInv, TypeOK, ThreadsFit, TasksFit, WarmupFirst,
     FlushFits, StatesFit, ActsOnState, NoLostWakeup, DispatcherStop
<1>9. NothingForgotten'
  BY FlusherAssumption DEF FlusherInv, TypeOK, FlushFits, NothingForgotten,
     DispatcherStop
<1> QED  BY <1>1, <1>2, <1>3, <1>4, <1>5, <1>6, <1>7, <1>8, <1>9 DEF FlusherInv

LEMMA DeleteFlusherInv ==
    ASSUME FlusherInv, DeleteFlusher
    PROVE  FlusherInv'
<1>1. TypeOK'
  BY FlusherAssumption DEF FlusherInv, TypeOK, DeleteFlusher
<1>2. ThreadsFit'
  BY FlusherAssumption DEF FlusherInv, TypeOK, ThreadsFit, DeleteFlusher
<1>3. TasksFit'
  BY FlusherAssumption DEF FlusherInv, TypeOK, ThreadsFit, TasksFit, DeleteFlusher
<1>4. WarmupFirst'
  BY FlusherAssumption DEF FlusherInv, TypeOK, ThreadsFit, TasksFit, WarmupFirst,
     StatesFit, DeleteFlusher
<1>5. FlushFits'
  BY FlusherAssumption DEF FlusherInv, TypeOK, ThreadsFit, FlushFits, StatesFit,
     DeleteFlusher
<1>6. StatesFit'
  BY FlusherAssumption DEF FlusherInv, TypeOK, ThreadsFit, WarmupFirst, FlushFits,
     StatesFit, DeleteFlusher
<1>7. ActsOnState'
  BY FlusherAssumption DEF FlusherInv, TypeOK, ThreadsFit, TasksFit, StatesFit,
     ActsOnState, DeleteFlusher
<1>8. NoLostWakeup'
  BY FlusherAssumption DEF FlusherInv, TypeOK, ThreadsFit, TasksFit, WarmupFirst,
     FlushFits, StatesFit, ActsOnState, NoLostWakeup, DeleteFlusher
<1>9. NothingForgotten'
  BY FlusherAssumption DEF FlusherInv, TypeOK, FlushFits, NothingForgotten,
     DeleteFlusher
<1> QED  BY <1>1, <1>2, <1>3, <1>4, <1>5, <1>6, <1>7, <1>8, <1>9 DEF FlusherInv

LEMMA DropTaskInv ==
    ASSUME FlusherInv, NEW t \in queue, DropTask(t)
    PROVE  FlusherInv'
<1>1. TypeOK'
  BY FlusherAssumption DEF FlusherInv, TypeOK, DropTask
<1>2. ThreadsFit'
  BY FlusherAssumption DEF FlusherInv, TypeOK, ThreadsFit, DropTask
<1>3. TasksFit'
  BY FlusherAssumption DEF FlusherInv, TypeOK, ThreadsFit, TasksFit, DropTask
<1>4. WarmupFirst'
  BY FlusherAssumption DEF FlusherInv, TypeOK, ThreadsFit, TasksFit, WarmupFirst,
     StatesFit, DropTask
<1>5. FlushFits'
  BY FlusherAssumption DEF FlusherInv, TypeOK, ThreadsFit, FlushFits, StatesFit,
     DropTask
<1>6. StatesFit'
  BY FlusherAssumption DEF FlusherInv, TypeOK, ThreadsFit, WarmupFirst, FlushFits,
     StatesFit, DropTask
<1>7. ActsOnState'
  BY FlusherAssumption DEF FlusherInv, TypeOK, ThreadsFit, TasksFit, StatesFit,
     ActsOnState, DropTask
<1>8. NoLostWakeup'
  BY FlusherAssumption DEF FlusherInv, TypeOK, ThreadsFit, TasksFit, WarmupFirst,
     FlushFits, StatesFit, ActsOnState, NoLostWakeup, DropTask
<1>9. NothingForgotten'
  BY FlusherAssumption DEF FlusherInv, TypeOK, FlushFits, NothingForgotten, DropTask
<1> QED  BY <1>1, <1>2, <1>3, <1>4, <1>5, <1>6, <1>7, <1>8, <1>9 DEF FlusherInv

LEMMA RunTaskInv ==
    ASSUME FlusherInv, NEW t \in queue, RunTask(t)
    PROVE  FlusherInv'
<1>1. TypeOK'
  BY FlusherAssumption DEF FlusherInv, TypeOK, RunTask
<1>2. ThreadsFit'
  BY FlusherAssumption DEF FlusherInv, TypeOK, ThreadsFit, RunTask
<1>3. TasksFit'
  BY FlusherAssumption DEF FlusherInv, TypeOK, ThreadsFit, TasksFit, RunTask
<1>4. WarmupFirst'
  BY FlusherAssumption DEF FlusherInv, TypeOK, ThreadsFit, TasksFit, WarmupFirst,
     StatesFit, RunTask
<1>5. FlushFits'
  BY FlusherAssumption DEF FlusherInv, TypeOK, ThreadsFit, FlushFits, StatesFit,
     RunTask
<1>6. StatesFit'
  BY FlusherAssumption DEF FlusherInv, TypeOK, ThreadsFit, WarmupFirst, FlushFits,
     StatesFit, RunTask
<1>7. ActsOnState'
  BY FlusherAssumption DEF FlusherInv, TypeOK, ThreadsFit, TasksFit, StatesFit,
     ActsOnState, RunTask
<1>8. NoLostWakeup'
  BY FlusherAssumption DEF FlusherInv, TypeOK, ThreadsFit, TasksFit, WarmupFirst,
     FlushFits, StatesFit, ActsOnState, NoLostWakeup, RunTask
<1>9. NothingForgotten'
  BY FlusherAssumption DEF FlusherInv, TypeOK, FlushFits, NothingForgotten, RunTask
<1> QED  BY <1>1, <1>2, <1>3, <1>4, <1>5, <1>6, <1>7, <1>8, <1>9 DEF FlusherInv

LEMMA RunSnapshotInv ==
    ASSUME FlusherInv, RunSnapshot
    PROVE  FlusherInv'
<1>1. TypeOK'
  <2>1. th' \in [Threads -> [pc : Pcs, to : FlusherStates, next : Pcs]]
    BY DEF FlusherInv, TypeOK, RunSnapshot
  <2>2. /\ force' \in BOOLEAN /\ vbStateLoaded' \in BOOLEAN /\ draining' \in BOOLEAN
        /\ snapshot' \in BOOLEAN /\ flushing' \in BOOLEAN /\ commitSoon' \in BOOLEAN
    BY Zenon DEF FlusherInv, TypeOK, RunSnapshot
  <2>3. /\ fstate' \in FlusherStates /\ dstate' \in {"running", "stopping", "stopped"}
        /\ task' \in Nat /\ run' \in Nat /\ queue' \subseteq Nat /\ dead' \subseteq Nat
        /\ taskMutex' \in Threads \cup {Nobody}
    BY DEF FlusherInv, TypeOK, RunSnapshot
  <2>4. /\ dirty' \subseteq Items /\ writing' \subseteq Items
        /\ rejects' \subseteq Items /\ stored' \subseteq Items
    BY DEF FlusherInv, TypeOK, RunSnapshot
  <2>5. spent' \in [{"mutations", "requests", "snapshots", "failures"} -> Nat]
    BY DEF FlusherInv, TypeOK, RunSnapshot
  <2> QED  BY <2>1, <2>2, <2>3, <2>4, <2>5 DEF TypeOK
<1>2. ThreadsFit'
  BY FlusherAssumption DEF FlusherInv, TypeOK, ThreadsFit, RunSnapshot
<1>3. TasksFit'
  BY FlusherAssumption DEF FlusherInv, TypeOK, ThreadsFit, TasksFit, RunSnapshot
<1>4. WarmupFirst'
  BY FlusherAssumption DEF FlusherInv, TypeOK, ThreadsFit, TasksFit, WarmupFirst,
     StatesFit, RunSnapshot
<1>5. FlushFits'
  BY FlusherAssumption DEF FlusherInv, TypeOK, ThreadsFit, FlushFits, StatesFit,
     RunSnapshot
<1>6. StatesFit'
  BY FlusherAssumption DEF FlusherInv, TypeOK, ThreadsFit, WarmupFirst, FlushFits,
     StatesFit, RunSnapshot
<1>7. ActsOnState'
  BY FlusherAssumption DEF FlusherInv, TypeOK, ThreadsFit, TasksFit, StatesFit,
     ActsOnState, RunSnapshot
<1>8. NoLostWakeup'
  BY FlusherAssumption DEF FlusherInv, TypeOK, ThreadsFit, TasksFit, WarmupFirst,
     FlushFits, StatesFit, ActsOnState, NoLostWakeup, RunSnapshot
<1>9. NothingForgotten'
  BY FlusherAssumption DEF FlusherInv, TypeOK, FlushFits, NothingForgotten,
     RunSnapshot
<1> QED  BY <1>1, <1>2, <1>3, <1>4, <1>5, <1>6, <1>7, <1>8, <1>9 DEF FlusherInv

LEMMA SnapshotVBucketsInv ==
    ASSUME FlusherInv, SnapshotVBuckets
    PROVE  FlusherInv'
<1>1. TypeOK'
  <2>1. th' \in [Threads -> [pc : Pcs, to : FlusherStates, next : Pcs]]
    BY DEF FlusherInv, TypeOK, SnapshotVBuckets
  <2>2. /\ force' \in BOOLEAN /\ vbStateLoaded' \in BOOLEAN /\ draining' \in BOOLEAN
        /\ snapshot' \in BOOLEAN /\ flushing' \in BOOLEAN /\ commitSoon' \in BOOLEAN
    BY Zenon DEF FlusherInv, TypeOK, SnapshotVBuckets
  <2>3. /\ fstate' \in FlusherStates /\ dstate' \in {"running", "stopping", "stopped"}
        /\ task' \in Nat /\ run' \in Nat /\ queue' \subseteq Nat /\ dead' \subseteq Nat
        /\ taskMutex' \in Threads \cup {Nobody}
    BY DEF FlusherInv, TypeOK, SnapshotVBuckets
  <2>4. /\ dirty' \subseteq Items /\ writing' \subseteq Items
        /\ rejects' \subseteq Items /\ stored' \subseteq Items
    BY DEF FlusherInv, TypeOK, SnapshotVBuckets
  <2>5. spent' \in [{"mutations", "requests", "snapshots", "failures"} -> Nat]
    BY DEF FlusherInv, TypeOK, SnapshotVBuckets
  <2> QED  BY <2>1, <2>2, <2>3, <2>4, <2>5 DEF TypeOK
<1>2. ThreadsFit'
  BY FlusherAssumption DEF FlusherInv, TypeOK, ThreadsFit, SnapshotVBuckets
<1>3. TasksFit'
  BY FlusherAssumption DEF FlusherInv, TypeOK, ThreadsFit, TasksFit, SnapshotVBuckets
<1>4. WarmupFirst'
  BY FlusherAssumption DEF FlusherInv, TypeOK, ThreadsFit, TasksFit, WarmupFirst,
     StatesFit, SnapshotVBuckets
<1>5. FlushFits'
  BY FlusherAssumption DEF FlusherInv, TypeOK, ThreadsFit, FlushFits, StatesFit,
     SnapshotVBuckets
<1>6. StatesFit'
  BY FlusherAssumption DEF FlusherInv, TypeOK, ThreadsFit, WarmupFirst, FlushFits,
     StatesFit, SnapshotVBuckets
<1>7. ActsOnState'
  BY FlusherAssumption DEF FlusherInv, TypeOK, ThreadsFit, TasksFit, StatesFit,
     ActsOnState, SnapshotVBuckets
<1>8. NoLostWakeup'
  BY FlusherAssumption DEF FlusherInv, TypeOK, ThreadsFit, TasksFit, WarmupFirst,
     FlushFits, StatesFit, ActsOnState, NoLostWakeup, SnapshotVBuckets
<1>9. NothingForgotten'
  BY FlusherAssumption DEF FlusherInv, TypeOK, FlushFits, NothingForgotten,
     SnapshotVBuckets
<1> QED  BY <1>1, <1>2, <1>3, <1>4, <1>5, <1>6, <1>7, <1>8, <1>9 DEF FlusherInv

LEMMA DispatcherExitInv ==
    ASSUME FlusherInv, DispatcherExit
    PROVE  FlusherInv'
<1>1. TypeOK'
  BY FlusherAssumption DEF FlusherInv, TypeOK, DispatcherExit
<1>2. ThreadsFit'
  BY FlusherAssumption DEF FlusherInv, TypeOK, ThreadsFit, DispatcherExit
<1>3. TasksFit'
  BY FlusherAssumption DEF FlusherInv, TypeOK, ThreadsFit, TasksFit, DispatcherExit
<1>4. WarmupFirst'
  BY FlusherAssumption DEF FlusherInv, TypeOK, ThreadsFit, TasksFit, WarmupFirst,
     StatesFit, DispatcherExit
<1>5. FlushFits'
  BY FlusherAssumption DEF FlusherInv, TypeOK, ThreadsFit, FlushFits, StatesFit,
     DispatcherExit
<1>6. StatesFit'
  BY FlusherAssumption DEF FlusherInv, TypeOK, ThreadsFit, WarmupFirst, FlushFits,
     StatesFit, DispatcherExit
<1>7. ActsOnState'
  BY FlusherAssumption DEF FlusherInv, TypeOK, ThreadsFit, TasksFit, StatesFit,
     ActsOnState, DispatcherExit
<1>8. NoLostWakeup'
  BY FlusherAssumption DEF FlusherInv, TypeOK, ThreadsFit, TasksFit, WarmupFirst,
     FlushFits, StatesFit, ActsOnState, NoLostWakeup, DispatcherExit
<1>9. NothingForgotten'
  BY FlusherAssumption DEF FlusherInv, TypeOK, FlushFits, NothingForgotten,
     DispatcherExit
<1> QED  BY <1>1, <1>2, <1>3, <1>4, <1>5, <1>6, <1>7, <1>8, <1>9 DEF FlusherInv

LEMMA EndTaskInv ==
    ASSUME FlusherInv, EndTask
    PROVE  FlusherInv'
<1>1. TypeOK'
  <2>1. th' \in [Threads -> [pc : Pcs, to : FlusherStates, next : Pcs]]
    BY DEF FlusherInv, TypeOK, EndTask
  <2>2. /\ force' \in BOOLEAN /\ vbStateLoaded' \in BOOLEAN /\ draining' \in BOOLEAN
        /\ snapshot' \in BOOLEAN /\ flushing' \in BOOLEAN /\ commitSoon' \in BOOLEAN
    BY Zenon DEF FlusherInv, TypeOK, EndTask
  <2>3. /\ fstate' \in FlusherStates /\ dstate' \in {"running", "stopping", "stopped"}
        /\ task' \in Nat /\ run' \in Nat /\ queue' \subseteq Nat /\ dead' \subseteq Nat
        /\ taskMutex' \in Threads \cup {Nobody}
    BY DEF FlusherInv, TypeOK, EndTask
  <2>4. /\ dirty' \subseteq Items /\ writing' \subseteq Items
        /\ rejects' \subseteq Items /\ stored' \subseteq Items
    BY DEF FlusherInv, TypeOK, EndTask
  <2>5. spent' \in [{"mutations", "requests", "snapshots", "failures"} -> Nat]
    BY DEF FlusherInv, TypeOK, EndTask
  <2> QED  BY <2>1, <2>2, <2>3, <2>4, <2>5 DEF TypeOK
<1>2. ThreadsFit'
  BY FlusherAssumption DEF FlusherInv, TypeOK, ThreadsFit, EndTask
<1>3. TasksFit'
  <2>1. \A s \in Threads : taskMutex' = s <=> At(s, "schedule")'
    BY FlusherAssumption DEF FlusherInv, TypeOK, ThreadsFit, TasksFit, EndTask
  <2>2. queue' \subseteq 1 .. task'
    <3>1. run \in 1 .. task /\ task' = task /\ queue' \subseteq queue \cup {run}
      BY DEF FlusherInv, TasksFit, EndTask
    <3> QED  BY <3>1 DEF FlusherInv, TasksFit
  <2>3. 1 .. (task' - 1) \subseteq dead' /\ dead' \subseteq 1 .. task'
    BY FlusherAssumption DEF FlusherInv, TypeOK, ThreadsFit, TasksFit, EndTask
  <2>4. task' > 0 /\ (task' \in dead' <=> taskMutex' # Nobody)
    BY FlusherAssumption DEF FlusherInv, TypeOK, ThreadsFit, TasksFit, EndTask
  <2>5. IF th[Dispatcher].pc' \in {"idle", "snapshot", "exited"}
          THEN run' = 0 ELSE run' \in 1 .. task'
    BY FlusherAssumption DEF FlusherInv, TypeOK, ThreadsFit, TasksFit, EndTask
  <2> QED  BY <2>1, <2>2, <2>3, <2>4, <2>5 DEF TasksFit
<1>4. WarmupFirst'
  BY FlusherAssumption DEF FlusherInv, TypeOK, ThreadsFit, TasksFit, WarmupFirst,
     StatesFit, EndTask
<1>5. FlushFits'
  BY FlusherAssumption DEF FlusherInv, TypeOK, ThreadsFit, FlushFits, StatesFit,
     EndTask
<1>6. StatesFit'
  BY FlusherAssumption DEF FlusherInv, TypeOK, ThreadsFit, WarmupFirst, FlushFits,
     StatesFit, EndTask
<1>7. ActsOnState'
  BY FlusherAssumption DEF FlusherInv, TypeOK, ThreadsFit, TasksFit, StatesFit,
     ActsOnState, EndTask
<1>8. NoLostWakeup'
  BY FlusherAssumption DEF FlusherInv, TypeOK, ThreadsFit, TasksFit, WarmupFirst,
     FlushFits, StatesFit, ActsOnState, NoLostWakeup, EndTask
<1>9. NothingForgotten'
  BY FlusherAssumption DEF FlusherInv, TypeOK, FlushFits, NothingForgotten, EndTask
<1> QED  BY <1>1, <1>2, <1>3, <1>4, <1>5, <1>6, <1>7, <1>8, <1>9 DEF FlusherInv

LEMMA StepInv ==
    ASSUME FlusherInv, Step
    PROVE  FlusherInv'
<1>1. TypeOK'
  <2>1. th' \in [Threads -> [pc : Pcs, to : FlusherStates, next : Pcs]]
    BY DEF FlusherInv, TypeOK, Step
  <2>2. /\ force' \in BOOLEAN /\ vbStateLoaded' \in BOOLEAN /\ draining' \in BOOLEAN
        /\ snapshot' \in BOOLEAN /\ flushing' \in BOOLEAN /\ commitSoon' \in BOOLEAN
    BY Zenon DEF FlusherInv, TypeOK, Step
  <2>3. /\ fstate' \in FlusherStates /\ dstate' \in {"running", "stopping", "stopped"}
        /\ task' \in Nat /\ run' \in Nat /\ queue' \subseteq Nat /\ dead' \subseteq Nat
        /\ taskMutex' \in Threads \cup {Nobody}
    BY DEF FlusherInv, TypeOK, Step
  <2>4. /\ dirty' \subseteq Items /\ writing' \subseteq Items
        /\ rejects' \subseteq Items /\ stored' \subseteq Items
    BY DEF FlusherInv, TypeOK, Step
  <2>5. spent' \in [{"mutations", "requests", "snapshots", "failures"} -> Nat]
    BY DEF FlusherInv, TypeOK, Step
  <2> QED  BY <2>1, <2>2, <2>3, <2>4, <2>5 DEF TypeOK
<1>2. ThreadsFit'
  BY FlusherAssumption DEF FlusherInv, TypeOK, ThreadsFit, Step
<1>3. TasksFit'
  BY FlusherAssumption DEF FlusherInv, TypeOK, ThreadsFit, TasksFit, Step
<1>4. WarmupFirst'
  BY FlusherAssumption DEF FlusherInv, TypeOK, ThreadsFit, TasksFit, WarmupFirst,
     StatesFit, Step
<1>5. FlushFits'
  BY FlusherAssumption DEF FlusherInv, TypeOK, ThreadsFit, FlushFits, StatesFit, Step
<1>6. StatesFit'
  BY FlusherAssumption DEF FlusherInv, TypeOK, ThreadsFit, WarmupFirst, FlushFits,
     StatesFit, Step
<1>7. ActsOnState'
  BY FlusherAssumption DEF FlusherInv, TypeOK, ThreadsFit, TasksFit, StatesFit,
     ActsOnState, Step
<1>8. NoLostWakeup'
  BY FlusherAssumption DEF FlusherInv, TypeOK, ThreadsFit, TasksFit, WarmupFirst,
     FlushFits, StatesFit, ActsOnState, NoLostWakeup, Step
<1>9. NothingForgotten'
  BY FlusherAssumption DEF FlusherInv, TypeOK, FlushFits, NothingForgotten, Step
<1> QED  BY <1>1, <1>2, <1>3, <1>4, <1>5, <1>6, <1>7, <1>8, <1>9 DEF FlusherInv

LEMMA InitializeInv ==
    ASSUME FlusherInv, Initialize
    PROVE  FlusherInv'
<1>1. TypeOK'
  <2>1. th' \in [Threads -> [pc : Pcs, to : FlusherStates, next : Pcs]]
    BY DEF FlusherInv, TypeOK, Initialize
  <2>2. /\ force' \in BOOLEAN /\ vbStateLoaded' \in BOOLEAN /\ draining' \in BOOLEAN
        /\ snapshot' \in BOOLEAN /\ flushing' \in BOOLEAN /\ commitSoon' \in BOOLEAN
    BY Zenon DEF FlusherInv, TypeOK, Initialize
  <2>3. /\ fstate' \in FlusherStates /\ dstate' \in {"running", "stopping", "stopped"}
        /\ task' \in Nat /\ run' \in Nat /\ queue' \subseteq Nat /\ dead' \subseteq Nat
        /\ taskMutex' \in Threads \cup {Nobody}
    BY DEF FlusherInv, TypeOK, Initialize
  <2>4. /\ dirty' \subseteq Items /\ writing' \subseteq Items
        /\ rejects' \subseteq Items /\ stored' \subseteq Items
    BY DEF FlusherInv, TypeOK, Initialize
  <2>5. spent' \in [{"mutations", "requests", "snapshots", "failures"} -> Nat]
    BY DEF FlusherInv, TypeOK, Initialize
  <2> QED  BY <2>1, <2>2, <2>3, <2>4, <2>5 DEF TypeOK
<1>2. ThreadsFit'
  BY FlusherAssumption DEF FlusherInv, TypeOK, ThreadsFit, Initialize
<1>3. TasksFit'
  BY FlusherAssumption DEF FlusherInv, TypeOK, ThreadsFit, TasksFit, Initialize
<1>4. WarmupFirst'
  BY FlusherAssumption DEF FlusherInv, TypeOK, ThreadsFit, TasksFit, WarmupFirst,
     StatesFit, Initialize
<1>5. FlushFits'
  BY FlusherAssumption DEF FlusherInv, TypeOK, ThreadsFit, FlushFits, StatesFit,
     Initialize
<1>6. StatesFit'
  BY FlusherAssumption DEF FlusherInv, TypeOK, ThreadsFit, WarmupFirst, FlushFits,
     StatesFit, Initialize
<1>7. ActsOnState'
  BY FlusherAssumption DEF FlusherInv, TypeOK, ThreadsFit, TasksFit, StatesFit,
     ActsOnState, Initialize
<1>8. NoLostWakeup'
  BY FlusherAssumption DEF FlusherInv, TypeOK, ThreadsFit, TasksFit, WarmupFirst,
     FlushFits, StatesFit, ActsOnState, NoLostWakeup, Initialize
<1>9. NothingForgotten'
  BY FlusherAssumption DEF FlusherInv, TypeOK, FlushFits, NothingForgotten, Initialize
<1> QED  BY <1>1, <1>2, <1>3, <1>4, <1>5, <1>6, <1>7, <1>8, <1>9 DEF FlusherInv

LEMMA LoadVBStatesInv ==
    ASSUME FlusherInv, LoadVBStates
    PROVE  FlusherInv'
<1>1. TypeOK'
  BY FlusherAssumption DEF FlusherInv, TypeOK, LoadVBStates
<1>2. ThreadsFit'
  BY FlusherAssumption DEF FlusherInv, TypeOK, ThreadsFit, LoadVBStates
<1>3. TasksFit'
  BY FlusherAssumption DEF FlusherInv, TypeOK, ThreadsFit, TasksFit, LoadVBStates
<1>4. WarmupFirst'
  BY FlusherAssumption DEF FlusherInv, TypeOK, ThreadsFit, TasksFit, WarmupFirst,
     StatesFit, LoadVBStates
<1>5. FlushFits'
  BY FlusherAssumption DEF FlusherInv, TypeOK, ThreadsFit, FlushFits, StatesFit,
     LoadVBStates
<1>6. StatesFit'
  BY FlusherAssumption DEF FlusherInv, TypeOK, ThreadsFit, WarmupFirst, FlushFits,
     StatesFit, LoadVBStates
<1>7. ActsOnState'
  BY FlusherAssumption DEF FlusherInv, TypeOK, ThreadsFit, TasksFit, StatesFit,
     ActsOnState, LoadVBStates
<1>8. NoLostWakeup'
  BY FlusherAssumption DEF FlusherInv, TypeOK, ThreadsFit, TasksFit, WarmupFirst,
     FlushFits, StatesFit, ActsOnState, NoLostWakeup, LoadVBStates
<1>9. NothingForgotten'
  BY FlusherAssumption DEF FlusherInv, TypeOK, FlushFits, NothingForgotten,
     LoadVBStates
<1> QED  BY <1>1, <1>2, <1>3, <1>4, <1>5, <1>6, <1>7, <1>8, <1>9 DEF FlusherInv

LEMMA FinishWarmupInv ==
    ASSUME FlusherInv, FinishWarmup
    PROVE  FlusherInv'
<1>1. TypeOK'
  BY FlusherAssumption DEF FlusherInv, TypeOK, FinishWarmup
<1>2. ThreadsFit'
  BY FlusherAssumption DEF FlusherInv, TypeOK, ThreadsFit, FinishWarmup
<1>3. TasksFit'
  BY FlusherAssumption DEF FlusherInv, TypeOK, ThreadsFit, TasksFit, FinishWarmup
<1>4. WarmupFirst'
  BY FlusherAssumption DEF FlusherInv, TypeOK, ThreadsFit, TasksFit, WarmupFirst,
     StatesFit, FinishWarmup
<1>5. FlushFits'
  BY FlusherAssumption DEF FlusherInv, TypeOK, ThreadsFit, FlushFits, StatesFit,
     FinishWarmup
<1>6. StatesFit'
  BY FlusherAssumption DEF FlusherInv, TypeOK, ThreadsFit, WarmupFirst, FlushFits,
     StatesFit, FinishWarmup
<1>7. ActsOnState'
  BY FlusherAssumption DEF FlusherInv, TypeOK, ThreadsFit, TasksFit, StatesFit,
     ActsOnState, FinishWarmup
<1>8. NoLostWakeup'
  BY FlusherAssumption DEF FlusherInv, TypeOK, ThreadsFit, TasksFit, WarmupFirst,
     FlushFits, StatesFit, ActsOnState, NoLostWakeup, FinishWarmup
<1>9. NothingForgotten'
  BY FlusherAssumption DEF FlusherInv, TypeOK, FlushFits, NothingForgotten,
     FinishWarmup
<1> QED  BY <1>1, <1>2, <1>3, <1>4, <1>5, <1>6, <1>7, <1>8, <1>9 DEF FlusherInv

LEMMA BeginFlushInv ==
    ASSUME FlusherInv, BeginFlush
    PROVE  FlusherInv'
<1>1. TypeOK'
  <2>1. th' \in [Threads -> [pc : Pcs, to : FlusherStates, next : Pcs]]
    BY DEF FlusherInv, TypeOK, BeginFlush
  <2>2. /\ force' \in BOOLEAN /\ vbStateLoaded' \in BOOLEAN /\ draining' \in BOOLEAN
        /\ snapshot' \in BOOLEAN /\ flushing' \in BOOLEAN /\ commitSoon' \in BOOLEAN
    BY Zenon DEF FlusherInv, TypeOK, BeginFlush
  <2>3. /\ fstate' \in FlusherStates /\ dstate' \in {"running", "stopping", "stopped"}
        /\ task' \in Nat /\ run' \in Nat /\ queue' \subseteq Nat /\ dead' \subseteq Nat
        /\ taskMutex' \in Threads \cup {Nobody}
    BY DEF FlusherInv, TypeOK, BeginFlush
  <2>4. /\ dirty' \subseteq Items /\ writing' \subseteq Items
        /\ rejects' \subseteq Items /\ stored' \subseteq Items
    BY DEF FlusherInv, TypeOK, BeginFlush
  <2>5. spent' \in [{"mutations", "requests", "snapshots", "failures"} -> Nat]
    BY DEF FlusherInv, TypeOK, BeginFlush
  <2> QED  BY <2>1, <2>2, <2>3, <2>4, <2>5 DEF TypeOK
<1>2. ThreadsFit'
  BY FlusherAssumption DEF FlusherInv, TypeOK, ThreadsFit, BeginFlush
<1>3. TasksFit'
  BY FlusherAssumption DEF FlusherInv, TypeOK, ThreadsFit, TasksFit, BeginFlush
<1>4. WarmupFirst'
  BY FlusherAssumption DEF FlusherInv, TypeOK, ThreadsFit, TasksFit, WarmupFirst,
     StatesFit, BeginFlush
<1>5. FlushFits'
  BY FlusherAssumption DEF FlusherInv, TypeOK, ThreadsFit, FlushFits, StatesFit,
     BeginFlush
<1>6. StatesFit'
  BY FlusherAssumption DEF FlusherInv, TypeOK, ThreadsFit, WarmupFirst, FlushFits,
     StatesFit, BeginFlush
<1>7. ActsOnState'
  BY FlusherAssumption DEF FlusherInv, TypeOK, ThreadsFit, TasksFit, StatesFit,
     ActsOnState, BeginFlush
<1>8. NoLostWakeup'
  BY FlusherAssumption DEF FlusherInv, TypeOK, ThreadsFit, TasksFit, WarmupFirst,
     FlushFits, StatesFit, ActsOnState, NoLostWakeup, BeginFlush
<1>9. NothingForgotten'
  BY FlusherAssumption DEF FlusherInv, TypeOK, FlushFits, NothingForgotten, BeginFlush
<1> QED  BY <1>1, <1>2, <1>3, <1>4, <1>5, <1>6, <1>7, <1>8, <1>9 DEF FlusherInv

LEMMA FlushSomeInv ==
    ASSUME FlusherInv, FlushSome
    PROVE  FlusherInv'
<1>1. TypeOK'
  <2>1. th' \in [Threads -> [pc : Pcs, to : FlusherStates, next : Pcs]]
    BY DEF FlusherInv, TypeOK, FlushSome
  <2>2. /\ force' \in BOOLEAN /\ vbStateLoaded' \in BOOLEAN /\ draining' \in BOOLEAN
        /\ snapshot' \in BOOLEAN /\ flushing' \in BOOLEAN /\ commitSoon' \in BOOLEAN
    BY Zenon DEF FlusherInv, TypeOK, FlushSome
  <2>3. /\ fstate' \in FlusherStates /\ dstate' \in {"running", "stopping", "stopped"}
        /\ task' \in Nat /\ run' \in Nat /\ queue' \subseteq Nat /\ dead' \subseteq Nat
        /\ taskMutex' \in Threads \cup {Nobody}
    BY DEF FlusherInv, TypeOK, FlushSome
  <2>4. /\ dirty' \subseteq Items /\ writing' \subseteq Items
        /\ rejects' \subseteq Items /\ stored' \subseteq Items
    BY DEF FlusherInv, TypeOK, FlushSome
  <2>5. spent' \in [{"mutations", "requests", "snapshots", "failures"} -> Nat]
    BY DEF FlusherInv, TypeOK, FlushSome
  <2> QED  BY <2>1, <2>2, <2>3, <2>4, <2>5 DEF TypeOK
<1>2. ThreadsFit'
  BY FlusherAssumption DEF FlusherInv, TypeOK, ThreadsFit, FlushSome
<1>3. TasksFit'
  BY FlusherAssumption DEF FlusherInv, TypeOK, ThreadsFit, TasksFit, FlushSome
<1>4. WarmupFirst'
  BY FlusherAssumption DEF FlusherInv, TypeOK, ThreadsFit, TasksFit, WarmupFirst,
     StatesFit, FlushSome
<1>5. FlushFits'
  BY FlusherAssumption DEF FlusherInv, TypeOK, ThreadsFit, FlushFits, StatesFit,
     FlushSome
<1>6. StatesFit'
  BY FlusherAssumption DEF FlusherInv, TypeOK, ThreadsFit, WarmupFirst, FlushFits,
     StatesFit, FlushSome
<1>7. ActsOnState'
  BY FlusherAssumption DEF FlusherInv, TypeOK, ThreadsFit, TasksFit, StatesFit,
     ActsOnState, FlushSome
<1>8. NoLostWakeup'
  BY FlusherAssumption DEF FlusherInv, TypeOK, ThreadsFit, TasksFit, WarmupFirst,
     FlushFits, StatesFit, ActsOnState, NoLostWakeup, FlushSome
<1>9. NothingForgotten'
  BY FlusherAssumption DEF FlusherInv, TypeOK, FlushFits, NothingForgotten, FlushSome
<1> QED  BY <1>1, <1>2, <1>3, <1>4, <1>5, <1>6, <1>7, <1>8, <1>9 DEF FlusherInv

LEMMA PauseCheckInv ==
    ASSUME FlusherInv, PauseCheck
    PROVE  FlusherInv'
<1>1. TypeOK'
  BY FlusherAssumption DEF FlusherInv, TypeOK, PauseCheck
<1>2. ThreadsFit'
  BY FlusherAssumption DEF FlusherInv, TypeOK, ThreadsFit, PauseCheck
<1>3. TasksFit'
  BY FlusherAssumption DEF FlusherInv, TypeOK, ThreadsFit, TasksFit, PauseCheck
<1>4. WarmupFirst'
  BY FlusherAssumption DEF FlusherInv, TypeOK, ThreadsFit, TasksFit, WarmupFirst,
     StatesFit, PauseCheck
<1>5. FlushFits'
  BY FlusherAssumption DEF FlusherInv, TypeOK, ThreadsFit, FlushFits, StatesFit,
     PauseCheck
<1>6. StatesFit'
  BY FlusherAssumption DEF FlusherInv, TypeOK, ThreadsFit, WarmupFirst, FlushFits,
     StatesFit, PauseCheck
<1>7. ActsOnState'
  BY FlusherAssumption DEF FlusherInv, TypeOK, ThreadsFit, TasksFit, StatesFit,
     ActsOnState, PauseCheck
<1>8. NoLostWakeup'
  BY FlusherAssumption DEF FlusherInv, TypeOK, ThreadsFit, TasksFit, WarmupFirst,
     FlushFits, StatesFit, ActsOnState, NoLostWakeup, PauseCheck
<1>9. NothingForgotten'
  BY FlusherAssumption DEF FlusherInv, TypeOK, FlushFits, NothingForgotten, PauseCheck
<1> QED  BY <1>1, <1>2, <1>3, <1>4, <1>5, <1>6, <1>7, <1>8, <1>9 DEF FlusherInv

LEMMA FinishFlushInv ==
    ASSUME FlusherInv, FinishFlush
    PROVE  FlusherInv'
<1>1. TypeOK'
  <2>1. th' \in [Threads -> [pc : Pcs, to : FlusherStates, next : Pcs]]
    BY DEF FlusherInv, TypeOK, FinishFlush
  <2>2. /\ force' \in BOOLEAN /\ vbStateLoaded' \in BOOLEAN /\ draining' \in BOOLEAN
        /\ snapshot' \in BOOLEAN /\ flushing' \in BOOLEAN /\ commitSoon' \in BOOLEAN
    BY Zenon DEF FlusherInv, TypeOK, FinishFlush
  <2>3. /\ fstate' \in FlusherStates /\ dstate' \in {"running", "stopping", "stopped"}
        /\ task' \in Nat /\ run' \in Nat /\ queue' \subseteq Nat /\ dead' \subseteq Nat
        /\ taskMutex' \in Threads \cup {Nobody}
    BY DEF FlusherInv, TypeOK, FinishFlush
  <2>4. /\ dirty' \subseteq Items /\ writing' \subseteq Items
        /\ rejects' \subseteq Items /\ stored' \subseteq Items
    BY DEF FlusherInv, TypeOK, FinishFlush
  <2>5. spent' \in [{"mutations", "requests", "snapshots", "failures"} -> Nat]
    BY DEF FlusherInv, TypeOK, FinishFlush
  <2> QED  BY <2>1, <2>2, <2>3, <2>4, <2>5 DEF TypeOK
<1>2. ThreadsFit'
  BY FlusherAssumption DEF FlusherInv, TypeOK, ThreadsFit, FinishFlush
<1>3. TasksFit'
  BY FlusherAssumption DEF FlusherInv, TypeOK, ThreadsFit, TasksFit, FinishFlush
<1>4. WarmupFirst'
  BY FlusherAssumption DEF FlusherInv, TypeOK, ThreadsFit, TasksFit, WarmupFirst,
     StatesFit, FinishFlush
<1>5. FlushFits'
  BY FlusherAssumption DEF FlusherInv, TypeOK, ThreadsFit, FlushFits, StatesFit,
     FinishFlush
<1>6. StatesFit'
  BY FlusherAssumption DEF FlusherInv, TypeOK, ThreadsFit, WarmupFirst, FlushFits,
     StatesFit, FinishFlush
<1>7. ActsOnState'
  BY FlusherAssumption DEF FlusherInv, TypeOK, ThreadsFit, TasksFit, StatesFit,
     ActsOnState, FinishFlush
<1>8. NoLostWakeup'
  BY FlusherAssumption DEF FlusherInv, TypeOK, ThreadsFit, TasksFit, WarmupFirst,
     FlushFits, StatesFit, ActsOnState, NoLostWakeup, FinishFlush
<1>9. NothingForgotten'
  BY FlusherAssumption DEF FlusherInv, TypeOK, FlushFits, NothingForgotten,
     FinishFlush
<1> QED  BY <1>1, <1>2, <1>3, <1>4, <1>5, <1>6, <1>7, <1>8, <1>9 DEF FlusherInv

LEMMA FlushReturnedInv ==
    ASSUME FlusherInv, FlushReturned
    PROVE  FlusherInv'
<1>1. TypeOK'
  BY FlusherAssumption DEF FlusherInv, TypeOK, FlushReturned
<1>2. ThreadsFit'
  BY FlusherAssumption DEF FlusherInv, TypeOK, ThreadsFit, FlushReturned
<1>3. TasksFit'
  BY FlusherAssumption DEF FlusherInv, TypeOK, ThreadsFit, TasksFit, FlushReturned
<1>4. WarmupFirst'
  BY FlusherAssumption DEF FlusherInv, TypeOK, ThreadsFit, TasksFit, WarmupFirst,
     StatesFit, FlushReturned
<1>5. FlushFits'
  BY FlusherAssumption DEF FlusherInv, TypeOK, ThreadsFit, FlushFits, StatesFit,
     FlushReturned
<1>6. StatesFit'
  BY FlusherAssumption DEF FlusherInv, TypeOK, ThreadsFit, WarmupFirst, FlushFits,
     StatesFit, FlushReturned
<1>7. ActsOnState'
  BY FlusherAssumption DEF FlusherInv, TypeOK, ThreadsFit, TasksFit, StatesFit,
     ActsOnState, FlushReturned
<1>8. NoLostWakeup'
  BY FlusherAssumption DEF FlusherInv, TypeOK, ThreadsFit, TasksFit, WarmupFirst,
     FlushFits, StatesFit, ActsOnState, NoLostWakeup, FlushReturned
<1>9. NothingForgotten'
  BY FlusherAssumption DEF FlusherInv, TypeOK, FlushFits, NothingForgotten,
     FlushReturned
<1> QED  BY <1>1, <1>2, <1>3, <1>4, <1>5, <1>6, <1>7, <1>8, <1>9 DEF FlusherInv

LEMMA InitInv == Init => FlusherInv
<1> SUFFICES ASSUME Init PROVE FlusherInv
  OBVIOUS
<1> USE DEF Init
<1>1. TypeOK
  <2>1. th \in [Threads -> [pc : Pcs, to : FlusherStates, next : Pcs]]
    OBVIOUS
  <2>2. spent \in [{"mutations", "requests", "snapshots", "failures"} -> Nat]
    OBVIOUS
  <2>3. queue \subseteq Nat /\ dead \subseteq Nat /\ taskMutex \in Threads \cup {Nobody}
    OBVIOUS
  <2>4. /\ force \in BOOLEAN /\ vbStateLoaded \in BOOLEAN /\ draining \in BOOLEAN
        /\ snapshot \in BOOLEAN /\ flushing \in BOOLEAN /\ commitSoon \in BOOLEAN
    BY Zenon
  <2> QED  BY <2>1, <2>2, <2>3, <2>4 DEF TypeOK
<1>2. ThreadsFit
  BY FlusherAssumption DEF ThreadsFit
<1>3. TasksFit
  BY FlusherAssumption DEF TasksFit
<1>4. WarmupFirst /\ FlushFits /\ StatesFit
  BY FlusherAssumption DEF WarmupFirst, FlushFits, StatesFit
<1>5. ActsOnState /\ NoLostWakeup /\ NothingForgotten
  BY FlusherAssumption DEF ActsOnState, NoLostWakeup, NothingForgotten
<1> QED  BY <1>1, <1>2, <1>3, <1>4, <1>5 DEF FlusherInv

LEMMA TransitionInv ==
    ASSUME FlusherInv, NEW self \in Threads, Transition(self)
    PROVE  FlusherInv'
BY CheckInv, WriteStateInv, CancelTaskInv, ScheduleTaskInv DEF Transition

LEMMA DispatcherNextInv == ASSUME FlusherInv, DispatcherNext PROVE FlusherInv'
<1>1. CASE Transition(Dispatcher)
  BY <1>1, TransitionInv
<1>2. CASE \E t \in queue : DropTask(t) \/ RunTask(t)
  BY <1>2, DropTaskInv, RunTaskInv
<1>3. CASE RunSnapshot \/ SnapshotVBuckets \/ DispatcherExit \/ EndTask
  BY <1>3, RunSnapshotInv, SnapshotVBucketsInv, DispatcherExitInv, EndTaskInv
<1>4. CASE Step \/ Initialize \/ LoadVBStates \/ FinishWarmup
  BY <1>4, StepInv, InitializeInv, LoadVBStatesInv, FinishWarmupInv
<1>5. CASE DoFlush
  BY <1>5, BeginFlushInv, FlushSomeInv, PauseCheckInv, FinishFlushInv, FlushReturnedInv
     DEF DoFlush
<1> QED  BY <1>1, <1>2, <1>3, <1>4, <1>5 DEF DispatcherNext

LEMMA NextInv == ASSUME FlusherInv, [Next]_vars PROVE FlusherInv'
<1>1. CASE DispatcherNext
  BY <1>1, DispatcherNextInv
<1>2. CASE DestroyerNext
  BY <1>2, EngineInitializedInv, TransitionInv, FlusherWaitInv, DispatcherStopInv,
     DeleteFlusherInv DEF DestroyerNext
<1>3. CASE \E c \in Controls : Transition(c) \/ PauseFlusher(c) \/ ResumeFlusher(c)
  BY <1>3, TransitionInv, PauseFlusherInv, ResumeFlusherInv
<1>4. CASE \E f \in Forces : StopFlusher(f)
  BY <1>4, StopFlusherInv
<1>5. CASE (\E i \in Items : Mutate(i)) \/ ScheduleVBSnapshot
  BY <1>5, MutateInv, ScheduleVBSnapshotInv
<1>6. CASE UNCHANGED vars
  <2> USE <1>6 DEF vars, FlusherInv
  <2>1. TypeOK' /\ ThreadsFit' /\ TasksFit'
    BY DEF TypeOK, ThreadsFit, TasksFit
  <2>2. WarmupFirst' /\ FlushFits' /\ StatesFit'
    BY DEF WarmupFirst, FlushFits, StatesFit
  <2>3. ActsOnState' /\ NoLostWakeup' /\ NothingForgotten'
    BY DEF ActsOnState, NoLostWakeup, NothingForgotten
  <2> QED  BY <2>1, <2>2, <2>3
<1> QED  BY <1>1, <1>2, <1>3, <1>4, <1>5, <1>6 DEF Next

\* The inductive invariant of the flusher and its threads holds in every behaviour,
\* for any number of connection threads, items and requests.
THEOREM FlusherInvariant == Spec => []FlusherInv
BY InitInv, NextInv, PTL DEF Spec

\* However transitions race, the flusher never loses its wakeup: _state is written
\* outside taskMutex, but every write is followed by a new task that reads it.
THEOREM FlusherWakeup == Spec => []NoLostWakeup
<1>1. FlusherInv => NoLostWakeup
  BY DEF FlusherInv
<1> QED  BY <1>1, FlusherInvariant, PTL

\* taskMutex keeps concurrent transitions from leaving two tasks that flush.
THEOREM FlusherOneTask == Spec => []OneLiveTask
<1>1. FlusherInv => OneLiveTask
  <2> SUFFICES ASSUME FlusherInv, NEW t \in (queue \cup ({run} \ {0})) \ dead PROVE t = task
    BY DEF OneLiveTask
  <2>1. t \in 1 .. task
    BY DEF FlusherInv, TasksFit
  <2> QED  BY <2>1 DEF FlusherInv, TypeOK, TasksFit
<1> QED  BY <1>1, FlusherInvariant, PTL

\* The assertion of flusher.cc:111 never fails: the engine serves nobody before the
\* vbucket states are loaded.
THEOREM FlusherInitializes == Spec => []InitializesOwnTask
<1>1. FlusherInv => InitializesOwnTask
  BY DEF FlusherInv, TypeOK, TasksFit, WarmupFirst, InitializesOwnTask
<1> QED  BY <1>1, FlusherInvariant, PTL

\* No mutation leaves the flusher's queues before the storage has taken it.
THEOREM FlusherForgetsNothing == Spec => []NothingForgotten
<1>1. FlusherInv => NothingForgotten
  BY DEF FlusherInv
<1> QED  BY <1>1, FlusherInvariant, PTL

\* A graceful stop finishes the flush it finds.
THEOREM FlusherStops == Spec => []StoppedMeansFlushed
<1>1. FlusherInv => StoppedMeansFlushed
  BY DEF FlusherInv, StatesFit, StoppedMeansFlushed
<1> QED  BY <1>1, FlusherInvariant, PTL

\* Nothing is written while the flusher is paused.
THEOREM FlusherPauses == Spec => PausedWritesNothing
<1>1. ASSUME FlusherInv, [Next]_vars
      PROVE  [fstate = "paused" => stored' \subseteq stored]_vars
  <2> SUFFICES ASSUME fstate = "paused", Next PROVE stored' \subseteq stored
    BY <1>1
  <2>1. CASE FlushSome
    BY <1>1, <2>1 DEF FlusherInv, StatesFit, FlushSome
  <2>2. CASE ~FlushSome
    BY <2>2 DEF Next, DispatcherNext, DestroyerNext, Transition, DoFlush, Check, WriteState,
       CancelTask, ScheduleTask, Mutate, PauseFlusher, ResumeFlusher,
       ScheduleVBSnapshot, EngineInitialized, StopFlusher, FlusherWait, DispatcherStop, DeleteFlusher, DropTask, RunTask, RunSnapshot,
       SnapshotVBuckets, DispatcherExit, EndTask, Step, Initialize, LoadVBStates, FinishWarmup,
       BeginFlush, PauseCheck, FinishFlush, FlushReturned
  <2> QED  BY <2>1, <2>2
<1> QED  BY <1>1, FlusherInvariant, PTL DEF Spec, PausedWritesNothing
=============================================================================
