-------------------------- MODULE SchedulerProofs ---------------------------
(***************************************************************************)
(* Proofs about Scheduler for any number of instances, sessions, runs and  *)
(* stops.  The inductive invariant IInv is taken apart: one lemma per part *)
(* shows that every step preserves it.                                     *)
(***************************************************************************)
EXTENDS Scheduler, TLAPS

(* Every step keeps the variables within their types. *)
LEMMA TypeStep ==
  ASSUME TypeOK, UnpersistedIsNewest, [Next]_vars
  PROVE  TypeOK'
<1> USE SchedulerAssumption DEF TypeOK, Tasks, Acquiring, Running, Goto
<1>1. ASSUME NEW i \in Instances, Acquire(i) PROVE TypeOK'
  <2>1. CASE ConnectPooled(i)
    BY <2>1 DEF ConnectPooled, runVars
  <2>2. CASE ConnectNew(i)
    BY <2>2 DEF ConnectNew, FreshSessions, runVars
  <2>3. CASE LockGranted(i)
    BY <2>3 DEF LockGranted, runVars
  <2>4. CASE LockRefused(i)
    BY <2>4 DEF LockRefused, AfterRefusal, runVars
  <2>5. CASE RetryAcquire(i)
    BY <2>5 DEF RetryAcquire, lockVars, runVars
  <2>6. CASE AcquireFails(i)
    BY <2>6 DEF AcquireFails, runVars
  <2> QED BY <1>1, <2>1, <2>2, <2>3, <2>4, <2>5, <2>6 DEF Acquire
<1>2. ASSUME NEW i \in Instances, Run(i) PROVE TypeOK'
  <2>1. CASE Build(i)
    BY <2>1 DEF Build, Publish, lockVars
  <2>2. CASE BuildFails(i)
    BY <2>2 DEF BuildFails, AfterFailure, lockVars, runVars
  <2>3. CASE Flush(i)
    BY <2>3 DEF Flush, lockVars, runVars
  <2>0. /\ task[i] = "commit" /\ Persist(i) => history' \subseteq 1..computed
        /\ task[i] \in {"flush", "commit"} => cache[i] \in 1..computed
    <3>1. task[i] \in {"flush", "commit"} => cache[i] \in 1..computed
      BY DEF UnpersistedIsNewest
    <3> QED BY <3>1 DEF Persist
  <2>4. CASE Commit(i)
    BY <2>0, <2>4 DEF Commit, lockVars
  <2>5. CASE PersistFails(i)
    BY <2>0, <2>5 DEF PersistFails, AfterFailure, lockVars
  <2>6. CASE NextRun(i)
    BY <2>6 DEF NextRun, lockVars, runVars
  <2> QED BY <1>2, <2>1, <2>2, <2>3, <2>4, <2>5, <2>6 DEF Run
<1>3. ASSUME NEW i \in Instances, Stop(i) PROVE TypeOK'
  <2>1. history' \subseteq 1..computed /\ holder' \in live \union {NoSession}
    <3>1. InFlight(i)
      BY <1>3 DEF Stop, CancelLeader, CancelOther, Crash
    <3>2. task[i] = "commit" => cache[i] \in 1..computed
      BY DEF UnpersistedIsNewest
    <3> QED BY <3>1, <3>2 DEF InFlight, Persist
  <2>2. CASE CancelLeader(i)
    BY <2>1, <2>2 DEF CancelLeader
  <2>3. CASE CancelOther(i)
    BY <2>1, <2>3 DEF CancelOther, Exit
  <2>4. CASE Crash(i)
    BY <2>1, <2>4 DEF Crash, Exit
  <2> QED BY <1>3, <2>2, <2>3, <2>4 DEF Stop
<1>4. ASSUME NEW i \in Instances, Release(i) PROVE TypeOK'
  BY <1>4 DEF Release, Exit
<1>5. ASSUME NEW i \in Instances, Start(i) PROVE TypeOK'
  BY <1>5 DEF Start, LoopStart, lockVars, runVars
<1>6. ASSUME NEW s \in Sessions, SessionEnds(s) PROVE TypeOK'
  BY <1>6 DEF SessionEnds, runVars
<1>7. CASE UNCHANGED vars
  BY <1>7 DEF vars, lockVars, runVars
<1> QED BY <1>1, <1>2, <1>3, <1>4, <1>5, <1>6, <1>7 DEF Next

(* Every step keeps the references to sessions disjoint. *)
LEMMA NoSharedStep ==
  ASSUME TypeOK, NoSharedSession, [Next]_vars
  PROVE  NoSharedSession'
<1> USE SchedulerAssumption DEF TypeOK, NoSharedSession
<1>1. ASSUME NEW i \in Instances, Acquire(i) PROVE NoSharedSession'
  <2>1. CASE ConnectPooled(i)
    BY <2>1 DEF ConnectPooled
  <2>2. CASE ConnectNew(i)
    BY <2>2 DEF ConnectNew, FreshSessions, Referenced
  <2>3. CASE LockGranted(i) \/ RetryAcquire(i)
    BY <2>3 DEF LockGranted, RetryAcquire, lockVars
  <2>4. CASE LockRefused(i)
    BY <2>4 DEF LockRefused
  <2>5. CASE AcquireFails(i)
    BY <2>5 DEF AcquireFails
  <2> QED BY <1>1, <2>1, <2>2, <2>3, <2>4, <2>5 DEF Acquire
<1>2. ASSUME NEW i \in Instances, Run(i) \/ Start(i) PROVE NoSharedSession'
  BY <1>2 DEF Run, Build, BuildFails, Flush, Commit, PersistFails, NextRun,
     Start, lockVars
<1>3. ASSUME NEW i \in Instances, Stop(i) \/ Release(i) PROVE NoSharedSession'
  BY <1>3 DEF Stop, CancelLeader, CancelOther, Crash, Release, Exit
<1>4. ASSUME NEW s \in Sessions, SessionEnds(s) PROVE NoSharedSession'
  BY <1>4 DEF SessionEnds
<1>5. CASE UNCHANGED vars
  BY <1>5 DEF vars, lockVars
<1> QED BY <1>1, <1>2, <1>3, <1>4, <1>5 DEF Next

(* Where the server never ends a session a client keeps, every session that
   is referenced stays live. *)
LEMMA KeptLiveStep ==
  ASSUME TypeOK, KeptSessionsLive, [Next]_vars
  PROVE  KeptSessionsLive'
<1> USE SchedulerAssumption DEF TypeOK, KeptSessionsLive, Referenced
<1>1. ASSUME NEW i \in Instances, Acquire(i) PROVE KeptSessionsLive'
  <2>1. CASE ConnectPooled(i)
    BY <2>1 DEF ConnectPooled
  <2>2. CASE ConnectNew(i)
    BY <2>2 DEF ConnectNew
  <2>3. CASE LockGranted(i) \/ RetryAcquire(i)
    BY <2>3 DEF LockGranted, RetryAcquire, lockVars
  <2>4. CASE LockRefused(i)
    BY <2>4 DEF LockRefused
  <2>5. CASE AcquireFails(i)
    BY <2>5 DEF AcquireFails
  <2> QED BY <1>1, <2>1, <2>2, <2>3, <2>4, <2>5 DEF Acquire
<1>2. ASSUME NEW i \in Instances, Run(i) \/ Start(i) PROVE KeptSessionsLive'
  BY <1>2 DEF Run, Build, BuildFails, Flush, Commit, PersistFails, NextRun,
     Start, lockVars
<1>3. ASSUME NEW i \in Instances, Stop(i) \/ Release(i) PROVE KeptSessionsLive'
  BY <1>3 DEF Stop, CancelLeader, CancelOther, Crash, Release, Exit
<1>4. ASSUME NEW s \in Sessions, SessionEnds(s) PROVE KeptSessionsLive'
  BY <1>4 DEF SessionEnds
<1>5. CASE UNCHANGED vars
  BY <1>5 DEF vars, lockVars
<1> QED BY <1>1, <1>2, <1>3, <1>4, <1>5 DEF Next

(* Every step keeps the lock with the session of the task that runs, or that
   session has ended. *)
LEMMA LockKeptStep ==
  ASSUME TypeOK, NoSharedSession, LockKept, TrialHoldsNothing, [Next]_vars
  PROVE  LockKept'
<1> USE SchedulerAssumption
    DEF TypeOK, LockKept, LockKeepers, IsRunner, Running, Goto
<1>1. ASSUME NEW i \in Instances, Acquire(i) PROVE LockKept'
  <2>1. CASE ConnectPooled(i)
    BY <2>1 DEF ConnectPooled
  <2>2. CASE ConnectNew(i)
    BY <2>2 DEF ConnectNew, FreshSessions, Referenced
  <2>3. CASE LockGranted(i)
    BY <2>3 DEF LockGranted, LockIsFree
  <2>4. CASE LockRefused(i) \/ RetryAcquire(i)
    BY <2>4 DEF LockRefused, RetryAcquire, AfterRefusal, lockVars
  <2>5. CASE AcquireFails(i)
    BY <2>5 DEF AcquireFails, LockIsFree
  <2> QED BY <1>1, <2>1, <2>2, <2>3, <2>4, <2>5 DEF Acquire
<1>2. ASSUME NEW i \in Instances, Run(i) PROVE LockKept'
  BY <1>2 DEF Run, Build, BuildFails, Flush, Commit, PersistFails, NextRun,
     AfterFailure, lockVars
<1>3. ASSUME NEW i \in Instances, Start(i) PROVE LockKept'
  BY <1>3 DEF Start, LoopStart, lockVars
<1>4. ASSUME NEW i \in Instances, Stop(i) PROVE LockKept'
  <2>1. CASE CancelLeader(i)
    BY <2>1 DEF CancelLeader, InFlight, LockIsFree
  <2>2. CASE CancelOther(i) \/ Crash(i)
    BY <2>2 DEF CancelOther, Crash, InFlight, Exit, LockIsFree
  <2> QED BY <1>4, <2>1, <2>2 DEF Stop
<1>5. ASSUME NEW i \in Instances, Release(i) PROVE LockKept'
  BY <1>5 DEF Release, Exit, NoSharedSession
<1>6. ASSUME NEW s \in Sessions, SessionEnds(s) PROVE LockKept'
  BY <1>6 DEF SessionEnds
<1>7. CASE UNCHANGED vars
  BY <1>7 DEF vars, lockVars
<1> QED BY <1>1, <1>2, <1>3, <1>4, <1>5, <1>6, <1>7 DEF Next

(* Every step keeps the lock away from sessions that only try for it. *)
LEMMA TrialStep ==
  ASSUME TypeOK, NoSharedSession, TrialHoldsNothing, PooledSessionHoldsNoLock,
         [Next]_vars
  PROVE  TrialHoldsNothing' /\ PooledSessionHoldsNoLock'
<1> DEFINE Goal == TrialHoldsNothing /\ PooledSessionHoldsNoLock
<1> USE SchedulerAssumption
    DEF TypeOK, TrialHoldsNothing, PooledSessionHoldsNoLock, NoSharedSession,
        Goto
<1>1. ASSUME NEW i \in Instances, Acquire(i) PROVE Goal'
  <2>1. CASE ConnectPooled(i)
    BY <2>1 DEF ConnectPooled
  <2>2. CASE ConnectNew(i)
    BY <2>2 DEF ConnectNew, FreshSessions
  <2>3. CASE LockGranted(i)
    BY <2>3 DEF LockGranted
  <2>4. CASE LockRefused(i)
    BY <2>4 DEF LockRefused, AfterRefusal
  <2>5. CASE RetryAcquire(i)
    BY <2>5 DEF RetryAcquire, lockVars
  <2>6. CASE AcquireFails(i)
    BY <2>6 DEF AcquireFails
  <2> QED BY <1>1, <2>1, <2>2, <2>3, <2>4, <2>5, <2>6 DEF Acquire
<1>2. ASSUME NEW i \in Instances, Run(i) PROVE Goal'
  BY <1>2 DEF Run, Build, BuildFails, Flush, Commit, PersistFails, NextRun,
     AfterFailure, lockVars
<1>3. ASSUME NEW i \in Instances, Start(i) PROVE Goal'
  BY <1>3 DEF Start, LoopStart, lockVars
<1>4. ASSUME NEW i \in Instances, Stop(i) PROVE Goal'
  <2>1. CASE CancelLeader(i)
    BY <2>1 DEF CancelLeader, InFlight, IsRunner, Running
  <2>2. CASE CancelOther(i) \/ Crash(i)
    BY <2>2 DEF CancelOther, Crash, InFlight, Exit
  <2> QED BY <1>4, <2>1, <2>2 DEF Stop
<1>5. ASSUME NEW i \in Instances, Release(i) PROVE Goal'
  BY <1>5 DEF Release, Exit
<1>6. ASSUME NEW s \in Sessions, SessionEnds(s) PROVE Goal'
  BY <1>6 DEF SessionEnds
<1>7. CASE UNCHANGED vars
  BY <1>7 DEF vars, lockVars
<1> QED BY <1>1, <1>2, <1>3, <1>4, <1>5, <1>6, <1>7 DEF Next

(* Where sessions are not lost under their clients, the lock makes the
   running instance unique. *)
LEMMA LockExcludes ==
  ASSUME TypeOK, NoSharedSession, KeptSessionsLive, LockKept,
         ~SessionsMayBeLost
  PROVE  AtMostOneRunner
<1> SUFFICES ASSUME NEW i \in Runners, NEW j \in Runners
             PROVE  i = j
  BY DEF AtMostOneRunner
<1>1. i \in Instances /\ j \in Instances
  BY DEF Runners
<1>2. CASE ~UseLeaderElection
  BY <1>1, <1>2, SchedulerAssumption
<1>3. CASE UseLeaderElection
  <2>1. \A k \in {i, j} : conn[k] # NoSession /\ conn[k] = holder
    BY <1>1, <1>3 DEF LockKept, LockKeepers, Runners, KeptSessionsLive,
                      Referenced
  <2> QED BY <1>1, <2>1 DEF NoSharedSession
<1> QED BY <1>2, <1>3, SchedulerAssumption

(* Every step keeps an unpersisted run newer than everything persisted. *)
LEMMA UnpersistedStep ==
  ASSUME TypeOK, UnpersistedIsNewest,
         ~SessionsMayBeLost => AtMostOneRunner,
         [Next]_vars
  PROVE  UnpersistedIsNewest'
<1> USE SchedulerAssumption DEF TypeOK, UnpersistedIsNewest, Goto
<1>1. ASSUME NEW i \in Instances, Acquire(i) PROVE UnpersistedIsNewest'
  BY <1>1 DEF Acquire, ConnectPooled, ConnectNew, LockGranted, LockRefused,
     RetryAcquire, AcquireFails, AfterRefusal, runVars
<1>2. ASSUME NEW i \in Instances,
             (task[i] = "commit" /\ Persist(i)) \/ UNCHANGED history,
             \A j \in Instances \ {i} :
               task'[j] = task[j] /\ cache'[j] = cache[j],
             task'[i] \notin {"flush", "commit"}
      PROVE  UnpersistedIsNewest'
  <2> SUFFICES ASSUME NEW j \in Instances, task'[j] \in {"flush", "commit"}
               PROVE  /\ cache'[j] # 0
                      /\ ~SessionsMayBeLost =>
                           \A q \in history' : q < cache'[j]
    OBVIOUS
  <2>1. j # i /\ task[j] \in {"flush", "commit"} /\ cache'[j] = cache[j]
    BY <1>2
  <2>2. CASE UNCHANGED history
    BY <2>1, <2>2
  <2>3. CASE task[i] = "commit" /\ Persist(i)
    <3>1. SessionsMayBeLost
      BY <2>1, <2>3 DEF AtMostOneRunner, Runners, IsRunner, Running
    <3> QED BY <2>1, <3>1
  <2> QED BY <1>2, <2>2, <2>3
<1>3. ASSUME NEW i \in Instances, Run(i) PROVE UnpersistedIsNewest'
  <2>1. CASE Build(i)
    BY <2>1 DEF Build, Publish
  <2>2. CASE BuildFails(i) \/ NextRun(i)
    BY <2>2 DEF BuildFails, NextRun, AfterFailure, runVars
  <2>3. CASE Flush(i)
    BY <2>3 DEF Flush, runVars
  <2>4. CASE Commit(i)
    BY <1>2, <2>4 DEF Commit
  <2>5. CASE PersistFails(i)
    BY <1>2, <2>5 DEF PersistFails, AfterFailure
  <2> QED BY <1>3, <2>1, <2>2, <2>3, <2>4, <2>5 DEF Run
<1>4. ASSUME NEW i \in Instances, Stop(i) PROVE UnpersistedIsNewest'
  <2>1. CASE CancelLeader(i)
    BY <1>2, <2>1 DEF CancelLeader, InFlight
  <2>2. CASE CancelOther(i) \/ Crash(i)
    BY <1>2, <2>2 DEF CancelOther, Crash, InFlight, Exit
  <2> QED BY <1>4, <2>1, <2>2 DEF Stop
<1>5. ASSUME NEW i \in Instances, Release(i) \/ Start(i)
      PROVE  UnpersistedIsNewest'
  BY <1>5 DEF Release, Exit, Start, LoopStart, runVars
<1>6. ASSUME NEW s \in Sessions, SessionEnds(s) PROVE UnpersistedIsNewest'
  BY <1>6 DEF SessionEnds, runVars
<1>7. CASE UNCHANGED vars
  BY <1>7 DEF vars, runVars
<1> QED BY <1>1, <1>3, <1>4, <1>5, <1>6, <1>7 DEF Next

(* A freshly deployed system satisfies the inductive invariant. *)
LEMMA InitIInv == Init => IInv
BY SchedulerAssumption
   DEF Init, IInv, TypeOK, Tasks, Acquiring, Running, LoopStart,
       NoSharedSession, KeptSessionsLive, Referenced, LockKept, LockKeepers,
       IsRunner, TrialHoldsNothing, PooledSessionHoldsNoLock,
       UnpersistedIsNewest

(* Every step of every instance, and of the environment, preserves it. *)
LEMMA StepIInv == IInv /\ [Next]_vars => IInv'
BY TypeStep, NoSharedStep, KeptLiveStep, LockKeptStep, TrialStep,
   LockExcludes, UnpersistedStep DEF IInv

(* The inductive invariant holds of every behaviour of the scheduler. *)
THEOREM Inductive == Spec => []IInv
BY InitIInv, StepIInv, PTL DEF Spec

(* Type correctness. *)
THEOREM TypeCorrect == Spec => []TypeOK
<1>1. IInv => TypeOK
  BY DEF IInv
<1> QED BY <1>1, Inductive, PTL

(* Whatever fails, an elected runner holds the advisory lock or has lost its
   session, and no pooled connection ever holds it (scheduler.py:124-180). *)
THEOREM LockSafety ==
  Spec => [](RunnerHoldsLockOrLostIt /\ PooledSessionHoldsNoLock)
<1>1. IInv => RunnerHoldsLockOrLostIt /\ PooledSessionHoldsNoLock
  BY DEF IInv, LockKept, LockKeepers, RunnerHoldsLockOrLostIt, Runners
<1> QED BY <1>1, Inductive, PTL

(* scheduler.py:10: where the server ends no session a client keeps, at most
   one instance runs the ranking loop. *)
THEOREM MutualExclusion ==
  ASSUME ~SessionsMayBeLost
  PROVE  Spec => []AtMostOneRunner
<1>1. IInv => AtMostOneRunner
  BY LockExcludes DEF IInv
<1> QED BY <1>1, Inductive, PTL

-----------------------------------------------------------------------------
(* Only a commit changes /history, and it adds the run its task published. *)
LEMMA HistoryStep ==
  ASSUME [Next]_vars
  PROVE  \/ UNCHANGED history
         \/ \E i \in Instances : task[i] = "commit" /\ Persist(i)
<1>1. ASSUME NEW i \in Instances, Acquire(i) \/ Release(i) \/ Start(i)
      PROVE  UNCHANGED history
  BY <1>1 DEF Acquire, ConnectPooled, ConnectNew, LockGranted, LockRefused,
     RetryAcquire, AcquireFails, Release, Start, runVars
<1>2. ASSUME NEW i \in Instances, Run(i) \/ Stop(i)
      PROVE  UNCHANGED history \/ (task[i] = "commit" /\ Persist(i))
  BY <1>2 DEF Run, Build, BuildFails, Flush, Commit, PersistFails, NextRun,
     Stop, CancelLeader, CancelOther, Crash, InFlight, runVars
<1>3. ASSUME NEW s \in Sessions, SessionEnds(s) PROVE UNCHANGED history
  BY <1>3 DEF SessionEnds, runVars
<1>4. CASE UNCHANGED vars
  BY <1>4 DEF vars, runVars
<1> QED BY <1>1, <1>2, <1>3, <1>4 DEF Next

(* history.py:26-63 lists the persisted runs newest first: across take-overs
   a run only enters /history after every run computed before it. *)
THEOREM Appends ==
  ASSUME ~SessionsMayBeLost
  PROVE  Spec => HistoryAppends
<1>1. ASSUME IInv, [Next]_vars
      PROVE  \A r \in history' \ history : \A q \in history : q < r
  BY <1>1, HistoryStep DEF IInv, UnpersistedIsNewest, Persist
<1>2. IInv /\ [Next]_vars
        => [\A r \in history' \ history : \A q \in history : q < r]_vars
  BY <1>1
<1> QED BY <1>2, Inductive, PTL DEF Spec, HistoryAppends

(* Every step leaves what is served persisted, or known to have failed. *)
LEMMA CacheStep ==
  ASSUME TypeOK, CacheInHistory, [Next]_vars
  PROVE  CacheInHistory'
<1> USE DEF TypeOK, CacheInHistory, Goto
<1>0. failed \subseteq failed'
  BY DEF Next, vars, runVars, Acquire, ConnectPooled, ConnectNew, LockGranted,
     LockRefused, RetryAcquire, AcquireFails, Run, Build, BuildFails, Flush,
     Commit, PersistFails, NextRun, Stop, CancelLeader, CancelOther, Crash,
     Release, Start, SessionEnds
<1>1. history \subseteq history'
  BY HistoryStep DEF Persist
<1>2. ASSUME NEW i \in Instances,
             \A j \in Instances \ {i} : task'[j] = task[j] /\ cache'[j] = cache[j],
             \/ cache'[i] = 0
             \/ task'[i] \in {"flush", "commit", "unlock"}
             \/ cache'[i] \in history' \union failed'
             \/ cache'[i] = cache[i] /\ task[i] \notin {"flush", "commit", "unlock"}
      PROVE  CacheInHistory'
  BY <1>0, <1>1, <1>2
<1>3. ASSUME NEW i \in Instances, Acquire(i) \/ Start(i) PROVE CacheInHistory'
  BY <1>2, <1>3 DEF Acquire, ConnectPooled, ConnectNew, LockGranted, LockRefused,
     RetryAcquire, AcquireFails, AfterRefusal, Start, LoopStart, runVars
<1>4. ASSUME NEW i \in Instances, Run(i) PROVE CacheInHistory'
  <2>1. CASE Commit(i)
    BY <1>2, <2>1 DEF Commit, Persist
  <2>2. CASE ~Commit(i)
    BY <1>2, <1>4, <2>2 DEF Run, Build, Publish, BuildFails, Flush, PersistFails,
       NextRun, AfterFailure, runVars
  <2> QED BY <2>1, <2>2
<1>5. ASSUME NEW i \in Instances, Stop(i) \/ Release(i) PROVE CacheInHistory'
  BY <1>2, <1>5 DEF Stop, CancelLeader, CancelOther, Crash, Release, Exit
<1>6. ASSUME UNCHANGED runVars, UNCHANGED task PROVE CacheInHistory'
  BY <1>6 DEF runVars
<1>7. CASE UNCHANGED vars
  BY <1>6, <1>7 DEF vars
<1> QED BY <1>3, <1>4, <1>5, <1>6, <1>7 DEF Next, SessionEnds

(* scheduler.py:1-5, :108-119: once a run is over, what an instance serves
   from its cache is in /history or its own flush or commit raised, under every
   fault of the model: cancellations, crashes and lost sessions included. *)
THEOREM CacheIsPersisted == Spec => []CacheInHistory
<1>1. Init => CacheInHistory
  BY DEF Init, CacheInHistory
<1>2. IInv /\ CacheInHistory /\ [Next]_vars => CacheInHistory'
  BY CacheStep DEF IInv
<1> QED BY <1>1, <1>2, Inductive, PTL DEF Spec

(* What is served comes from the task that keeps the lock, also while it
   releases it, and is the newest of all that is persisted. *)
OnlyKeepersServe ==
  \A i \in Instances : cache[i] # 0 => i \in LockKeepers

(* Where sessions are not lost, the instance that keeps the lock is alone. *)
LEMMA KeeperIsUnique ==
  ASSUME TypeOK, NoSharedSession, KeptSessionsLive, LockKept,
         ~SessionsMayBeLost, NEW i \in LockKeepers, NEW j \in LockKeepers
  PROVE  i = j
<1>1. i \in Instances /\ j \in Instances
  BY DEF LockKeepers
<1>2. CASE UseLeaderElection
  <2>1. \A k \in {i, j} : conn[k] # NoSession /\ conn[k] = holder
    BY <1>1, <1>2 DEF LockKept, KeptSessionsLive, Referenced
  <2> QED BY <1>1, <2>1 DEF NoSharedSession
<1> QED BY <1>1, <1>2, SchedulerAssumption

(* Only the instance that keeps the lock has a cache, after every step. *)
LEMMA KeepersStep ==
  ASSUME TypeOK, OnlyKeepersServe, [Next]_vars
  PROVE  OnlyKeepersServe'
<1> USE DEF TypeOK, OnlyKeepersServe, LockKeepers, IsRunner, Running, Goto
<1>1. ASSUME NEW i \in Instances, Acquire(i) \/ Start(i)
      PROVE  OnlyKeepersServe'
  BY <1>1 DEF Acquire, ConnectPooled, ConnectNew, LockGranted, LockRefused,
     RetryAcquire, AcquireFails, AfterRefusal, Start, LoopStart, runVars
<1>2. ASSUME NEW i \in Instances, Run(i) PROVE OnlyKeepersServe'
  BY <1>2 DEF Run, Build, Publish, BuildFails, Flush, Commit, PersistFails,
     NextRun, AfterFailure, runVars
<1>3. ASSUME NEW i \in Instances, Stop(i) \/ Release(i) PROVE OnlyKeepersServe'
  BY <1>3 DEF Stop, CancelLeader, CancelOther, Crash, Release, Exit
<1>4. ASSUME UNCHANGED runVars, UNCHANGED task PROVE OnlyKeepersServe'
  BY <1>4 DEF runVars
<1> QED BY <1>1, <1>2, <1>3, <1>4 DEF Next, SessionEnds, vars

(* A step changes a cache by publishing the newest run or by emptying it. *)
LEMMA CacheChange ==
  ASSUME TypeOK, [Next]_vars, NEW i \in Instances, cache'[i] # 0
  PROVE  cache'[i] = cache[i] \/ cache'[i] = computed + 1
<1> USE DEF TypeOK
<1>1. ASSUME NEW j \in Instances, Acquire(j) \/ Start(j) PROVE UNCHANGED cache
  BY <1>1 DEF Acquire, ConnectPooled, ConnectNew, LockGranted, LockRefused,
     RetryAcquire, AcquireFails, Start, runVars
<1>2. ASSUME NEW j \in Instances, Run(j)
      PROVE  UNCHANGED cache \/ cache' = [cache EXCEPT ![j] = computed + 1]
  BY <1>2 DEF Run, Build, Publish, BuildFails, Flush, Commit, PersistFails,
     NextRun, runVars
<1>3. ASSUME NEW j \in Instances, Stop(j) \/ Release(j)
      PROVE  UNCHANGED cache \/ cache' = [cache EXCEPT ![j] = 0]
  BY <1>3 DEF Stop, CancelLeader, CancelOther, Crash, Release, Exit
<1>4. ASSUME UNCHANGED runVars PROVE UNCHANGED cache
  BY <1>4 DEF runVars
<1> QED BY <1>1, <1>2, <1>3, <1>4 DEF Next, SessionEnds, vars

(* No step leaves an instance serving less than was persisted. *)
LEMMA ServedStep ==
  ASSUME IInv, OnlyKeepersServe, ServedIsNewest, [Next]_vars,
         ~SessionsMayBeLost
  PROVE  ServedIsNewest'
<1> USE DEF ServedIsNewest
<1>0. TypeOK /\ UnpersistedIsNewest /\ OnlyKeepersServe'
  BY KeepersStep DEF IInv
<1> SUFFICES ASSUME NEW i \in Instances, cache'[i] # 0, NEW q \in history'
             PROVE  q <= cache'[i]
  OBVIOUS
<1>1. cache'[i] = cache[i] \/ cache'[i] = computed + 1
  BY <1>0, CacheChange
<1>2. q \in Nat /\ cache[i] \in Nat /\ computed \in Nat /\ q <= computed'
  <2>1. TypeOK'
    BY StepIInv DEF IInv
  <2>2. computed \in Nat /\ cache[i] \in Nat
    BY <1>0, SchedulerAssumption DEF TypeOK
  <2> QED BY <2>1, <2>2 DEF TypeOK
<1>3. CASE q \in history
  BY <1>0, <1>1, <1>2, <1>3 DEF TypeOK
<1>4. CASE q \notin history
  <2>1. PICK j \in Instances : task[j] = "commit" /\ Persist(j)
    BY <1>4, HistoryStep
  <2>2. q = cache[j] /\ cache[j] # 0 /\ cache[j] \in 0..computed
    BY <1>0, <1>4, <2>1 DEF Persist, TypeOK, UnpersistedIsNewest
  <2>3. CASE cache'[i] = computed + 1
    BY <1>0, <1>2, <2>2, <2>3 DEF TypeOK
  <2>4. CASE cache'[i] = cache[i]
    <3>1. i \in LockKeepers /\ j \in LockKeepers
      BY <2>1, <2>4 DEF OnlyKeepersServe, LockKeepers, IsRunner, Running
    <3>2. i = j
      BY <3>1, KeeperIsUnique DEF IInv
    <3> QED BY <1>2, <2>2, <2>4, <3>2
  <2> QED BY <1>1, <2>3, <2>4
<1> QED BY <1>3, <1>4

(* scheduler.py:81-119, :160-180: where the server ends no session a client
   keeps, no instance ever serves a ranking older than one in /history,
   whatever fails, is cancelled or taken over. *)
THEOREM NeverServesStale ==
  ASSUME ~SessionsMayBeLost
  PROVE  Spec => []ServedIsNewest
<1>1. Init => OnlyKeepersServe /\ ServedIsNewest
  BY DEF Init, OnlyKeepersServe, ServedIsNewest
<1>2. IInv /\ OnlyKeepersServe /\ ServedIsNewest /\ [Next]_vars
        => OnlyKeepersServe' /\ ServedIsNewest'
  BY KeepersStep, ServedStep DEF IInv
<1> QED BY <1>1, <1>2, Inductive, PTL DEF Spec

-----------------------------------------------------------------------------
(* Every step of the scheduler is a step of SingleLeader or a stutter. *)
LEMMA LeaderStep ==
  ASSUME IInv, [Next]_vars, ~SessionsMayBeLost
  PROVE  [Leadership!Next]_(Leadership!vars)
<1> DEFINE Abstract == [Leadership!Next]_(Leadership!vars)
<1> USE SchedulerAssumption
<1>0. TypeOK /\ UnpersistedIsNewest /\ LockKept /\ AtMostOneRunner
      /\ KeptSessionsLive
  BY LockExcludes DEF IInv
<1>1. ASSUME NEW i \in Instances, IsRunner(i) PROVE Runners = {i}
  BY <1>0, <1>1 DEF AtMostOneRunner, Runners
<1>2. ASSUME UNCHANGED <<Runners, history>> PROVE Abstract
  BY <1>2 DEF Leadership!vars
<1>3. ASSUME NEW i \in Instances, task[i] = "commit", Persist(i)
      PROVE  /\ cache[i] \in 1..MaxRuns
             /\ Leadership!NewerThanLog(cache[i])
             /\ history' = history \union {cache[i]}
  <2>1. cache[i] \in 0..computed /\ cache[i] # 0 /\ computed \in 0..MaxRuns
    BY <1>0, <1>3 DEF TypeOK, UnpersistedIsNewest
  <2>2. \A q \in history : q < cache[i]
    BY <1>0, <1>3 DEF UnpersistedIsNewest
  <2> QED BY <1>3, <2>1, <2>2 DEF Persist, Leadership!NewerThanLog
<1>4. ASSUME NEW i \in Instances, Acquire(i) PROVE Abstract
  <2>1. UNCHANGED history
    BY <1>4 DEF Acquire, ConnectPooled, ConnectNew, LockGranted, LockRefused,
                RetryAcquire, AcquireFails, runVars
  <2>2. CASE LockGranted(i)
    <3>1. \A j \in Instances : ~IsRunner(j)
      BY <1>0, <2>2 DEF LockGranted, LockIsFree, LockKept, LockKeepers,
         KeptSessionsLive, Referenced, IsRunner, Running, TypeOK
    <3>2. Runners = {} /\ Runners' = {i}
      BY <1>0, <2>2, <3>1 DEF LockGranted, Runners, IsRunner, Running, Goto,
                              TypeOK
    <3> QED BY <2>1, <3>2 DEF Leadership!Next, Leadership!Elect
  <2>3. CASE ~LockGranted(i)
    <3>1. UNCHANGED Runners
      BY <1>0, <1>4, <2>3 DEF Acquire, ConnectPooled, ConnectNew, LockRefused,
         RetryAcquire, AcquireFails, AfterRefusal, Runners, IsRunner, Running,
         Goto, TypeOK
    <3> QED BY <1>2, <2>1, <3>1
  <2> QED BY <2>2, <2>3
<1>5. ASSUME NEW i \in Instances, Run(i) PROVE Abstract
  <2>1. UNCHANGED Runners
    BY <1>0, <1>5 DEF Run, Build, BuildFails, Flush, Commit, PersistFails,
       NextRun, AfterFailure, Runners, IsRunner, Running, Goto, TypeOK
  <2>2. UNCHANGED history \/ (task[i] = "commit" /\ Persist(i))
    BY <1>5 DEF Run, Build, BuildFails, Flush, Commit, PersistFails, NextRun,
                runVars
  <2>3. CASE task[i] = "commit" /\ Persist(i)
    <3>1. Runners = {i}
      BY <1>1, <2>3 DEF IsRunner, Running
    <3>2. Leadership!Persist(i, cache[i])
      BY <1>3, <2>1, <2>3, <3>1 DEF Leadership!Persist
    <3> QED BY <1>3, <2>3, <3>2 DEF Leadership!Next
  <2> QED BY <1>2, <2>1, <2>2, <2>3
<1>6. ASSUME NEW i \in Instances, Stop(i) PROVE Abstract
  <2>1. UNCHANGED history \/ (task[i] = "commit" /\ Persist(i))
    BY <1>6 DEF Stop, CancelLeader, CancelOther, Crash, InFlight
  <2>2. Runners' = Runners \ {i}
    BY <1>0, <1>6 DEF Stop, CancelLeader, CancelOther, Crash, Exit, Runners,
                      IsRunner, Running, Goto, TypeOK
  <2>3. CASE IsRunner(i)
    <3>1. Runners = {i} /\ Runners' = {}
      BY <1>1, <2>2, <2>3
    <3>2. Leadership!Resign(i)
      BY <1>3, <2>1, <3>1 DEF Leadership!Resign
    <3> QED BY <3>2 DEF Leadership!Next
  <2>4. CASE ~IsRunner(i)
    BY <1>2, <2>1, <2>2, <2>4 DEF Runners, IsRunner, Running
  <2> QED BY <2>3, <2>4
<1>7. ASSUME NEW i \in Instances, Release(i) PROVE Abstract
  <2>1. UNCHANGED <<Runners, history>>
    BY <1>0, <1>7 DEF Release, Exit, Runners, IsRunner, Running, Goto, TypeOK
  <2> QED BY <1>2, <2>1
<1>8. ASSUME NEW i \in Instances, Start(i) PROVE Abstract
  <2>1. UNCHANGED history
    BY <1>8 DEF Start, runVars
  <2>2. CASE UseLeaderElection
    <3>1. UNCHANGED Runners
      BY <1>0, <1>8, <2>2 DEF Start, LoopStart, Runners, IsRunner, Running,
                              Goto, TypeOK
    <3> QED BY <1>2, <2>1, <3>1
  <2>3. CASE ~UseLeaderElection
    <3>1. Runners = {} /\ Runners' = {i}
      BY <1>0, <1>8, <2>3 DEF Start, LoopStart, Runners, IsRunner, Running,
                              Goto, TypeOK
    <3> QED BY <2>1, <3>1 DEF Leadership!Next, Leadership!Elect
  <2> QED BY <2>2, <2>3
<1>9. ASSUME NEW s \in Sessions, SessionEnds(s) PROVE Abstract
  BY <1>2, <1>9 DEF SessionEnds, runVars, Runners, IsRunner
<1>10. CASE UNCHANGED vars
  BY <1>2, <1>10 DEF vars, runVars, Runners, IsRunner
<1> QED BY <1>4, <1>5, <1>6, <1>7, <1>8, <1>9, <1>10 DEF Next

(* scheduler.py:7-13: where the server ends no session a client keeps, the
   scheduler implements the single leader its module doc promises. *)
THEOREM ImplementsSingleLeader ==
  ASSUME ~SessionsMayBeLost
  PROVE  Spec => OneLeaderAtATime
<1>1. Init => Leadership!Init
  <2> SUFFICES ASSUME Init PROVE Leadership!Init
    OBVIOUS
  <2>1. CASE UseLeaderElection
    BY <2>1 DEF Init, LoopStart, Leadership!Init, Runners, IsRunner, Running
  <2>2. CASE ~UseLeaderElection
    <3>1. \A i \in Instances : Runners = {i}
      BY <2>2, SchedulerAssumption DEF Init, LoopStart, Runners, IsRunner,
                                       Running
    <3> QED BY <3>1 DEF Init, Leadership!Init, Runners
  <2> QED BY <2>1, <2>2, SchedulerAssumption
<1>2. IInv /\ [Next]_vars => [Leadership!Next]_(Leadership!vars)
  BY LeaderStep
<1> QED BY <1>1, <1>2, Inductive, PTL DEF Spec, OneLeaderAtATime,
           Leadership!Spec
=============================================================================
