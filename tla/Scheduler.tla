----------------------------- MODULE Scheduler ------------------------------
(***************************************************************************)
(* The background scheduler of app/scheduler.py on every web instance, the *)
(* Postgres advisory lock that elects the one instance that runs it, and   *)
(* what a run leaves behind: the in-memory ranking cache of its instance   *)
(* (app/ranking_cache.py) and the run persisted for /history.              *)
(*                                                                         *)
(* A step is what a task does between two awaits.  The database server is  *)
(* external: `live` and `holder` are its state.  A session is a server-side*)
(* connection; the client keeps it in `conn` (checked out by the loop) or  *)
(* in `idle` (returned to the engine's pool by conn.close()), and may keep *)
(* it after the server has ended it.                                       *)
(***************************************************************************)
EXTENDS Naturals, FiniteSets

CONSTANTS
  Instances,          \* web processes, each with its own scheduler task
  Sessions,           \* identities of database sessions
  NoSession,          \* no connection
  UseLeaderElection,  \* SCHEDULER_LEADER_ELECTION_ENABLED and a Postgres URL
  SessionsMayBeLost,  \* the server may end a session a client still keeps
  AcquireMayFail,     \* connecting, locking or unlocking may raise
  PersistMayFail,     \* the flush or the commit of a run may raise
  MaxRuns,            \* bound: rankings computed in a behaviour
  MaxStops            \* bound: crashes and shutdowns in a behaviour

ASSUME SchedulerAssumption ==
  /\ NoSession \notin Sessions
  /\ {UseLeaderElection, SessionsMayBeLost, AcquireMayFail, PersistMayFail}
       \subseteq BOOLEAN
  /\ MaxRuns \in Nat
  /\ MaxStops \in Nat
  \* without election the code assumes a single instance (scheduler.py:149)
  /\ ~UseLeaderElection => \A i, j \in Instances : i = j

VARIABLES
  task,      \* where the scheduler task of each instance is
  conn,      \* the connection the loop has checked out for the lock
  idle,      \* the pooled connection the next engine.connect() takes
  live,      \* the sessions open at the server
  holder,    \* the session that holds the advisory lock
  cache,     \* the run in each instance's ranking_cache, 0 when empty
  history,   \* the runs committed to ranking_runs and ranking_results
  computed,  \* how many runs were computed
  failed,    \* the runs whose flush or commit raised: the code logs them
  stops      \* how many times an instance stopped

lockVars == <<conn, idle, live, holder>>
runVars  == <<cache, history, computed, failed>>
vars     == <<task, lockVars, runVars, stops>>

(* "dead": an exception escaped scheduler_loop and ended the task while the
   web process keeps serving requests. *)
Acquiring == {"connect", "try", "standby"}
Running   == {"build", "flush", "commit", "sleep"}
Tasks     == Acquiring \union Running \union {"unlock", "dead", "down"}

IsRunner(i)   == task[i] \in Running
Runners       == {i \in Instances : IsRunner(i)}
Referenced    == {conn[i] : i \in Instances} \union {idle[i] : i \in Instances}
FreshSessions == (Sessions \ live) \ Referenced

Goto(i, t) == task' = [task EXCEPT ![i] = t]

LoopStart == IF UseLeaderElection THEN "connect" ELSE "build"

Init ==
  /\ task = [i \in Instances |-> LoopStart]
  /\ conn = [i \in Instances |-> NoSession]
  /\ idle = [i \in Instances |-> NoSession]
  /\ live = {}
  /\ holder = NoSession
  /\ cache = [i \in Instances |-> 0]
  /\ history = {}
  /\ computed = 0
  /\ failed = {}
  /\ stops = 0
-----------------------------------------------------------------------------
(* Acquiring the lock: _try_acquire_leader_lock and the loop around it.     *)

(* engine.connect() hands out the pooled connection, without a ping, even
   when the server has ended its session meanwhile. *)
ConnectPooled(i) ==
  /\ task[i] = "connect"
  /\ idle[i] # NoSession
  /\ conn' = [conn EXCEPT ![i] = idle[i]]
  /\ idle' = [idle EXCEPT ![i] = NoSession]
  /\ Goto(i, "try")
  /\ UNCHANGED <<live, holder, runVars, stops>>

ConnectNew(i) ==
  /\ task[i] = "connect"
  /\ idle[i] = NoSession
  /\ \E s \in FreshSessions :
       /\ conn' = [conn EXCEPT ![i] = s]
       /\ live' = live \union {s}
  /\ Goto(i, "try")
  /\ UNCHANGED <<idle, holder, runVars, stops>>

LockIsFree == holder = NoSession

(* Mutant: the connection is closed on return, as by `async with`. *)
LockGrantedPooled(i) ==
  /\ task[i] = "try" /\ conn[i] \in live /\ LockIsFree
  /\ holder' = conn[i]
  /\ idle' = [idle EXCEPT ![i] = conn[i]]
  /\ conn' = [conn EXCEPT ![i] = NoSession]
  /\ Goto(i, "build")
  /\ UNCHANGED <<live, runVars, stops>>

(* pg_try_advisory_lock answered true: the connection becomes lock_conn and
   the first run starts at once. *)
LockGranted(i) ==
  /\ task[i] = "try"
  /\ conn[i] \in live
  /\ LockIsFree
  /\ holder' = conn[i]
  /\ Goto(i, "build")
  /\ UNCHANGED <<conn, idle, live, runVars, stops>>

(* Mutant: the answer of the SELECT is not looked at. *)
LockRefusedRunsAnyway(i) ==
  /\ task[i] = "try" /\ conn[i] \in live /\ ~LockIsFree
  /\ Goto(i, "build")
  /\ UNCHANGED <<lockVars, runVars, stops>>

(* `continue` after the sleep; the mutant returns. *)
RefusedReturns == "dead"
AfterRefusal   == "standby"

(* It answered false: the connection goes back to the pool and the loop
   sleeps SCHEDULER_LEADER_RETRY_SECONDS. *)
LockRefused(i) ==
  /\ task[i] = "try"
  /\ conn[i] \in live
  /\ ~LockIsFree
  /\ idle' = [idle EXCEPT ![i] = conn[i]]
  /\ conn' = [conn EXCEPT ![i] = NoSession]
  /\ Goto(i, AfterRefusal)
  /\ UNCHANGED <<live, holder, runVars, stops>>

RetryAcquire(i) ==
  /\ task[i] = "standby"
  /\ Goto(i, "connect")
  /\ UNCHANGED <<lockVars, runVars, stops>>

(* An exception of engine.connect() or of the SELECT escapes the loop: the
   acquisition is outside its try/except.  The reply may be lost after the
   server granted the lock. *)
AcquireFails(i) ==
  /\ \/ /\ task[i] = "connect"
        /\ AcquireMayFail
        /\ idle[i] = NoSession
        /\ UNCHANGED holder
     \/ /\ task[i] = "try"
        /\ \/ conn[i] \notin live
           \/ AcquireMayFail
        /\ \/ UNCHANGED holder
           \/ conn[i] \in live /\ LockIsFree /\ holder' = conn[i]
  /\ conn' = [conn EXCEPT ![i] = NoSession]
  /\ Goto(i, "dead")
  /\ UNCHANGED <<idle, live, runVars, stops>>
-----------------------------------------------------------------------------
(* One ranking run: run_ranking_once, called under `except Exception`.      *)

(* ranking_cache.set and session.commit; the mutant leaves the second out. *)
Publish(i, r)   == cache' = [cache EXCEPT ![i] = r]
NotPersisted(i) == UNCHANGED history
Persist(i)      == history' = history \union {cache[i]}

(* `except Exception` and the sleep after it; without it the loop dies. *)
FailureEscapes == "dead"
AfterFailure   == "sleep"

(* build_ranking returned: its result is published in the cache before
   anything is persisted. *)
Build(i) ==
  /\ task[i] = "build"
  /\ computed < MaxRuns
  /\ computed' = computed + 1
  /\ Publish(i, computed + 1)
  /\ Goto(i, "flush")
  /\ UNCHANGED <<lockVars, history, failed, stops>>

(* A provider or an engine raised: nothing changes until the next interval. *)
BuildFails(i) ==
  /\ task[i] = "build"
  /\ Goto(i, AfterFailure)
  /\ UNCHANGED <<lockVars, runVars, stops>>

Flush(i) ==
  /\ task[i] = "flush"
  /\ Goto(i, "commit")
  /\ UNCHANGED <<lockVars, runVars, stops>>

Commit(i) ==
  /\ task[i] = "commit"
  /\ Persist(i)
  /\ Goto(i, "sleep")
  /\ UNCHANGED <<lockVars, cache, computed, failed, stops>>

(* The flush or the commit raised; a commit may have succeeded at the server
   although its reply was lost. *)
PersistFails(i) ==
  /\ PersistMayFail
  /\ \/ task[i] \in {"flush", "commit"} /\ UNCHANGED history
     \/ task[i] = "commit" /\ Persist(i)
  /\ failed' = failed \union {cache[i]}
  /\ Goto(i, AfterFailure)
  /\ UNCHANGED <<lockVars, cache, computed, stops>>

(* RANKING_REFRESH_SECONDS later: the next run, with no look at the lock. *)
NextRun(i) ==
  /\ task[i] = "sleep"
  /\ Goto(i, "build")
  /\ UNCHANGED <<lockVars, runVars, stops>>
-----------------------------------------------------------------------------
(* Stopping: the lifespan handler of app/main.py, and crashes.              *)

Exit(i) ==
  /\ Goto(i, "down")
  /\ conn' = [conn EXCEPT ![i] = NoSession]
  /\ idle' = [idle EXCEPT ![i] = NoSession]
  /\ cache' = [cache EXCEPT ![i] = 0]

(* The server may execute the statement a task was waiting for although the
   task stopped waiting for it: at that moment, not later. *)
InFlight(i) ==
  \/ UNCHANGED <<holder, history>>
  \/ /\ task[i] = "try" /\ conn[i] \in live /\ LockIsFree
     /\ holder' = conn[i]
     /\ UNCHANGED history
  \/ /\ task[i] = "commit"
     /\ Persist(i)
     /\ UNCHANGED holder

(* Mutant: shutdown unlocks first and leaves the loop to the process exit. *)
CancelLeaderUnlocksFirst(i) ==
  /\ UseLeaderElection /\ stops < MaxStops /\ IsRunner(i)
  /\ stops' = stops + 1
  /\ holder' = IF holder = conn[i] THEN NoSession ELSE holder
  /\ UNCHANGED <<task, conn, idle, live, runVars>>

(* The process shuts down while this task leads: CancelledError passes the
   `except Exception` and the finally clause starts to release the lock. *)
CancelLeader(i) ==
  /\ UseLeaderElection
  /\ stops < MaxStops
  /\ IsRunner(i)
  /\ InFlight(i)
  /\ stops' = stops + 1
  /\ Goto(i, "unlock")
  /\ UNCHANGED <<conn, idle, live, cache, computed, failed>>

(* It does not lead (lock_conn is None): there is nothing to release. *)
CancelOther(i) ==
  /\ task[i] # "down" /\ task[i] # "unlock"
  /\ UseLeaderElection => ~IsRunner(i)
  /\ stops < MaxStops
  /\ InFlight(i)
  /\ stops' = stops + 1
  /\ Exit(i)
  /\ UNCHANGED <<live, computed, failed>>

(* _release_leader_lock: the unlock, the close, and the process exits. *)
Release(i) ==
  /\ task[i] = "unlock"
  /\ \/ conn[i] \in live /\ holder = conn[i] /\ holder' = NoSession
     \/ (conn[i] \notin live \/ AcquireMayFail) /\ UNCHANGED holder
  /\ Exit(i)
  /\ UNCHANGED <<live, history, computed, failed, stops>>

(* The process dies without unwinding; its sessions stay open at the server
   until the server notices. *)
Crash(i) ==
  /\ task[i] # "down"
  /\ stops < MaxStops
  /\ InFlight(i)
  /\ stops' = stops + 1
  /\ Exit(i)
  /\ UNCHANGED <<live, computed, failed>>

Start(i) ==
  /\ task[i] = "down"
  /\ Goto(i, LoopStart)
  /\ UNCHANGED <<lockVars, runVars, stops>>
-----------------------------------------------------------------------------
(* The database server ends a session and releases its locks: always when
   the client is gone, and, when SessionsMayBeLost, also under a client that
   still keeps it (a failover, a network partition, a session timeout). *)
SessionEnds(s) ==
  /\ s \in live
  /\ SessionsMayBeLost \/ s \notin Referenced
  /\ live' = live \ {s}
  /\ holder' = IF holder = s THEN NoSession ELSE holder
  /\ UNCHANGED <<task, conn, idle, runVars, stops>>

Acquire(i) == \/ ConnectPooled(i) \/ ConnectNew(i)
              \/ LockGranted(i) \/ LockRefused(i) \/ RetryAcquire(i)
              \/ AcquireFails(i)
Run(i)     == \/ Build(i) \/ BuildFails(i) \/ Flush(i) \/ Commit(i)
              \/ PersistFails(i) \/ NextRun(i)
Stop(i)    == CancelLeader(i) \/ CancelOther(i) \/ Crash(i)

Next == \/ \E i \in Instances : Acquire(i) \/ Run(i) \/ Stop(i)
                                  \/ Release(i) \/ Start(i)
        \/ \E s \in Sessions : SessionEnds(s)

Spec == Init /\ [][Next]_vars

(* The event loop runs a ready task, sleeps and awaits end, and Postgres
   notices a client that is gone.  Nothing makes a stopped instance start
   again, or the server end a session that a client still keeps. *)
Fairness ==
  /\ \A i \in Instances : /\ WF_vars(Acquire(i))
                          /\ WF_vars(Run(i))
                          /\ WF_vars(Release(i))
  /\ \A s \in Sessions : WF_vars(s \notin Referenced /\ SessionEnds(s))

FairSpec == Spec /\ Fairness
-----------------------------------------------------------------------------
(* Every variable keeps its type. *)
TypeOK ==
  /\ task \in [Instances -> Tasks]
  /\ conn \in [Instances -> Sessions \union {NoSession}]
  /\ idle \in [Instances -> Sessions \union {NoSession}]
  /\ live \subseteq Sessions
  /\ holder \in live \union {NoSession}
  /\ cache \in [Instances -> 0..computed]
  /\ history \subseteq 1..computed
  /\ computed \in 0..MaxRuns
  /\ failed \subseteq 1..computed
  /\ stops \in 0..MaxStops

(* Whatever fails, an elected runner either still holds the advisory lock or
   its lock session has been ended by the server: no path of the loop lets go
   of the lock, or starts to run, any other way (scheduler.py:159-180). *)
RunnerHoldsLockOrLostIt ==
  UseLeaderElection =>
    \A i \in Runners : conn[i] = holder \/ conn[i] \notin live

(* conn.close() only returns a connection to the pool, so a session that
   still held the lock there would keep it from everybody until the process
   ends; the loop never pools a session that holds the lock. *)
PooledSessionHoldsNoLock ==
  \A i \in Instances : idle[i] # NoSession => idle[i] # holder

(* "a multi-instance deployment only runs one ranking loop at a time"
   (README.md:199, scheduler.py:10): at most one instance is in its loop. *)
AtMostOneRunner == \A i, j \in Runners : i = j

(* Across crashes, shutdowns and take-overs, a run only enters /history when
   it is newer than everything persisted before it. *)
HistoryAppends ==
  [][\A r \in history' \ history : \A q \in history : q < r]_vars

(* scheduler.py:1-5: a run is stored in both the cache and the tables.  Once
   the run is over, what an instance serves from its cache is in /history,
   unless the flush or the commit of that very run raised: no take-over,
   cancellation or failure of another run separates the two (:108-119). *)
CacheInHistory ==
  \A i \in Instances :
    cache[i] # 0 /\ task[i] \notin {"flush", "commit", "unlock"}
      => cache[i] \in history \union failed

(* The other way round, the cache may be ahead of /history but never behind
   it: whatever ranking an instance serves, also one whose commit failed or
   while it shuts down, nothing newer was persisted (:81-119, :160-180). *)
ServedIsNewest ==
  \A i \in Instances : cache[i] # 0 => \A q \in history : q <= cache[i]

(* scheduler.py:10-13: while some instance is up, somebody comes to lead: the
   others "take over automatically if the leader disappears". *)
TakeOver ==
  \A i \in Instances : task[i] # "down" ~> (Runners # {} \/ task[i] = "down")

(* scheduler.py:154, :175: "one bad run must never kill the loop": whatever
   became of a run, the same loop computes again unless its process stops. *)
LoopOutlivesBadRun ==
  \A i \in Instances :
    /\ task[i] = "build" ~> task[i] \in {"sleep", "unlock", "down"}
    /\ task[i] = "sleep" ~> task[i] \in {"build", "unlock", "down"}

(* The parts of the inductive invariant behind the lock properties. *)
LockKeepers == {i \in Instances : IsRunner(i) \/ task[i] = "unlock"}

(* A session is referenced from one place only. *)
NoSharedSession ==
  \A i, j \in Instances :
    /\ conn[i] # NoSession => conn[i] # idle[j]
    /\ i # j /\ conn[i] # NoSession => conn[i] # conn[j]
    /\ i # j /\ idle[i] # NoSession => idle[i] # idle[j]

KeptSessionsLive ==
  ~SessionsMayBeLost => Referenced \subseteq live \union {NoSession}

LockKept ==
  UseLeaderElection =>
    \A i \in LockKeepers : /\ conn[i] # NoSession
                           /\ conn[i] = holder \/ conn[i] \notin live

(* A session that only tries for the lock does not hold it. *)
TrialHoldsNothing ==
  \A i \in Instances :
    task[i] = "try" => conn[i] # NoSession /\ conn[i] # holder

UnpersistedIsNewest ==
  \A i \in Instances :
    task[i] \in {"flush", "commit"} =>
      /\ cache[i] # 0
      /\ ~SessionsMayBeLost => \A q \in history : q < cache[i]

(* The inductive invariant: who refers to which session, who may hold the
   lock, and how a run that is not persisted yet relates to /history
   (scheduler.py:108-119, :124-142). *)
IInv == /\ TypeOK
        /\ NoSharedSession
        /\ KeptSessionsLive
        /\ LockKept
        /\ TrialHoldsNothing
        /\ PooledSessionHoldsNoLock
        /\ UnpersistedIsNewest

(* The promise of the module doc, as an abstract specification. *)
Leadership == INSTANCE SingleLeader WITH
                leaders <- Runners, log <- history, Runs <- 1..MaxRuns
OneLeaderAtATime == Leadership!Spec
=============================================================================
