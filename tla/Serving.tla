------------------------------ MODULE Serving -------------------------------
(***************************************************************************)
(* From the webhook's table to the clients: the ranking runs of whichever  *)
(* instance leads (app/scheduler.py), the cache of its process             *)
(* (app/ranking_cache.py), the history they share in the database, and the *)
(* routes that read both (app/routes/statistics.py, rankings.py,           *)
(* history.py).                                                            *)
(*                                                                         *)
(* Scheduler models how an instance comes to lead, Ranking what one run    *)
(* does, Telemetry how an event is stored; each appears here by what it    *)
(* does to the others.  The routes that read the cache are plain functions *)
(* and run in threads beside the event loop, so the two assignments of     *)
(* RankingCache.set are two steps.  A row of a ranking is the event it was *)
(* read from.                                                              *)
(***************************************************************************)
EXTENDS Naturals, FiniteSets

CONSTANTS
  Instances,  \* processes of the application
  Symbols,    \* symbols of the universe
  Threads,    \* requests served at a time
  PageLimit,  \* limit of /history
  MaxEvents,  \* bound on the events received
  MaxRuns,    \* bound on the runs started
  MaxFaults   \* bound on failing runs and crashes

ASSUME ServingAssumption ==
  /\ IsFiniteSet(Symbols)
  /\ {PageLimit, MaxEvents, MaxRuns, MaxFaults} \subseteq Nat

VARIABLES
  clock,    \* the latest received_at handed out
  pending,  \* telemetry events flushed and not committed
  table,    \* committed telemetry_events
  leading,  \* the instances whose loop holds the leader lock
  phase,    \* what the loop of each instance is at
  number,   \* the number of its current run
  todo,     \* the symbols this run has not read
  rows,     \* what it has ranked: symbol -> received_at of the event
  cache,    \* RankingCache._results: the rows of the process's run-th result
  stamp,    \* RankingCache._updated_at: of which result it is the time
  runs,     \* committed ranking_runs
  history,  \* committed ranking_results
  started,  \* runs started
  faults,   \* faults so far
  request   \* the request of each thread and its answer

database == <<clock, pending, table, runs, history>>
loop == <<leading, phase, number, todo, rows, started>>
vars == <<database, loop, cache, stamp, faults, request>>

Phases == {"idle", "reading", "set", "persist"}
Events == [symbol : Symbols, at : 1..MaxEvents]
Rows   == [run : 1..MaxRuns, symbol : Symbols, event : 1..MaxEvents]
Rankings == UNION {[S -> 1..MaxEvents] : S \in SUBSET Symbols}
Requests == [route : {"none"}]
              \union [route : {"statistics", "answered"}, host : Instances,
                      run : Nat, time : Nat]
              \union [route : {"history"}, wanted : SUBSET Symbols,
                      page : SUBSET Rows]

NoRows == [s \in {} |-> 0]
Free   == [route |-> "none"]

Init ==
  /\ clock = 0 /\ pending = {} /\ table = {} /\ runs = {} /\ history = {}
  /\ leading = {} /\ started = 0 /\ faults = 0
  /\ phase = [i \in Instances |-> "idle"]
  /\ number = [i \in Instances |-> 0]
  /\ todo = [i \in Instances |-> {}]
  /\ rows = [i \in Instances |-> NoRows]
  /\ cache = [i \in Instances |-> [run |-> 0, rows |-> NoRows]]
  /\ stamp = [i \in Instances |-> 0]
  /\ request = [t \in Threads |-> Free]
-----------------------------------------------------------------------------
(* The webhook: received_at is handed out with the INSERT, and transactions
   may commit in another order, or not at all. *)
EventFlushed(s) ==
  /\ clock < MaxEvents
  /\ clock' = clock + 1
  /\ pending' = pending \union {[symbol |-> s, at |-> clock']}
  /\ UNCHANGED <<table, runs, history, loop, cache, stamp, faults, request>>

EventEnds(e) ==
  /\ e \in pending
  /\ pending' = pending \ {e}
  /\ table' \in {table, table \union {e}}
  /\ UNCHANGED <<clock, runs, history, loop, cache, stamp, faults, request>>
-----------------------------------------------------------------------------
(* The lock is free; the mutant does not ask for it. *)
IsNotLeading(i) == i \notin leading
LockIsFree(i)   == leading = {}

Lead(i) ==
  /\ LockIsFree(i)
  /\ leading' = leading \union {i}
  /\ UNCHANGED <<database, phase, number, todo, rows, started, cache, stamp,
                 faults, request>>

Goto(i, p) == phase' = [phase EXCEPT ![i] = p]

StartRun(i) ==
  /\ i \in leading /\ phase[i] = "idle"
  /\ started < MaxRuns
  /\ started' = started + 1
  /\ number' = [number EXCEPT ![i] = started']
  /\ todo' = [todo EXCEPT ![i] = Symbols]
  /\ rows' = [rows EXCEPT ![i] = NoRows]
  /\ Goto(i, "reading")
  /\ UNCHANGED <<database, leading, cache, stamp, faults, request>>

(* get_behavioral_data: ORDER BY received_at DESC LIMIT 1; the mutant takes
   the first event ever received. *)
EventsOf(s) == {e \in table : e.symbol = s}
OldestEvent(s) == CHOOSE e \in EventsOf(s) : \A f \in EventsOf(s) : e.at <= f.at
LatestEvent(s) == CHOOSE e \in EventsOf(s) : \A f \in EventsOf(s) : e.at >= f.at

(* build_ranking skips a symbol without an event. *)
ReadSymbol(i, s) ==
  /\ phase[i] = "reading" /\ s \in todo[i]
  /\ todo' = [todo EXCEPT ![i] = @ \ {s}]
  /\ rows' = IF EventsOf(s) = {} THEN rows
             ELSE [rows EXCEPT ![i] =
                     [x \in DOMAIN @ \union {s} |->
                        IF x = s THEN LatestEvent(s).at ELSE @[x]]]
  /\ UNCHANGED <<database, leading, phase, number, started, cache, stamp,
                 faults, request>>

(* RankingCache.set assigns the results, and then their time. *)
SetResults(i) ==
  /\ phase[i] = "reading" /\ todo[i] = {}
  /\ cache' = [cache EXCEPT ![i] = [run |-> @.run + 1, rows |-> rows[i]]]
  /\ Goto(i, "set")
  /\ UNCHANGED <<database, leading, number, todo, rows, started, stamp, faults,
                 request>>

(* The mutant keeps the first time it was given. *)
FirstTime(i) == IF stamp[i] = 0 THEN cache[i].run ELSE stamp[i]
Now(i)       == cache[i].run

SetTime(i) ==
  /\ phase[i] = "set"
  /\ stamp' = [stamp EXCEPT ![i] = Now(i)]
  /\ Goto(i, "persist")
  /\ UNCHANGED <<database, leading, number, todo, rows, started, cache, faults,
                 request>>

(* The rows that are added to the session; the mutant misses one. *)
ResultRows(i) ==
  {[run |-> number[i], symbol |-> s, event |-> rows[i][s]] : s \in DOMAIN rows[i]}
AllButOne(i) ==
  {r \in ResultRows(i) : r.symbol # CHOOSE s \in Symbols : TRUE}
Persisted(i) == ResultRows(i)

(* One transaction: the run and its rows. *)
Persist(i) ==
  /\ runs' = runs \union {[run |-> number[i], size |-> Cardinality(DOMAIN rows[i])]}
  /\ history' = history \union Persisted(i)

(* The run is over: its locals are gone. *)
EndRun(i) ==
  /\ phase' = [phase EXCEPT ![i] = "idle"]
  /\ number' = [number EXCEPT ![i] = 0]
  /\ todo' = [todo EXCEPT ![i] = {}]
  /\ rows' = [rows EXCEPT ![i] = NoRows]

Commit(i) ==
  /\ phase[i] = "persist"
  /\ Persist(i)
  /\ EndRun(i)
  /\ UNCHANGED <<clock, pending, table, leading, started, cache, stamp, faults,
                 request>>

(* A fault ends the run, and a commit it interrupts may have happened. *)
Fault(i) ==
  /\ faults < MaxFaults
  /\ faults' = faults + 1
  /\ EndRun(i)
  /\ \/ UNCHANGED <<runs, history>>
     \/ phase[i] = "persist" /\ Persist(i)

(* A provider or the database raises.  The loop logs it and waits for the
   next turn. *)
RunFails(i) ==
  /\ phase[i] \in {"reading", "persist"}
  /\ Fault(i)
  /\ UNCHANGED <<clock, pending, table, leading, started, cache, stamp, request>>

OnHost(answer, i) == answer.route = "statistics" /\ answer.host = i

(* The process ends and starts again with an empty cache; its lock is free,
   and a request it was serving is dropped. *)
Crash(i) ==
  /\ Fault(i)
  /\ leading' = leading \ {i}
  /\ cache' = [cache EXCEPT ![i] = [run |-> 0, rows |-> NoRows]]
  /\ stamp' = [stamp EXCEPT ![i] = 0]
  /\ request' = [t \in Threads |-> IF OnHost(request[t], i) THEN Free ELSE request[t]]
  /\ UNCHANGED <<clock, pending, table, started>>
-----------------------------------------------------------------------------
(* get() at the start of /statistics, as of /rankings and /scanner: the list
   that is the cache at that moment.  /statistics goes on to read its time,
   when there are results; without any it knows no time. *)
ReadCache(t, i) ==
  /\ request[t].route # "statistics"
  /\ request' = [request EXCEPT ![t] =
       IF cache[i].rows = NoRows THEN Free
       ELSE [route |-> "statistics", host |-> i, run |-> cache[i].run, time |-> 0]]
  /\ UNCHANGED <<database, loop, cache, stamp, faults>>

ReadTime(t) ==
  /\ request[t].route = "statistics"
  /\ request' = [request EXCEPT ![t].route = "answered",
                                ![t].time = stamp[request[t].host]]
  /\ UNCHANGED <<database, loop, cache, stamp, faults>>

(* /history on any instance: rows by falling run_at, those of one run in any
   order, cut at the limit; of all symbols or of one. *)
Pages(wanted) ==
  LET all   == {r \in history : r.symbol \in wanted}
      count == IF Cardinality(all) > PageLimit THEN PageLimit ELSE Cardinality(all)
  IN {p \in SUBSET all : /\ Cardinality(p) = count
                         /\ \A r \in p, q \in all \ p : r.run >= q.run}

History(t) ==
  /\ request[t].route # "statistics"
  /\ \E wanted \in {Symbols} \union {{s} : s \in Symbols} :
       \E page \in Pages(wanted) :
         request' = [request EXCEPT ![t] =
                       [route |-> "history", wanted |-> wanted, page |-> page]]
  /\ UNCHANGED <<database, loop, cache, stamp, faults>>

Run(i) == \/ StartRun(i)
          \/ \E s \in Symbols : ReadSymbol(i, s)
          \/ SetResults(i) \/ SetTime(i) \/ Commit(i)

Next ==
  \/ \E s \in Symbols : EventFlushed(s)
  \/ \E e \in Events : EventEnds(e)
  \/ \E i \in Instances : Lead(i) \/ Run(i) \/ RunFails(i) \/ Crash(i)
  \/ \E t \in Threads : \/ \E i \in Instances : ReadCache(t, i)
                        \/ ReadTime(t) \/ History(t)

Spec == Init /\ [][Next]_vars

(* One instance leads at a time: Scheduler shows when that holds, and when a
   lost session breaks it.  A standby asks for the lock again and again, and the loop of a leader
   starts a run at every turn and is not starved by other tasks. *)
FairSpec == /\ Spec
            /\ \A i \in Instances : WF_vars(Lead(i)) /\ WF_vars(Run(i))
-----------------------------------------------------------------------------
TypeOK ==
  /\ clock \in 0..MaxEvents /\ pending \subseteq Events /\ table \subseteq Events
  /\ leading \subseteq Instances
  /\ phase \in [Instances -> Phases] /\ number \in [Instances -> 0..MaxRuns]
  /\ todo \in [Instances -> SUBSET Symbols] /\ rows \in [Instances -> Rankings]
  /\ cache \in [Instances -> [run : Nat, rows : Rankings]]
  /\ stamp \in [Instances -> Nat]
  /\ runs \subseteq [run : 1..MaxRuns, size : Nat] /\ history \subseteq Rows
  /\ started \in 0..MaxRuns /\ faults \in 0..MaxFaults
  /\ request \in [Threads -> Requests]

(* The page has all the rows that were committed with run r. *)
Complete(page, r) ==
  \E n \in runs : n.run = r /\ Cardinality({q \in page : q.run = r}) = n.size

(* statistics.py:22 and :34 against ranking_cache.py:21-22: the time that
   /statistics shows is of the results it counted, of newer ones, or of those
   just before while set is between its two assignments, so it is None only
   beside the first results of the process. *)
TimeNearRows ==
  \A t \in Threads :
    request[t].route = "answered" => request[t].time + 1 >= request[t].run

(* scheduler.py:110-119: rows are committed with their run, so a page of
   /history shows a run whole, except the oldest one when the limit cuts it. *)
HistoryShowsWholeRuns ==
  \A t \in Threads :
    request[t].route = "history" /\ request[t].wanted = Symbols =>
      LET page == request[t].page IN
      \A r \in page :
        (Cardinality(page) < PageLimit \/ \E q \in page : q.run < r.run)
          => Complete(page, r.run)

(* db_behavioral_data.py:33 under scheduler.py:162: the ranking of a symbol is
   never followed, on whichever instance, by one of an event received earlier,
   although events commit out of order and runs fail and change instance. *)
EvidenceNeverGoesBack ==
  \A a, b \in history :
    a.symbol = b.symbol /\ a.run < b.run => a.event <= b.event

(* RankingCache.set counts: between its assignments the time is one behind. *)
StampFollows ==
  \A i \in Instances :
    IF phase[i] = "set" THEN stamp[i] + 1 = cache[i].run ELSE stamp[i] = cache[i].run

(* What a thread has read is of a result its process has had. *)
ReadersBehind ==
  \A t \in Threads :
    request[t].route = "statistics" =>
      request[t].run <= cache[request[t].host].run

(* The run that is going on is the leader's, and the last that was started;
   those in the history are earlier. *)
RunsAreLed ==
  /\ \A i, j \in leading : i = j
  /\ \A i \in Instances :
       phase[i] # "idle" => i \in leading /\ number[i] = started /\ started > 0
  /\ \A r \in history :
       r.run <= started /\ \A i \in Instances : phase[i] # "idle" => r.run < started

(* A ranking is of stored events, and none of its rows is of an older event
   than a row in the history. *)
Stored(s, at) == [symbol |-> s, at |-> at] \in table
RowsAreNewest ==
  /\ \A r \in history : Stored(r.symbol, r.event)
  /\ \A i \in Instances : phase[i] = "idle" => DOMAIN rows[i] = {}
  /\ \A i \in Instances : \A s \in DOMAIN rows[i] :
       /\ Stored(s, rows[i][s])
       /\ \A r \in history : r.symbol = s => r.event <= rows[i][s]

(* Every run in the history is whole. *)
RunsComplete ==
  IsFiniteSet(history) /\ \A r \in history : Complete(history, r.run)

(* Inductive: each property the runs check, after the facts it rests on. *)
IInv == /\ TypeOK
        /\ StampFollows /\ ReadersBehind /\ TimeNearRows
        /\ RunsAreLed /\ RowsAreNewest /\ EvidenceNeverGoesBack
        /\ RunsComplete /\ HistoryShowsWholeRuns

(* An event in the table, with more runs to come than may fail, is ranked by
   a committed run, it or a newer one of its symbol. *)
Ranked(e) == \E r \in history : r.symbol = e.symbol /\ r.event >= e.at
EventIsRanked ==
  \A e \in Events :
    (e \in table /\ started + (MaxFaults - faults) < MaxRuns) ~> Ranked(e)
=============================================================================
