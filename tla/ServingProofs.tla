--------------------------- MODULE ServingProofs ----------------------------
(***************************************************************************)
(* Proofs about Serving for any instances, symbols, requests and bounds.   *)
(* One lemma per group of conjuncts of IInv.                               *)
(***************************************************************************)
EXTENDS Serving, FiniteSetTheorems, WellFoundedInduction, TLAPS

LEMMA Constants ==
  /\ PageLimit \in Nat /\ MaxEvents \in Nat /\ MaxRuns \in Nat /\ MaxFaults \in Nat
  /\ IsFiniteSet(Symbols)
BY ServingAssumption

(* A symbol with a stored event has a latest one. *)
LEMMA LatestExists ==
  ASSUME table \subseteq Events, NEW s, EventsOf(s) # {}
  PROVE  /\ LatestEvent(s) \in EventsOf(s)
         /\ \A e \in EventsOf(s) : e.at <= LatestEvent(s).at
<1> DEFINE Ages == {MaxEvents - e.at : e \in EventsOf(s)}
<1>1. \A e \in EventsOf(s) : e.at \in Nat /\ MaxEvents - e.at \in Nat
  BY Constants DEF EventsOf, Events
<1>2. Ages \subseteq Nat /\ Ages # {}
  BY <1>1
<1>3. PICK n \in Ages : \A m \in Ages : ~ (<<m, n>> \in OpToRel(<, Nat))
  BY <1>2, NatLessThanWellFounded, WFMin
<1>4. \A m \in Ages : ~ (m < n)
  BY <1>2, <1>3 DEF OpToRel
<1>5. PICK e \in EventsOf(s) : n = MaxEvents - e.at
  OBVIOUS
<1>6. ASSUME NEW f \in EventsOf(s) PROVE e.at >= f.at
  <2>1. ~ (MaxEvents - f.at < MaxEvents - e.at)
    BY <1>4, <1>5
  <2> QED BY <2>1, <1>1, Constants
<1>7. \E x \in EventsOf(s) : \A f \in EventsOf(s) : x.at >= f.at
  BY <1>6
<1>8. LatestEvent(s) \in EventsOf(s) /\ \A f \in EventsOf(s) : LatestEvent(s).at >= f.at
  BY <1>7 DEF LatestEvent
<1> QED BY <1>1, <1>8

(* The rows of a run are as many as the symbols it ranked. *)
LEMMA RowsOfRun ==
  ASSUME TypeOK, NEW i \in Instances
  PROVE  /\ DOMAIN rows[i] \subseteq Symbols /\ IsFiniteSet(DOMAIN rows[i])
         /\ IsFiniteSet(ResultRows(i))
         /\ Cardinality(ResultRows(i)) = Cardinality(DOMAIN rows[i])
         /\ Cardinality(DOMAIN rows[i]) \in Nat
<1> DEFINE D == DOMAIN rows[i]
           f == [s \in D |-> [run |-> number[i], symbol |-> s, event |-> rows[i][s]]]
<1>1. D \subseteq Symbols
  BY DEF TypeOK, Rankings
<1>2. IsFiniteSet(D) /\ Cardinality(D) \in Nat
  BY <1>1, Constants, FS_Subset, FS_CardinalityType
<1>3. f \in Surjection(D, ResultRows(i))
  BY DEF Surjection, ResultRows
<1>4. f \in Injection(D, ResultRows(i))
  <2>1. f \in [D -> ResultRows(i)]
    BY <1>3 DEF Surjection
  <2>2. \A a, b \in D : f[a] = f[b] => a = b
    <3> TAKE a, b \in D
    <3> HAVE f[a] = f[b]
    <3>1. f[a].symbol = a /\ f[b].symbol = b
      OBVIOUS
    <3> QED BY <3>1
  <2> QED BY <2>1, <2>2 DEF Injection, IsInjective
<1>5. /\ IsFiniteSet(ResultRows(i))
      /\ Cardinality(ResultRows(i)) = Cardinality(D)
  BY <1>2, <1>3, <1>4, FS_Surjection
<1> QED BY <1>1, <1>2, <1>5

(* What is committed with a run is typed. *)
LEMMA RowsTyped ==
  ASSUME TypeOK, RunsAreLed, NEW i \in Instances, phase[i] = "persist"
  PROVE  /\ number[i] \in 1..MaxRuns /\ ResultRows(i) \subseteq Rows
         /\ [run |-> number[i], size |-> Cardinality(DOMAIN rows[i])]
              \in [run : 1..MaxRuns, size : Nat]
<1>1. number[i] \in 1..MaxRuns
  BY DEF TypeOK, RunsAreLed
<1>2. \A s \in DOMAIN rows[i] : s \in Symbols /\ rows[i][s] \in 1..MaxEvents
  BY DEF TypeOK, Rankings
<1>3. ResultRows(i) \subseteq Rows
  BY <1>1, <1>2 DEF ResultRows, Rows
<1> QED BY <1>1, <1>3, RowsOfRun

LEMMA NoRowsTyped == NoRows \in Rankings
<1>1. NoRows \in [{} -> 1..MaxEvents] /\ {} \in SUBSET Symbols
  BY DEF NoRows
<1> QED BY <1>1 DEF Rankings

(* Every step keeps the variables within their types. *)
LEMMA TypeStep ==
  ASSUME TypeOK, RunsAreLed, [Next]_vars
  PROVE  TypeOK'
<1> USE Constants, NoRowsTyped
    DEF TypeOK, database, loop, Goto, Phases
<1>1. ASSUME NEW s \in Symbols, EventFlushed(s) PROVE TypeOK'
  <2>1. clock' \in 1..MaxEvents
    BY <1>1 DEF EventFlushed
  <2>2. [symbol |-> s, at |-> clock'] \in Events
    BY <2>1 DEF Events
  <2> QED BY <1>1, <2>1, <2>2 DEF EventFlushed
<1>2. ASSUME NEW e \in Events, EventEnds(e) PROVE TypeOK'
  BY <1>2 DEF EventEnds
<1>3. ASSUME NEW i \in Instances, Lead(i) PROVE TypeOK'
  BY <1>3 DEF Lead
<1>4. ASSUME NEW i \in Instances, StartRun(i) PROVE TypeOK'
  <2>1. started' \in 0..MaxRuns
    BY <1>4 DEF StartRun
  <2> QED BY <1>4, <2>1 DEF StartRun
<1>5. ASSUME NEW i \in Instances, NEW s \in Symbols, ReadSymbol(i, s)
      PROVE  TypeOK'
  <2>1. CASE EventsOf(s) = {}
    BY <1>5, <2>1 DEF ReadSymbol
  <2>2. CASE EventsOf(s) # {}
    <3> DEFINE D == DOMAIN rows[i] \union {s}
               new == [x \in D |-> IF x = s THEN LatestEvent(s).at ELSE rows[i][x]]
    <3>1. LatestEvent(s).at \in 1..MaxEvents
      BY <2>2, LatestExists DEF EventsOf, Events
    <3>2. rows[i] \in Rankings
      OBVIOUS
    <3>3. D \subseteq Symbols /\ \A x \in DOMAIN rows[i] : rows[i][x] \in 1..MaxEvents
      BY <3>2 DEF Rankings
    <3>4. D \in SUBSET Symbols /\ new \in [D -> 1..MaxEvents]
      BY <3>1, <3>3
    <3>5. rows' = [rows EXCEPT ![i] = new]
      BY <1>5, <2>2 DEF ReadSymbol
    <3> HIDE DEF D, new
    <3>6. new \in Rankings
      BY <3>4 DEF Rankings
    <3>7. rows' \in [Instances -> Rankings]
      BY <3>5, <3>6
    <3> QED BY <1>5, <3>7 DEF ReadSymbol
  <2> QED BY <2>1, <2>2
<1>6. ASSUME NEW i \in Instances, SetResults(i) PROVE TypeOK'
  BY <1>6 DEF SetResults
<1>7. ASSUME NEW i \in Instances, SetTime(i) PROVE TypeOK'
  BY <1>7 DEF SetTime, Now
<1>8. ASSUME NEW i \in Instances, phase[i] = "persist", Persist(i)
      PROVE  runs' \subseteq [run : 1..MaxRuns, size : Nat] /\ history' \subseteq Rows
  BY <1>8, RowsTyped DEF Persist, Persisted
<1>9. ASSUME NEW i \in Instances, EndRun(i)
      PROVE  /\ phase' \in [Instances -> Phases] /\ number' \in [Instances -> 0..MaxRuns]
             /\ todo' \in [Instances -> SUBSET Symbols] /\ rows' \in [Instances -> Rankings]
  BY <1>9 DEF EndRun
<1>10. ASSUME NEW i \in Instances, Commit(i) PROVE TypeOK'
  <2>1. phase[i] = "persist" /\ Persist(i) /\ EndRun(i)
    BY <1>10 DEF Commit
  <2> QED BY <1>10, <2>1, <1>8, <1>9 DEF Commit
<1>11. ASSUME NEW i \in Instances, Fault(i)
       PROVE  /\ runs' \subseteq [run : 1..MaxRuns, size : Nat] /\ history' \subseteq Rows
              /\ faults' \in 0..MaxFaults /\ EndRun(i)
  <2>1. faults' \in 0..MaxFaults /\ EndRun(i)
    BY <1>11 DEF Fault
  <2> QED BY <1>11, <2>1, <1>8 DEF Fault
<1>12. ASSUME NEW i \in Instances, RunFails(i) PROVE TypeOK'
  <2>1. Fault(i)
    BY <1>12 DEF RunFails
  <2> QED BY <1>12, <2>1, <1>9, <1>11 DEF RunFails
<1>13. ASSUME NEW i \in Instances, Crash(i) PROVE TypeOK'
  <2>1. Fault(i)
    BY <1>13 DEF Crash
  <2>2. Free \in Requests
    BY DEF Free, Requests
  <2>3. request' \in [Threads -> Requests]
    BY <1>13, <2>2 DEF Crash
  <2>4. cache' \in [Instances -> [run : Nat, rows : Rankings]] /\ stamp' \in [Instances -> Nat]
    BY <1>13 DEF Crash
  <2> QED BY <1>13, <2>1, <2>3, <2>4, <1>9, <1>11 DEF Crash
<1>14. ASSUME NEW t \in Threads, NEW i \in Instances, ReadCache(t, i) PROVE TypeOK'
  <2>1. cache[i].run \in Nat
    OBVIOUS
  <2>2. /\ Free \in Requests
        /\ [route |-> "statistics", host |-> i, run |-> cache[i].run, time |-> 0] \in Requests
    BY <2>1 DEF Free, Requests
  <2>3. request' \in [Threads -> Requests]
    BY <1>14, <2>2 DEF ReadCache
  <2> QED BY <1>14, <2>3 DEF ReadCache
<1>15. ASSUME NEW t \in Threads, ReadTime(t) PROVE TypeOK'
  <2> DEFINE r == request[t]
  <2>1. r \in [route : {"statistics", "answered"}, host : Instances, run : Nat, time : Nat]
    BY <1>15 DEF ReadTime, Requests
  <2>2. r.host \in Instances /\ stamp[r.host] \in Nat
    BY <2>1
  <2>3. [[r EXCEPT !.route = "answered"] EXCEPT !.time = stamp[r.host]] \in Requests
    BY <2>1, <2>2 DEF Requests
  <2>4. request' = [request EXCEPT ![t] =
                      [[r EXCEPT !.route = "answered"] EXCEPT !.time = stamp[r.host]]]
    BY <1>15 DEF ReadTime
  <2>5. request' \in [Threads -> Requests]
    BY <2>3, <2>4
  <2> QED BY <1>15, <2>5 DEF ReadTime
<1>16. ASSUME NEW t \in Threads, History(t) PROVE TypeOK'
  <2>0. PICK wanted \in {Symbols} \union {{s} : s \in Symbols} :
          \E page \in Pages(wanted) :
            request' = [request EXCEPT ![t] =
                         [route |-> "history", wanted |-> wanted, page |-> page]]
    BY <1>16 DEF History
  <2>1. PICK page \in Pages(wanted) :
          request' = [request EXCEPT ![t] =
                       [route |-> "history", wanted |-> wanted, page |-> page]]
    BY <2>0
  <2>2. wanted \in SUBSET Symbols /\ page \in SUBSET Rows
    BY <2>1 DEF Pages
  <2>3. [route |-> "history", wanted |-> wanted, page |-> page] \in Requests
    BY <2>2 DEF Requests
  <2>4. request' \in [Threads -> Requests]
    BY <2>1, <2>3
  <2> QED BY <1>16, <2>4 DEF History
<1>17. CASE UNCHANGED vars
  BY <1>17 DEF vars
<1> QED BY <1>1, <1>2, <1>3, <1>4, <1>5, <1>6, <1>7, <1>10, <1>12, <1>13, <1>14,
           <1>15, <1>16, <1>17 DEF Next, Run

(* The time of a process is that of its results, or one behind while set is
   between its assignments, and what a request has read is never newer. *)
LEMMA TimesStep ==
  ASSUME TypeOK, StampFollows, ReadersBehind, TimeNearRows, [Next]_vars
  PROVE  StampFollows' /\ ReadersBehind' /\ TimeNearRows'
<1> DEFINE Goal == StampFollows /\ ReadersBehind /\ TimeNearRows
<1> USE DEF StampFollows, ReadersBehind, TimeNearRows, TypeOK, database, loop, Goto
<1>1. ASSUME NEW s \in Symbols, EventFlushed(s) PROVE Goal'
  BY <1>1 DEF EventFlushed
<1>2. ASSUME NEW e \in Events, EventEnds(e) PROVE Goal'
  BY <1>2 DEF EventEnds
<1>3. ASSUME NEW i \in Instances, Lead(i) PROVE Goal'
  BY <1>3 DEF Lead
<1>4. ASSUME NEW i \in Instances, StartRun(i) PROVE Goal'
  BY <1>4 DEF StartRun
<1>5. ASSUME NEW i \in Instances, NEW s \in Symbols, ReadSymbol(i, s) PROVE Goal'
  BY <1>5 DEF ReadSymbol
<1>6. ASSUME NEW i \in Instances, SetResults(i) PROVE Goal'
  <2>1. /\ phase[i] # "set" /\ phase' = [phase EXCEPT ![i] = "set"]
        /\ \A j \in Instances :
             cache'[j].run = IF j = i THEN cache[i].run + 1 ELSE cache[j].run
        /\ stamp' = stamp /\ request' = request
    BY <1>6 DEF SetResults
  <2>2. StampFollows'
    BY <2>1
  <2>3. ASSUME NEW t \in Threads, request[t].route = "statistics"
        PROVE  request[t].run <= cache'[request[t].host].run
    <3>1. request[t].host \in Instances /\ request[t].run \in Nat
      BY <2>3 DEF Requests
    <3>2. cache[request[t].host].run \in Nat
      BY <3>1
    <3> QED BY <2>1, <2>3, <3>1, <3>2
  <2> QED BY <2>1, <2>2, <2>3
<1>7. ASSUME NEW i \in Instances, SetTime(i) PROVE Goal'
  BY <1>7 DEF SetTime, Now
<1>8. ASSUME NEW i \in Instances, phase[i] # "set", EndRun(i),
             UNCHANGED <<cache, stamp, request>>
      PROVE  Goal'
  BY <1>8 DEF EndRun
<1>9. ASSUME NEW i \in Instances, Commit(i) \/ RunFails(i) PROVE Goal'
  <2>1. phase[i] # "set" /\ EndRun(i) /\ UNCHANGED <<cache, stamp, request>>
    BY <1>9 DEF Commit, RunFails, Fault
  <2> QED BY <2>1, <1>8
<1>10. ASSUME NEW i \in Instances, Crash(i) PROVE Goal'
  <2>1. /\ phase' = [phase EXCEPT ![i] = "idle"]
        /\ cache' = [cache EXCEPT ![i] = [run |-> 0, rows |-> NoRows]]
        /\ stamp' = [stamp EXCEPT ![i] = 0]
    BY <1>10 DEF Crash, Fault, EndRun
  <2>2. StampFollows'
    BY <2>1
  <2>3. ASSUME NEW t \in Threads
        PROVE  /\ request'[t] = Free \/ (request'[t] = request[t] /\ ~ OnHost(request[t], i))
    BY <1>10 DEF Crash
  <2>4. ReadersBehind' /\ TimeNearRows'
    BY <2>1, <2>3 DEF OnHost, Free
  <2> QED BY <2>2, <2>4
<1>11. ASSUME NEW t \in Threads, NEW i \in Instances, ReadCache(t, i) PROVE Goal'
  <2>1. cache[i].run \in Nat
    OBVIOUS
  <2> QED BY <1>11, <2>1 DEF ReadCache, Free
<1>12. ASSUME NEW t \in Threads, ReadTime(t) PROVE Goal'
  <2>1. request[t].host \in Instances /\ request[t].run \in Nat
    BY <1>12 DEF ReadTime, Requests
  <2>2. /\ stamp[request[t].host] \in Nat /\ cache[request[t].host].run \in Nat
        /\ stamp[request[t].host] + 1 >= cache[request[t].host].run
    BY <2>1
  <2>3. stamp[request[t].host] + 1 >= request[t].run
    BY <1>12, <2>1, <2>2 DEF ReadTime
  <2>4. request[t] \in [route : {"statistics", "answered"}, host : Instances,
                        run : Nat, time : Nat]
    BY <1>12 DEF ReadTime, Requests
  <2>5. /\ request'[t].route = "answered" /\ request'[t].run = request[t].run
        /\ request'[t].time = stamp[request[t].host]
        /\ \A u \in Threads \ {t} : request'[u] = request[u]
    BY <1>12, <2>4 DEF ReadTime
  <2> QED BY <1>12, <2>3, <2>5 DEF ReadTime
<1>13. ASSUME NEW t \in Threads, History(t) PROVE Goal'
  <2>1. /\ request'[t].route = "history"
        /\ \A u \in Threads \ {t} : request'[u] = request[u]
    BY <1>13 DEF History
  <2> QED BY <1>13, <2>1 DEF History
<1>14. CASE UNCHANGED vars
  BY <1>14 DEF vars
<1> QED BY <1>1, <1>2, <1>3, <1>4, <1>5, <1>6, <1>7, <1>9, <1>10, <1>11, <1>12,
           <1>13, <1>14 DEF Next, Run

(* One leader, whose run is the last that was started. *)
LEMMA LedStep ==
  ASSUME TypeOK, RunsAreLed, [Next]_vars
  PROVE  RunsAreLed'
<1> USE Constants DEF RunsAreLed, TypeOK, database, loop, Goto
<1>1. ASSUME NEW s \in Symbols, EventFlushed(s) PROVE RunsAreLed'
  BY <1>1 DEF EventFlushed
<1>2. ASSUME NEW e \in Events, EventEnds(e) PROVE RunsAreLed'
  BY <1>2 DEF EventEnds
<1>3. ASSUME NEW i \in Instances, Lead(i) PROVE RunsAreLed'
  BY <1>3 DEF Lead, LockIsFree
<1>0. \A r \in history : r.run \in Nat
  BY DEF Rows
<1>4. ASSUME NEW i \in Instances, StartRun(i) PROVE RunsAreLed'
  <2>1. \A j \in Instances : phase'[j] # "idle" => j = i
    BY <1>4 DEF StartRun
  <2>2. /\ started' = started + 1 /\ number'[i] = started' /\ i \in leading
        /\ leading' = leading /\ history' = history
    BY <1>4 DEF StartRun
  <2>3. started' > 0 /\ \A r \in history : r.run < started' /\ r.run <= started'
    BY <1>0, <2>2
  <2>4. \A j \in Instances : phase'[j] # "idle" =>
          j \in leading' /\ number'[j] = started' /\ started' > 0
    BY <2>1, <2>2, <2>3
  <2> QED BY <2>2, <2>3, <2>4
<1>5. ASSUME NEW i \in Instances, NEW s \in Symbols, ReadSymbol(i, s)
      PROVE  RunsAreLed'
  BY <1>5 DEF ReadSymbol
<1>6. ASSUME NEW i \in Instances, SetResults(i) \/ SetTime(i) PROVE RunsAreLed'
  <2>1. /\ \A j \in Instances : phase'[j] # "idle" => phase[j] # "idle"
        /\ UNCHANGED <<leading, number, started, history>>
    BY <1>6 DEF SetResults, SetTime
  <2> QED BY <2>1
<1>7. ASSUME NEW i \in Instances, EndRun(i), started' = started,
             leading' \in {leading, leading \ {i}},
             \/ history' = history
             \/ phase[i] = "persist" /\ history' = history \union ResultRows(i)
      PROVE  RunsAreLed'
  <2>1. \A j \in Instances : phase'[j] # "idle" =>
                               /\ j # i /\ phase[j] # "idle" /\ number'[j] = number[j]
    BY <1>7 DEF EndRun
  <2>2. ASSUME NEW j \in Instances, phase'[j] # "idle" PROVE phase[i] = "idle"
    BY <2>1, <2>2
  <2>3. \A r \in ResultRows(i) : r.run = number[i]
    BY DEF ResultRows
  <2>4. \A r \in history' : r.run <= started
    BY <1>0, <1>7, <2>3
  <2>5. ASSUME NEW j \in Instances, phase'[j] # "idle"
        PROVE  \A r \in history' : r.run < started
    <3>1. phase[i] = "idle" /\ history' = history
      BY <1>7, <2>2, <2>5
    <3> QED BY <2>1, <2>5, <3>1
  <2> QED BY <1>7, <2>1, <2>4, <2>5
<1>8. ASSUME NEW i \in Instances, Commit(i) PROVE RunsAreLed'
  BY <1>7, <1>8 DEF Commit, Persist, Persisted
<1>9. ASSUME NEW i \in Instances, RunFails(i) \/ Crash(i) PROVE RunsAreLed'
  <2>1. /\ EndRun(i) /\ started' = started /\ leading' \in {leading, leading \ {i}}
    BY <1>9 DEF RunFails, Crash, Fault
  <2>2. \/ history' = history
        \/ phase[i] = "persist" /\ history' = history \union ResultRows(i)
    BY <1>9 DEF RunFails, Crash, Fault, Persist, Persisted
  <2> QED BY <2>1, <2>2, <1>7
<1>10. ASSUME NEW t \in Threads,
              (\E i \in Instances : ReadCache(t, i)) \/ ReadTime(t) \/ History(t)
       PROVE  RunsAreLed'
  <2>1. UNCHANGED <<database, loop>>
    BY <1>10 DEF ReadCache, ReadTime, History
  <2> QED BY <2>1
<1>11. CASE UNCHANGED vars
  BY <1>11 DEF vars
<1> QED BY <1>1, <1>2, <1>3, <1>4, <1>5, <1>6, <1>8, <1>9, <1>10, <1>11 DEF Next, Run

(* Every step keeps rankings on stored events, none older than the history. *)
LEMMA NewestStep ==
  ASSUME TypeOK, RunsAreLed, RowsAreNewest, EvidenceNeverGoesBack, [Next]_vars
  PROVE  RowsAreNewest' /\ EvidenceNeverGoesBack'
<1> DEFINE Goal == RowsAreNewest /\ EvidenceNeverGoesBack
<1> USE DEF RowsAreNewest, EvidenceNeverGoesBack, Stored, database, loop, Goto
<1>1. ASSUME NEW s \in Symbols, EventFlushed(s) PROVE Goal'
  BY <1>1 DEF EventFlushed
<1>2. ASSUME NEW e \in Events, EventEnds(e) PROVE Goal'
  <2>1. table \subseteq table' /\ history' = history /\ rows' = rows /\ phase' = phase
    BY <1>2 DEF EventEnds
  <2> QED BY <2>1
<1>3. ASSUME NEW i \in Instances, Lead(i) PROVE Goal'
  BY <1>3 DEF Lead
<1>4. ASSUME NEW i \in Instances, phase \in [Instances -> Phases],
             rows' = [rows EXCEPT ![i] = NoRows], table' = table, history' = history,
             \A j \in Instances : j # i => phase'[j] = phase[j]
      PROVE  Goal'
  <2>1. DOMAIN rows'[i] = {} /\ \A j \in Instances \ {i} : rows'[j] = rows[j]
    BY <1>4 DEF NoRows, TypeOK
  <2> QED BY <1>4, <2>1
<1>5. ASSUME NEW i \in Instances, StartRun(i) PROVE Goal'
  BY <1>4, <1>5 DEF StartRun, TypeOK
<1>6. ASSUME NEW i \in Instances, NEW s \in Symbols, ReadSymbol(i, s) PROVE Goal'
  <2>1. CASE EventsOf(s) = {}
    BY <1>6, <2>1 DEF ReadSymbol
  <2>2. CASE EventsOf(s) # {}
    <3> DEFINE e == LatestEvent(s)
    <3>1. e \in table /\ e.symbol = s /\ \A f \in EventsOf(s) : f.at <= e.at
      BY <2>2, LatestExists DEF EventsOf, TypeOK
    <3>2. e = [symbol |-> s, at |-> e.at]
      BY <3>1 DEF Events, TypeOK
    <3>3. /\ DOMAIN rows'[i] = DOMAIN rows[i] \union {s}
          /\ rows'[i][s] = e.at
          /\ \A x \in DOMAIN rows[i] : x # s => rows'[i][x] = rows[i][x]
          /\ \A j \in Instances \ {i} : rows'[j] = rows[j]
      BY <1>6, <2>2 DEF ReadSymbol, TypeOK
    <3>4. ASSUME NEW r \in history, r.symbol = s PROVE r.event <= e.at
      <4>1. [symbol |-> s, at |-> r.event] \in EventsOf(s)
        BY <3>4 DEF EventsOf
      <4> QED BY <3>1, <4>1
    <3>5. phase' = phase /\ phase[i] = "reading" /\ table' = table /\ history' = history
      BY <1>6 DEF ReadSymbol
    <3> HIDE DEF e
    <3>6. ASSUME NEW x \in DOMAIN rows'[i]
          PROVE  /\ [symbol |-> x, at |-> rows'[i][x]] \in table
                 /\ \A r \in history : r.symbol = x => r.event <= rows'[i][x]
      <4>1. CASE x = s
        BY <4>1, <3>1, <3>2, <3>3, <3>4
      <4>2. CASE x # s
        BY <4>2, <3>3, <3>6
      <4> QED BY <4>1, <4>2
    <3> QED BY <3>3, <3>5, <3>6
  <2> QED BY <2>1, <2>2
<1>7. ASSUME NEW i \in Instances, SetResults(i) \/ SetTime(i) PROVE Goal'
  <2>1. /\ \A j \in Instances : phase'[j] = "idle" => phase[j] = "idle"
        /\ UNCHANGED <<table, history, rows>>
    BY <1>7 DEF SetResults, SetTime, TypeOK
  <2> QED BY <2>1
<1>8. ASSUME NEW i \in Instances, phase[i] = "persist", EndRun(i), table' = table,
             history' = history \union ResultRows(i)
      PROVE  Goal'
  <2>1. \A j \in Instances : j # i => DOMAIN rows[j] = {}
    BY <1>8 DEF RunsAreLed
  <2>2. \A j \in Instances : DOMAIN rows'[j] = {}
    BY <1>8, <2>1 DEF EndRun, NoRows, TypeOK
  <2>3. ASSUME NEW b \in ResultRows(i)
        PROVE  /\ b.run = started /\ [symbol |-> b.symbol, at |-> b.event] \in table
               /\ \A r \in history : r.symbol = b.symbol => r.event <= b.event
    <3>1. PICK s \in DOMAIN rows[i] :
            b = [run |-> number[i], symbol |-> s, event |-> rows[i][s]]
      BY DEF ResultRows
    <3>2. b.run = started /\ b.symbol = s /\ b.event = rows[i][s]
      BY <1>8, <3>1 DEF RunsAreLed
    <3> QED BY <3>2
  <2>4. RowsAreNewest'
    BY <1>8, <2>2, <2>3
  <2>5. \A r \in history : r.run < started /\ r.run \in Nat /\ started \in Nat
    BY <1>8 DEF RunsAreLed, TypeOK, Rows
  <2>6. ASSUME NEW a \in history', NEW b \in history', a.symbol = b.symbol, a.run < b.run
        PROVE  a.event <= b.event
    <3>1. CASE a \in history /\ b \in history
      BY <2>6, <3>1
    <3>2. CASE a \in history /\ b \in ResultRows(i)
      BY <2>6, <3>2, <2>3
    <3>3. CASE a \in ResultRows(i)
      <4>1. b.run < started \/ b.run = started
        BY <1>8, <2>3, <2>5
      <4>2. a.run = started /\ started \in Nat
        <5>1. started \in Nat
          BY Constants DEF TypeOK
        <5> QED BY <2>3, <3>3, <5>1
      <4>3. b.run \in Nat
        BY <1>8, <2>3, <2>5, <4>2
      <4> QED BY <2>6, <4>1, <4>2, <4>3
    <3> QED BY <1>8, <3>1, <3>2, <3>3
  <2> QED BY <2>4, <2>6
<1>9. ASSUME NEW i \in Instances, Commit(i) PROVE Goal'
  BY <1>8, <1>9 DEF Commit, Persist, Persisted
<1>10. ASSUME NEW i \in Instances, RunFails(i) \/ Crash(i) PROVE Goal'
  <2>1. EndRun(i) /\ table' = table
    BY <1>10 DEF RunFails, Crash, Fault
  <2>2. \/ history' = history
        \/ phase[i] = "persist" /\ history' = history \union ResultRows(i)
    BY <1>10 DEF RunFails, Crash, Fault, Persist, Persisted
  <2>3. CASE history' = history
    BY <2>1, <2>3, <1>4 DEF EndRun, TypeOK
  <2> QED BY <2>1, <2>2, <2>3, <1>8
<1>11. ASSUME NEW t \in Threads,
              (\E i \in Instances : ReadCache(t, i)) \/ ReadTime(t) \/ History(t)
       PROVE  Goal'
  <2>1. UNCHANGED <<database, loop>>
    BY <1>11 DEF ReadCache, ReadTime, History
  <2> QED BY <2>1
<1>12. CASE UNCHANGED vars
  BY <1>12 DEF vars
<1> QED BY <1>1, <1>2, <1>3, <1>5, <1>6, <1>7, <1>9, <1>10, <1>11, <1>12 DEF Next, Run

(* Every step keeps the runs in the history whole, and the pages shown. *)
LEMMA CompleteStep ==
  ASSUME TypeOK, RunsAreLed, RunsComplete, HistoryShowsWholeRuns, [Next]_vars
  PROVE  RunsComplete' /\ HistoryShowsWholeRuns'
<1> DEFINE Goal == RunsComplete /\ HistoryShowsWholeRuns
(* Neither gains rows, and no page is shown that was not. *)
<1>1. ASSUME runs' = runs, history' = history,
             \A t \in Threads : request'[t] = request[t] \/ request'[t].route # "history"
      PROVE  Goal'
  BY <1>1 DEF RunsComplete, HistoryShowsWholeRuns, Complete
<1>2. ASSUME NEW i \in Instances, phase[i] = "persist",
             runs' = runs \union
               {[run |-> number[i], size |-> Cardinality(DOMAIN rows[i])]},
             history' = history \union ResultRows(i),
             \A t \in Threads : request'[t] = request[t] \/ request'[t].route # "history"
      PROVE  Goal'
  <2> DEFINE Of(set, n) == {q \in set : q.run = n}
  <2>1. /\ \A r \in history : r.run # started
        /\ \A r \in ResultRows(i) : r.run = started
        /\ number[i] = started
    <3>1. number[i] = started
      BY <1>2 DEF RunsAreLed
    <3>2. \A r \in history : r.run < started /\ r.run \in Nat
      BY <1>2 DEF RunsAreLed, TypeOK, Rows
    <3>3. started \in Nat
      BY Constants DEF TypeOK
    <3> QED BY <3>1, <3>2, <3>3 DEF ResultRows
  <2>2. \A page, r : Complete(page, r) => Complete(page, r)'
    BY <1>2 DEF Complete
  <2>3. ASSUME NEW r \in history PROVE Complete(history, r.run)'
    <3>1. Of(history', r.run) = Of(history, r.run)
      BY <1>2, <2>1
    <3>2. PICK n \in runs : n.run = r.run /\ Cardinality(Of(history, r.run)) = n.size
      BY DEF RunsComplete, Complete
    <3> QED BY <1>2, <3>1, <3>2 DEF Complete
  <2>4. ASSUME NEW r \in ResultRows(i) PROVE Complete(history, r.run)'
    <3>1. r.run = started /\ Of(history', started) = ResultRows(i)
      BY <1>2, <2>1
    <3>2. Cardinality(Of(history', started)) = Cardinality(DOMAIN rows[i])
      BY <3>1, RowsOfRun
    <3> DEFINE n == [run |-> number[i], size |-> Cardinality(DOMAIN rows[i])]
    <3>3. n \in runs' /\ n.run = r.run /\ n.size = Cardinality(DOMAIN rows[i])
      BY <1>2, <2>1, <3>1
    <3> HIDE DEF n
    <3>4. Cardinality(Of(history', r.run)) = n.size
      BY <3>1, <3>2, <3>3
    <3> QED BY <3>3, <3>4 DEF Complete
  <2>5. IsFiniteSet(history')
    BY <1>2, RowsOfRun, FS_Union DEF RunsComplete
  <2>6. RunsComplete'
    BY <1>2, <2>3, <2>4, <2>5 DEF RunsComplete
  <2>7. HistoryShowsWholeRuns'
    BY <1>2, <2>2 DEF HistoryShowsWholeRuns, Complete
  <2> QED BY <2>6, <2>7
<1>3. ASSUME NEW t \in Threads, History(t) PROVE Goal'
  <2>0. PICK wanted \in {Symbols} \union {{s} : s \in Symbols} :
          \E page \in Pages(wanted) :
            request' = [request EXCEPT ![t] =
                         [route |-> "history", wanted |-> wanted, page |-> page]]
    BY <1>3 DEF History
  <2>1. PICK page \in Pages(wanted) :
          request' = [request EXCEPT ![t] =
                       [route |-> "history", wanted |-> wanted, page |-> page]]
    BY <2>0
  <2>2. /\ request'[t].wanted = wanted /\ request'[t].page = page
        /\ \A u \in Threads \ {t} : request'[u] = request[u]
        /\ runs' = runs /\ history' = history
    BY <1>3, <2>1 DEF History, TypeOK, database
  <2>3. ASSUME wanted = Symbols, NEW r \in page,
               Cardinality(page) < PageLimit \/ \E q \in page : q.run < r.run
        PROVE  Complete(page, r.run)
    <3>1. {q \in history : q.symbol \in Symbols} = history
      BY DEF TypeOK, Rows
    <3>2. /\ page \subseteq history
          /\ Cardinality(page) = IF Cardinality(history) > PageLimit
                                 THEN PageLimit ELSE Cardinality(history)
          /\ \A p \in page, x \in history \ page : p.run >= x.run
      BY <2>3, <3>1 DEF Pages
    <3>3. \A q \in history : q.run \in Nat
      BY DEF TypeOK, Rows
    <3>4. CASE Cardinality(page) < PageLimit
      <4>1. IsFiniteSet(history) /\ Cardinality(history) \in Nat
        BY FS_CardinalityType DEF RunsComplete
      <4>2. Cardinality(page) = Cardinality(history)
        BY <3>2, <3>4, <4>1, Constants
      <4>3. page = history
        BY <3>2, <4>1, <4>2, FS_Subset
      <4> QED BY <4>3 DEF RunsComplete
    <3>5. CASE \E q \in page : q.run < r.run
      <4>1. PICK q \in page : q.run < r.run
        BY <3>5
      <4>2. ASSUME NEW x \in history, x.run = r.run PROVE x \in page
        BY <3>2, <3>3, <4>1, <4>2
      <4>3. {x \in page : x.run = r.run} = {x \in history : x.run = r.run}
        BY <3>2, <4>2
      <4>4. Complete(history, r.run)
        BY <3>2 DEF RunsComplete
      <4> QED BY <4>3, <4>4 DEF Complete
    <3> QED BY <2>3, <3>4, <3>5
  <2> QED BY <2>2, <2>3 DEF RunsComplete, HistoryShowsWholeRuns, Complete
<1>4. ASSUME NEW i \in Instances, Commit(i) PROVE Goal'
  BY <1>2, <1>4 DEF Commit, Persist, Persisted
<1>5. ASSUME NEW i \in Instances, RunFails(i) \/ Crash(i) PROVE Goal'
  <2>1. \A t \in Threads : request'[t] = request[t] \/ request'[t].route # "history"
    BY <1>5 DEF RunFails, Crash, Free
  <2>2. \/ runs' = runs /\ history' = history
        \/ phase[i] = "persist" /\ Persist(i)
    BY <1>5 DEF RunFails, Crash, Fault
  <2> QED BY <2>1, <2>2, <1>1, <1>2 DEF Persist, Persisted
<1>6. ASSUME NEW t \in Threads, (\E i \in Instances : ReadCache(t, i)) \/ ReadTime(t)
      PROVE  Goal'
  <2>1. /\ runs' = runs /\ history' = history
        /\ \A u \in Threads : u # t => request'[u] = request[u]
    BY <1>6 DEF ReadCache, ReadTime, database, TypeOK
  <2>2. request'[t].route # "history"
    <3>1. CASE ReadTime(t)
      <4>1. request[t] \in [route : {"statistics", "answered"}, host : Instances,
                            run : Nat, time : Nat]
        BY <3>1 DEF ReadTime, Requests, TypeOK
      <4> QED BY <3>1, <4>1 DEF ReadTime, TypeOK
    <3>2. CASE \E i \in Instances : ReadCache(t, i)
      BY <3>2 DEF ReadCache, Free, TypeOK
    <3> QED BY <1>6, <3>1, <3>2
  <2> QED BY <2>1, <2>2, <1>1
<1>7. CASE UNCHANGED vars
  BY <1>7, <1>1 DEF vars, database
<1>8. ASSUME NEW i \in Instances,
             \/ Lead(i) \/ StartRun(i) \/ SetResults(i) \/ SetTime(i)
             \/ \E s \in Symbols : ReadSymbol(i, s)
      PROVE  Goal'
  <2>1. runs' = runs /\ history' = history /\ request' = request
    BY <1>8 DEF Lead, StartRun, SetResults, SetTime, ReadSymbol, database
  <2> QED BY <2>1, <1>1
<1>9. ASSUME \/ \E s \in Symbols : EventFlushed(s)
             \/ \E e \in Events : EventEnds(e)
      PROVE  Goal'
  BY <1>9, <1>1 DEF EventFlushed, EventEnds
<1> QED BY <1>3, <1>4, <1>5, <1>6, <1>7, <1>8, <1>9 DEF Next, Run
-----------------------------------------------------------------------------
(* The inductive invariant of Serving: what a process shows of its cache, one
   leader's runs in order, rankings of stored events, and whole runs. *)
THEOREM Inductive == Spec => []IInv
<1>1. Init => IInv
  <2> SUFFICES ASSUME Init PROVE IInv
    OBVIOUS
  <2>1. TypeOK
    BY Constants, NoRowsTyped DEF Init, TypeOK, Phases, Requests, Free
  <2>2. StampFollows /\ ReadersBehind /\ TimeNearRows
    BY DEF Init, StampFollows, ReadersBehind, TimeNearRows, Free
  <2>3. RunsAreLed /\ RowsAreNewest /\ EvidenceNeverGoesBack
    BY DEF Init, RunsAreLed, RowsAreNewest, EvidenceNeverGoesBack, NoRows
  <2>4. RunsComplete /\ HistoryShowsWholeRuns
    BY FS_EmptySet DEF Init, RunsComplete, HistoryShowsWholeRuns, Free
  <2> QED BY <2>1, <2>2, <2>3, <2>4 DEF IInv
<1>2. IInv /\ [Next]_vars => IInv'
  BY TypeStep, TimesStep, LedStep, NewestStep, CompleteStep DEF IInv
<1> QED BY <1>1, <1>2, PTL DEF Spec

(* ranking_cache.py:21-22 under statistics.py:22 and :34: the time that is
   shown is never more than one result behind the rows. *)
THEOREM TimesShown == Spec => []TimeNearRows
<1>1. IInv => TimeNearRows
  BY DEF IInv
<1> QED BY <1>1, Inductive, PTL

(* scheduler.py:110-119 under history.py:32-35: a page shows whole runs, but
   for the one the limit cuts. *)
THEOREM WholeRuns == Spec => []HistoryShowsWholeRuns
<1>1. IInv => HistoryShowsWholeRuns
  BY DEF IInv
<1> QED BY <1>1, Inductive, PTL

(* db_behavioral_data.py:33 under scheduler.py:162: rankings of a symbol never
   return to an event received earlier. *)
THEOREM EvidenceMovesOn == Spec => []EvidenceNeverGoesBack
<1>1. IInv => EvidenceNeverGoesBack
  BY DEF IInv
<1> QED BY <1>1, Inductive, PTL
=============================================================================
