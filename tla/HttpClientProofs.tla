-------------------------- MODULE HttpClientProofs --------------------------
(***************************************************************************)
(* Proofs about HttpClient for any number of calls and any interval,       *)
(* backoff, time to live and lateness.  The inductive invariant IInv is    *)
(* taken apart: one lemma per part shows that every step preserves it.     *)
(***************************************************************************)
EXTENDS HttpClient, TLAPS

(* What is left of a queue when its i-th element leaves it. *)
LEMMA WithoutIsQueue ==
  ASSUME NEW S, NEW q \in Seq(S), NEW i \in 1..Len(q)
  PROVE  /\ Without(q, i) \in Seq(S)
         /\ Len(Without(q, i)) = Len(q) - 1
         /\ \A j \in 1..(Len(q) - 1) :
              Without(q, i)[j] = IF j < i THEN q[j] ELSE q[j + 1]
<1> DEFINE n == Len(q) - 1
<1>1. n \in Nat
  OBVIOUS
<1>2. \A j \in 1..n : (IF j < i THEN q[j] ELSE q[j + 1]) \in S
  OBVIOUS
<1>3. Without(q, i) \in [1..n -> S]
  BY <1>1, <1>2 DEF Without
<1>4. Without(q, i) \in Seq(S) /\ Len(Without(q, i)) = n
  BY <1>1, <1>3
<1> QED BY <1>4 DEF Without

(* Every step keeps the variables within their types. *)
LEMMA TypeStep ==
  ASSUME TypeOK, SleeperHoldsLock, BackoffKept, [Next]_vars
  PROVE  TypeOK'
<1> USE DEF TypeOK, Goto, SetTimer, Awaiting, Sleeping
<1>0. /\ Interval \in Nat /\ TTL \in Nat /\ MaxRetries \in Nat
      /\ \A n \in 0..MaxRetries : Delay(n) \in Nat
  BY HttpAssumption
<1> USE <1>0
<1>1. CASE Tick
  BY <1>1 DEF Tick
<1>2. ASSUME NEW c \in Calls, JoinQueue(c)
      PROVE  queue' \in Seq(Calls) /\ pc' = [pc EXCEPT ![c] = "lock"]
  BY <1>2 DEF JoinQueue
<1>3. ASSUME NEW c \in Calls, End(c), UNCHANGED <<now, last, key, latest>>,
             queue' \in Seq(Calls), expires' \in [Keys -> Nat]
      PROVE  TypeOK'
  BY <1>3 DEF End
<1>4. ASSUME NEW c \in Calls, Send(c), HasTurn(c),
             UNCHANGED <<now, key, attempt, expires>>
      PROVE  TypeOK'
  <2>1. 1 \in 1..Len(queue)
    BY <1>4 DEF HasTurn
  <2>2. queue' \in Seq(Calls)
    BY <1>4, <2>1, WithoutIsQueue DEF Send, Release
  <2> QED BY <1>4, <2>2 DEF Send, Remember
<1>5. ASSUME NEW c \in Calls, Call(c) PROVE TypeOK'
  <2>1. CASE IsCached(key[c])
    <3>1. End(c) /\ UNCHANGED <<queue, expires, now, last, key, latest>>
      BY <1>5, <2>1 DEF Call
    <3> QED BY <1>3, <3>1
  <2>2. CASE ~IsCached(key[c])
    <3>1. /\ JoinQueue(c)
          /\ expires' = [expires EXCEPT ![key[c]] = 0]
          /\ UNCHANGED <<attempt, wake, sent, now, last, key, latest>>
      BY <1>5, <2>2 DEF Call
    <3> QED BY <1>2, <3>1
  <2> QED BY <2>1, <2>2
<1>6. ASSUME NEW c \in Calls, Acquire(c) PROVE TypeOK'
  <2>1. CASE now >= last + Interval
    <3>1. Send(c) /\ HasTurn(c) /\ UNCHANGED <<now, key, attempt, expires>>
      BY <1>6, <2>1 DEF Acquire
    <3> QED BY <1>4, <3>1
  <2>2. CASE ~(now >= last + Interval)
    <3>1. last + Interval \in Nat
      OBVIOUS
    <3> QED BY <1>6, <2>2, <3>1 DEF Acquire, KeepLock
  <2> QED BY <2>1, <2>2
<1>7. ASSUME NEW c \in Calls, Paced(c) PROVE TypeOK'
  BY <1>4, <1>7 DEF Paced, SleeperHoldsLock
<1>8. ASSUME NEW c \in Calls, Respond(c) PROVE TypeOK'
  <2>1. CASE Succeed(c)
    <3>1. expires' \in [Keys -> Nat]
      <4>1. now + TTL \in Nat /\ 0 \in Nat
        OBVIOUS
      <4>2. expires' = expires \/ \E u \in Nat :
                                     expires' = [expires EXCEPT ![key[c]] = u]
        BY <2>1, <4>1 DEF Succeed, CacheSet
      <4> QED BY <4>2
    <3> QED BY <1>3, <2>1, <3>1 DEF Succeed
  <2>2. CASE Fail(c)
    <3>1. CASE MayRetry(c)
      <4>1. now + Delay(attempt[c]) \in Nat
        OBVIOUS
      <4> QED BY <2>2, <3>1, <4>1 DEF Fail, BackoffOf, MayRetry
    <3>2. CASE ~MayRetry(c)
      <4>1. End(c) /\ UNCHANGED <<now, last, queue, key, expires, latest>>
        BY <2>2, <3>2 DEF Fail
      <4> QED BY <1>3, <4>1
    <3> QED BY <3>1, <3>2
  <2>3. CASE Raise(c)
    BY <1>3, <2>3 DEF Raise
  <2> QED BY <1>8, <2>1, <2>2, <2>3 DEF Respond
<1>9. ASSUME NEW c \in Calls, Retry(c) PROVE TypeOK'
  <2>1. attempt[c] + 1 \in 0..MaxRetries
    BY <1>9 DEF Retry, BackoffKept
  <2> QED BY <1>2, <1>9, <2>1 DEF Retry
<1>10. ASSUME NEW c \in Calls, Cancel(c) PROVE TypeOK'
  <2>1. queue' \in Seq(Calls)
    BY <1>10, WithoutIsQueue DEF Cancel, LeaveQueue
  <2> QED BY <1>3, <1>10, <2>1 DEF Cancel
<1>11. CASE UNCHANGED vars
  BY <1>11 DEF vars
<1> QED
  BY <1>1, <1>5, <1>6, <1>7, <1>8, <1>9, <1>10, <1>11 DEF Next, Resume

QueueOK == QueueIsOfWaiters /\ WaitersAreQueued /\ QueuedOnce

(* A call that starts waiting is put at the end of a queue it is not in. *)
LEMMA JoinKeepsQueue ==
  ASSUME TypeOK, QueueOK, NEW c \in Calls, JoinQueue(c),
         pc[c] \notin {"lock", "pace"}
  PROVE  QueueOK'
<1> USE DEF QueueOK, QueueIsOfWaiters, WaitersAreQueued, QueuedOnce
<1>1. /\ queue \in Seq(Calls)
      /\ pc \in [Calls -> Awaiting \union {"idle", "done"}]
  BY DEF TypeOK
<1>2. /\ Len(queue') = Len(queue) + 1
      /\ \A i \in 1..Len(queue) : queue'[i] = queue[i]
      /\ queue'[Len(queue) + 1] = c
  BY <1>1 DEF JoinQueue
<1>3. pc' = [pc EXCEPT ![c] = "lock"]
  BY DEF JoinQueue, Goto
<1>4. \A i \in 1..Len(queue) : queue[i] \in Calls /\ queue[i] # c
  BY <1>1
<1>5. QueueIsOfWaiters'
  BY <1>1, <1>2, <1>3, <1>4
<1>6. WaitersAreQueued'
  <2> SUFFICES ASSUME NEW x \in Calls, pc'[x] \in {"lock", "pace"}
               PROVE  \E i \in 1..Len(queue') : queue'[i] = x
    OBVIOUS
  <2>1. CASE x = c
    BY <1>1, <1>2, <2>1
  <2>2. CASE x # c
    BY <1>1, <1>2, <1>3, <2>2
  <2> QED BY <2>1, <2>2
<1>7. QueuedOnce'
  <2> SUFFICES ASSUME NEW i \in 1..Len(queue'), NEW j \in 1..Len(queue'),
                      queue'[i] = queue'[j]
               PROVE  i = j
    OBVIOUS
  <2>1. Len(queue) \in Nat
    BY <1>1
  <2>2. \A k \in 1..Len(queue') : k \in 1..Len(queue) \/ k = Len(queue) + 1
    BY <1>2, <2>1
  <2> QED BY <1>2, <1>4, <2>2
<1> QED BY <1>5, <1>6, <1>7

(* A call that stops waiting takes its one place in the queue with it. *)
LEMMA LeaveKeepsQueue ==
  ASSUME TypeOK, QueueOK, NEW c \in Calls, NEW l, Goto(c, l),
         l \notin {"lock", "pace"},
         NEW i \in 1..Len(queue), queue[i] = c, queue' = Without(queue, i)
  PROVE  QueueOK'
<1>1. /\ queue \in Seq(Calls)
      /\ pc \in [Calls -> Awaiting \union {"idle", "done"}]
  BY DEF TypeOK
<1>2. /\ Len(queue') = Len(queue) - 1
      /\ \A j \in 1..(Len(queue) - 1) :
           queue'[j] = IF j < i THEN queue[j] ELSE queue[j + 1]
  <2>1. /\ Len(Without(queue, i)) = Len(queue) - 1
        /\ \A j \in 1..(Len(queue) - 1) :
             Without(queue, i)[j] = IF j < i THEN queue[j] ELSE queue[j + 1]
    BY <1>1, WithoutIsQueue
  <2> QED BY <2>1
<1> USE DEF QueueOK, QueueIsOfWaiters, WaitersAreQueued, QueuedOnce
<1>3. \A x \in Calls \ {c} : pc'[x] = pc[x]
  BY <1>1 DEF Goto
<1>4. pc'[c] = l
  BY <1>1 DEF Goto
<1>5. \A j \in 1..Len(queue) : queue[j] \in Calls /\ (j # i => queue[j] # c)
  BY <1>1
<1>6. QueueIsOfWaiters'
  BY <1>1, <1>2, <1>3, <1>5
<1>7. WaitersAreQueued'
  <2> SUFFICES ASSUME NEW x \in Calls, pc'[x] \in {"lock", "pace"}
               PROVE  \E j \in 1..Len(queue') : queue'[j] = x
    OBVIOUS
  <2>1. x # c
    BY <1>4
  <2>2. PICK j \in 1..Len(queue) : queue[j] = x
    BY <1>3, <2>1
  <2>3. j < i \/ j > i
    BY <2>1, <2>2
  <2>4. CASE j < i
    <3>1. j \in 1..(Len(queue) - 1)
      BY <1>1, <2>4
    <3>2. queue'[j] = x
      BY <1>2, <2>2, <2>4, <3>1
    <3>3. j \in 1..Len(queue')
      BY <1>2, <3>1
    <3> QED BY <3>2, <3>3
  <2>5. CASE j > i
    <3>1. j - 1 \in 1..(Len(queue) - 1) /\ ~(j - 1 < i) /\ (j - 1) + 1 = j
      BY <1>1, <2>5
    <3>2. queue'[j - 1] = x
      BY <1>2, <2>2, <3>1
    <3>3. j - 1 \in 1..Len(queue')
      BY <1>2, <3>1
    <3> QED BY <3>2, <3>3
  <2> QED BY <2>3, <2>4, <2>5
<1>8. QueuedOnce'
  <2> SUFFICES ASSUME NEW j \in 1..Len(queue'), NEW k \in 1..Len(queue'),
                      queue'[j] = queue'[k]
               PROVE  j = k
    OBVIOUS
  <2> DEFINE Old(m) == IF m < i THEN m ELSE m + 1
  <2>1. j \in 1..(Len(queue) - 1) /\ k \in 1..(Len(queue) - 1)
    BY <1>2
  <2>2. Old(j) \in 1..Len(queue) /\ Old(k) \in 1..Len(queue)
    BY <1>1, <2>1
  <2>3. queue'[j] = queue[Old(j)] /\ queue'[k] = queue[Old(k)]
    BY <1>2, <2>1
  <2>4. Old(j) = Old(k)
    BY <2>2, <2>3
  <2> QED BY <1>1, <2>1, <2>4
<1> QED BY <1>6, <1>7, <1>8

(* Every step keeps the queue that of the waiting calls, each once. *)
LEMMA QueueStep ==
  ASSUME TypeOK, QueueOK, SleeperHoldsLock, [Next]_vars
  PROVE  QueueOK'
<1>1. ASSUME UNCHANGED <<queue, pc>> PROVE QueueOK'
  BY <1>1 DEF QueueOK, QueueIsOfWaiters, WaitersAreQueued, QueuedOnce
<1>2. ASSUME NEW c \in Calls, NEW l, Goto(c, l), UNCHANGED queue,
             (pc[c] \in {"lock", "pace"}) <=> (l \in {"lock", "pace"})
      PROVE  QueueOK'
  <2>1. /\ queue \in Seq(Calls)
        /\ pc \in [Calls -> Awaiting \union {"idle", "done"}]
    BY DEF TypeOK
  <2>2. \A x \in Calls : (pc'[x] \in {"lock", "pace"})
                           <=> (pc[x] \in {"lock", "pace"})
    BY <1>2, <2>1 DEF Goto
  <2>3. \A i \in 1..Len(queue) : queue[i] \in Calls
    BY <2>1
  <2> QED BY <1>2, <2>2, <2>3
             DEF QueueOK, QueueIsOfWaiters, WaitersAreQueued, QueuedOnce
<1>3. ASSUME NEW c \in Calls, Send(c), HasTurn(c) PROVE QueueOK'
  <2>1. 1 \in 1..Len(queue) /\ queue[1] = c
    BY <1>3 DEF HasTurn, TypeOK
  <2> QED BY <1>3, <2>1, LeaveKeepsQueue DEF Send, Release
<1>4. CASE Tick
  BY <1>1, <1>4 DEF Tick
<1>5. ASSUME NEW c \in Calls, Call(c) PROVE QueueOK'
  BY <1>2, <1>5, JoinKeepsQueue DEF Call, End
<1>6. ASSUME NEW c \in Calls, Acquire(c) PROVE QueueOK'
  BY <1>2, <1>3, <1>6 DEF Acquire, KeepLock
<1>7. ASSUME NEW c \in Calls, Paced(c) PROVE QueueOK'
  BY <1>3, <1>7 DEF Paced, SleeperHoldsLock
<1>8. ASSUME NEW c \in Calls, Respond(c) PROVE QueueOK'
  BY <1>2, <1>8 DEF Respond, Succeed, Fail, Raise, End
<1>9. ASSUME NEW c \in Calls, Retry(c) PROVE QueueOK'
  BY <1>9, JoinKeepsQueue DEF Retry
<1>10. ASSUME NEW c \in Calls, Cancel(c) PROVE QueueOK'
  BY <1>2, <1>10, LeaveKeepsQueue DEF Cancel, End, LeaveQueue
<1>11. CASE UNCHANGED vars
  BY <1>1, <1>11 DEF vars
<1> QED
  BY <1>4, <1>5, <1>6, <1>7, <1>8, <1>9, <1>10, <1>11 DEF Next, Resume

(* Every step leaves a sleeper in the limiter its lock and its interval. *)
LEMMA SleeperStep ==
  ASSUME TypeOK, QueueOK, SleeperHoldsLock, [Next]_vars
  PROVE  SleeperHoldsLock'
<1> USE DEF SleeperHoldsLock, HasTurn
<1>0. /\ queue \in Seq(Calls)
      /\ pc \in [Calls -> Awaiting \union {"idle", "done"}]
      /\ wake \in [Calls -> Nat]
      /\ now \in Nat /\ last \in Nat /\ Interval \in Nat
  BY HttpAssumption DEF TypeOK
<1>1. ASSUME NEW c \in Calls, NEW l, NEW t, Goto(c, l), SetTimer(c, t),
             l # "pace", UNCHANGED <<queue, last>>
      PROVE  SleeperHoldsLock'
  BY <1>0, <1>1 DEF Goto, SetTimer
<1>2. ASSUME NEW c \in Calls, JoinQueue(c), UNCHANGED last,
             \A x \in Calls \ {c} : wake'[x] = wake[x]
      PROVE  SleeperHoldsLock'
  <2>1. \A x \in Calls : pc'[x] = "pace" => x # c /\ pc[x] = "pace"
    BY <1>0, <1>2 DEF JoinQueue, Goto
  <2>2. queue # <<>> => queue' # <<>> /\ queue'[1] = queue[1]
    BY <1>0, <1>2 DEF JoinQueue
  <2> QED BY <1>2, <2>1, <2>2
<1>3. ASSUME NEW c \in Calls, HasTurn(c), Goto(c, "flight")
      PROVE  SleeperHoldsLock'
  BY <1>0, <1>3 DEF Goto
<1>4. CASE Tick
  BY <1>4 DEF Tick
<1>5. ASSUME NEW c \in Calls, Call(c) PROVE SleeperHoldsLock'
  <2>1. CASE IsCached(key[c])
    BY <1>1, <1>5, <2>1 DEF Call, End
  <2>2. CASE ~IsCached(key[c])
    BY <1>2, <1>5, <2>2 DEF Call
  <2> QED BY <2>1, <2>2
<1>6. ASSUME NEW c \in Calls, Acquire(c) PROVE SleeperHoldsLock'
  <2>1. CASE now >= last + Interval
    BY <1>3, <1>6, <2>1 DEF Acquire, Send
  <2>2. CASE ~(now >= last + Interval)
    BY <1>0, <1>6, <2>2 DEF Acquire, KeepLock, Goto, SetTimer
  <2> QED BY <2>1, <2>2
<1>7. ASSUME NEW c \in Calls, Paced(c) PROVE SleeperHoldsLock'
  BY <1>3, <1>7 DEF Paced, Send
<1>8. ASSUME NEW c \in Calls, Respond(c) PROVE SleeperHoldsLock'
  BY <1>1, <1>8 DEF Respond, Succeed, Fail, Raise, End
<1>9. ASSUME NEW c \in Calls, Retry(c) PROVE SleeperHoldsLock'
  BY <1>0, <1>2, <1>9 DEF Retry, SetTimer
<1>10. ASSUME NEW c \in Calls, Cancel(c) PROVE SleeperHoldsLock'
  <2>1. /\ \A x \in Calls : pc'[x] = "pace" => x # c /\ pc[x] = "pace"
        /\ \A x \in Calls \ {c} : wake'[x] = wake[x]
        /\ UNCHANGED last
    BY <1>0, <1>10 DEF Cancel, End, Goto, SetTimer
  <2>2. CASE pc[c] \notin {"lock", "pace"}
    BY <1>10, <2>1, <2>2 DEF Cancel, LeaveQueue
  <2>3. CASE pc[c] \in {"lock", "pace"}
    <3>1. PICK i \in 1..Len(queue) : queue[i] = c /\ queue' = Without(queue, i)
      BY <1>10, <2>3 DEF Cancel, LeaveQueue
    <3>2. SUFFICES ASSUME NEW x \in Calls, pc'[x] = "pace"
                   PROVE  HasTurn(x)' /\ wake'[x] >= last' + Interval
      OBVIOUS
    <3>3. queue[1] = x /\ x # c /\ wake[x] >= last + Interval
      BY <2>1, <3>2
    <3>4. i > 1 /\ Len(queue) > 1
      BY <1>0, <3>1, <3>3
    <3>5. /\ Without(queue, i)[1] = queue[1]
          /\ Len(Without(queue, i)) > 0
      <4>1. 1 \in 1..(Len(queue) - 1) /\ Len(queue) - 1 > 0 /\ 1 < i
        BY <1>0, <3>1, <3>4
      <4> QED BY <1>0, <3>1, <4>1, WithoutIsQueue
    <3> QED BY <2>1, <3>1, <3>3, <3>5
  <2> QED BY <2>2, <2>3
<1>11. CASE UNCHANGED vars
  BY <1>11 DEF vars
<1> QED
  BY <1>4, <1>5, <1>6, <1>7, <1>8, <1>9, <1>10, <1>11 DEF Next, Resume

(* Every step keeps the limiter's memory the latest of all requests. *)
LEMMA LatestStep ==
  ASSUME TypeOK, LastIsLatest, [Next]_vars
  PROVE  LastIsLatest'
<1> USE DEF LastIsLatest
<1>0. /\ now \in Nat /\ last \in Nat /\ latest \in Nat
      /\ sent \in [Calls -> Nat]
  BY DEF TypeOK
<1>1. ASSUME UNCHANGED <<now, last, latest, sent>> PROVE LastIsLatest'
  BY <1>1
<1>2. ASSUME NEW c \in Calls, End(c), UNCHANGED <<now, last, latest>>
      PROVE  LastIsLatest'
  BY <1>0, <1>2 DEF End
<1>3. ASSUME NEW c \in Calls, Send(c), UNCHANGED now PROVE LastIsLatest'
  BY <1>0, <1>3 DEF Send, Remember
<1>4. CASE Tick
  BY <1>0, <1>4 DEF Tick
<1>5. ASSUME NEW c \in Calls, Call(c) PROVE LastIsLatest'
  BY <1>1, <1>2, <1>5 DEF Call
<1>6. ASSUME NEW c \in Calls, Resume(c) PROVE LastIsLatest'
  BY <1>1, <1>3, <1>6 DEF Resume, Acquire, Paced, Retry
<1>7. ASSUME NEW c \in Calls, Respond(c) PROVE LastIsLatest'
  BY <1>1, <1>2, <1>7 DEF Respond, Succeed, Fail, Raise
<1>8. ASSUME NEW c \in Calls, Cancel(c) PROVE LastIsLatest'
  BY <1>2, <1>8 DEF Cancel
<1>9. CASE UNCHANGED vars
  BY <1>1, <1>9 DEF vars
<1> QED BY <1>4, <1>5, <1>6, <1>7, <1>8, <1>9 DEF Next

(* Every step leaves a retry the backoff it has waited or is waiting for. *)
LEMMA BackoffStep ==
  ASSUME TypeOK, SleeperHoldsLock, LastIsLatest, BackoffKept, [Next]_vars
  PROVE  BackoffKept'
<1> DEFINE Kept(x) ==
      /\ pc[x] = "backoff" => /\ wake[x] >= sent[x] + Delay(attempt[x])
                              /\ attempt[x] < MaxRetries
      /\ pc[x] \in {"lock", "pace"} /\ attempt[x] # 0
           => now >= sent[x] + Delay(attempt[x] - 1)
      /\ pc[x] = "idle" => attempt[x] = 0
<1>0. /\ pc \in [Calls -> Awaiting \union {"idle", "done"}]
      /\ wake \in [Calls -> Nat] /\ sent \in [Calls -> Nat]
      /\ attempt \in [Calls -> 0..MaxRetries]
      /\ now \in Nat /\ last \in Nat /\ latest \in Nat /\ MaxRetries \in Nat
      /\ \A n \in 0..MaxRetries : Delay(n) \in Nat
  BY HttpAssumption DEF TypeOK
<1>1. \A x \in Calls : Kept(x)
  BY DEF BackoffKept
<1>2. SUFFICES ASSUME NEW x \in Calls PROVE Kept(x)'
  BY DEF BackoffKept
<1>3. ASSUME pc'[x] = pc[x], wake'[x] = wake[x], sent'[x] = sent[x],
             attempt'[x] = attempt[x], now' = now
      PROVE  Kept(x)'
  BY <1>1, <1>3
<1>4. ASSUME pc'[x] \in {"flight", "done"} PROVE Kept(x)'
  BY <1>4
<1>5. ASSUME NEW c \in Calls, End(c), UNCHANGED now PROVE Kept(x)'
  <2>1. CASE x = c
    BY <1>0, <1>4, <1>5, <2>1 DEF End, Goto
  <2>2. CASE x # c
    BY <1>0, <1>3, <1>5, <2>2 DEF End, Goto, SetTimer
  <2> QED BY <2>1, <2>2
<1>6. ASSUME NEW c \in Calls, Send(c), UNCHANGED <<now, attempt>>
      PROVE  Kept(x)'
  <2>1. CASE x = c
    BY <1>0, <1>4, <1>6, <2>1 DEF Send, Goto
  <2>2. CASE x # c
    BY <1>0, <1>3, <1>6, <2>2 DEF Send, Goto, SetTimer
  <2> QED BY <2>1, <2>2
<1>7. CASE Tick
  <2>1. now' = now + 1 /\ UNCHANGED <<pc, wake, sent, attempt>>
    BY <1>7 DEF Tick
  <2>2. attempt[x] # 0 => Delay(attempt[x] - 1) \in Nat
    BY <1>0
  <2> QED BY <1>0, <1>1, <2>1, <2>2
<1>8. ASSUME NEW c \in Calls, Call(c) PROVE Kept(x)'
  <2>1. CASE IsCached(key[c])
    BY <1>5, <1>8, <2>1 DEF Call
  <2>2. CASE ~IsCached(key[c])
    <3>1. Goto(c, "lock") /\ UNCHANGED <<wake, sent, attempt, now>>
      BY <1>8, <2>2 DEF Call, JoinQueue
    <3>2. attempt[c] = 0
      BY <1>1, <1>8 DEF Call
    <3> QED BY <1>0, <1>3, <3>1, <3>2 DEF Goto
  <2> QED BY <2>1, <2>2
<1>9. ASSUME NEW c \in Calls, Acquire(c) PROVE Kept(x)'
  <2>1. CASE now >= last + Interval
    BY <1>6, <1>9, <2>1 DEF Acquire
  <2>2. CASE ~(now >= last + Interval)
    <3>1. /\ pc[c] = "lock" /\ Goto(c, "pace")
          /\ UNCHANGED <<sent, attempt, now>>
          /\ wake' = [wake EXCEPT ![c] = last + Interval]
      BY <1>9, <2>2 DEF Acquire, SetTimer
    <3>2. CASE x = c
      BY <1>0, <1>1, <3>1, <3>2 DEF Goto
    <3>3. CASE x # c
      BY <1>0, <1>3, <3>1, <3>3 DEF Goto
    <3> QED BY <3>2, <3>3
  <2> QED BY <2>1, <2>2
<1>10. ASSUME NEW c \in Calls, Paced(c) PROVE Kept(x)'
  BY <1>6, <1>10 DEF Paced
<1>11. ASSUME NEW c \in Calls, Respond(c) PROVE Kept(x)'
  <2>1. CASE Succeed(c) \/ Raise(c)
    BY <1>5, <2>1 DEF Succeed, Raise
  <2>2. CASE Fail(c) /\ ~MayRetry(c)
    BY <1>5, <2>2 DEF Fail
  <2>3. CASE Fail(c) /\ MayRetry(c)
    <3>1. /\ Goto(c, "backoff") /\ SetTimer(c, now + Delay(attempt[c]))
          /\ UNCHANGED <<attempt, sent, now>>
      BY <2>3 DEF Fail, BackoffOf
    <3>2. attempt[c] < MaxRetries
      BY <2>3 DEF MayRetry
    <3>3. CASE x = c
      <4>1. pc'[x] = "backoff" /\ wake'[x] = now + Delay(attempt[x])
        BY <1>0, <3>1, <3>3 DEF Goto, SetTimer
      <4>2. sent[x] <= now /\ Delay(attempt[x]) \in Nat
        BY <1>0 DEF LastIsLatest
      <4> QED BY <1>0, <3>1, <3>2, <3>3, <4>1, <4>2
    <3>4. CASE x # c
      BY <1>0, <1>3, <3>1, <3>4 DEF Goto, SetTimer
    <3> QED BY <3>3, <3>4
  <2> QED BY <1>11, <2>1, <2>2, <2>3 DEF Respond
<1>12. ASSUME NEW c \in Calls, Retry(c) PROVE Kept(x)'
  <2>1. /\ pc[c] = "backoff" /\ now >= wake[c]
        /\ attempt' = [attempt EXCEPT ![c] = attempt[c] + 1]
        /\ Goto(c, "lock") /\ SetTimer(c, 0) /\ UNCHANGED <<sent, now>>
    BY <1>12 DEF Retry, JoinQueue
  <2>2. CASE x = c
    <3>1. pc'[x] = "lock" /\ attempt'[x] - 1 = attempt[x]
      BY <1>0, <2>1, <2>2 DEF Goto
    <3>2. now >= sent[x] + Delay(attempt[x])
      <4>1. Delay(attempt[x]) \in Nat
        BY <1>0
      <4> QED BY <1>0, <1>1, <2>1, <2>2, <4>1
    <3> QED BY <2>1, <3>1, <3>2
  <2>3. CASE x # c
    BY <1>0, <1>3, <2>1, <2>3 DEF Goto, SetTimer
  <2> QED BY <2>2, <2>3
<1>13. ASSUME NEW c \in Calls, Cancel(c) PROVE Kept(x)'
  BY <1>5, <1>13 DEF Cancel
<1>14. CASE UNCHANGED vars
  BY <1>3, <1>14 DEF vars
<1> QED
  BY <1>7, <1>8, <1>9, <1>10, <1>11, <1>12, <1>13, <1>14 DEF Next, Resume
-----------------------------------------------------------------------------
(* IInv holds at the start and is preserved by every step, so it holds in
   every reachable state of a client, whatever the values of its constants. *)
THEOREM Inductive == Spec => []IInv
<1>1. Init => IInv
  <2> SUFFICES ASSUME Init PROVE IInv
    OBVIOUS
  <2>1. TypeOK /\ LastIsLatest
    BY HttpAssumption DEF Init, TypeOK, LastIsLatest, Awaiting, Sleeping
  <2>2. /\ QueueIsOfWaiters /\ WaitersAreQueued /\ QueuedOnce
        /\ SleeperHoldsLock /\ BackoffKept
    BY DEF Init, QueueIsOfWaiters, WaitersAreQueued, QueuedOnce,
           SleeperHoldsLock, BackoffKept
  <2> QED BY <2>1, <2>2 DEF IInv
<1>2. IInv /\ [Next]_vars => IInv'
  BY TypeStep, QueueStep, SleeperStep, LatestStep, BackoffStep
  DEF IInv, QueueOK
<1> QED BY <1>1, <1>2, PTL DEF Spec

(* The types, and that no call is in an attempt after its last. *)
THEOREM TypeCorrect == Spec => []TypeOK
<1>1. IInv => TypeOK
  BY DEF IInv
<1> QED BY <1>1, Inductive, PTL

(* A request is sent when the limiter lets a call go, by nothing else. *)
LEMMA SentByTheLimiter ==
  ASSUME IInv, [Next]_vars, NEW c \in Calls, Sends(c)
  PROVE  now >= last + Interval /\ pc[c] \in {"lock", "pace"}
<1> USE DEF Sends
<1>0. pc \in [Calls -> Awaiting \union {"idle", "done"}]
  BY DEF IInv, TypeOK
<1>1. ASSUME NEW d \in Calls, NEW l, Goto(d, l), l # "flight" PROVE FALSE
  BY <1>0, <1>1 DEF Goto
<1>2. ASSUME NEW d \in Calls, Goto(d, "flight") PROVE c = d
  BY <1>0, <1>2 DEF Goto
<1>3. ASSUME UNCHANGED pc PROVE FALSE
  BY <1>3
<1>4. Tick => FALSE
  BY <1>3 DEF Tick
<1>5. ASSUME NEW d \in Calls, Call(d) PROVE FALSE
  BY <1>1, <1>5 DEF Call, End, JoinQueue
<1>6. ASSUME NEW d \in Calls, Acquire(d)
      PROVE  now >= last + Interval /\ pc[c] \in {"lock", "pace"}
  BY <1>1, <1>2, <1>6 DEF Acquire, Send
<1>7. ASSUME NEW d \in Calls, Paced(d)
      PROVE  now >= last + Interval /\ pc[c] \in {"lock", "pace"}
  <2>1. c = d
    BY <1>2, <1>7 DEF Paced, Send
  <2>2. wake[c] >= last + Interval
    BY <1>7, <2>1 DEF Paced, IInv, SleeperHoldsLock
  <2>3. now \in Nat /\ wake[c] \in Nat /\ last \in Nat /\ Interval \in Nat
    BY HttpAssumption DEF IInv, TypeOK
  <2> QED BY <1>7, <2>1, <2>2, <2>3 DEF Paced
<1>8. ASSUME NEW d \in Calls, Respond(d) PROVE FALSE
  BY <1>1, <1>8 DEF Respond, Succeed, Fail, Raise, End
<1>9. ASSUME NEW d \in Calls, Retry(d) PROVE FALSE
  BY <1>1, <1>9 DEF Retry, JoinQueue
<1>10. ASSUME NEW d \in Calls, Cancel(d) PROVE FALSE
  BY <1>1, <1>10 DEF Cancel, End
<1>11. UNCHANGED vars => FALSE
  BY <1>3 DEF vars
<1> QED
  BY <1>4, <1>5, <1>6, <1>7, <1>8, <1>9, <1>10, <1>11 DEF Next, Resume

(* For any number of calls, cancelled and retried in any order, and any
   lateness of the event loop, two requests are at least Interval apart. *)
THEOREM Spaced == Spec => RequestsSpaced
<1> DEFINE Step == \A c \in Calls :
                     Sends(c) /\ latest # 0 => now >= latest + Interval
<1>1. IInv /\ [Next]_vars => Step
  <2> SUFFICES ASSUME IInv, [Next]_vars, NEW c \in Calls, Sends(c)
               PROVE  now >= latest + Interval
    OBVIOUS
  <2>1. now >= last + Interval
    BY SentByTheLimiter
  <2>2. latest <= last
    BY DEF IInv, LastIsLatest
  <2>3. now \in Nat /\ latest \in Nat /\ last \in Nat /\ Interval \in Nat
    BY HttpAssumption DEF IInv, TypeOK
  <2> QED BY <2>1, <2>2, <2>3
<1>2. IInv /\ [Next]_vars => [Step]_vars
  BY <1>1
<1> QED BY <1>2, Inductive, PTL DEF Spec, RequestsSpaced

(* For any number of calls and any backoff, no retry is sent earlier than
   the backoff of the attempt that failed. *)
THEOREM BackedOff == Spec => RetriesBackOff
<1> DEFINE Step == \A c \in Calls : Sends(c) /\ attempt[c] # 0
                                      => now >= sent[c] + Delay(attempt[c] - 1)
<1>1. IInv /\ [Next]_vars => Step
  BY SentByTheLimiter DEF IInv, BackoffKept
<1>2. IInv /\ [Next]_vars => [Step]_vars
  BY <1>1
<1> QED BY <1>2, Inductive, PTL DEF Spec, RetriesBackOff
=============================================================================
