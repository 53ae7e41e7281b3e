----------------------------- MODULE HttpClient -----------------------------
(***************************************************************************)
(* The HTTP client of the vendor providers (app/providers/http_client.py): *)
(* ResilientHttpClient.get_json with its RateLimiter and its TTLCache, for *)
(* concurrent calls of one client object.                                  *)
(*                                                                         *)
(* A call runs from one await to the next; it may be cancelled at each.    *)
(* An uncontended lock is an await like any other: the call gets it one    *)
(* step later.  Time passes in ticks; a call that sleeps is resumed at most*)
(* MaxLate ticks after its timer is due.                                   *)
(***************************************************************************)
EXTENDS Naturals, Sequences

CONSTANTS
  Calls,       \* calls of get_json: each is made at most once
  Keys,        \* cache keys: URL and parameters
  Interval,    \* ticks between requests, 0 without a rate limit
  TTL,         \* HTTP_CACHE_TTL_SECONDS in ticks
  MaxRetries,  \* HTTP_MAX_RETRIES
  Backoff,     \* HTTP_RETRY_BACKOFF_SECONDS in ticks
  MaxLate,     \* bound on the lateness of the event loop
  MaxTime      \* bound on the clock while nobody sleeps

(* The wait after the failure of attempt n (http_client.py:114). *)
Delay(n) == Backoff * 2^n

ASSUME HttpAssumption ==
  /\ {Interval, TTL, MaxRetries, Backoff, MaxLate, MaxTime} \subseteq Nat
  /\ \A n \in 0..MaxRetries : Delay(n) \in Nat

VARIABLES
  now,      \* time.monotonic()
  last,     \* _last_request_at
  queue,    \* the asyncio.Lock: its head holds it or is next to hold it
  pc,       \* the await each call is in
  key,      \* its cache key
  attempt,  \* its loop variable
  wake,     \* when its timer is due
  expires,  \* the cache: expires_at of each entry, 0 for none
  sent,     \* history: when its last request was sent, 0 for never
  latest    \* history: the latest request of all calls, 0 for never

vars == <<now, last, queue, pc, key, attempt, wake, expires, sent, latest>>

Sleeping == {"pace", "backoff"}
Awaiting == Sleeping \union {"lock", "flight"}

Goto(c, l) == pc' = [pc EXCEPT ![c] = l]
SetTimer(c, t) == wake' = [wake EXCEPT ![c] = t]

(* get_json returns or raises; its locals are gone. *)
End(c) == /\ Goto(c, "done")
          /\ attempt' = [attempt EXCEPT ![c] = 0]
          /\ SetTimer(c, 0)
          /\ sent' = [sent EXCEPT ![c] = 0]

(* A queue without its i-th element. *)
Without(q, i) ==
  [j \in 1..(Len(q) - 1) |-> IF j < i THEN q[j] ELSE q[j + 1]]

(* The clock has run for a while when the process starts. *)
Init ==
  /\ now = Interval + 1
  /\ last = 0
  /\ queue = <<>>
  /\ pc = [c \in Calls |-> "idle"]
  /\ key \in [Calls -> Keys]
  /\ attempt = [c \in Calls |-> 0]
  /\ wake = [c \in Calls |-> 0]
  /\ expires = [k \in Keys |-> 0]
  /\ sent = [c \in Calls |-> 0]
  /\ latest = 0
-----------------------------------------------------------------------------
IsCached(k) == expires[k] # 0 /\ now <= expires[k]

(* TTLCache.set; a null body is stored like a missing entry. *)
CacheSet(k) ==
  IF TTL = 0 THEN UNCHANGED expires
  ELSE \E until \in {now + TTL, 0} : expires' = [expires EXCEPT ![k] = until]

(* `async with self._lock`: the call joins the waiters of the lock. *)
JoinQueue(c) == Goto(c, "lock") /\ queue' = Append(queue, c)

(* get_json is called: a hit is answered at once, an expired entry deleted. *)
Call(c) ==
  /\ pc[c] = "idle"
  /\ IF IsCached(key[c])
     THEN End(c) /\ UNCHANGED <<queue, expires>>
     ELSE /\ JoinQueue(c)
          /\ expires' = [expires EXCEPT ![key[c]] = 0]
          /\ UNCHANGED <<attempt, wake, sent>>
  /\ UNCHANGED <<now, last, key, latest>>

HasTurn(c) == queue # <<>> /\ queue[1] = c

Release == queue' = Without(queue, 1)

(* `_last_request_at = time.monotonic()` after the sleep; the mutant adds the
   interval to the time before. *)
RememberDue == last' = last + Interval
Remember    == last' = now

(* The sleep is inside `async with`; in the mutant it is not. *)
DropLock == Release
KeepLock == UNCHANGED queue

(* The limiter lets the call go: the lock is released and the request sent
   with no await between. *)
Send(c) ==
  /\ Remember
  /\ Release
  /\ Goto(c, "flight")
  /\ SetTimer(c, 0)
  /\ sent' = [sent EXCEPT ![c] = now]
  /\ latest' = now

(* The call gets the lock: it sleeps in it until the interval is over. *)
Acquire(c) ==
  /\ pc[c] = "lock"
  /\ HasTurn(c)
  /\ IF now >= last + Interval
     THEN Send(c)
     ELSE /\ Goto(c, "pace")
          /\ SetTimer(c, last + Interval)
          /\ KeepLock
          /\ UNCHANGED <<last, sent, latest>>
  /\ UNCHANGED <<now, key, attempt, expires>>

Paced(c) ==
  /\ pc[c] = "pace"
  /\ now >= wake[c]
  /\ Send(c)
  /\ UNCHANGED <<now, key, attempt, expires>>
-----------------------------------------------------------------------------
Succeed(c) ==
  /\ pc[c] = "flight"
  /\ CacheSet(key[c])
  /\ End(c)
  /\ UNCHANGED <<now, last, queue, key, latest>>

MayRetry(c) == attempt[c] < MaxRetries

(* The mutant backs off linearly. *)
LinearBackoff(n) == Backoff * n
BackoffOf(n)     == Delay(n)

(* 429, a 5xx, a timeout or another transport error. *)
Fail(c) ==
  /\ pc[c] = "flight"
  /\ IF MayRetry(c)
     THEN /\ Goto(c, "backoff")
          /\ SetTimer(c, now + BackoffOf(attempt[c]))
          /\ UNCHANGED <<attempt, sent>>
     ELSE End(c)
  /\ UNCHANGED <<now, last, queue, key, expires, latest>>

(* Any other status, or a body that is not JSON: not caught, not retried. *)
Raise(c) ==
  /\ pc[c] = "flight"
  /\ End(c)
  /\ UNCHANGED <<now, last, queue, key, expires, latest>>

Retry(c) ==
  /\ pc[c] = "backoff"
  /\ now >= wake[c]
  /\ attempt' = [attempt EXCEPT ![c] = @ + 1]
  /\ SetTimer(c, 0)
  /\ JoinQueue(c)
  /\ UNCHANGED <<now, last, key, expires, sent, latest>>

(* `async with` releases the lock, or drops the waiter, of a cancelled call;
   in the mutant a waiter keeps its place. *)
LeaveAsHolder(c) ==
  IF pc[c] = "pace" THEN Release ELSE UNCHANGED queue
LeaveQueue(c) ==
  IF pc[c] \in {"lock", "pace"}
  THEN \E i \in 1..Len(queue) : queue[i] = c /\ queue' = Without(queue, i)
  ELSE UNCHANGED queue

(* The task of the call is cancelled: the scheduler stops (main.py). *)
Cancel(c) ==
  /\ pc[c] \in Awaiting
  /\ LeaveQueue(c)
  /\ End(c)
  /\ UNCHANGED <<now, last, key, expires, latest>>

Tick ==
  /\ now < MaxTime \/ \E c \in Calls : pc[c] \in Sleeping
  /\ \A c \in Calls : pc[c] \in Sleeping => now < wake[c] + MaxLate
  /\ now' = now + 1
  /\ UNCHANGED <<last, queue, pc, key, attempt, wake, expires, sent, latest>>

Respond(c) == Succeed(c) \/ Fail(c) \/ Raise(c)
Resume(c)  == Acquire(c) \/ Paced(c) \/ Retry(c)

Next == Tick \/ \E c \in Calls : Call(c) \/ Resume(c) \/ Respond(c) \/ Cancel(c)

Spec == Init /\ [][Next]_vars

(* Time passes, the event loop resumes a call that can go on, and httpx
   answers or times out. *)
FairSpec ==
  /\ Spec
  /\ WF_vars(Tick)
  /\ \A c \in Calls : WF_vars(Resume(c)) /\ WF_vars(Respond(c))
-----------------------------------------------------------------------------
(* Every variable keeps its type; no call is in an attempt after its last. *)
TypeOK ==
  /\ now \in Nat /\ last \in Nat
  /\ queue \in Seq(Calls)
  /\ pc \in [Calls -> Awaiting \union {"idle", "done"}]
  /\ key \in [Calls -> Keys]
  /\ attempt \in [Calls -> 0..MaxRetries]
  /\ wake \in [Calls -> Nat]
  /\ expires \in [Keys -> Nat]
  /\ sent \in [Calls -> Nat]
  /\ latest \in Nat

Sends(c) == pc[c] # "flight" /\ pc'[c] = "flight"

(* Two requests of a client are never sent closer together than its rate
   allows, however its calls wait, sleep in the lock, retry or are cancelled
   (http_client.py:27-28 "at most N requests per second, spaced evenly"). *)
RequestsSpaced ==
  [][\A c \in Calls :
       Sends(c) /\ latest # 0 => now >= latest + Interval]_vars

(* A retry waits at least the backoff of the attempt that failed, also when
   it has to queue for the limiter again (http_client.py:114). *)
RetriesBackOff ==
  [][\A c \in Calls :
       Sends(c) /\ attempt[c] # 0 => now >= sent[c] + Delay(attempt[c] - 1)]_vars

(* No failure, retry, cancelled waiter or cancelled sleeper leaves the lock
   taken for good: every call ends. *)
EveryCallEnds ==
  \A c \in Calls : pc[c] \in Awaiting ~> pc[c] = "done"

(* The lock's queue holds each call that waits or sleeps for the limiter. *)
QueueIsOfWaiters ==
  \A i \in 1..Len(queue) : pc[queue[i]] \in {"lock", "pace"}
WaitersAreQueued ==
  \A c \in Calls :
    pc[c] \in {"lock", "pace"} => \E i \in 1..Len(queue) : queue[i] = c
QueuedOnce ==
  \A i, j \in 1..Len(queue) : queue[i] = queue[j] => i = j

(* Only the holder of the lock sleeps in the limiter, until it is time. *)
SleeperHoldsLock ==
  \A c \in Calls : pc[c] = "pace" => HasTurn(c) /\ wake[c] >= last + Interval

(* The limiter remembers the latest request of all calls. *)
LastIsLatest ==
  /\ last <= now /\ latest <= last
  /\ \A c \in Calls : sent[c] <= latest

(* What a retry has waited, or will have waited when its timer is due. *)
BackoffKept ==
  \A c \in Calls :
    /\ pc[c] = "backoff" => wake[c] >= sent[c] + Delay(attempt[c])
                         /\ attempt[c] < MaxRetries
    /\ pc[c] \in {"lock", "pace"} /\ attempt[c] # 0
         => now >= sent[c] + Delay(attempt[c] - 1)
    /\ pc[c] = "idle" => attempt[c] = 0

(* The inductive invariant: who is in the lock's queue, who sleeps in it and
   what the limiter's and the retry's timers guarantee (http_client.py:37-46,
   100-117). *)
IInv == /\ TypeOK
        /\ QueueIsOfWaiters
        /\ WaitersAreQueued
        /\ QueuedOnce
        /\ SleeperHoldsLock
        /\ LastIsLatest
        /\ BackoffKept
=============================================================================
