----------------------------- MODULE Telemetry ------------------------------
(***************************************************************************)
(* The telemetry webhook (app/routes/telemetry.py), the checks in front of *)
(* it (app/main.py, app/models/telemetry_schemas.py, app/security.py), the *)
(* two tables it writes, and the reader of the latest event of a symbol    *)
(* (app/providers/db_behavioral_data.py).                                  *)
(*                                                                         *)
(* A delivery is one POST; the sender may send the same event many times,  *)
(* at once and in any order.  A step is what the handler of a delivery does*)
(* between two awaits.  The database is Postgres, read committed: a        *)
(* statement sees committed rows, and an INSERT waits for the transaction  *)
(* that has inserted the same unique key.                                  *)
(***************************************************************************)
EXTENDS Naturals, FiniteSets

CONSTANTS
  Deliveries,      \* requests: each is sent at most once
  Events,          \* event_ids of one symbol, numbered by bar_close_time
  DatabaseMayFail, \* a statement may raise, a commit with unknown outcome
  ProcessMayDie    \* the process of a handler may die at any await

ASSUME TelemetryAssumption ==
  /\ Events \subseteq Nat
  /\ {DatabaseMayFail, ProcessMayDie} \subseteq BOOLEAN

VARIABLES
  at,       \* the await the handler of each delivery is in
  event,    \* the event_id of each delivery, 0 before it is sent
  answer,   \* what its sender was told
  stamp,    \* received_at of the row it is inserting
  table,    \* committed telemetry_events
  audit,    \* committed webhook_audit_log
  clock     \* the latest received_at handed out

vars == <<at, event, answer, stamp, table, audit, clock>>

Kinds    == {"authentic", "unauthorized", "malformed", "oversized"}
Writing  == {"reject", "mark", "commit"}          \* awaiting a commit
Awaiting == Writing \union {"select", "insert", "refresh"}
Answers  == {"none", "accepted", "duplicate", "unauthorized", "unprocessable",
             "too_large", "conflict", "error", "lost"}
Outcomes == {"accepted", "duplicate", "rejected_auth"}

IsStored(e) == \E r \in table : r.event = e
AuditRow(d, o) == [by |-> d, outcome |-> o]

Goto(d, a) == at' = [at EXCEPT ![d] = a]
Answer(d, a) == /\ Goto(d, "done")
                /\ answer' = [answer EXCEPT ![d] = a]

Init ==
  /\ at = [d \in Deliveries |-> "unsent"]
  /\ event = [d \in Deliveries |-> 0]
  /\ answer = [d \in Deliveries |-> "none"]
  /\ stamp = [d \in Deliveries |-> 0]
  /\ table = {}
  /\ audit = {}
  /\ clock = 0
----
(* The request arrives: the size limit of the middleware and the validation
   of the body answer before the handler starts. *)
Refuse(d, kind) ==
  \/ kind = "oversized" /\ Answer(d, "too_large")
  \/ kind = "malformed" /\ Answer(d, "unprocessable")

(* Secret, schema version and formula version: the first that fails makes
   the handler audit the attempt. *)
Verify(d, kind) ==
  /\ \/ kind = "unauthorized" /\ Goto(d, "reject")
     \/ kind = "authentic" /\ Goto(d, "select")
  /\ UNCHANGED answer

Arrive(d) ==
  /\ at[d] = "unsent"
  /\ \E e \in Events : event' = [event EXCEPT ![d] = e]
  /\ \E kind \in Kinds : Refuse(d, kind) \/ Verify(d, kind)
  /\ UNCHANGED <<stamp, table, audit, clock>>

AuditAs(d, o) == audit' = audit \union {AuditRow(d, o)}

(* Mutant: the attempt is refused without a trace. *)
RejectSilently(d) ==
  /\ at[d] = "reject"
  /\ Answer(d, "unauthorized")
  /\ UNCHANGED <<event, stamp, table, audit, clock>>

Reject(d) ==
  /\ at[d] = "reject"
  /\ AuditAs(d, "rejected_auth")
  /\ Answer(d, "unauthorized")
  /\ UNCHANGED <<event, stamp, table, clock>>

(* received_at, `default=_utcnow`. *)
Now == clock + 1

(* The lookup.  When nothing is found the handler goes straight on to the
   flush of the new row, which computes its received_at. *)
Select(d) ==
  /\ at[d] = "select"
  /\ IF IsStored(event[d])
     THEN Goto(d, "mark") /\ UNCHANGED <<stamp, clock>>
     ELSE /\ Goto(d, "insert")
          /\ clock' = Now
          /\ stamp' = [stamp EXCEPT ![d] = Now]
  /\ UNCHANGED <<event, answer, table, audit>>

MarkDuplicate(d) ==
  /\ at[d] = "mark"
  /\ AuditAs(d, "duplicate")
  /\ Answer(d, "duplicate")
  /\ UNCHANGED <<event, stamp, table, clock>>

(* uq_telemetry_events_event_id: the INSERT waits while another transaction
   has inserted the key and not ended.  The mutants lose the wait, or leave
   the session of a failed handler open with its row inserted. *)
NoKeyWait(d) == FALSE
KeyWaitAbandoned(d) ==
  \E x \in Deliveries \ {d} :
    /\ event[x] = event[d]
    /\ \/ at[x] = "commit"
       \/ answer[x] = "error" /\ stamp[x] # 0 /\ ~IsStored(event[x])
KeyWait(d) ==
  \E x \in Deliveries \ {d} : at[x] = "commit" /\ event[x] = event[d]

(* Mutant: the answer leaves before the commit, as it would if the session
   committed when it is closed, after the response. *)
InsertAnswersFirst(d) ==
  /\ at[d] = "insert"
  /\ ~KeyWait(d)
  /\ ~IsStored(event[d])
  /\ Goto(d, "commit")
  /\ answer' = [answer EXCEPT ![d] = "accepted"]
  /\ UNCHANGED <<event, stamp, table, audit, clock>>

Insert(d) ==
  /\ at[d] = "insert"
  /\ ~KeyWait(d)
  /\ ~IsStored(event[d])
  /\ Goto(d, "commit")
  /\ UNCHANGED <<event, answer, stamp, table, audit, clock>>

(* The loser of a race between two deliveries of an event: IntegrityError,
   not caught anywhere (500), its audit row rolled back with it. *)
InsertConflicts(d) ==
  /\ at[d] = "insert"
  /\ ~KeyWait(d)
  /\ IsStored(event[d])
  /\ Answer(d, "conflict")
  /\ UNCHANGED <<event, stamp, table, audit, clock>>

Row(d) == [event |-> event[d], at |-> stamp[d], by |-> d]

(* The new row and its audit row; the mutant leaves the audit row out. *)
StoreUnaudited(d) == table' = table \union {Row(d)} /\ UNCHANGED audit
StoreAndAudit(d)  == table' = table \union {Row(d)} /\ AuditAs(d, "accepted")

(* Mutant: the session is left without the commit. *)
CommitForgotten(d) ==
  /\ at[d] = "commit"
  /\ Goto(d, "refresh")
  /\ UNCHANGED <<event, answer, stamp, table, audit, clock>>

Commit(d) ==
  /\ at[d] = "commit"
  /\ StoreAndAudit(d)
  /\ Goto(d, "refresh")
  /\ UNCHANGED <<event, answer, stamp, clock>>

(* db.refresh(event), then 201. *)
Refresh(d) ==
  /\ at[d] = "refresh"
  /\ Answer(d, "accepted")
  /\ UNCHANGED <<event, stamp, table, audit, clock>>
----
(* The database executes the commit the handler awaits after the handler
   stopped waiting for it. *)
CommitAnyway(d) ==
  \/ at[d] = "reject" /\ AuditAs(d, "rejected_auth") /\ UNCHANGED table
  \/ at[d] = "mark" /\ AuditAs(d, "duplicate") /\ UNCHANGED table
  \/ at[d] = "commit" /\ StoreAndAudit(d)

(* The awaited statement raises (500), or the process dies and the sender
   hears nothing; what was not committed is rolled back. *)
Fail(d) ==
  /\ at[d] \in Awaiting
  /\ \/ DatabaseMayFail /\ Answer(d, "error")
     \/ ProcessMayDie /\ Answer(d, "lost")
  /\ CommitAnyway(d) \/ UNCHANGED <<table, audit>>
  /\ UNCHANGED <<event, stamp, clock>>

Step(d) == \/ Reject(d) \/ Select(d) \/ MarkDuplicate(d)
           \/ Insert(d) \/ InsertConflicts(d) \/ Commit(d) \/ Refresh(d)

Next == \E d \in Deliveries : Arrive(d) \/ Step(d) \/ Fail(d)

Spec == Init /\ [][Next]_vars

(* The event loop and the database answer every await that is not waiting
   for another transaction. *)
FairSpec == Spec /\ \A d \in Deliveries : WF_vars(Step(d))
----
(* Every variable keeps its type. *)
TypeOK ==
  /\ at \in [Deliveries -> Awaiting \union {"unsent", "done"}]
  /\ event \in [Deliveries -> Events \union {0}]
  /\ answer \in [Deliveries -> Answers]
  /\ stamp \in [Deliveries -> 0..clock]
  /\ table \subseteq [event : Events, at : 1..clock, by : Deliveries]
  /\ audit \subseteq [by : Deliveries, outcome : Outcomes]
  /\ clock \in Nat

(* However deliveries of an event overlap, it has at most one row
   (db_models.py:53, routes/telemetry.py:37-56). *)
OneRowPerEvent == \A r, q \in table : r.event = q.event => r = q

(* What the sender is told is true and durable: "accepted" means this
   delivery stored the event, "duplicate" that another one had, and each,
   like a refused secret, left its audit row. *)
AnswersAreTrue ==
  \A d \in Deliveries :
    /\ answer[d] = "accepted" =>
         /\ \E r \in table : r.by = d /\ r.event = event[d]
         /\ AuditRow(d, "accepted") \in audit
    /\ answer[d] = "duplicate" =>
         /\ \E r \in table : r.by # d /\ r.event = event[d]
         /\ AuditRow(d, "duplicate") \in audit
    /\ answer[d] = "unauthorized" => AuditRow(d, "rejected_auth") \in audit

(* The event and its "accepted" audit row are one transaction: whatever
   fails, one is never there without the other (routes/telemetry.py:54-56). *)
AuditAgreesWithTable ==
  \A d \in Deliveries :
    AuditRow(d, "accepted") \in audit <=> \E r \in table : r.by = d

(* An event is settled once a delivery of it was answered 201, 200 or the 500
   of a lost race.  A delivery the sender starts after that, whatever older
   deliveries, failures and deaths are still under way, is neither stored
   again nor answered that 500: unless it is refused or fails, it is told
   "duplicate" (routes/telemetry.py:37-56). *)
Settled(e) == \E d \in Deliveries :
                event[d] = e /\ answer[d] \in {"accepted", "duplicate", "conflict"}

RetriesAreDuplicates ==
  \A e \in Events, x \in Deliveries :
    [](Settled(e) /\ at[x] = "unsent" =>
         [](event[x] = e => answer[x] \notin {"accepted", "conflict"}))

(* The wait for an uncommitted key ends, whatever becomes of its owner: every
   delivery that arrived is answered, or its process died (database.py:20-22
   closes the session of a handler that failed). *)
EveryDeliveryAnswered ==
  \A d \in Deliveries : at[d] # "unsent" ~> at[d] = "done"

(* The parts of the inductive invariant behind these properties. *)
RowsComeFromDeliveries ==
  \A r \in table : /\ event[r.by] = r.event
                   /\ at[r.by] \in {"refresh", "done"}

OneRowPerDelivery == \A r, q \in table : r.by = q.by => r = q

(* The key of an uncommitted row is its transaction's alone. *)
KeyIsExclusive ==
  \A d \in Deliveries :
    at[d] = "commit" => /\ ~IsStored(event[d])
                        /\ \A x \in Deliveries \ {d} :
                             at[x] = "commit" => event[x] # event[d]

(* What each await relies on. *)
AwaitsAreJustified ==
  \A d \in Deliveries :
    /\ at[d] # "unsent" => event[d] \in Events
    /\ at[d] \in {"insert", "commit"} => stamp[d] # 0
    /\ at[d] = "mark" => IsStored(event[d])
    /\ at[d] = "refresh" => /\ \E r \in table : r.by = d
                            /\ AuditRow(d, "accepted") \in audit
    /\ at[d] # "done" => answer[d] = "none"
    /\ answer[d] = "conflict" => IsStored(event[d])

(* The inductive invariant: which delivery a row comes from, who owns an
   uncommitted key, and what an answer rests on (routes/telemetry.py:37-62). *)
IInv == /\ TypeOK
        /\ RowsComeFromDeliveries
        /\ OneRowPerEvent
        /\ OneRowPerDelivery
        /\ KeyIsExclusive
        /\ AwaitsAreJustified
        /\ AnswersAreTrue
        /\ AuditAgreesWithTable

(* The webhook as an idempotent store. *)
Store == INSTANCE IdempotentStore WITH
           stored <- {<<r.event, r.by>> : r \in table},
           told <- {<<d, answer[d]>> : d \in
                     {x \in Deliveries : answer[x] \in {"accepted", "duplicate"}}}
IsIdempotentStore == Store!Spec
=============================================================================
