-------------------------- MODULE TelemetryProofs ---------------------------
(***************************************************************************)
(* Proofs about Telemetry for any number of deliveries and events, with    *)
(* and without failures.  One lemma per group of conjuncts of IInv.        *)
(***************************************************************************)
EXTENDS Telemetry, TLAPS

(* Every step keeps the variables within their types. *)
LEMMA TypeStep ==
  ASSUME TypeOK, AwaitsAreJustified, [Next]_vars
  PROVE  TypeOK'
<1> USE TelemetryAssumption
    DEF TypeOK, Awaiting, Writing, Answers, Outcomes, Goto, Answer, AuditAs,
        AuditRow, Now
<1>1. ASSUME NEW d \in Deliveries, Arrive(d) PROVE TypeOK'
  BY <1>1 DEF Arrive, Refuse, Verify, Kinds
<1>2. ASSUME NEW d \in Deliveries, Select(d) PROVE TypeOK'
  BY <1>2 DEF Select
<1>3. ASSUME NEW d \in Deliveries, Reject(d) \/ MarkDuplicate(d) PROVE TypeOK'
  BY <1>3 DEF Reject, MarkDuplicate
<1>4. ASSUME NEW d \in Deliveries,
             Insert(d) \/ InsertConflicts(d) \/ Refresh(d)
      PROVE  TypeOK'
  BY <1>4 DEF Insert, InsertConflicts, Refresh
<1>5. ASSUME NEW d \in Deliveries, at[d] = "commit" PROVE Row(d) \in
               [event : Events, at : 1..clock, by : Deliveries]
  <2>1. event[d] \in Events /\ stamp[d] # 0
    BY <1>5 DEF AwaitsAreJustified
  <2>2. stamp[d] \in 0..clock /\ clock \in Nat
    OBVIOUS
  <2>3. stamp[d] \in 1..clock
    BY <2>1, <2>2
  <2> QED BY <2>1, <2>3 DEF Row
<1>6. ASSUME NEW d \in Deliveries, Commit(d) PROVE TypeOK'
  BY <1>5, <1>6 DEF Commit, StoreAndAudit
<1>7. ASSUME NEW d \in Deliveries, Fail(d) PROVE TypeOK'
  BY <1>5, <1>7 DEF Fail, CommitAnyway, StoreAndAudit
<1>8. CASE UNCHANGED vars
  BY <1>8 DEF vars
<1> QED BY <1>1, <1>2, <1>3, <1>4, <1>6, <1>7, <1>8 DEF Next, Step

(* Every step keeps one row per event and per delivery, and the key of an
   uncommitted row with one transaction. *)
LEMMA TableStep ==
  ASSUME TypeOK, RowsComeFromDeliveries, OneRowPerEvent, OneRowPerDelivery,
         KeyIsExclusive, AwaitsAreJustified, [Next]_vars
  PROVE  RowsComeFromDeliveries' /\ OneRowPerEvent' /\ OneRowPerDelivery'
         /\ KeyIsExclusive'
<1> DEFINE Goal == RowsComeFromDeliveries /\ OneRowPerEvent
                   /\ OneRowPerDelivery /\ KeyIsExclusive
<1> USE TelemetryAssumption
    DEF TypeOK, RowsComeFromDeliveries, OneRowPerEvent, OneRowPerDelivery,
        KeyIsExclusive, IsStored, Goto, Answer
<1>1. ASSUME NEW d \in Deliveries, Arrive(d) PROVE Goal'
  BY <1>1 DEF Arrive, Refuse, Verify, Kinds
<1>2. ASSUME NEW d \in Deliveries,
             Select(d) \/ Reject(d) \/ MarkDuplicate(d) \/ InsertConflicts(d)
             \/ Refresh(d)
      PROVE  Goal'
  BY <1>2 DEF Select, Reject, MarkDuplicate, InsertConflicts, Refresh
<1>3. ASSUME NEW d \in Deliveries, Insert(d) PROVE Goal'
  BY <1>3 DEF Insert, KeyWait
<1>4. ASSUME NEW d \in Deliveries, at[d] = "commit", StoreAndAudit(d),
             at' = [at EXCEPT ![d] = at'[d]], at'[d] \in {"refresh", "done"},
             UNCHANGED event
      PROVE  Goal'
  <2>1. table' = table \union {Row(d)} /\ Row(d).event = event[d]
        /\ Row(d).by = d
    BY <1>4 DEF StoreAndAudit, Row
  <2>2. \A r \in table : r.event # event[d] /\ r.by # d
    BY <1>4
  <2> QED BY <1>4, <2>1, <2>2
<1>5. ASSUME NEW d \in Deliveries, Commit(d) PROVE Goal'
  BY <1>4, <1>5 DEF Commit
<1>6. ASSUME NEW d \in Deliveries, Fail(d) PROVE Goal'
  <2>1. CASE at[d] = "commit" /\ StoreAndAudit(d)
    BY <1>4, <1>6, <2>1 DEF Fail
  <2>2. CASE UNCHANGED table
    BY <1>6, <2>2 DEF Fail
  <2> QED BY <1>6, <2>1, <2>2 DEF Fail, CommitAnyway
<1>7. CASE UNCHANGED vars
  BY <1>7 DEF vars
<1> QED BY <1>1, <1>2, <1>3, <1>5, <1>6, <1>7 DEF Next, Step

(* The tables only grow. *)
LEMMA TablesGrow ==
  ASSUME [Next]_vars
  PROVE  table \subseteq table' /\ audit \subseteq audit'
BY DEF Next, vars, Arrive, Step, Reject, Select, MarkDuplicate, Insert,
       InsertConflicts, Commit, Refresh, Fail, CommitAnyway, StoreAndAudit,
       AuditAs

(* Every step keeps what the awaits rely on. *)
LEMMA AwaitsStep ==
  ASSUME TypeOK, AwaitsAreJustified, [Next]_vars
  PROVE  AwaitsAreJustified'
<1> USE TelemetryAssumption, TablesGrow
    DEF TypeOK, AwaitsAreJustified, IsStored, Goto, Answer
<1>1. ASSUME NEW d \in Deliveries, Arrive(d) PROVE AwaitsAreJustified'
  BY <1>1 DEF Arrive, Refuse, Verify, Kinds
<1>2. ASSUME NEW d \in Deliveries, Select(d) PROVE AwaitsAreJustified'
  BY <1>2 DEF Select, Now
<1>3. ASSUME NEW d \in Deliveries,
             Reject(d) \/ MarkDuplicate(d) \/ InsertConflicts(d) \/ Refresh(d)
      PROVE  AwaitsAreJustified'
  BY <1>3 DEF Reject, MarkDuplicate, InsertConflicts, Refresh
<1>4. ASSUME NEW d \in Deliveries, Insert(d) PROVE AwaitsAreJustified'
  BY <1>4 DEF Insert
<1>5. ASSUME NEW d \in Deliveries, Commit(d) PROVE AwaitsAreJustified'
  <2>1. Row(d) \in table' /\ Row(d).by = d /\ AuditRow(d, "accepted") \in audit'
    BY <1>5 DEF Commit, StoreAndAudit, AuditAs, Row
  <2>2. \A x \in Deliveries \ {d} : at'[x] = at[x]
    BY <1>5 DEF Commit
  <2>3. at'[d] = "refresh" /\ UNCHANGED <<event, answer, stamp>>
    BY <1>5 DEF Commit
  <2>4. at[d] = "commit"
    BY <1>5 DEF Commit
  <2> QED BY <2>1, <2>2, <2>3, <2>4
<1>6. ASSUME NEW d \in Deliveries, Fail(d) PROVE AwaitsAreJustified'
  <2>1. at'[d] = "done" /\ event[d] \in Events /\ UNCHANGED <<event, stamp>>
    BY <1>6 DEF Fail, Awaiting, Writing
  <2>2. \A x \in Deliveries \ {d} : at'[x] = at[x] /\ answer'[x] = answer[x]
    BY <1>6 DEF Fail
  <2>3. answer'[d] \in {"error", "lost"}
    BY <1>6 DEF Fail
  <2> QED BY <2>1, <2>2, <2>3
<1>7. CASE UNCHANGED vars
  BY <1>7 DEF vars
<1> QED BY <1>1, <1>2, <1>3, <1>4, <1>5, <1>6, <1>7 DEF Next, Step

(* Every step keeps what senders were told true. *)
LEMMA AnswersStep ==
  ASSUME TypeOK, RowsComeFromDeliveries, AwaitsAreJustified, AnswersAreTrue,
         [Next]_vars
  PROVE  AnswersAreTrue'
<1> USE DEF TypeOK, AnswersAreTrue, Goto, Answer
<1>1. ASSUME NEW d \in Deliveries, at[d] # "done",
             \A x \in Deliveries \ {d} : UNCHANGED <<event[x], answer[x]>>,
             answer'[d] \in {"none", "unprocessable", "too_large", "error",
                             "lost"}
      PROVE  AnswersAreTrue'
  BY <1>1, TablesGrow
<1>2. ASSUME NEW d \in Deliveries, Arrive(d) PROVE AnswersAreTrue'
  BY <1>1, <1>2 DEF Arrive, Refuse, Verify, AwaitsAreJustified
<1>3. ASSUME NEW d \in Deliveries,
             Select(d) \/ Insert(d) \/ InsertConflicts(d) \/ Commit(d)
      PROVE  AnswersAreTrue'
  BY <1>1, <1>3 DEF Select, Insert, InsertConflicts, Commit,
                    AwaitsAreJustified
<1>4. ASSUME NEW d \in Deliveries, Fail(d) PROVE AnswersAreTrue'
  BY <1>1, <1>4 DEF Fail, Awaiting, Writing
<1>5. ASSUME NEW d \in Deliveries, Reject(d) PROVE AnswersAreTrue'
  BY <1>5 DEF Reject, AuditAs
<1>6. ASSUME NEW d \in Deliveries, MarkDuplicate(d) PROVE AnswersAreTrue'
  <2>1. \E r \in table : r.by # d /\ r.event = event[d]
    BY <1>6 DEF MarkDuplicate, AwaitsAreJustified, IsStored,
                RowsComeFromDeliveries
  <2> QED BY <1>6, <2>1 DEF MarkDuplicate, AuditAs
<1>7. ASSUME NEW d \in Deliveries, Refresh(d) PROVE AnswersAreTrue'
  <2>1. \E r \in table : r.by = d /\ r.event = event[d]
    BY <1>7 DEF Refresh, AwaitsAreJustified, RowsComeFromDeliveries
  <2> QED BY <1>7, <2>1 DEF Refresh, AwaitsAreJustified
<1>8. CASE UNCHANGED vars
  BY <1>8 DEF vars
<1> QED BY <1>2, <1>3, <1>4, <1>5, <1>6, <1>7, <1>8 DEF Next, Step

(* The stored row names its delivery and the event it carries. *)
LEMMA RowFields ==
  ASSUME NEW d \in Deliveries, StoreAndAudit(d)
  PROVE  /\ table' = table \union {Row(d)}
         /\ Row(d).by = d /\ Row(d).event = event[d]
BY DEF StoreAndAudit, Row

(* How a step changes the two tables together. *)
LEMMA TablesStep ==
  ASSUME [Next]_vars
  PROVE  \/ UNCHANGED <<table, audit>>
         \/ \E d \in Deliveries, o \in {"rejected_auth", "duplicate"} :
              AuditAs(d, o) /\ UNCHANGED table
         \/ \E d \in Deliveries : at[d] = "commit" /\ StoreAndAudit(d)
BY DEF Next, vars, Arrive, Step, Reject, Select, MarkDuplicate, Insert,
       InsertConflicts, Commit, Refresh, Fail, CommitAnyway

(* Every step keeps the "accepted" audit rows in step with the events. *)
LEMMA AuditStep ==
  ASSUME TypeOK, AuditAgreesWithTable, [Next]_vars
  PROVE  AuditAgreesWithTable'
<1> USE DEF AuditAgreesWithTable, AuditAs, AuditRow
<1>1. CASE UNCHANGED <<table, audit>>
  BY <1>1
<1>2. ASSUME NEW d \in Deliveries, NEW o \in {"rejected_auth", "duplicate"},
             AuditAs(d, o), UNCHANGED table
      PROVE  AuditAgreesWithTable'
  BY <1>2
<1>3. ASSUME NEW d \in Deliveries, StoreAndAudit(d)
      PROVE  AuditAgreesWithTable'
  <2>1. ASSUME NEW x \in Deliveries
        PROVE  AuditRow(x, "accepted") \in audit'
                 <=> AuditRow(x, "accepted") \in audit \/ x = d
    BY <1>3 DEF StoreAndAudit
  <2>2. ASSUME NEW x \in Deliveries
        PROVE  (\E r \in table' : r.by = x)
                 <=> (\E r \in table : r.by = x) \/ x = d
    BY <1>3, RowFields
  <2> QED BY <2>1, <2>2
<1> QED BY <1>1, <1>2, <1>3, TablesStep

(* The empty table satisfies the inductive invariant. *)
LEMMA InitIInv == Init => IInv
BY TelemetryAssumption
   DEF Init, IInv, TypeOK, Awaiting, Answers, RowsComeFromDeliveries,
       OneRowPerEvent, OneRowPerDelivery, KeyIsExclusive, AwaitsAreJustified,
       AnswersAreTrue, AuditAgreesWithTable

(* Every step of every request preserves it. *)
LEMMA StepIInv == IInv /\ [Next]_vars => IInv'
BY TypeStep, TableStep, AwaitsStep, AnswersStep, AuditStep DEF IInv

(* The inductive invariant holds of every behaviour of the webhook. *)
THEOREM Inductive == Spec => []IInv
BY InitIInv, StepIInv, PTL DEF Spec

(* Type correctness. *)
THEOREM TypeCorrect == Spec => []TypeOK
<1>1. IInv => TypeOK
  BY DEF IInv
<1> QED BY <1>1, Inductive, PTL

(* db_models.py:53: an event has at most one row, however its deliveries
   overlap and fail. *)
THEOREM AtMostOneRow == Spec => []OneRowPerEvent
<1>1. IInv => OneRowPerEvent
  BY DEF IInv
<1> QED BY <1>1, Inductive, PTL

(* routes/telemetry.py:28-62: what a sender is told is true of the tables. *)
THEOREM TruthfulAnswers == Spec => []AnswersAreTrue
<1>1. IInv => AnswersAreTrue
  BY DEF IInv
<1> QED BY <1>1, Inductive, PTL

(* routes/telemetry.py:54-56: an event is never stored without its "accepted"
   audit row, nor the row written without its event. *)
THEOREM AuditIsComplete == Spec => []AuditAgreesWithTable
<1>1. IInv => AuditAgreesWithTable
  BY DEF IInv
<1> QED BY <1>1, Inductive, PTL

-----------------------------------------------------------------------------
(* What a delivery sent after its event was settled meets at every await: the
   row is there, and the lookup finds it. *)
FindsTheRow(e, x) ==
  /\ IsStored(e)
  /\ event[x] = e => /\ at[x] \notin {"insert", "commit", "refresh"}
                     /\ answer[x] \notin {"accepted", "conflict"}

(* Every step of every request keeps it. *)
LEMMA FindsStep ==
  ASSUME NEW e \in Events, NEW x \in Deliveries,
         TypeOK, AwaitsAreJustified, FindsTheRow(e, x), [Next]_vars
  PROVE  FindsTheRow(e, x)'
<1> USE DEF TypeOK, FindsTheRow, Goto, Answer
<1>1. IsStored(e)'
  BY TablesGrow DEF IsStored
<1>2. ASSUME NEW d \in Deliveries, Arrive(d) PROVE FindsTheRow(e, x)'
  BY <1>1, <1>2 DEF Arrive, Refuse, Verify, Kinds, AwaitsAreJustified
<1>3. ASSUME NEW d \in Deliveries, Select(d) PROVE FindsTheRow(e, x)'
  BY <1>1, <1>3 DEF Select
<1>4. ASSUME NEW d \in Deliveries,
             Reject(d) \/ MarkDuplicate(d) \/ Insert(d) \/ InsertConflicts(d)
             \/ Commit(d) \/ Refresh(d)
      PROVE  FindsTheRow(e, x)'
  BY <1>1, <1>4 DEF Reject, MarkDuplicate, Insert, InsertConflicts, Commit,
                    Refresh
<1>5. ASSUME NEW d \in Deliveries, Fail(d) PROVE FindsTheRow(e, x)'
  BY <1>1, <1>5 DEF Fail
<1>6. CASE UNCHANGED vars
  BY <1>1, <1>6 DEF vars
<1> QED BY <1>2, <1>3, <1>4, <1>5, <1>6 DEF Next, Step

(* routes/telemetry.py:37-56: an event one delivery of which was answered is
   never stored again, nor its lost race repeated, by a delivery the sender
   starts afterwards, whatever overlaps and fails. *)
THEOREM RetriesAreSafe == Spec => RetriesAreDuplicates
<1> SUFFICES ASSUME NEW e \in Events, NEW x \in Deliveries
             PROVE  Spec => [](Settled(e) /\ at[x] = "unsent" =>
                        [](event[x] = e =>
                             answer[x] \notin {"accepted", "conflict"}))
  BY DEF RetriesAreDuplicates
<1>1. IInv /\ Settled(e) /\ at[x] = "unsent" => FindsTheRow(e, x)
  <2> SUFFICES ASSUME IInv, Settled(e), at[x] = "unsent"
               PROVE  FindsTheRow(e, x)
    OBVIOUS
  <2>1. IsStored(e)
    BY DEF IInv, Settled, AnswersAreTrue, AwaitsAreJustified, IsStored
  <2>2. answer[x] = "none"
    BY DEF IInv, AwaitsAreJustified
  <2> QED BY <2>1, <2>2 DEF FindsTheRow
<1>2. IInv /\ FindsTheRow(e, x) /\ [Next]_vars => FindsTheRow(e, x)'
  BY FindsStep DEF IInv
<1>3. FindsTheRow(e, x) =>
        (event[x] = e => answer[x] \notin {"accepted", "conflict"})
  BY DEF FindsTheRow
<1> QED BY <1>1, <1>2, <1>3, Inductive, PTL DEF Spec

(* The answers the refinement counts: a delivery that had none is told one. *)
ToldPairs == {<<d, answer[d]>> : d \in
               {x \in Deliveries : answer[x] \in {"accepted", "duplicate"}}}
StoredPairs == {<<r.event, r.by>> : r \in table}

(* An answer adds one pair to what was told, or none. *)
LEMMA ToldStep ==
  ASSUME TypeOK, NEW d \in Deliveries, answer[d] = "none",
         NEW a, answer' = [answer EXCEPT ![d] = a]
  PROVE  /\ a \in {"accepted", "duplicate"}
                => ToldPairs' = ToldPairs \union {<<d, a>>}
         /\ a \notin {"accepted", "duplicate"} => ToldPairs' = ToldPairs
         /\ \A t \in ToldPairs : t[1] # d
BY DEF TypeOK, ToldPairs

(* Every step of the webhook is a step of IdempotentStore or a stutter. *)
LEMMA StoreStep ==
  ASSUME IInv, [Next]_vars
  PROVE  [Store!Next]_(Store!vars)
<1> DEFINE Abstract == [Store!Next]_(Store!vars)
<1>1. ASSUME UNCHANGED <<StoredPairs, ToldPairs>> PROVE Abstract
  BY <1>1 DEF Store!vars, StoredPairs, ToldPairs
<1>2. /\ TypeOK /\ AwaitsAreJustified /\ RowsComeFromDeliveries
      /\ KeyIsExclusive
  BY DEF IInv
<1>3. ASSUME UNCHANGED table PROVE UNCHANGED StoredPairs
  BY <1>3 DEF StoredPairs
<1>4. ASSUME UNCHANGED answer PROVE UNCHANGED ToldPairs
  BY <1>4 DEF ToldPairs
<1>5. ASSUME NEW d \in Deliveries, at[d] = "commit", StoreAndAudit(d),
             UNCHANGED ToldPairs
      PROVE  Abstract
  <2>1. PICK e \in Events : e = event[d]
    BY <1>2, <1>5 DEF AwaitsAreJustified
  <2>2. \A r \in table : r.event # event[d] /\ r.by # d
    BY <1>2, <1>5 DEF KeyIsExclusive, RowsComeFromDeliveries, IsStored
  <2>3. StoredPairs' = StoredPairs \union {<<event[d], d>>}
    BY <1>5, RowFields DEF StoredPairs
  <2>4. Store!Store(d, e)
    BY <1>5, <2>1, <2>2, <2>3 DEF Store!Store, StoredPairs, ToldPairs
  <2> QED BY <2>4 DEF Store!Next
<1>6. ASSUME NEW d \in Deliveries, Arrive(d) PROVE Abstract
  <2>1. answer[d] = "none"
    BY <1>2, <1>6 DEF Arrive, AwaitsAreJustified
  <2>2. UNCHANGED answer \/ \E a \in {"too_large", "unprocessable"} :
                               answer' = [answer EXCEPT ![d] = a]
    BY <1>6 DEF Arrive, Refuse, Verify, Answer
  <2>3. UNCHANGED ToldPairs
    BY <1>2, <1>4, <2>1, <2>2, ToldStep
  <2> QED BY <1>1, <1>3, <1>6, <2>3 DEF Arrive
<1>7. ASSUME NEW d \in Deliveries, Select(d) \/ Insert(d) PROVE Abstract
  BY <1>1, <1>3, <1>4, <1>7 DEF Select, Insert
<1>8. ASSUME NEW d \in Deliveries, Reject(d) \/ InsertConflicts(d)
      PROVE  Abstract
  <2>1. answer[d] = "none"
    BY <1>2, <1>8 DEF Reject, InsertConflicts, AwaitsAreJustified
  <2>2. UNCHANGED ToldPairs
    BY <1>2, <1>8, <2>1, ToldStep DEF Reject, InsertConflicts, Answer
  <2> QED BY <1>1, <1>3, <1>8, <2>2 DEF Reject, InsertConflicts
<1>9. ASSUME NEW d \in Deliveries, MarkDuplicate(d) PROVE Abstract
  <2>0. PICK e \in Events : e = event[d]
    BY <1>2, <1>9 DEF MarkDuplicate, AwaitsAreJustified
  <2>1. answer[d] = "none"
    BY <1>2, <1>9 DEF MarkDuplicate, AwaitsAreJustified
  <2>2. \E x \in Deliveries \ {d} : <<event[d], x>> \in StoredPairs
    <3>1. PICK r \in table : r.event = event[d]
      BY <1>2, <1>9 DEF MarkDuplicate, AwaitsAreJustified, IsStored
    <3>2. r.by \in Deliveries \ {d}
      BY <1>2, <1>9, <3>1 DEF MarkDuplicate, RowsComeFromDeliveries, TypeOK
    <3> QED BY <3>1, <3>2 DEF StoredPairs
  <2>3. /\ ToldPairs' = ToldPairs \union {<<d, "duplicate">>}
        /\ \A t \in ToldPairs : t[1] # d
    BY <1>2, <1>9, <2>1, ToldStep DEF MarkDuplicate, Answer
  <2>4. Store!TellDuplicate(d, e)
    BY <1>3, <1>9, <2>0, <2>2, <2>3
       DEF MarkDuplicate, Store!TellDuplicate, Store!NotTold, StoredPairs,
           ToldPairs
  <2> QED BY <2>4 DEF Store!Next
<1>10. ASSUME NEW d \in Deliveries, Commit(d) PROVE Abstract
  BY <1>4, <1>5, <1>10 DEF Commit
<1>11. ASSUME NEW d \in Deliveries, Refresh(d) PROVE Abstract
  <2>0. PICK e \in Events : e = event[d]
    BY <1>2, <1>11 DEF Refresh, AwaitsAreJustified
  <2>1. answer[d] = "none"
    BY <1>2, <1>11 DEF Refresh, AwaitsAreJustified
  <2>2. <<event[d], d>> \in StoredPairs
    BY <1>2, <1>11 DEF Refresh, AwaitsAreJustified, RowsComeFromDeliveries,
                       StoredPairs
  <2>3. /\ ToldPairs' = ToldPairs \union {<<d, "accepted">>}
        /\ \A t \in ToldPairs : t[1] # d
    BY <1>2, <1>11, <2>1, ToldStep DEF Refresh, Answer
  <2>4. Store!TellAccepted(d, e)
    BY <1>3, <1>11, <2>0, <2>2, <2>3
       DEF Refresh, Store!TellAccepted, Store!NotTold, StoredPairs, ToldPairs
  <2> QED BY <2>4 DEF Store!Next
<1>12. ASSUME NEW d \in Deliveries, Fail(d) PROVE Abstract
  <2>1. answer[d] = "none"
    BY <1>2, <1>12 DEF Fail, Awaiting, Writing, AwaitsAreJustified
  <2>2. UNCHANGED ToldPairs
    BY <1>2, <1>12, <2>1, ToldStep DEF Fail, Answer
  <2>3. UNCHANGED table \/ (at[d] = "commit" /\ StoreAndAudit(d))
    BY <1>12 DEF Fail, CommitAnyway
  <2> QED BY <1>1, <1>3, <1>5, <2>2, <2>3
<1>13. CASE UNCHANGED vars
  BY <1>1, <1>3, <1>4, <1>13 DEF vars
<1> QED BY <1>6, <1>7, <1>8, <1>9, <1>10, <1>11, <1>12, <1>13 DEF Next, Step

(* tests/api/test_telemetry.py:19: under every interleaving and failure the
   webhook is an idempotent store. *)
THEOREM ImplementsIdempotentStore == Spec => IsIdempotentStore
<1>1. Init => Store!Init
  BY DEF Init, Store!Init
<1>2. IInv /\ [Next]_vars => [Store!Next]_(Store!vars)
  BY StoreStep
<1> QED BY <1>1, <1>2, Inductive, PTL DEF Spec, IsIdempotentStore, Store!Spec
=============================================================================
