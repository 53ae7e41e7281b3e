-------------------------- MODULE IdempotentStore ---------------------------
(***************************************************************************)
(* What the telemetry webhook promises its sender, whatever it redelivers, *)
(* reorders or sends at once (app/routes/telemetry.py:37-62, and           *)
(* tests/api/test_telemetry.py:19): an event is stored at most once, the   *)
(* delivery that stored it is the one told "accepted", and a delivery told *)
(* "duplicate" came after another one had stored its event.                *)
(***************************************************************************)
CONSTANTS Deliveries, Events

VARIABLES stored,   \* pairs <<event, the delivery that stored it>>
          told      \* pairs <<delivery, "accepted" or "duplicate">>

vars == <<stored, told>>

NotTold(d) == \A t \in told : t[1] # d

Init == stored = {} /\ told = {}

Store(d, e) ==
  /\ \A s \in stored : s[1] # e /\ s[2] # d
  /\ stored' = stored \union {<<e, d>>}
  /\ UNCHANGED told

TellAccepted(d, e) ==
  /\ <<e, d>> \in stored
  /\ NotTold(d)
  /\ told' = told \union {<<d, "accepted">>}
  /\ UNCHANGED stored

TellDuplicate(d, e) ==
  /\ \E x \in Deliveries \ {d} : <<e, x>> \in stored
  /\ NotTold(d)
  /\ told' = told \union {<<d, "duplicate">>}
  /\ UNCHANGED stored

Next == \E d \in Deliveries : \E e \in Events :
          Store(d, e) \/ TellAccepted(d, e) \/ TellDuplicate(d, e)

Spec == Init /\ [][Next]_vars
=============================================================================
