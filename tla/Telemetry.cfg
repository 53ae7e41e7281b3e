SPECIFICATION FairSpec
CONSTANTS
  Deliveries = {d1, d2, d3}
  Events = {1, 2}
  DatabaseMayFail = TRUE
  ProcessMayDie = TRUE
INVARIANTS IInv OneRowPerEvent AnswersAreTrue AuditAgreesWithTable
PROPERTIES RetriesAreDuplicates IsIdempotentStore EveryDeliveryAnswered
\* every delivery answered: the webhook waits for the next request
CHECK_DEADLOCK FALSE
