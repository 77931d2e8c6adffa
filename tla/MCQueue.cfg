CONSTANTS
  MAX_PEEKS = 2
  SeqMod = 6
  Capacity = 3
  Granularity = 2
SPECIFICATION DeliverySpec
INVARIANTS AnswersArrive QueueDecides
PROPERTIES HandedOutOnce EventuallyConfirmed
