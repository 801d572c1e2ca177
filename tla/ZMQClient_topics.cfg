SPECIFICATION FairClientSpec
CONSTANTS
  m1 = m1
  m2 = m2
  n1 = n1
  u1 = u1
  u2 = u2
  TableSize = 2
  Messages <- MCMessages
  TopicOf <- MCTopicOf
  Subscribable <- BothOrUnknown
  Policies = {TRUE, FALSE}
  Users = {u1, u2}
  Reads <- MCReads
  QueueCapacity = 1
  MaxTries = 2
INVARIANTS
  ClientTypeOK
  AssertHolds
  TakeFindsPacket
PROPERTIES
  TopicsInOrder
  SubscriptionPolls
  ClientDestructorReturns
  DeliveredIfRead
