SPECIFICATION Spec
CONSTANTS
  c1 = c1
  c2 = c2
  o1 = o1
  o2 = o2
  o3 = o3
  r1 = r1
  f1 = f1
  w1 = w1
  NoKey = NoKey
  NoOwner = NoOwner
  ReviewKeys <- Reviews
  Callers <- OneCaller
  NoticeKeys <- NoKeys
  FailureKeys <- Failures
  Conversations <- TwoConversations
  Owners <- ThreeDocuments
  ConversationOf <- ThreeDocumentsOf
  MaxCommands = 3
  MaxDeliveries = 2
  LeaseTicks = 2
INVARIANTS
  Restorable
PROPERTIES
  ReceiptStable
  ResultKept
