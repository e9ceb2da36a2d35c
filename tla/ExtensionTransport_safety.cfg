SPECIFICATION TransportSpec
CONSTANTS
  c1 = c1
  d1 = d1
  d2 = d2
  b1 = b1
  r1 = r1
  NoKey = NoKey
  NoOwner = NoOwner
  NoDocument = NoDocument
  Conversations <- OneConversation
  Owners <- OneNavigation
  ConversationOf <- OneNavigationOf
  Clients <- OneBrowser
  Documents <- TwoDocuments
  ClientOf <- OneBrowserOf
  ReviewKeys <- Reviews
  NoticeKeys <- NoneOf
  FailureKeys <- NoneOf
  Callers <- NoneOf
  MaxEpoch = 1
  MaxCommands = 2
  MaxDeliveries = 2
  LeaseTicks = 1
INVARIANTS
  PostedAsReported
