SPECIFICATION LiveTransportSpec
CONSTANTS
  c1 = c1
  d1 = d1
  d2 = d2
  b1 = b1
  r1 = r1
  NoKey = NoKey
  NoOwner = NoOwner
  NoDocument = NoDocument
  Conversations <- OneConversation
  Owners <- NoNavigation
  ConversationOf <- NoNavigationOf
  Clients <- OneBrowser
  Documents <- TwoDocuments
  ClientOf <- OneBrowserOf
  ReviewKeys <- Reviews
  NoticeKeys <- NoneOf
  FailureKeys <- NoneOf
  Callers <- NoneOf
  MaxEpoch = 0
  MaxCommands = 2
  MaxDeliveries = 2
  LeaseTicks = 1
PROPERTIES
  AtMostOnce
  OutcomesArrive
