\* Two messages of one conversation and a click, three coroutines, one fault.
SPECIFICATION FairSpec
CONSTANTS
  first = first
  second = second
  click = click
  chat = chat
  Tasks = {t1, t2, t3}
  Messages = {first, second}
  Clicks = {click}
  Conversations = {chat}
  ConversationOf <- OneConversation
  MaxFaults = 1
  None = None
INVARIANTS
  TypeOK
  WorkedOnce
  ConversationSerial
  ClosedIsQuiet
PROPERTIES
  CloseReturns
  Patience
