CONSTANTS
  Owners = {"ravi"}
  Chats = {"home", "group"}
  Groups = {"group"}
  Messages <- FaultyMessages
  MaxUpdates = 3
  MaxFaults = 1
SPECIFICATION Spec
INVARIANTS TypeOK HandledAtMostOnce RemembersConversation
CHECK_DEADLOCK FALSE
