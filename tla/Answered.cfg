CONSTANTS
  Owners = {"ravi"}
  Chats = {"home", "shop"}
  Groups = {}
  Messages <- TwoChatMessages
  MaxUpdates = 3
  MaxFaults = 0
SPECIFICATION FairSpec
PROPERTIES MessageAnswered
CHECK_DEADLOCK FALSE
