SPECIFICATION Spec
CONSTANTS
  Clients = {c1}
  NoClient = NoClient
PROPERTY SignalledServerExits
CHECK_DEADLOCK FALSE
