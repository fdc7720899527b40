\* A tab, an MCP tool and a script of two accounts.
SPECIFICATION FairSpec
CONSTANTS
  alice = alice
  bob = bob
  tabA = tabA
  tabB = tabB
  tool = tool
  script = script
  NoUser = NoUser
  Users = {alice, bob}
  WebClients = {tabB}
  McpClients = {tool}
  ApiClients = {script}
  UserOf <- OwnUser
  Timeout = 2
  MaxInFlight = 2
INVARIANTS LockedRowNamesHolder
PROPERTIES OnlyOvertakenRequestsInterfere AbandonedLockIsFreed
CHECK_DEADLOCK FALSE
