\* A connection over HTTP and a client of the library that add, feed and read a tracker; a path through an unknown node ends its worker.
SPECIFICATION HSpec
CONSTANTS
  TreeRoot = r
  a = a
  x = x
  t = t
  TreeNode = {r, a, x}
  Singleton = Singleton
  Prior <- MCPrior
  Paths <- MCPaths
  Connection = {c1, c2}
  Name = {t}
  Main = Main
  NoPath = NoPath
  None = None
  Request <- MCRequest
  MaxCalls = 2
  HttpConnection = {c1}
  HttpRequest <- MCHttpRequest
  LibraryRequest <- MCLibrary
  Absent = Absent
  MaxUsize = 11
  Empty = Empty
  Dropped = Dropped
INVARIANTS TypeOK WindowsAgree ConversationIsInOrder
PROPERTIES AtomicTrackers EveryRequestAnswered
