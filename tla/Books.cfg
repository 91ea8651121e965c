\* Two concurrent commands: syncs, rebuilds, comparisons, adjustments, imports.
CONSTANTS
  s1 = s1
  s2 = s2
  NONE = NONE
  Sessions = {s1, s2}
  MaxCommands = 3
  Listings <- Answers
  Facts <- History
  Openings <- Missing
  Directories <- Statements
  Past <- Start0
SPECIFICATION BooksSpec
INVARIANTS SyncIsComplete CompleteBooksReconcile
PROPERTIES IdentityStands RebuildReplaces
CHECK_DEADLOCK FALSE
