\* Two concurrent commands on the archive, with unreadable and unsafe files.
CONSTANTS
  s1 = s1
  s2 = s2
  NONE = NONE
  Sessions = {s1, s2}
  MaxCommands = 2
  Listed = {"BEL"}
  Bytes <- Files
  Announced <- Lists
  Served <- Answers
  Uploads <- Given
  Syncs <- Asked
SPECIFICATION FilingsSpec
INVARIANT DocumentsTraceable
PROPERTIES SyncArchivesAll ArchiveStands
CHECK_DEADLOCK FALSE
