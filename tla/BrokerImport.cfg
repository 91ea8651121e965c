\* Two concurrent imports of overlapping, repeating, refused and unreadable files.
CONSTANTS
  s1 = s1
  s2 = s2
  k1 = k1
  k2 = k2
  k3 = k3
  old = old
  recent = recent
  twice = twice
  nan = nan
  pnl = pnl
  ABSENT = ABSENT
  Sessions = {s1, s2}
  Files = {old, recent, twice, nan, pnl}
  Keys = {k1, k2, k3}
  Content <- Exports
  Unreadable = {pnl}
SPECIFICATION FairImportSpec
INVARIANTS SuccessIsComplete RowsAreTraceable
PROPERTIES ImportsOnlyAdd ImportsEnd
CHECK_DEADLOCK FALSE
