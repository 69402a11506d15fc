SPECIFICATION FilesSpec
CONSTANTS
  c1 = c1
  c2 = c2
  old = old
  new = new
  Caller = {c1, c2}
  FileOwner = {"core", "x"}
  Core = "core"
  ActsFor <- ActsForOwner
  MarkerOf <- Markers
  Path = {"p"}
  Body = {old, new}
  Batches <- Singles
  NoCaller = NoCaller
  NoFile = NoFile
  NoMark = NoMark
  NoText = NoText
  NoEntry = NoEntry
  MaxCalls = 2
  MaxEdits = 0
  MaxCuts = 0
  MaxLosses = 0
PROPERTY OwnersApart
CHECK_DEADLOCK FALSE
