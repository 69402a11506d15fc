SPECIFICATION PartsSpec
CONSTANTS
  p1 = p1
  p2 = p2
  Nobody = Nobody
  Command = {p1, p2}
  MaxWorkers = 2
  MaxAccidents = 1
  MaxRecycled = 1
  here = here
  there = there
  NoHolder = NoHolder
  NoVolume = NoVolume
  NoRecord = NoRecord
  Process = {p1, p2}
  Owner = {here, there}
  MaxGenerations = 3
  Mount = {1, 2}
  Service = {1, 2, 3}
  Condition = {"service_started", "service_healthy"}
  MaxDependencies = 3
  Publisher = {1, 2}
  Subscriber = {3, 4}
  Capacity = 1
  HistoryCap = 2
  MaxEvents = 3
  NoFile = NoFile
  c1 = c1
  c2 = c2
  old = old
  new = new
  Caller = {c1, c2}
  FileOwner = {"core", "x"}
  Core = "core"
  ActsFor <- ActsForOwner
  MarkerOf <- Markers
  Path = {"p", "q"}
  Body = {old, new}
  Batches <- SomeBatches
  NoCaller = NoCaller
  NoMark = NoMark
  NoText = NoText
  NoEntry = NoEntry
  MaxCalls = 3
  MaxEdits = 2
  MaxCuts = 1
  MaxLosses = 1
  MaxChanges = 4
INVARIANTS
  NoWorkerLost
  FilesMatchRecord
  OnlyKnownAreStruck
  DependenciesFirst
  NothingUnexplained
  NothingMissedUncounted
  OneClaimPerGeneration
  LedgerTellsTruth
  NoWriteLost
  NoEarlyWriter
  OnlySkippedAreStranded
PROPERTIES
  OperationsEnd
  RecordNeverRegresses
  EditsSpared
  HandsOff
CHECK_DEADLOCK FALSE
