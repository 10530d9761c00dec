CONSTANTS
  old = old new = new
  Runners = {old, new}
  Versions = {1, 2, 3}
  NoTransaction = {2}
  Ships <- SmallShips
  Edits <- SmallEdits
  MaxDeaths = 1
  Files <- SmallFiles
  Setups <- SmallSetups
  probe = probe put = put delete = delete dump = dump profile = profile profile2 = profile2
  Requests = {probe, put, delete, dump, profile, profile2}
  Asked <- SmallAsked
  MaxInFlight = 1
  None = None Nobody = Nobody
SPECIFICATION FairSpec
INVARIANTS SchemaIsSound
PROPERTIES ProcessIsSound EverythingEnds
CHECK_DEADLOCK FALSE
