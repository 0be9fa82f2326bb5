\* One terminal, two peers that come and go, terminals before and after it with
\* versions below, at and above the highest one that is saved, and ticks that
\* are late by up to two units.
SPECIFICATION FairSpec
CONSTANTS
  Peers = {p1, p2}
  Machines = {1, 3}
  Me = 2
  Versions = {0, 1, 2}
  SaveLimit = 1
  Second = 2
  PeerReset = 4
  PeerProbe = 2
  StartDelay = 2
  AskInterval = 1
  ChooseInterval = 2
  Period = 4
  Rounds = 2
  MaxLag = 3
INVARIANTS
  OnlineIsRecent
  VersionDurable
PROPERTIES
  OfflineEarned
  ClaimEarned
  LeftAloneMaintains
