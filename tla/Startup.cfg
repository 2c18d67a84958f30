\* Every image on every volume, two attempts at yt-dlp, three faults, two new releases.
SPECIFICATION FairSpec
CONSTANTS
  Attempts = 2
  MaxFaults = 3
  Migrations = 2
  MaxReleases = 2
INVARIANTS
  CompanionsRun
  RetriesRideOut
  MigratedOnce
  OpenIsMigrated
PROPERTIES
  StartsInTheEnd
