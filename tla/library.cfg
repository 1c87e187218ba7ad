SPECIFICATION Spec
CONSTANTS
  Archives <- MCArchives
  Designs <- MCDesigns
  Faults <- MCFaults
  MaxModels = 3
  MaxImports = 2
  MaxFaults = 1
  Keys <- MCKeys
  Seeds <- MCSeeds
  Bundles <- MCBundles
  Local <- MCLocal
  Legacy <- MCLegacy
  MaxStops = 3
  Engines = {"orca", "snapmaker"}
  Profiles <- MCProfiles
  Embedded <- MCEmbedded
  Printers = {"X1", "U1"}
  MaxEvents = 5
  Focus = {"models", "profiles", "picker"}
CHECK_DEADLOCK FALSE
INVARIANT DiskMatchesRows
INVARIANT ImportedOnce
INVARIANT ProfilesKept
INVARIANT SelectionListed
