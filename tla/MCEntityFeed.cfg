SPECIFICATION EntitySpec
CONSTANTS
    r1 = r1  f = f  w = w  c = c
    Release <- MCRelease
    File <- MCFile
    Capture <- MCCapture
    Container <- MCContainer
    Seed <- MCSeed
    Metadata <- MCMetadata
    Indexed = {"release"}
    MaxEntries = 2
    EntrySize = 2
    BatchSize = 2
    MaxCrashes = 1
CHECK_DEADLOCK FALSE
INVARIANTS EntityTypeOK UpdatesNotLost
PROPERTIES IndexConverges NewReleasesIngested
