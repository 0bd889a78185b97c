SPECIFICATION CurationSpec
CONSTANTS
    ed = ed  ad = ad  x = x
    User <- MCUser
    NoUser = NoUser
    Admin <- MCAdmin
    Ident <- MCIdent
    MaxEditgroups = 2
    LastTick = 5
    MaxSaves = 2
    TicksPerSecond = 3
    PageLimit = 1
    MaxBotDeaths = 1
    Scenes = {"editing", "review"}
CHECK_DEADLOCK FALSE
INVARIANTS CurationTypeOK SavesKept PublishedKept NonePassedOver
PROPERTIES AnnotatedOnce SubmittedReviewed
