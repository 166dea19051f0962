CONSTANTS
    Filters = {"a/#", "a/b", "c"}
    Topics = {"a/b", "c"}
    Matches <- RouterMatches
    MaxRoutes = 3
    MaxCalls = 2
    StoreKinds = {"file", "memory"}
    MaxFlows = 3
    MaxCrashes = 2
    ServerKinds = {"down", "silent", "hangup", "both", "v3", "v4", "refuse", "odd", "other"}
    Serverss <- ServerLists
    MaxReconnectInterval = 3
    MaxChanges = 1
    MaxLosses = 2
    MaxEvents = 3
    Inputs <- FrameLists
    MaxWrites = 2
    Streams <- PacketStreams
    Letters = {"a", "b", "x", "y", "S"}
    WatchFilters <- FilterSet
    RowTopics <- TopicSet
SPECIFICATION PartsSpec
CHECK_DEADLOCK FALSE
INVARIANTS
    InFlightKept
    SurvivesOneCrash
    
    
    
    ReadsWhatWasWritten
    
    WildcardsFound
    
PROPERTIES
    
    
    CloseEndsReading
