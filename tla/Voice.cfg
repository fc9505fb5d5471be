SPECIFICATION Spec
CONSTANTS
    MaxRelays = 2
    MaxAudio = 1
    MaxEdits = 2
CHECK_DEADLOCK FALSE
INVARIANTS
    TypeOK
    VoiceHasOneRelay
    MarkersAreTaken
    ContextIsFresh
