SPECIFICATION Spec
CONSTANTS
    Clients = {"sdk", "tui"}
    Transcripts <- MCTranscripts
    Configs <- MCConfigs
    ReadSizes <- MCReadSizes
    ChannelCap = 2
    MaxBuffer = 8192
    KeepBuffer = 4096
    MaxRounds = 4
    MaxStarts = 2
    MaxDrops = 1
INVARIANTS
    FramesExact
    ParsedAtOnce
    TagsExact
    TargetTurns
    RotationFair
CHECK_DEADLOCK FALSE
