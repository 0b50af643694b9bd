SPECIFICATION Spec
CONSTANTS
    Contexts <- LogContexts
    Line <- MCLine
    Json <- MCJson
    Yaml <- MCYaml
    Payloads <- MCPayloads
    Labels <- MCLabels
    Sticky <- MCSticky
    SwitchPenalty = 32
    ShortDocument = 400
    Similarity = 72
    MaxTemplates = 3
    SlotValues = 2
    Placeholder = "<N>"
    MaxVerbatim = 3
    DecomposeMin = 400
    FullLimit = 4000
INVARIANT ErrorsFloored
CHECK_DEADLOCK FALSE
