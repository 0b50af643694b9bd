SPECIFICATION Spec
CONSTANTS
    Contexts <- MCContexts
    Line <- MCLine
    Json <- MCJson
    Yaml <- MCYaml
    Payloads <- MCPayloads
    Labels <- MCLabels
    Sticky <- MCSticky
    SwitchPenalty = 32
    ShortDocument = 400
    Similarity = 72
    MaxTemplates = 3
    SlotValues = 2
    Placeholder = "<N>"
    MaxVerbatim = 3
    DecomposeMin = 400
    FullLimit = 4000
INVARIANTS
    FencesAreExact
    LabelsExplainLines
    NothingLost
    HeadingScope
    RowsBringHeader
    InlinedConstantsHold
CHECK_DEADLOCK FALSE
