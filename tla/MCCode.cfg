SPECIFICATION Spec
CONSTANTS
    Sources <- MCSources
    Before <- MCBefore
    Noise <- MCNoise
    Private = {"_g"}
    ShortNames = {"add", "sub", "run", "x", "y"}
    Boilerplate = {"licence"}
    ClassSplitTokens = 60
    UsesLimit = 2
INVARIANTS
    RetainedCodeIsBound
    CollapsedBodySurvives
    MethodsOnlyOnce
CHECK_DEADLOCK FALSE
