SPECIFICATION Spec
CONSTANTS
    Sources <- ImplSources
    Before <- MCBefore
    Noise <- MCNoise
    Private = {"_g"}
    ShortNames = {"add", "sub", "run", "x", "y"}
    Boilerplate = {"licence"}
    ClassSplitTokens = 60
    UsesLimit = 2
INVARIANTS
    EverySignatureKept
CHECK_DEADLOCK FALSE
