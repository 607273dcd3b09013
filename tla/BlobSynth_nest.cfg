SPECIFICATION Spec
CONSTANTS
    NL <- MCNL
    Tokens <- MCTokens
    Symbols <- MCSymbols
    Container = "C"
    Members = {"m", "n"}
    Files <- NestFiles
    MaxTargets = 2
INVARIANT SynthesizedAsNamed
