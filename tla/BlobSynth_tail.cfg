SPECIFICATION Spec
CONSTANTS
    NL <- MCNL
    Tokens <- MCTokens
    Symbols <- MCSymbols
    Container = "C"
    Members = {"m", "n"}
    Files <- TailFiles
    MaxTargets = 2
INVARIANT NeverPanics
