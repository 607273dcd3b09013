SPECIFICATION Spec
CONSTANTS
    NL <- MCNL
    Tokens <- MCTokens
    Symbols <- MCSymbols
    Container = "C"
    Members = {"m", "n"}
    Files <- MCFiles
    MaxTargets = 3
PROPERTIES SpliceSpec TokensAccounted
INVARIANTS SpliceTypeOK KeptDisjoint KeptOnce PrefixIntact EndInherited AsEdited
            LinesApart EndsAsBefore RoundTrip 
