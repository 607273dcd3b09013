---------------------------- MODULE MCRgitCommit ----------------------------
(* Small instances of RgitCommit for TLC. *)
EXTENDS RgitCommit, TLC

CONSTANTS p1, p2, fileA, fileB, a1, a2, a3, b1, b2

MCPaths  == {fileA, fileB}
MCEdits  == {a1, a2, a3, b1, b2}
MCPathOf == (a1 :> fileA) @@ (a2 :> fileA) @@ (a3 :> fileA) @@ (b1 :> fileB)
            @@ (b2 :> fileB)

\* One commit that already holds a3; b1 is staged by somebody else, b2 is not
MCRoot   == {<<[tree |-> {a3}, parent |-> 0]>>}
MCBoth   == MCRoot \cup {<< >>}
MCStaged == {a3, b1}

MCCmd(mode, paths, anchors) ==
    [mode |-> mode, amend |-> FALSE, allowEmpty |-> FALSE, push |-> FALSE,
     paths |-> paths, anchors |-> anchors]

Amending(c) == [c EXCEPT !.amend = TRUE]
Pushing(c)  == [c EXCEPT !.push = TRUE]
Allowing(c) == [c EXCEPT !.allowEmpty = TRUE]

\* --only commands: two symbols of one file, a symbol and a path, an amend
OnlyCommands ==
    {MCCmd("only", {}, {a1}), MCCmd("only", {}, {a2}),
     Pushing(MCCmd("only", {fileB}, {a2})), Amending(MCCmd("only", {}, {})),
     MCCmd("only", {}, {})}

\* One --only command that is not an amend, next to plain and stage-only ones
MixedCommands ==
    {MCCmd("only", {}, {a1}), MCCmd("only", {fileB}, {a2}),
     MCCmd("plain", {}, {a2}), MCCmd("stage", {fileB}, {})}

\* Every shape of plain command, for a process alone in its checkout
PlainCommands ==
    {c \in [mode : {"plain", "stage"}, amend : BOOLEAN, allowEmpty : BOOLEAN,
            push : BOOLEAN, paths : {{}, {fileA}, {fileB}},
            anchors : {{}, {a1}, {a3}, {a1, a3}, {a2, b2}}] : TRUE}

PlainOrOnly == {MCCmd("only", {}, {a1}), MCCmd("plain", {}, {a2})}
OneOnlyAmend == {Amending(MCCmd("only", {}, {a1}))}
OnePlain == {MCCmd("plain", {}, {a1})}

NoHook   == {{}}
HookAddsB == {{}, {fileB}}
=============================================================================
