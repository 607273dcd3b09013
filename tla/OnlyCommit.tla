----------------------------- MODULE OnlyCommit -----------------------------
(***************************************************************************)
(* What `rgit commit --only` promises to several processes in one checkout *)
(* (CHANGELOG.md: "every commit lands with exactly its own paths"): each   *)
(* commit is one atomic step from the tree HEAD has at that moment to that *)
(* tree with the command's targets, and what its hook staged, replaced.    *)
(* There is no index, no lock and no moment at which a commit is half      *)
(* made.  Trees are sets of edits, as in RgitCommit.                       *)
(***************************************************************************)
CONSTANTS Procs, Commands, Paths, Edits, PathOf, HookStages, InitTrees

VARIABLES
    tree,    \* the tree of HEAD
    landed,  \* processes whose commit has landed
    cmd      \* p -> its command

vars == <<tree, landed, cmd>>

Replace(t, qs, src) == {e \in t : PathOf[e] \notin qs} \cup {e \in src : PathOf[e] \in qs}

\* The named paths come from the worktree, which holds every edit; a file
\* with named anchors gains those edits; the hook adds whole paths.
Targets(c, t, qs) ==
    LET files    == Replace(t, c.paths, Edits)
        anchored == Replace(files, {PathOf[e] : e \in c.anchors}, t \cup c.anchors)
    IN  Replace(anchored, qs, Edits)

Init ==
    /\ tree \in InitTrees
    /\ landed = {}
    /\ cmd \in [Procs -> Commands]

Commit(p) ==
    /\ p \notin landed
    /\ landed' = landed \cup {p}
    /\ \E qs \in HookStages : tree' = Targets(cmd[p], tree, qs)
    /\ UNCHANGED cmd

Next == \E p \in Procs : Commit(p)

Spec == Init /\ [][Next]_vars
=============================================================================
