------------------------------- MODULE MCDiffRun -------------------------------
(* A small instance of DiffRun for TLC. *)
EXTENDS DiffRun

CONSTANTS python, typescript

(* Three blobs; one a promisor has, and a submodule; one there is not, and *)
(* a directory where the other side of the diff has a file.                *)
MCStores == {<<"blob", "blob", "blob">>, <<"promised", "blob", "submodule">>,
             <<"missing", "tree", "promised">>}

(* The untracked file's path comes between the others'.                    *)
MCPathOrder == <<2, 4, 1, 3>>

(* Up to the names of the two languages: typescript comes after python, and *)
(* the untracked file is python's, or nobody's.                            *)
MCProjects ==
  {f \in [Files -> {python, typescript, NoLanguage}] :
     /\ \A i \in Files : f[i] = typescript => \E j \in 1..(i - 1) : f[j] = python
     /\ \A i \in Files : i > Tracked => f[i] # typescript}
=============================================================================
