---------------------------- MODULE MCStoreMoves ----------------------------
(* Instances of StoreMoves for model checking. *)
EXTENDS StoreMoves, TLC

CONSTANTS j1, j2

\* A two-file group and a folder in one job: a file and a socket may appear in it.
OneJob == (j1 :> {1, 2})
GroupAndFolder == (1 :> {11, 12}) @@ (2 :> {21, 22, 23})

\* Two moves of the same file.
SameItem == (j1 :> {1}) @@ (j2 :> {1})
OneFile == (1 :> {11})
=============================================================================
