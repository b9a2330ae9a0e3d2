----------------------------- MODULE MCTaskFiles -----------------------------
(* TaskFiles for TLC.                                                      *)
EXTENDS TaskFiles

\* A media file with as many parts as there may be.
LongSpec == FilesInit /\ parts = MaxSlices /\ [][FilesNext]_filesVars
=============================================================================
