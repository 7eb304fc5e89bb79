---------------------------- MODULE MCFolderReading ----------------------------
(***************************************************************************)
(* Small instances of FolderReading: a message of each length around the   *)
(* windows, the empty one included.                                        *)
(***************************************************************************)
EXTENDS FolderReading

Lengths == [u \in Uids |-> IF u = 1 THEN 0 ELSE u]
===============================================================================
