------------------------------- MODULE MCSentCopy -------------------------------
(***************************************************************************)
(* SentCopy with the values of src/send/sentCopy.ts: the .cfg files give   *)
(* the three attempts and the five observations of the defaults.           *)
(***************************************************************************)
EXTENDS SentCopy
===============================================================================
