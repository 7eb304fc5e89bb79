--------------------------- MODULE MCMailboxSettings ---------------------------
(***************************************************************************)
(* Small instances of MailboxSettings.                                     *)
(***************************************************************************)
EXTENDS MailboxSettings, TLC

Alike == Permutations(Windows) \cup Permutations(Slots) \cup Permutations(Mailboxes)
           \cup Permutations(Settings) \cup Permutations(Credentials)
===============================================================================
