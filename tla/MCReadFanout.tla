----------------------------- MODULE MCReadFanout -----------------------------
(***************************************************************************)
(* A small instance of ReadFanout: a mailbox with an All Mail folder, one  *)
(* with an allowlist and a disabled one; two calls, and fewer permits than *)
(* the operations they ask for.                                            *)
(***************************************************************************)
EXTENDS ReadFanout

Kinds == [f \in Folders |-> CASE f = "fa" -> "all" [] f = "ft" -> "apart" [] OTHER -> "plain"]
Mails == [m \in Mailboxes |-> [f \in Folders |-> CASE m # "m1" -> {1, 2, 3}
                                                   [] f = "ft" -> {1}
                                                   [] OTHER    -> {2}]]
Keys  == [u \in 1..3 |-> u]

Request(op, boxes, folders, filter, reads) ==
  [op |-> op, boxes |-> boxes, folders |-> folders, filter |-> filter, reads |-> reads]

\* One client searches, the other one does the rest.
Asked == [c \in Calls |->
  IF c = "c1"
  THEN {Request("search", {"m1", "m3"}, {}, FALSE, 0),
        Request("search", {"m2"}, {"fp"}, TRUE, 0)}
  ELSE {Request("page", {"m1"}, {"fp"}, FALSE, 0),
        Request("batch", {"m1", "m3"}, {}, FALSE, 2),
        Request("thread", {"m1"}, {}, FALSE, 1),
        Request("health", {}, {}, FALSE, 0), Request("health", {"m3"}, {}, FALSE, 0)}]
Scopes == [c \in Calls |-> IF c = "c1" THEN {{}, {"m1"}, {"m3"}} ELSE {}]
===============================================================================
