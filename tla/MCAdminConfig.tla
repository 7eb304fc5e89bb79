----------------------------- MODULE MCAdminConfig -----------------------------
(***************************************************************************)
(* A small instance of AdminConfig: two browsers and a mailbox that is in  *)
(* the file or not.                                                        *)
(***************************************************************************)
EXTENDS AdminConfig

Form(enabled, folders) == [enabled |-> enabled, folders |-> folders]
OneForm == {Form(TRUE, {"f"})}

\* Both secrets or none, and one of them.
SomeGive == [c \in Clients |-> IF c = "c1" THEN {<<>>, <<"username", "password">>}
                                           ELSE {<<"username">>, <<"password">>}]
===============================================================================
