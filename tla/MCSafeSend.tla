------------------------------ MODULE MCSafeSend ------------------------------
(***************************************************************************)
(* Small instances of SafeSend: two contents, three policies to save, and  *)
(* callers that are interchangeable.                                       *)
(***************************************************************************)
EXTENDS SafeSend, TLC

CONSTANTS p1, p2

\* The defaults of SendPolicySchema with the rate limits brought down to the bounds.
DraftOnly == [mode |-> "draft_only", denied |-> {}, perHour |-> 1, perDay |-> 2]
Direct    == [mode |-> "direct_allowed", denied |-> {p2}, perHour |-> 1, perDay |-> 2]
Daily     == [mode |-> "direct_allowed", denied |-> {p2}, perHour |-> 2, perDay |-> 1]
Selective == [mode |-> "draft_only", denied |-> {p2}, perHour |-> 2, perDay |-> 2]
Closed    == [mode |-> "disabled", denied |-> {}, perHour |-> 1, perDay |-> 2]

CallersAreAlike == Permutations(Callers)

DraftPolicies  == {Closed, Selective}
DirectPolicies == {Direct}
LimitPolicies  == {Direct, Daily}
===============================================================================
