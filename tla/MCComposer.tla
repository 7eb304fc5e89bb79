------------------------------ MODULE MCComposer ------------------------------
(***************************************************************************)
(* Small instances of Composer.  Patient users have one call pending at a  *)
(* time, so their instance may have more versions and lost calls.          *)
(***************************************************************************)
EXTENDS Composer, TLC

WindowsAreAlike == Permutations(Windows)
SlotsAreAlike == Permutations(Slots)

For(hasty, careful) == [p \in BOOLEAN |-> IF p THEN careful ELSE hasty]

Versions == For(3, 4)
Confirmations == For(1, 2)
LostCalls == For(0, 1)

\* Two windows on one draft.
VersionsOfTwo == For(3, 0)
ConfirmationsOfTwo == For(1, 0)
LostCallsOfTwo == For(1, 0)
===============================================================================
