------------------------------- MODULE Semaphore -------------------------------
(***************************************************************************)
(* The semaphore of src/util/concurrency.ts as a value: the permits that   *)
(* are free and the users that wait, in the order they came.  A permit     *)
(* that is given back goes to the first of them without becoming free.     *)
(* Users that ask one after the other, with no await between them, enter   *)
(* together.                                                               *)
(***************************************************************************)
EXTENDS Naturals, Sequences

NewSemaphore(limit) == [free |-> limit, queue |-> <<>>]

\* How many of n users get a permit at once.
Granted(sem, n) == IF n < sem.free THEN n ELSE sem.free

\* #acquire by each of `users`.
Entered(sem, users) ==
  LET n == Granted(sem, Len(users)) IN
  [free  |-> sem.free - n,
   queue |-> sem.queue \o SubSeq(users, n + 1, Len(users))]

\* The users among them that go on at once.
GoingOn(sem, users) == {users[i] : i \in 1..Granted(sem, Len(users))}

\* #release
Left(sem) ==
  IF sem.queue = <<>> THEN [sem EXCEPT !.free = @ + 1] ELSE [sem EXCEPT !.queue = Tail(@)]

\* Who goes on when a permit is given back.
Woken(sem) == IF sem.queue = <<>> THEN {} ELSE {Head(sem.queue)}
===============================================================================
