--------------------------- MODULE PermitPoolProofs ---------------------------
(***************************************************************************)
(* The promise of the semaphores, for any number of permits and users.     *)
(* The three facts are inductive together: a permit that is given back     *)
(* while somebody waits changes hands without becoming free, which needs   *)
(* that nobody waits beside a free permit, and that the one who is woken   *)
(* did not hold one already.                                               *)
(***************************************************************************)
EXTENDS PermitPool, FiniteSetTheorems, TLAPS

PoolInv == PoolTypeOK /\ QueueIsOrderly /\ PermitsAreConserved /\ NobodyWaitsInVain

\* The same of a semaphore s, a set h of holders and a number of permits.
Pool(s, h, limit) ==
  /\ s \in [free : Nat, queue : Seq(Users)]
  /\ h \subseteq Users
  /\ \A i, j \in DOMAIN s.queue : i # j => s.queue[i] # s.queue[j]
  /\ \A i \in DOMAIN s.queue : s.queue[i] \notin h
  /\ IsFiniteSet(h)
  /\ s.free + Cardinality(h) = limit
  /\ s.queue # <<>> => s.free = 0

\* A sequence of SetToSeqs lists its set, each element once.
LEMMA ListsItsSet ==
  ASSUME NEW S, IsFiniteSet(S), NEW s \in SetToSeqs(S)
  PROVE  /\ s \in Seq(S) /\ Len(s) = Cardinality(S)
         /\ \A i, j \in 1..Len(s) : i # j => s[i] # s[j]
<1>1. Cardinality(S) \in Nat
  BY FS_CardinalityType
<1>2. s \in [1..Cardinality(S) -> S] /\ \A i, j \in 1..Cardinality(S) : i # j => s[i] # s[j]
  BY DEF SetToSeqs
<1> QED BY <1>1, <1>2

\* The first n of different things are n.
LEMMA FirstOfMany ==
  ASSUME NEW S, NEW s \in Seq(S), NEW n \in 0..Len(s),
         \A i, j \in 1..Len(s) : i # j => s[i] # s[j]
  PROVE  LET first == {s[i] : i \in 1..n} IN
         IsFiniteSet(first) /\ Cardinality(first) = n /\ first \subseteq S
<1> DEFINE first == {s[i] : i \in 1..n}
           f == [i \in 1..n |-> s[i]]
<1>1. f \in Bijection(1..n, first)
  <2>1. f \in [1..n -> first]
    OBVIOUS
  <2>2. \A a, b \in 1..n : f[a] = f[b] => a = b
    OBVIOUS
  <2>3. \A t \in first : \E a \in 1..n : f[a] = t
    OBVIOUS
  <2> QED BY <2>1, <2>2, <2>3 DEF Bijection, Injection, Surjection, IsInjective
<1>2. IsFiniteSet(1..n) /\ Cardinality(1..n) = n
  BY FS_Interval
<1>3. IsFiniteSet(first) /\ Cardinality(first) = n
  BY <1>1, <1>2, FS_Bijection DEF ExistsBijection
<1> QED BY <1>3

\* Users who enter together: the first of them share the free permits, the others queue up.
LEMMA EnterKeepsPool ==
  ASSUME NEW s, NEW h, NEW limit \in Nat, Pool(s, h, limit),
         NEW users \in Seq(Users),
         \A i, j \in 1..Len(users) : i # j => users[i] # users[j],
         \A i \in 1..Len(users) :
           users[i] \notin h /\ \A j \in DOMAIN s.queue : users[i] # s.queue[j]
  PROVE  Pool(Entered(s, users), h \cup GoingOn(s, users), limit)
<1> DEFINE n == Granted(s, Len(users))
           rest == SubSeq(users, n + 1, Len(users))
           on == GoingOn(s, users)
           queue == s.queue \o rest
<1>1. s.free \in Nat /\ s.queue \in Seq(Users)
  BY DEF Pool
<1>2. n \in 0..Len(users) /\ n <= s.free /\ n \in Nat
  BY <1>1 DEF Granted
<1>3. IsFiniteSet(on) /\ Cardinality(on) = n /\ on \subseteq Users
  BY <1>2, FirstOfMany DEF GoingOn
<1>4. Entered(s, users) = [free |-> s.free - n, queue |-> queue]
  BY DEF Entered
<1>5. rest \in Seq(Users) /\ Len(rest) = Len(users) - n
      /\ \A i \in 1..Len(rest) : rest[i] = users[n + i] /\ n + i \in 1..Len(users)
  <2>1. rest \in Seq(Users) /\ Len(rest) = Len(users) - n
    BY <1>2
  <2>2. \A i \in 1..Len(rest) : rest[i] = users[n + i]
    BY <1>2
  <2>3. \A i \in 1..(Len(users) - n) : n + i \in 1..Len(users)
    BY <1>2
  <2> QED BY <2>1, <2>2, <2>3
<1> HIDE DEF n, rest
<1>6. /\ queue \in Seq(Users)
      /\ DOMAIN queue = 1..(Len(s.queue) + Len(rest))
      /\ \A i \in 1..Len(s.queue) : queue[i] = s.queue[i]
      /\ \A i \in (Len(s.queue) + 1)..(Len(s.queue) + Len(rest)) :
           queue[i] = rest[i - Len(s.queue)]
  <2>1. s.queue \in Seq(Users) /\ rest \in Seq(Users)
    BY <1>1, <1>5
  <2>2. queue \in Seq(Users) /\ DOMAIN queue = 1..(Len(s.queue) + Len(rest))
    BY <2>1
  <2>3. \A i \in 1..Len(s.queue) : queue[i] = s.queue[i]
    BY <2>1
  <2>4. \A i \in (Len(s.queue) + 1)..(Len(s.queue) + Len(rest)) :
          queue[i] = rest[i - Len(s.queue)]
    BY <2>1
  <2> QED BY <2>2, <2>3, <2>4
<1> HIDE DEF queue
<1> DEFINE L == Len(s.queue)
<1>u. L \in Nat /\ DOMAIN s.queue = 1..L
  BY <1>1
<1>a. \A i \in DOMAIN queue : i \in DOMAIN s.queue => queue[i] = s.queue[i]
  BY <1>u, <1>6
<1>b. \A i \in DOMAIN queue : i \notin DOMAIN s.queue =>
        queue[i] = users[n + (i - L)] /\ n + (i - L) \in (n + 1)..Len(users)
  <2> SUFFICES ASSUME NEW i \in DOMAIN queue, i \notin DOMAIN s.queue
               PROVE  queue[i] = users[n + (i - L)] /\ n + (i - L) \in (n + 1)..Len(users)
    OBVIOUS
  <2>1. Len(rest) \in Nat /\ i \in (L + 1)..(L + Len(rest)) /\ i - L \in 1..Len(rest)
    BY <1>u, <1>5, <1>6
  <2>2. queue[i] = rest[i - L] /\ rest[i - L] = users[n + (i - L)]
        /\ n + (i - L) \in 1..Len(users)
    <3>1. queue[i] = rest[i - L]
      BY <1>6, <2>1
    <3>2. \A k \in 1..Len(rest) : rest[k] = users[n + k] /\ n + k \in 1..Len(users)
      BY <1>5
    <3> HIDE DEF L
    <3> QED BY <2>1, <3>1, <3>2
  <2>3. n + (i - L) >= n + 1
    BY <1>2, <1>u, <2>1
  <2> QED BY <1>2, <2>2, <2>3
<1>7. \A i, j \in DOMAIN queue : i # j => queue[i] # queue[j]
  <2> SUFFICES ASSUME NEW i \in DOMAIN queue, NEW j \in DOMAIN queue, i # j
               PROVE  queue[i] # queue[j]
    OBVIOUS
  <2>1. i \in Nat /\ j \in Nat
    BY <1>u, <1>5, <1>6
  <2>2. CASE i \in DOMAIN s.queue /\ j \in DOMAIN s.queue
    BY <2>2, <1>a DEF Pool
  <2>3. CASE i \in DOMAIN s.queue /\ j \notin DOMAIN s.queue
    BY <2>3, <1>2, <1>a, <1>b
  <2>4. CASE i \notin DOMAIN s.queue /\ j \in DOMAIN s.queue
    BY <2>4, <1>2, <1>a, <1>b
  <2>5. CASE i \notin DOMAIN s.queue /\ j \notin DOMAIN s.queue
    <3>1. n + (i - L) # n + (j - L)
      BY <1>2, <1>u, <2>1
    <3>2. n + (i - L) \in 1..Len(users) /\ n + (j - L) \in 1..Len(users)
      BY <1>2, <1>b, <2>5
    <3>3. queue[i] = users[n + (i - L)] /\ queue[j] = users[n + (j - L)]
      BY <1>b, <2>5
    <3> QED BY <3>1, <3>2, <3>3
  <2> QED BY <2>2, <2>3, <2>4, <2>5
<1>c. \A k \in (n + 1)..Len(users) : users[k] \notin h \cup on
  BY <1>2 DEF GoingOn, n
<1>8. \A i \in DOMAIN queue : queue[i] \notin h \cup on
  <2> SUFFICES ASSUME NEW i \in DOMAIN queue PROVE queue[i] \notin h \cup on
    OBVIOUS
  <2>1. CASE i \in DOMAIN s.queue
    <3>1. s.queue[i] \notin h
      BY <2>1 DEF Pool
    <3>2. s.queue[i] \notin on
      BY <2>1, <1>2 DEF GoingOn, n
    <3> QED BY <2>1, <3>1, <3>2, <1>a
  <2>2. CASE i \notin DOMAIN s.queue
    BY <2>2, <1>b, <1>c
  <2> QED BY <2>1, <2>2
<1>9. /\ IsFiniteSet(h \cup on)
      /\ Cardinality(h \cup on) = Cardinality(h) + n
  <2>1. h \cap on = {}
    BY <1>2 DEF GoingOn, n
  <2>2. IsFiniteSet(h) /\ Cardinality(h) \in Nat
    BY FS_CardinalityType DEF Pool
  <2>3. Cardinality(h \cap on) = 0
    BY <2>1, FS_EmptySet
  <2> HIDE DEF on
  <2>4. /\ IsFiniteSet(h \cup on)
        /\ Cardinality(h \cup on) = Cardinality(h) + Cardinality(on) - Cardinality(h \cap on)
    BY <1>3, <2>2, FS_Union
  <2> QED BY <1>2, <1>3, <2>2, <2>3, <2>4
<1>10. s.free + Cardinality(h) = limit /\ Cardinality(h) \in Nat
  BY FS_CardinalityType DEF Pool
<1>11. queue # <<>> => s.free - n = 0
  <2>1. CASE s.queue # <<>>
    BY <2>1, <1>1, <1>2 DEF Pool
  <2>2. CASE s.queue = <<>> /\ rest = <<>>
    BY <2>2 DEF queue
  <2>3. CASE rest # <<>>
    BY <2>3, <1>1, <1>2, <1>5 DEF n, Granted
  <2> QED BY <2>1, <2>2, <2>3
<1> QED
  BY <1>1, <1>2, <1>3, <1>4, <1>6, <1>7, <1>8, <1>9, <1>10, <1>11 DEF Pool

\* A user that is done: its permit goes to the head of the queue, or becomes free.
LEMMA LeaveKeepsPool ==
  ASSUME NEW s, NEW h, NEW limit \in Nat, Pool(s, h, limit), NEW user \in h
  PROVE  Pool(Left(s), (h \ {user}) \cup Woken(s), limit)
<1> DEFINE rest == h \ {user}
<1>1. /\ s.free \in Nat /\ s.queue \in Seq(Users)
      /\ IsFiniteSet(h) /\ Cardinality(h) \in Nat
  BY FS_CardinalityType DEF Pool
<1>2. IsFiniteSet(rest) /\ Cardinality(rest) = Cardinality(h) - 1 /\ rest \subseteq Users
  BY <1>1, FS_RemoveElement DEF Pool
<1>3. CASE s.queue = <<>>
  <2>1. Left(s) = [free |-> s.free + 1, queue |-> <<>>] /\ Woken(s) = {}
    BY <1>3 DEF Left, Woken, Pool
  <2> QED BY <1>1, <1>2, <2>1 DEF Pool
<1>4. CASE s.queue # <<>>
  <2> DEFINE first == Head(s.queue)
  <2>1. Left(s) = [free |-> s.free, queue |-> Tail(s.queue)] /\ Woken(s) = {first}
    BY <1>4 DEF Left, Woken, Pool
  <2>2. /\ Tail(s.queue) \in Seq(Users) /\ first \in Users /\ first = s.queue[1]
        /\ 1 \in DOMAIN s.queue /\ DOMAIN Tail(s.queue) = 1..(Len(s.queue) - 1)
        /\ \A i \in DOMAIN Tail(s.queue) :
             Tail(s.queue)[i] = s.queue[i + 1] /\ i + 1 \in DOMAIN s.queue
    BY <1>1, <1>4
  <2> HIDE DEF first, rest
  <2>3. first \notin rest
    BY <2>2 DEF Pool, rest
  <2>4. IsFiniteSet(rest \cup {first}) /\ Cardinality(rest \cup {first}) = Cardinality(h)
    <3>1. /\ IsFiniteSet(rest \cup {first})
          /\ Cardinality(rest \cup {first}) = Cardinality(rest) + 1
      BY <1>2, <2>3, FS_AddElement
    <3> QED BY <1>1, <1>2, <3>1
  <2>5. \A i \in DOMAIN Tail(s.queue) : Tail(s.queue)[i] \notin rest \cup {first}
    BY <2>2, <1>1 DEF Pool, rest
  <2>6. \A i, j \in DOMAIN Tail(s.queue) : i # j => Tail(s.queue)[i] # Tail(s.queue)[j]
    BY <2>2, <1>1 DEF Pool
  <2>7. s.free = 0 /\ s.free + Cardinality(h) = limit
    BY <1>4 DEF Pool
  <2> QED BY <1>2, <2>1, <2>2, <2>4, <2>5, <2>6, <2>7 DEF Pool, rest
<1> QED BY <1>3, <1>4

LEMMA PoolsOfState ==
  PoolInv <=> \A p \in Pools : Pool(sem[p], holders[p], Limit[p])
BY DEF PoolInv, Pool, PoolTypeOK, QueueIsOrderly, PermitsAreConserved, NobodyWaitsInVain, Waiting

\* Of users who enter together, each goes on or waits behind those who wait already.
LEMMA EnteredShare ==
  ASSUME NEW s, s.queue \in Seq(Users), s.free \in Nat, NEW users \in Seq(Users)
  PROVE  LET old == {s.queue[i] : i \in DOMAIN s.queue}
             now == {Entered(s, users).queue[i] : i \in DOMAIN Entered(s, users).queue}
             all == {users[i] : i \in 1..Len(users)}
         IN  /\ old \subseteq now /\ GoingOn(s, users) \subseteq all
             /\ now \cup GoingOn(s, users) = old \cup all
<1> DEFINE all == {users[i] : i \in 1..Len(users)}
           n == Granted(s, Len(users))
           rest == SubSeq(users, n + 1, Len(users))
           q == s.queue
           whole == q \o rest
<1>1. n \in 0..Len(users) /\ n \in Nat
  BY DEF Granted
<1>2. /\ rest \in Seq(Users) /\ Len(rest) = Len(users) - n
      /\ \A i \in 1..Len(rest) : rest[i] = users[n + i]
  BY <1>1
<1>3. Entered(s, users).queue = whole /\ GoingOn(s, users) = {users[i] : i \in 1..n}
  BY DEF Entered, GoingOn
<1> HIDE DEF n, rest
<1>4. q \in Seq(Users) /\ Len(q) \in Nat /\ Len(rest) \in Nat /\ DOMAIN q = 1..Len(q)
  BY <1>2
<1> HIDE DEF q
<1>5. /\ DOMAIN whole = 1..(Len(q) + Len(rest))
      /\ \A i \in 1..Len(q) : whole[i] = q[i]
      /\ \A i \in 1..Len(rest) : whole[Len(q) + i] = rest[i]
  <2>1. q \in Seq(Users) /\ rest \in Seq(Users)
    BY <1>2, <1>4
  <2>2. whole \in Seq(Users) /\ Len(whole) = Len(q) + Len(rest)
    BY <2>1
  <2>3. DOMAIN whole = 1..Len(whole)
    BY <2>2
  <2>4. \A i \in 1..Len(q) : whole[i] = q[i]
    BY <2>1
  <2>5. \A i \in (Len(q) + 1)..(Len(q) + Len(rest)) : whole[i] = rest[i - Len(q)]
    BY <2>1
  <2>6. \A i \in 1..Len(rest) :
          Len(q) + i \in (Len(q) + 1)..(Len(q) + Len(rest)) /\ (Len(q) + i) - Len(q) = i
    BY <1>4
  <2>7. \A i \in 1..Len(rest) : whole[Len(q) + i] = rest[i]
    BY <2>5, <2>6
  <2> QED BY <2>2, <2>3, <2>4, <2>7
<1> HIDE DEF whole
<1> DEFINE old == {q[i] : i \in 1..Len(q)}
           behind == {rest[i] : i \in 1..Len(rest)}
<1>6. {whole[i] : i \in 1..(Len(q) + Len(rest))} = old \cup behind
  <2>1. ASSUME NEW i \in 1..(Len(q) + Len(rest)) PROVE whole[i] \in old \cup behind
    <3>1. CASE i <= Len(q)
      BY <1>4, <1>5, <2>1, <3>1
    <3>2. CASE ~(i <= Len(q))
      <4>1. i - Len(q) \in 1..Len(rest) /\ Len(q) + (i - Len(q)) = i
        BY <1>4, <2>1, <3>2
      <4> QED BY <1>5, <4>1
    <3> QED BY <3>1, <3>2
  <2>2. ASSUME NEW i \in 1..Len(q)
        PROVE  q[i] \in {whole[j] : j \in 1..(Len(q) + Len(rest))}
    BY <1>4, <1>5, <2>2
  <2>3. ASSUME NEW i \in 1..Len(rest)
        PROVE  rest[i] \in {whole[j] : j \in 1..(Len(q) + Len(rest))}
    <3>1. Len(q) + i \in 1..(Len(q) + Len(rest))
      BY <1>4, <2>3
    <3> QED BY <1>5, <3>1
  <2> QED BY <2>1, <2>2, <2>3
<1>7. all = GoingOn(s, users) \cup behind
  <2>1. ASSUME NEW i \in 1..Len(users) PROVE users[i] \in {users[j] : j \in 1..n} \cup behind
    <3>1. CASE i <= n
      BY <1>1, <2>1, <3>1
    <3>2. CASE ~(i <= n)
      <4>1. i - n \in 1..Len(rest) /\ n + (i - n) = i
        BY <1>1, <1>2, <2>1, <3>2
      <4> QED BY <1>2, <4>1
    <3> QED BY <3>1, <3>2
  <2>2. \A i \in 1..n : i \in 1..Len(users)
    BY <1>1
  <2>3. \A i \in 1..Len(rest) : n + i \in 1..Len(users)
    BY <1>1, <1>2
  <2>4. \A i \in 1..Len(rest) : rest[i] \in all
    BY <1>2, <2>3
  <2>5. \A i \in 1..n : users[i] \in all
    BY <2>2
  <2>6. \A u \in all : u \in {users[j] : j \in 1..n} \cup behind
    BY <2>1
  <2> HIDE DEF all
  <2> QED BY <1>3, <2>4, <2>5, <2>6
<1> HIDE DEF old, behind, all
<1>8. /\ {q[i] : i \in DOMAIN q} = old
      /\ {Entered(s, users).queue[i] : i \in DOMAIN Entered(s, users).queue} = old \cup behind
  BY <1>3, <1>4, <1>5, <1>6 DEF old
<1> QED BY <1>7, <1>8 DEF q, all

\* A pool never gives out more permits than it has, serves in the order of asking, and
\* leaves nobody waiting beside a free permit: the semaphores of concurrency.ts, for any
\* limits and any number of pools and users.
THEOREM PoolIsSound ==
  ASSUME LimitsAreNatural
  PROVE  Spec => []PoolInv
<1>1. Init => PoolInv
  <2> SUFFICES ASSUME Init, NEW p \in Pools PROVE Pool(sem[p], holders[p], Limit[p])
    BY PoolsOfState
  <2>1. sem[p] = [free |-> Limit[p], queue |-> <<>>] /\ holders[p] = {}
    BY DEF Init, NewSemaphore
  <2>2. IsFiniteSet({}) /\ Cardinality({}) = 0
    BY FS_EmptySet
  <2> QED BY <2>1, <2>2, LimitsAreNatural DEF Pool, LimitsAreNatural
<1>2. PoolInv /\ [Next]_vars => PoolInv'
  <2> SUFFICES ASSUME PoolInv, [Next]_vars, NEW p \in Pools PROVE Pool(sem'[p], holders'[p], Limit[p])
    BY DEF PoolInv, Pool, PoolTypeOK, QueueIsOrderly, PermitsAreConserved, NobodyWaitsInVain, Waiting
  <2>0. Pool(sem[p], holders[p], Limit[p]) /\ Limit[p] \in Nat
    BY PoolsOfState DEF LimitsAreNatural
  <2>1. CASE Enter(p)
    <3>1. PICK new : new = Members(p)' \ Members(p)
      OBVIOUS
    <3>2. IsFiniteSet(new) /\ new \subseteq Users
      BY <2>1, <3>1 DEF Enter
    <3>3. PICK users \in SetToSeqs(new) :
            /\ sem'[p] = Entered(sem[p], users)
            /\ holders'[p] = holders[p] \cup GoingOn(sem[p], users)
      BY <2>1, <3>1 DEF Enter
    <3>4. /\ users \in Seq(new)
          /\ \A i, j \in 1..Len(users) : i # j => users[i] # users[j]
      BY <3>2, ListsItsSet
    <3>5. users \in Seq(Users)
      BY <3>2, <3>4
    <3>6. \A i \in 1..Len(users) : users[i] \notin Members(p)
      BY <3>1, <3>4
    <3>7. \A i \in 1..Len(users) :
            users[i] \notin holders[p] /\ \A j \in DOMAIN sem[p].queue : users[i] # sem[p].queue[j]
      BY <3>6 DEF Members, Waiting
    <3> QED BY <2>0, <3>3, <3>4, <3>5, <3>7, EnterKeepsPool
  <2>2. ASSUME NEW user \in holders[p], Leave(p, user) PROVE Pool(sem'[p], holders'[p], Limit[p])
    BY <2>0, <2>2, LeaveKeepsPool DEF Leave
  <2>3. CASE UNCHANGED vars \/ (sem'[p] = sem[p] /\ holders'[p] = holders[p])
    BY <2>0, <2>3 DEF vars
  <2> QED BY <2>1, <2>2, <2>3 DEF Next
<1> QED BY <1>1, <1>2, PTL DEF Spec
===============================================================================
