--------------------------- MODULE AdminConfigProofs ---------------------------
(***************************************************************************)
(* Theorems about AdminConfig for any number of administrators, mailboxes  *)
(* and requests.  They rest on one inductive invariant, `Inv`: the request *)
(* that is past the lock is alone there, so what it read is still what the *)
(* file says when it replaces it; and every request has an account of the  *)
(* secrets it was given, up to the place it has reached.                   *)
(***************************************************************************)
EXTENDS AdminConfig, SequenceTheorems, TLAPS

Saving  == {"enter", "queued"} \cup Locked
Loaded  == {"parse", "secrets", "tell"} \cup Saving
Working == {"load", "parse", "secrets", "tell", "testing"} \cup Saving
Deeds   == {"username", "password", "gives username", "gives password",
            "created", "updated", "folders", "enabled", "disabled", "tested"}

Operations == {"none", "login", "logout", "create", "save", "toggle", "folders", "test"}
Places     == {"none", "verify", "destroy", "audit"} \cup Working
Contents   == Forms \cup [enabled : {FALSE}, folders : FolderChoices \cup {{}}]
Todos      == Seq(Secrets)
Bases      == [Mailboxes -> Rows] \cup {NoConfig}
Entries    == Deeds \cup {"none", "refused", "login", "no login", "logout"}

Shape == [op : Operations, at : Places, n : 0..MaxRequests, mailbox : Mailboxes \cup {"none"},
          form : Contents, todo : Todos, sets : BOOLEAN, base : Bases, entry : Entries]

\* What a request is, from the place it has reached.
Placed(r) ==
  /\ r \in Shape
  /\ r.at = "none" => r = NoReq
  /\ r.at \in {"verify", "destroy"} => r.n = 0
  /\ r.at \in Working => r.n # 0 /\ r.mailbox \in Mailboxes
  /\ r.at = "load" => r.op \in {"save", "toggle", "folders", "test"}
  /\ r.at \in {"parse", "secrets", "tell"} => r.op \in {"create", "save"}
  /\ r.at \in Saving => r.op \in {"create", "save", "toggle", "folders"}
  /\ r.op \in {"create", "save"} => r.form \in Forms
  /\ r.op = "folders" => r.form.folders \in FolderChoices
  /\ r.op \in {"toggle", "folders"} => r.todo = <<>>
  /\ r.at \in {"secrets", "tell"} => r.todo # <<>>

\* The row that a request but a creation is for has been seen, and rows stay.
Informed(r, f) == r.op \in {"save", "toggle", "folders"} /\ r.at \in Loaded => Has(f, r.mailbox)

\* A secret of request r is in its file: h is what was done, s the secrets.
Done(r, secret, h, s) == <<r.n, secret>> \in h /\ s[r.mailbox][secret] # 0
Todo(r) == {r.todo[i] : i \in DOMAIN r.todo}

\* Every secret given is in its file or still to do, and nothing is told before it is done.
Accounted(r, h, s) ==
  /\ r.at \in {"load", "parse", "secrets", "tell"} =>
       \A secret \in Secrets : <<r.n, Given(secret)>> \in h =>
         secret \in Todo(r) \/ Done(r, secret, h, s)
  /\ r.at = "tell" => Done(r, Head(r.todo), h, s)
  /\ r.at \in Saving =>
       \A secret \in Secrets : <<r.n, Given(secret)>> \in h => Done(r, secret, h, s)
  /\ r.at = "audit" /\ r.n # 0 => r.entry = "refused" \/ Deserved(<<r.n, r.entry>>, h)

\* What will replace file f is the change made to f, and the copy k is of f.
Based(r, f, k) ==
  /\ r.at \in {"copy", "write", "rename"} => r.base = Changed(r, f) /\ Valid(r.base)
  /\ r.at \in {"write", "rename"} => k = f

\* One request is inside, or the lock is free; those that wait are in the queue once.
LockInv ==
  /\ lock \in [free : {0, 1}, queue : Seq(Clients)]
  /\ \A c \in Clients : req[c].at \in Locked =>
       lock.free = 0 /\ \A d \in Clients : req[d].at \in Locked => d = c
  /\ \A i \in DOMAIN lock.queue : req[lock.queue[i]].at = "queued"
  /\ \A i, j \in DOMAIN lock.queue : lock.queue[i] = lock.queue[j] => i = j

Files ==
  /\ file \in [Mailboxes -> Rows]
  /\ \A m \in Mailboxes : file[m].saved <= begun
  /\ SettingsHaveTheirSecrets

Books ==
  /\ begun \in 0..MaxRequests
  /\ history \subseteq (1..begun) \X Deeds
  /\ AuditIsTruthful
  /\ secrets \in [Mailboxes -> [Secrets -> Nat]]
  /\ sessions \subseteq Clients
  /\ \A m \in Mailboxes : states[m] \in {"unknown", "PASS", "FAIL"}

Requests ==
  /\ req \in [Clients -> Shape]
  /\ \A c \in Clients :
       /\ Placed(req[c]) /\ req[c].n <= begun
       /\ Informed(req[c], file)
       /\ Accounted(req[c], history, secrets)
       /\ Based(req[c], file, backup)

Inv == Files /\ Books /\ Requests /\ LockInv

LEMMA Bounds == MaxRequests \in Nat
BY BoundIsNatural

\* What was deserved stays so, and a deed that was done is.
LEMMA DeservedStays ==
  ASSUME NEW n, NEW entry, NEW h, NEW k, h \subseteq k
  PROVE  /\ Deserved(<<n, entry>>, h) => Deserved(<<n, entry>>, k)
         /\ <<n, entry>> \in h => Deserved(<<n, entry>>, h)
BY DEF Deserved

\* The empty request, wherever it is.
LEMMA Idle ==
  ASSUME NEW f, NEW k, NEW h, NEW s
  PROVE  /\ Placed(NoReq) /\ NoReq.n = 0 /\ NoReq.at = "none"
         /\ Informed(NoReq, f) /\ Accounted(NoReq, h, s) /\ Based(NoReq, f, k)
<1>1. /\ NoReq.op = "none" /\ NoReq.at = "none" /\ NoReq.n = 0 /\ NoReq.mailbox = "none"
      /\ NoReq.todo = <<>> /\ NoReq.base = NoConfig /\ NoReq.entry = "none"
  BY DEF NoReq
<1>2. NoReq \in Shape
  BY Bounds DEF NoReq, Shape, Operations, Places, Contents, Todos, Bases, Entries
<1>3. Placed(NoReq)
  BY <1>1, <1>2 DEF Placed, Working, Saving, Locked
<1> QED BY <1>1, <1>3 DEF Informed, Accounted, Based, Loaded, Saving, Locked

LEMMA Fields ==
  ASSUME NEW r \in Shape
  PROVE  /\ r.n \in Nat /\ r.n <= MaxRequests /\ r.todo \in Seq(Secrets) /\ r.at \in Places
         /\ r.sets \in BOOLEAN
BY Bounds DEF Shape, Todos

\* What was given, done and told stays so.
Grows ==
  /\ begun' \in 0..MaxRequests /\ begun <= begun'
  /\ history \subseteq history'
  /\ history' \subseteq (1..begun') \X Deeds
  /\ \A k \in 0..begun, secret \in Secrets :
       <<k, Given(secret)>> \in history' => <<k, Given(secret)>> \in history
  /\ secrets' \in [Mailboxes -> [Secrets -> Nat]]
  /\ \A m \in Mailboxes, secret \in Secrets : secrets[m][secret] # 0 => secrets'[m][secret] # 0

LEMMA NothingGrows ==
  ASSUME Inv, UNCHANGED <<begun, history, secrets>>
  PROVE  Grows
BY DEF Inv, Books, Grows

\* A deed of a request that has begun is added.
LEMMA DeedGrows ==
  ASSUME Inv, NEW new \in (1..begun) \X Deeds,
         \A k \in 0..begun, secret \in Secrets : new # <<k, Given(secret)>>,
         history' = history \cup {new}, UNCHANGED begun,
         secrets' \in [Mailboxes -> [Secrets -> Nat]],
         \A m \in Mailboxes, secret \in Secrets : secrets[m][secret] # 0 => secrets'[m][secret] # 0
  PROVE  Grows
<1>1. begun \in Nat /\ begun \in 0..MaxRequests /\ history \subseteq (1..begun) \X Deeds
  BY Bounds DEF Inv, Books
<1> QED BY <1>1 DEF Grows

LEMMA SameFile ==
  ASSUME Inv, Grows, UNCHANGED file
  PROVE  Files'
<1>1. file' \in [Mailboxes -> Rows] /\ \A m \in Mailboxes : file'[m].saved <= begun'
  <2>1. \A m \in Mailboxes : file[m].saved \in Nat /\ file[m].saved <= begun
    BY Bounds DEF Inv, Files, Rows, NoRow
  <2>2. begun \in Nat /\ begun' \in Nat /\ begun <= begun'
    BY DEF Inv, Books, Grows
  <2> QED BY <2>1, <2>2 DEF Inv, Files
<1>2. ASSUME NEW m \in Mailboxes, NEW secret \in Secrets, <<file[m].saved, Given(secret)>> \in history'
      PROVE  <<file[m].saved, secret>> \in history' /\ secrets'[m][secret] # 0
  <2>1. file[m].saved \in 0..begun
    BY Bounds DEF Inv, Files, Books, Rows, NoRow
  <2>2. <<file[m].saved, Given(secret)>> \in history
    BY <1>2, <2>1 DEF Grows
  <2>3. <<file[m].saved, secret>> \in history /\ secrets[m][secret] # 0
    BY <2>2 DEF Inv, Files, SettingsHaveTheirSecrets
  <2> QED BY <2>3 DEF Grows
<1> QED BY <1>1, <1>2 DEF Files, SettingsHaveTheirSecrets

\* An account stays true.
LEMMA AccountsStay ==
  ASSUME Inv, Grows, NEW r, Placed(r), r.n <= begun, Accounted(r, history, secrets)
  PROVE  Accounted(r, history', secrets')
<1>1. r.n \in 0..begun
  BY Fields, Bounds DEF Placed, Inv, Books
<1>2. ASSUME NEW secret \in Secrets, r.at \in Working, Done(r, secret, history, secrets)
      PROVE  Done(r, secret, history', secrets')
  BY <1>2 DEF Placed, Done, Grows
<1>3. r.at = "tell" => Head(r.todo) \in Secrets
  BY Fields DEF Placed
<1>4. \A secret \in Secrets : <<r.n, Given(secret)>> \in history' => <<r.n, Given(secret)>> \in history
  BY <1>1 DEF Grows
<1>5. r.at \in {"load", "parse", "secrets", "tell"} \cup Saving => r.at \in Working
  BY DEF Working
<1>6. r.at = "audit" /\ r.n # 0 => r.entry = "refused" \/ Deserved(<<r.n, r.entry>>, history')
  BY DeservedStays DEF Accounted, Grows
<1> QED BY <1>2, <1>3, <1>4, <1>5, <1>6 DEF Accounted

\* Request c becomes q; of the others, one that waits for the lock may be let in.
LEMMA RequestsGoOn ==
  ASSUME Inv, Grows, NEW c \in Clients, NEW q,
         Placed(q), q.n <= begun', Informed(q, file'), Accounted(q, history', secrets'),
         Based(q, file', backup'),
         req' = [d \in Clients |-> req'[d]], req'[c] = q,
         \A d \in Clients \ {c} :
           \/ req'[d] = req[d]
           \/ req[d].at = "queued" /\ req'[d] = [req[d] EXCEPT !.at = "mutate"],
         \A m \in Mailboxes : Has(file, m) => Has(file', m),
         UNCHANGED <<file, backup>> \/ req[c].at \in Locked
  PROVE  Requests'
<1>1. ASSUME NEW d \in Clients
      PROVE  /\ Placed(req'[d]) /\ req'[d].n <= begun'
             /\ Informed(req'[d], file')
             /\ Accounted(req'[d], history', secrets')
             /\ Based(req'[d], file', backup')
  <2>1. CASE d = c
    BY <2>1
  <2>2. CASE d # c
    <3> DEFINE r == req[d]
    <3>1. /\ Placed(r) /\ r.n <= begun /\ Informed(r, file) /\ Accounted(r, history, secrets)
          /\ Based(r, file, backup)
      BY DEF Inv, Requests
    <3>2. r.n \in Nat /\ begun \in Nat /\ begun' \in Nat
      BY <3>1, Fields, Bounds DEF Placed, Inv, Books, Grows
    <3>3. r.at \in Loaded => r.mailbox \in Mailboxes
      BY <3>1 DEF Placed, Working, Loaded
    <3>4. Informed(r, file') /\ Accounted(r, history', secrets')
      BY <3>1, <3>3, AccountsStay DEF Informed
    <3>5. Based(r, file', backup')
      <4>1. CASE UNCHANGED <<file, backup>>
        BY <3>1, <4>1
      <4>2. CASE req[c].at \in Locked
        BY <2>2, <4>2 DEF Inv, LockInv, Based, Locked
      <4> QED BY <4>1, <4>2
    <3>6. CASE req'[d] = r
      BY <3>1, <3>2, <3>4, <3>5, <3>6 DEF Grows
    <3>7. CASE r.at = "queued" /\ req'[d] = [r EXCEPT !.at = "mutate"]
      <4> DEFINE p == [r EXCEPT !.at = "mutate"]
      <4>1. /\ p \in Shape /\ p.at = "mutate" /\ p.op = r.op /\ p.n = r.n /\ p.mailbox = r.mailbox
            /\ p.form = r.form /\ p.todo = r.todo
        <5>1. r \in Shape /\ "mutate" \in Places
          BY <3>1 DEF Placed, Places, Working, Saving, Locked
        <5> HIDE DEF r
        <5> QED BY <5>1 DEF Shape
      <4> HIDE DEF p
      <4>2. Placed(p)
        BY <3>1, <3>7, <4>1 DEF Placed, Working, Saving, Locked
      <4>3. Informed(p, file') /\ Accounted(p, history', secrets') /\ Based(p, file', backup')
        BY <3>4, <3>7, <4>1 DEF Informed, Accounted, Based, Loaded, Saving, Locked, Done
      <4> QED BY <3>1, <3>2, <3>7, <4>1, <4>2, <4>3 DEF Grows, p
    <3> QED BY <2>2, <3>6, <3>7
  <2> QED BY <2>1, <2>2
<1>2. req' \in [Clients -> Shape]
  BY <1>1 DEF Placed
<1> QED BY <1>1, <1>2 DEF Requests

----------------------------------------------------------------------------
\* The lock

\* A request that neither takes nor gives back the lock.
LEMMA LockKept ==
  ASSUME Inv, NEW c \in Clients, NEW q, req' = [req EXCEPT ![c] = q], UNCHANGED lock,
         req[c].at # "queued", q.at \in Locked => req[c].at \in Locked
  PROVE  LockInv'
<1>1. req \in [Clients -> Shape] /\ LockInv
  BY DEF Inv, Requests
<1>2. \A d \in Clients : req'[d] = IF d = c THEN q ELSE req[d]
  BY <1>1
<1>3. lock \in [free : {0, 1}, queue : Seq(Clients)] /\ \A i \in DOMAIN lock.queue : lock.queue[i] \in Clients
  BY <1>1 DEF LockInv
<1>4. \A d \in Clients : req'[d].at \in Locked => req[d].at \in Locked
  BY <1>2
<1>5. \A i \in DOMAIN lock.queue : req'[lock.queue[i]].at = "queued"
  BY <1>1, <1>2, <1>3 DEF LockInv
<1> QED BY <1>1, <1>3, <1>4, <1>5 DEF LockInv

\* A request that asks for the lock: it is let in when the lock is free, or waits as the last.
LEMMA LockEntered ==
  ASSUME Inv, NEW c \in Clients, Enter(c)
  PROVE  LockInv'
<1>1. req \in [Clients -> Shape] /\ LockInv /\ req[c].at = "enter"
  BY DEF Inv, Requests, Enter
<1>2. lock \in [free : {0, 1}, queue : Seq(Clients)] /\ \A i \in DOMAIN lock.queue : lock.queue[i] \in Clients
  BY <1>1 DEF LockInv
<1>3. Granted(lock, Len(<<c>>)) = lock.free
  BY <1>2 DEF Granted
<1> DEFINE rest == SubSeq(<<c>>, lock.free + 1, Len(<<c>>))
<1>7. lock' = [free |-> lock.free - lock.free, queue |-> lock.queue \o rest]
  BY <1>3 DEF Enter, Entered
<1>8. <<c>> \in Seq(Clients) /\ Len(<<c>>) = 1
  OBVIOUS
<1> DEFINE at == IF c \in GoingOn(lock, <<c>>) THEN "mutate" ELSE "queued"
<1>4. \A d \in Clients : req'[d].at = IF d = c THEN at ELSE req[d].at
  BY <1>1 DEF Enter, GoesTo, Shape
<1>5. CASE lock.free = 1
  <2>1. lock' = [free |-> 0, queue |-> lock.queue]
    <3>1. rest = <<>>
      BY <1>5, <1>8, SubSeqEmpty
    <3>2. lock.queue \o <<>> = lock.queue
      BY <1>2, ConcatEmptySeq
    <3> HIDE DEF rest
    <3> QED BY <1>5, <1>7, <3>1, <3>2
  <2>2. at = "mutate"
    BY <1>3, <1>5 DEF GoingOn
  <2>3. \A d \in Clients : req[d].at \notin Locked
    BY <1>1, <1>5 DEF LockInv
  <2> QED BY <1>1, <1>2, <1>4, <2>1, <2>2, <2>3 DEF LockInv, Locked
<1>6. CASE lock.free = 0
  <2>1. lock' = [free |-> 0, queue |-> lock.queue \o <<c>>]
    <3>1. ASSUME NEW s \in Seq(Clients)
          PROVE  SubSeq(s, 1, Len(s)) = s
      BY SubSeqFull
    <3>2. rest = <<c>>
      <4>1. SubSeq(<<c>>, 1, Len(<<c>>)) = <<c>>
        BY <1>8, <3>1
      <4>2. lock.free + 1 = 1
        BY <1>6
      <4> QED BY <4>1, <4>2
    <3> HIDE DEF rest
    <3> QED BY <1>6, <1>7, <3>2
  <2>2. at = "queued"
    BY <1>3, <1>6 DEF GoingOn
  <2> DEFINE q == lock.queue \o <<c>>
  <2>3. q \in Seq(Clients) /\ DOMAIN q = 1..(Len(lock.queue) + 1) /\ q[Len(lock.queue) + 1] = c
        /\ DOMAIN lock.queue = 1..Len(lock.queue) /\ Len(lock.queue) \in Nat
        /\ \A i \in 1..Len(lock.queue) : q[i] = lock.queue[i]
    BY <1>2
  <2> HIDE DEF q
  <2>4. \A i \in DOMAIN lock.queue : lock.queue[i] # c
    BY <1>1 DEF LockInv
  <2>5. lock'.queue = q /\ lock'.free = 0 /\ lock' \in [free : {0, 1}, queue : Seq(Clients)]
    BY <2>1, <2>3 DEF q
  <2>6. \A i \in DOMAIN q : req'[q[i]].at = "queued"
    <3>1. \A i \in DOMAIN q : (i \in DOMAIN lock.queue /\ q[i] = lock.queue[i]) \/ q[i] = c
      BY <2>3
    <3> QED BY <1>1, <1>2, <1>4, <2>2, <3>1 DEF LockInv
  <2>7. \A i, j \in DOMAIN q : q[i] = q[j] => i = j
    BY <1>1, <2>3, <2>4 DEF LockInv
  <2>8. \A d \in Clients : req'[d].at \in Locked => req[d].at \in Locked
    BY <1>4, <2>2 DEF Locked
  <2> QED BY <1>1, <1>6, <2>5, <2>6, <2>7, <2>8 DEF LockInv
<1> QED BY <1>2, <1>5, <1>6

\* A request that gives the lock back: the one that has waited longest is let in.
LEMMA LockLeft ==
  ASSUME Inv, NEW c \in Clients, req[c].at \in Locked,
         NEW next, next.at \notin Locked \cup {"queued"}, LeavesWith(c, next)
  PROVE  /\ LockInv'
         /\ req' = [d \in Clients |-> req'[d]] /\ req'[c] = next
         /\ \A d \in Clients \ {c} :
              \/ req'[d] = req[d]
              \/ req[d].at = "queued" /\ req'[d] = [req[d] EXCEPT !.at = "mutate"]
<1>1. req \in [Clients -> Shape] /\ LockInv
  BY DEF Inv, Requests
<1>2. lock \in [free : {0, 1}, queue : Seq(Clients)] /\ \A i \in DOMAIN lock.queue : lock.queue[i] \in Clients
  BY <1>1 DEF LockInv
<1>3. lock.free = 0 /\ \A d \in Clients : req[d].at \in Locked => d = c
  BY <1>1 DEF LockInv
<1>4. req[c].at # "queued"
  BY DEF Locked
<1>5. /\ req' = [d \in Clients |-> req'[d]] /\ req'[c] = next
      /\ \A d \in Clients \ {c} :
           req'[d] = IF d \in Woken(lock) THEN [req[d] EXCEPT !.at = "mutate"] ELSE req[d]
  BY DEF LeavesWith
<1>6. CASE lock.queue = <<>>
  <2>1. lock' = [lock EXCEPT !.free = 1] /\ Woken(lock) = {}
    BY <1>2, <1>3, <1>6 DEF LeavesWith, Left, Woken
  <2>2. lock' \in [free : {0, 1}, queue : Seq(Clients)] /\ lock'.queue = <<>>
    BY <1>2, <1>6, <2>1
  <2>3. \A d \in Clients : req'[d].at \notin Locked
    BY <1>3, <1>5, <2>1
  <2> QED BY <1>5, <2>1, <2>2, <2>3 DEF LockInv
<1>7. CASE lock.queue # <<>>
  <2> DEFINE h == Head(lock.queue)
             q == Tail(lock.queue)
  <2>1. lock' = [lock EXCEPT !.queue = q] /\ Woken(lock) = {h}
    BY <1>7 DEF LeavesWith, Left, Woken
  <2>2. /\ q \in Seq(Clients) /\ h \in Clients /\ h = lock.queue[1] /\ 1 \in DOMAIN lock.queue
        /\ \A i \in DOMAIN q : i + 1 \in DOMAIN lock.queue /\ q[i] = lock.queue[i + 1] /\ i \in Nat /\ i # 0
    BY <1>2, <1>7
  <2> HIDE DEF h, q
  <2>3. req[h].at = "queued" /\ h # c
    BY <1>1, <1>4, <2>2 DEF LockInv
  <2>4. req'[h] = [req[h] EXCEPT !.at = "mutate"] /\ req'[h].at = "mutate"
    <3>1. req'[h] = [req[h] EXCEPT !.at = "mutate"] /\ req[h] \in Shape
      BY <1>1, <1>5, <2>1, <2>2, <2>3
    <3> QED BY <3>1 DEF Shape
  <2>5. lock' \in [free : {0, 1}, queue : Seq(Clients)] /\ lock'.queue = q /\ lock'.free = 0
    BY <1>2, <1>3, <2>1, <2>2
  <2>6. \A d \in Clients : req'[d].at \in Locked => d = h
    BY <1>3, <1>5, <2>1
  <2>7. \A i \in DOMAIN q : q[i] # h /\ req[q[i]].at = "queued" /\ q[i] \in Clients
    BY <1>1, <1>2, <2>2 DEF LockInv
  <2>8. \A i \in DOMAIN q : req'[q[i]].at = "queued"
    BY <1>4, <1>5, <2>1, <2>7
  <2>9. \A i, j \in DOMAIN q : q[i] = q[j] => i = j
    BY <1>1, <2>2 DEF LockInv
  <2>10. LockInv'
    BY <2>5, <2>6, <2>8, <2>9 DEF LockInv
  <2> QED BY <1>5, <2>1, <2>3, <2>10
<1> QED BY <1>6, <1>7

----------------------------------------------------------------------------
\* Steps of a request

\* What is known of a request.
LEMMA Known ==
  ASSUME Inv, NEW c \in Clients
  PROVE  /\ Placed(req[c]) /\ req[c].n <= begun /\ req[c] \in Shape
         /\ req[c].n \in Nat /\ begun \in Nat /\ begun <= MaxRequests
         /\ Informed(req[c], file)
         /\ Accounted(req[c], history, secrets)
         /\ Based(req[c], file, backup)
         /\ file \in [Mailboxes -> Rows]
         /\ history \subseteq (1..begun) \X Deeds
         /\ req \in [Clients -> Shape]
BY Fields, Bounds DEF Inv, Requests, Placed, Books, Files

\* The parts of Inv, for a step that has been shown to keep each of them.
LEMMA PartsMakeInv ==
  ASSUME Grows, Files', Requests', LockInv', AuditIsTruthful', sessions' \subseteq Clients,
         \A m \in Mailboxes : states'[m] \in {"unknown", "PASS", "FAIL"}
  PROVE  Inv'
BY DEF Inv, Books, Grows

LEMMA SameStates ==
  ASSUME Inv, UNCHANGED states
  PROVE  \A m \in Mailboxes : states'[m] \in {"unknown", "PASS", "FAIL"}
BY DEF Inv, Books

LEMMA SameAudit ==
  ASSUME Inv, Grows, UNCHANGED audit
  PROVE  AuditIsTruthful'
<1> SUFFICES ASSUME NEW entry \in audit, entry[2] # "refused"
             PROVE  Deserved(entry, history')
  BY DEF AuditIsTruthful
<1>1. Deserved(entry, history)
  BY DEF Inv, Books, AuditIsTruthful
<1> QED BY <1>1 DEF Grows, Deserved

\* A request that changes nothing but itself, the sessions and the audit.
LEMMA QuietStep ==
  ASSUME Inv, NEW c \in Clients, NEW q, Placed(q), q.n <= begun, Informed(q, file),
         Accounted(q, history, secrets), Based(q, file, backup),
         req' = [req EXCEPT ![c] = q], UNCHANGED <<file, backup, secrets, history, begun, lock, states>>,
         req[c].at # "queued", q.at \in Locked => req[c].at \in Locked,
         sessions' \subseteq Clients, AuditIsTruthful'
  PROVE  Inv'
<1>1. Grows
  BY NothingGrows
<1>2. req \in [Clients -> Shape]
  BY DEF Inv, Requests
<1>3. Requests'
  BY <1>1, <1>2, RequestsGoOn
<1> QED BY <1>1, <1>3, SameFile, LockKept, SameStates, PartsMakeInv

\* The end of a request that does not hold the lock.
LEMMA AnsweredInv ==
  ASSUME Inv, NEW c \in Clients, Answered(c),
         UNCHANGED <<file, backup, secrets, history, begun, lock, states>>,
         req[c].at # "queued", sessions' \subseteq Clients, AuditIsTruthful'
  PROVE  Inv'
<1>1. 0 <= begun
  BY Bounds DEF Inv, Books
<1> QED BY <1>1, Idle, QuietStep DEF Answered, Locked

\* A request that has its answer to tell.
LEMMA ToldPlaced ==
  ASSUME Inv, NEW c \in Clients, NEW entry \in Entries, NEW h,
         req[c].n # 0 => entry = "refused" \/ Deserved(<<req[c].n, entry>>, h), NEW s, NEW f, NEW k
  PROVE  LET q == [req[c] EXCEPT !.at = "audit", !.entry = entry] IN
         /\ Placed(q) /\ q.n <= begun /\ Informed(q, f) /\ Accounted(q, h, s) /\ Based(q, f, k)
         /\ q.at = "audit"
<1> DEFINE r == req[c]
           q == [r EXCEPT !.at = "audit", !.entry = entry]
<1>1. r \in Shape /\ "audit" \in Places /\ Placed(r) /\ r.n <= begun
  BY Known DEF Places
<1> HIDE DEF r
<1>2. /\ q \in Shape /\ q.at = "audit" /\ q.entry = entry /\ q.op = r.op /\ q.n = r.n
      /\ q.mailbox = r.mailbox /\ q.form = r.form /\ q.todo = r.todo
  BY <1>1 DEF Shape
<1> HIDE DEF q
<1>3. Placed(q)
  BY <1>1, <1>2 DEF Placed, Working, Saving, Locked
<1>4. Informed(q, f) /\ Based(q, f, k)
  BY <1>2 DEF Informed, Based, Loaded, Saving, Locked
<1>5. Accounted(q, h, s)
  BY <1>2 DEF Accounted, Saving, Locked, r
<1> QED BY <1>1, <1>2, <1>3, <1>4, <1>5 DEF q, r

\* A request that goes on from one place to another as it is.
LEMMA MovedShape ==
  ASSUME NEW r \in Shape, NEW at \in Places
  PROVE  LET q == [r EXCEPT !.at = at] IN
         /\ q \in Shape /\ q.at = at /\ q.op = r.op /\ q.n = r.n /\ q.mailbox = r.mailbox
         /\ q.form = r.form /\ q.todo = r.todo /\ q.sets = r.sets /\ q.base = r.base
BY DEF Shape

LEMMA LogsInv ==
  ASSUME Inv, NEW c \in Clients, NEW op \in {"login", "logout"}, NEW at \in {"verify", "destroy"},
         Logs(c, op, at)
  PROVE  Inv'
<1>1. /\ UNCHANGED <<file, backup, secrets, history, begun, lock, states, sessions, audit>>
      /\ req[c] = NoReq
  BY DEF Logs, server
<1> DEFINE q == [req[c] EXCEPT !.op = op, !.at = at]
<1>2. req' = [req EXCEPT ![c] = q]
  BY DEF Logs
<1>3. req[c] \in Shape /\ op \in Operations /\ at \in Places /\ req[c].n = 0 /\ req[c].at = "none"
  BY <1>1, Known, Idle DEF Operations, Places
<1>4. q \in Shape /\ q.op = op /\ q.at = at /\ q.n = 0
  BY <1>3 DEF Shape
<1> HIDE DEF q
<1>5. /\ Placed(q) /\ Informed(q, file) /\ Accounted(q, history, secrets) /\ Based(q, file, backup)
  BY <1>4 DEF Placed, Informed, Accounted, Based, Working, Loaded, Saving, Locked
<1>6. q.n <= begun /\ sessions' \subseteq Clients /\ AuditIsTruthful'
  BY <1>1, <1>4, Bounds DEF Inv, Books, AuditIsTruthful
<1> QED BY <1>1, <1>2, <1>3, <1>4, <1>5, <1>6, QuietStep DEF Locked

LEMMA ExpiresInv ==
  ASSUME Inv, NEW c \in Clients, Expires(c)
  PROVE  Inv'
<1>1. /\ UNCHANGED <<file, backup, secrets, states, req, lock, audit, history, begun>>
      /\ sessions' \subseteq sessions
  BY DEF Expires
<1>2. Requests' /\ LockInv'
  BY <1>1 DEF Inv, Requests, LockInv
<1>3. Grows
  BY <1>1, NothingGrows
<1>4. sessions' \subseteq Clients
  BY <1>1 DEF Inv, Books
<1> QED BY <1>1, <1>2, <1>3, <1>4, SameFile, SameStates, SameAudit, PartsMakeInv

LEMMA VerifyInv ==
  ASSUME Inv, NEW c \in Clients, NEW valid \in BOOLEAN, Verify(c, valid)
  PROVE  Inv'
<1>1. /\ UNCHANGED <<file, backup, secrets, history, begun, lock, states, sessions, audit>>
      /\ req[c].at = "verify"
  BY DEF Verify, server, Disk
<1> DEFINE entry == IF valid THEN "login" ELSE "no login"
           q == [req[c] EXCEPT !.at = "audit", !.entry = entry]
<1>2. req' = [req EXCEPT ![c] = q]
  BY DEF Verify, WillTell
<1>3. req[c].n = 0 /\ entry \in Entries
  BY <1>1, Known DEF Placed, Entries
<1>4. /\ Placed(q) /\ q.n <= begun /\ Informed(q, file) /\ Accounted(q, history, secrets)
      /\ Based(q, file, backup) /\ q.at = "audit"
  BY <1>3, ToldPlaced
<1> HIDE DEF q
<1>5. sessions' \subseteq Clients /\ AuditIsTruthful'
  BY <1>1 DEF Inv, Books, AuditIsTruthful
<1> QED BY <1>1, <1>2, <1>4, <1>5, QuietStep DEF Locked

LEMMA DestroyInv ==
  ASSUME Inv, NEW c \in Clients, Destroy(c)
  PROVE  Inv'
<1>1. /\ UNCHANGED <<file, backup, secrets, history, begun, lock, states, audit>>
      /\ req[c].at = "destroy" /\ sessions' \subseteq sessions
  BY DEF Destroy, Disk
<1> DEFINE q == [req[c] EXCEPT !.at = "audit", !.entry = "logout"]
<1>2. req' = [req EXCEPT ![c] = q]
  BY DEF Destroy, WillTell
<1>3. req[c].n = 0 /\ "logout" \in Entries
  BY <1>1, Known DEF Placed, Entries
<1>4. /\ Placed(q) /\ q.n <= begun /\ Informed(q, file) /\ Accounted(q, history, secrets)
      /\ Based(q, file, backup) /\ q.at = "audit"
  BY <1>3, ToldPlaced
<1> HIDE DEF q
<1>5. sessions' \subseteq Clients /\ AuditIsTruthful'
  BY <1>1 DEF Inv, Books, AuditIsTruthful
<1> QED BY <1>1, <1>2, <1>4, <1>5, QuietStep DEF Locked

LEMMA AuditInv ==
  ASSUME Inv, NEW c \in Clients, Audit(c)
  PROVE  Inv'
<1>1. UNCHANGED <<file, backup, secrets, history, begun, lock, states>> /\ req[c].at = "audit"
      /\ Answered(c)
  BY DEF Audit, Disk
<1>2. sessions' \subseteq Clients
  BY DEF Audit, Inv, Books
<1>3. AuditIsTruthful'
  <2>1. req[c].n # 0 => req[c].entry = "refused" \/ Deserved(<<req[c].n, req[c].entry>>, history)
    BY <1>1, Known DEF Accounted
  <2>2. req[c].n # 0 => req[c].n \in 1..MaxRequests
    BY Known, Fields, Bounds
  <2> QED BY <1>1, <2>1, <2>2 DEF Audit, Inv, Books, AuditIsTruthful
<1> QED BY <1>1, <1>2, <1>3, AnsweredInv

\* The place and the operation that a browser's request starts with.
Starts(r) ==
  /\ r \in Shape /\ r.mailbox \in Mailboxes
  /\ \/ r.at = "load" /\ r.op \in {"save", "toggle", "folders", "test"}
     \/ r.at = "parse" /\ r.op = "create"
  /\ r.op \in {"create", "save"} => r.form \in Forms
  /\ r.op = "folders" => r.form.folders \in FolderChoices
  /\ r.op \in {"toggle", "folders"} => r.todo = <<>>

\* The secrets a request is given are all still to do.
LEMMA BeginInv ==
  ASSUME Inv, NEW c \in Clients, NEW r, Starts(r), Begin(c, r)
  PROVE  Inv'
<1>1. /\ UNCHANGED <<file, backup, secrets, audit, lock, states, sessions>>
      /\ begun' = begun + 1 /\ begun < MaxRequests /\ req[c] = NoReq
      /\ history' = history \cup {<<begun + 1, Given(r.todo[i])>> : i \in DOMAIN r.todo}
  BY DEF Begin, server
<1> DEFINE q == [r EXCEPT !.n = begun + 1]
<1>2. req' = [req EXCEPT ![c] = q]
  BY DEF Begin
<1>3. begun \in Nat /\ begun + 1 \in 0..MaxRequests /\ MaxRequests \in Nat
  BY <1>1, Bounds DEF Inv, Books
<1>4. r.todo \in Seq(Secrets) /\ \A i \in DOMAIN r.todo : r.todo[i] \in Secrets
  BY Fields DEF Starts
<1>5. \A secret \in Secrets : Given(secret) \in Deeds
  BY DEF Given, Deeds
<1>6. history \subseteq (1..begun) \X Deeds /\ secrets \in [Mailboxes -> [Secrets -> Nat]]
  BY DEF Inv, Books
<1>7. Grows
  <2>1. ASSUME NEW i \in DOMAIN r.todo
        PROVE  <<begun + 1, Given(r.todo[i])>> \in (1..(begun + 1)) \X Deeds
    BY <1>3, <1>4, <1>5
  <2>2. history' \subseteq (1..begun') \X Deeds
    BY <1>1, <1>3, <1>6, <2>1
  <2>3. begun + 1 \notin 0..begun
    BY <1>3
  <2> QED BY <1>1, <1>3, <1>6, <2>2, <2>3 DEF Grows
<1>8. /\ q \in Shape /\ q.n = begun + 1 /\ q.op = r.op /\ q.at = r.at /\ q.mailbox = r.mailbox
      /\ q.form = r.form /\ q.todo = r.todo
  BY <1>3 DEF Starts, Shape
<1> HIDE DEF q
<1>9. Placed(q)
  BY <1>3, <1>8 DEF Starts, Placed, Working, Saving, Locked
<1>10. Informed(q, file') /\ Based(q, file', backup')
  BY <1>8 DEF Starts, Informed, Based, Loaded, Saving, Locked
<1>11. Accounted(q, history', secrets')
  <2>1. ASSUME NEW secret \in Secrets, <<begun + 1, Given(secret)>> \in history'
        PROVE  secret \in Todo(q)
    <3>1. <<begun + 1, Given(secret)>> \notin history
      BY <1>3, <1>6
    <3>2. PICK i \in DOMAIN r.todo : Given(secret) = Given(r.todo[i])
      BY <1>1, <2>1, <3>1
    <3>3. secret = r.todo[i]
      BY <1>4, <3>2 DEF Given, Secrets
    <3> QED BY <1>8, <3>3 DEF Todo
  <2> QED BY <1>8, <2>1 DEF Starts, Accounted, Saving, Locked
<1>12. req \in [Clients -> Shape] /\ req[c].at = "none"
  BY <1>1, Known, Idle
<1>13. Requests'
  <2>1. req' = [d \in Clients |-> req'[d]] /\ req'[c] = q /\ \A d \in Clients \ {c} : req'[d] = req[d]
    BY <1>2, <1>12
  <2>2. q.n <= begun' /\ \A m \in Mailboxes : Has(file, m) => Has(file', m)
    BY <1>1, <1>3, <1>8
  <2> QED BY <1>1, <1>7, <1>9, <1>10, <1>11, <2>1, <2>2, RequestsGoOn
<1>14. LockInv'
  BY <1>1, <1>2, <1>8, <1>12, LockKept DEF Starts, Locked
<1>15. sessions' \subseteq Clients
  BY <1>1 DEF Inv, Books
<1> QED BY <1>1, <1>7, <1>13, <1>14, <1>15, SameFile, SameStates, SameAudit, PartsMakeInv

LEMMA AsksInv ==
  ASSUME Inv, NEW c \in Clients, Asks(c)
  PROVE  Inv'
<1> DEFINE idle == NoReq
<1>1. /\ idle \in Shape /\ idle.todo = <<>>
      /\ {"load", "parse"} \subseteq Places
      /\ {"create", "save", "toggle", "folders", "test"} \subseteq Operations
  BY Idle DEF Placed, NoReq, Places, Working, Operations
<1>2. /\ Forms \subseteq Contents
      /\ \A folders \in FolderChoices : [enabled |-> FALSE, folders |-> folders] \in Contents
      /\ Gives[c] \subseteq Todos
  <2>2. Gives[c] \subseteq Todos
    BY GivesAreSecrets DEF Todos, Secrets
  <2>3. ASSUME NEW folders \in FolderChoices
        PROVE  [enabled |-> FALSE, folders |-> folders] \in Contents
    BY DEF Contents
  <2> QED BY <2>2, <2>3 DEF Contents
<1> HIDE DEF idle
<1>3. ASSUME NEW m \in Mailboxes, NEW form \in Forms, NEW todo \in Gives[c], Create(c, m, form, todo)
      PROVE  Inv'
  <2> DEFINE r == [idle EXCEPT !.op = "create", !.at = "parse", !.mailbox = m, !.form = form, !.todo = todo]
  <2>1. r \in Shape /\ r.op = "create" /\ r.at = "parse" /\ r.mailbox = m /\ r.form = form
    BY <1>1, <1>2 DEF Shape
  <2>2. Begin(c, r)
    BY <1>3 DEF Create, idle
  <2> HIDE DEF r
  <2> QED BY <2>1, <2>2, BeginInv DEF Starts
<1>4. ASSUME NEW m \in Mailboxes, NEW form \in Forms, NEW todo \in Gives[c], Save(c, m, form, todo)
      PROVE  Inv'
  <2> DEFINE r == [idle EXCEPT !.op = "save", !.at = "load", !.mailbox = m, !.form = form, !.todo = todo]
  <2>1. r \in Shape /\ r.op = "save" /\ r.at = "load" /\ r.mailbox = m /\ r.form = form
    BY <1>1, <1>2 DEF Shape
  <2>2. Begin(c, r)
    BY <1>4 DEF Save, idle
  <2> HIDE DEF r
  <2> QED BY <2>1, <2>2, BeginInv DEF Starts
<1>5. ASSUME NEW m \in Mailboxes, NEW folders \in FolderChoices, SetFolders(c, m, folders)
      PROVE  Inv'
  <2> DEFINE form == [enabled |-> FALSE, folders |-> folders]
             r == [idle EXCEPT !.op = "folders", !.at = "load", !.mailbox = m, !.form = form]
  <2>1. /\ r \in Shape /\ r.op = "folders" /\ r.at = "load" /\ r.mailbox = m /\ r.form = form
        /\ r.todo = <<>>
    BY <1>1, <1>2 DEF Shape
  <2>2. Begin(c, r)
    BY <1>5 DEF SetFolders, idle
  <2> HIDE DEF r
  <2> QED BY <2>1, <2>2, BeginInv DEF Starts
<1>6. ASSUME NEW m \in Mailboxes, Toggle(c, m) \/ Test(c, m)
      PROVE  Inv'
  <2> PICK op \in {"toggle", "test"} :
        Begin(c, [idle EXCEPT !.op = op, !.at = "load", !.mailbox = m])
    BY <1>6 DEF Toggle, Test, idle
  <2> DEFINE r == [idle EXCEPT !.op = op, !.at = "load", !.mailbox = m]
  <2>1. r \in Shape /\ r.op = op /\ r.at = "load" /\ r.mailbox = m /\ r.todo = <<>>
    BY <1>1 DEF Shape
  <2>2. Begin(c, r)
    OBVIOUS
  <2> HIDE DEF r
  <2> QED BY <2>1, <2>2, BeginInv DEF Starts
<1>7. CASE Login(c) \/ Logout(c) \/ Expires(c)
  BY <1>7, LogsInv, ExpiresInv DEF Login, Logout
<1> QED BY <1>3, <1>4, <1>5, <1>6, <1>7 DEF Asks

LEMMA LoadInv ==
  ASSUME Inv, NEW c \in Clients, Load(c)
  PROVE  Inv'
<1> DEFINE r == req[c]
<1>1. UNCHANGED <<file, backup, secrets, history, begun, lock, states, sessions, audit>> /\ r.at = "load"
  BY DEF Load, server, Disk
<1>2. sessions' \subseteq Clients /\ AuditIsTruthful'
  BY <1>1 DEF Inv, Books, AuditIsTruthful
<1>3. CASE Answered(c)
  BY <1>1, <1>2, <1>3, AnsweredInv
<1>4. CASE Has(file, r.mailbox) /\ ~Answered(c)
  <2> DEFINE at == AfterLoad(r.op)
             sets == ~file[r.mailbox].enabled
             q == [r EXCEPT !.at = at, !.sets = sets]
  <2>1. req' = [req EXCEPT ![c] = q]
    BY <1>4 DEF Load
  <2>2. /\ r \in Shape /\ Placed(r) /\ r.n <= begun /\ Accounted(r, history, secrets)
        /\ r.op \in {"save", "toggle", "folders", "test"}
    BY <1>1, Known DEF Placed
  <2>3. /\ r.op = "save" => at = "parse"
        /\ r.op = "test" => at = "testing"
        /\ r.op \in {"toggle", "folders"} => at = "enter" /\ r.todo = <<>>
        /\ at \in Places /\ at \in {"parse", "testing", "enter"}
    BY <2>2 DEF AfterLoad, Places, Working, Saving, Placed
  <2>4. sets \in BOOLEAN
    OBVIOUS
  <2> HIDE DEF at, sets, r
  <2>5. /\ q \in Shape /\ q.at = at /\ q.op = r.op /\ q.n = r.n /\ q.mailbox = r.mailbox
        /\ q.form = r.form /\ q.todo = r.todo
    BY <2>2, <2>3, <2>4 DEF Shape
  <2> HIDE DEF q
  <2>6. Placed(q)
    BY <1>1, <2>2, <2>3, <2>5 DEF Placed, Working, Saving, Locked
  <2>7. Informed(q, file) /\ Based(q, file, backup)
    BY <1>4, <2>3, <2>5 DEF Informed, Based, Saving, Locked
  <2>8. Accounted(q, history, secrets)
    BY <1>1, <2>2, <2>3, <2>5 DEF Accounted, Saving, Locked, Todo, Done
  <2> QED BY <1>1, <1>2, <2>1, <2>2, <2>3, <2>5, <2>6, <2>7, <2>8, QuietStep DEF Locked, r
<1> QED BY <1>3, <1>4 DEF Load

LEMMA ParseInv ==
  ASSUME Inv, NEW c \in Clients, NEW valid \in BOOLEAN, Parse(c, valid)
  PROVE  Inv'
<1> DEFINE r == req[c]
<1>1. UNCHANGED <<file, backup, secrets, history, begun, lock, states, sessions, audit>> /\ r.at = "parse"
  BY DEF Parse, server, Disk
<1>2. sessions' \subseteq Clients /\ AuditIsTruthful'
  BY <1>1 DEF Inv, Books, AuditIsTruthful
<1>3. /\ r \in Shape /\ Placed(r) /\ r.n <= begun /\ Accounted(r, history, secrets)
      /\ r.op \in {"create", "save"} /\ Informed(r, file)
  BY <1>1, Known DEF Placed
<1>4. CASE valid
  <2> DEFINE at == IF r.todo = <<>> THEN "enter" ELSE "secrets"
             q == [r EXCEPT !.at = at]
  <2>1. req' = [req EXCEPT ![c] = q]
    BY <1>4 DEF Parse, GoesTo
  <2>2. at \in Places /\ (r.todo = <<>> => at = "enter") /\ (r.todo # <<>> => at = "secrets")
    BY DEF Places, Working, Saving
  <2> HIDE DEF at, r
  <2>3. /\ q \in Shape /\ q.at = at /\ q.op = r.op /\ q.n = r.n /\ q.mailbox = r.mailbox
        /\ q.form = r.form /\ q.todo = r.todo
    BY <1>3, <2>2, MovedShape
  <2> HIDE DEF q
  <2>4. Placed(q)
    BY <1>1, <1>3, <2>2, <2>3 DEF Placed, Working, Saving, Locked
  <2>5. Informed(q, file) /\ Based(q, file, backup)
    BY <1>1, <1>3, <2>2, <2>3 DEF Informed, Based, Loaded
  <2>6. Accounted(q, history, secrets)
    BY <1>1, <1>3, <2>2, <2>3 DEF Accounted, Saving, Locked, Todo, Done
  <2> QED BY <1>1, <1>2, <1>3, <2>1, <2>2, <2>3, <2>4, <2>5, <2>6, QuietStep DEF Locked, r
<1>5. CASE ~valid
  <2> DEFINE q == [req[c] EXCEPT !.at = "audit", !.entry = "refused"]
  <2>1. req' = [req EXCEPT ![c] = q] /\ "refused" \in Entries
    BY <1>5 DEF Parse, WillTell, Entries
  <2>2. /\ Placed(q) /\ q.n <= begun /\ Informed(q, file) /\ Accounted(q, history, secrets)
        /\ Based(q, file, backup) /\ q.at = "audit"
    BY <2>1, ToldPlaced
  <2> HIDE DEF q
  <2> QED BY <1>1, <1>2, <2>1, <2>2, QuietStep DEF Locked
<1> QED BY <1>4, <1>5

LEMMA ReplaceInv ==
  ASSUME Inv, NEW c \in Clients, Replace(c)
  PROVE  Inv'
<1> DEFINE r == req[c]
<1>1. UNCHANGED <<file, backup, audit, lock, states, sessions, begun>> /\ r.at = "secrets"
  BY DEF Replace, server
<1>2. sessions' \subseteq Clients
  BY <1>1 DEF Inv, Books
<1>3. CASE Answered(c) /\ UNCHANGED <<secrets, history>>
  <2>1. AuditIsTruthful'
    BY <1>1, <1>3 DEF Inv, Books, AuditIsTruthful
  <2> QED BY <1>1, <1>2, <1>3, <2>1, AnsweredInv
<1>4. CASE /\ secrets' = [secrets EXCEPT ![r.mailbox][Head(r.todo)] = r.n]
           /\ history' = history \cup {<<r.n, Head(r.todo)>>}
           /\ GoesTo(c, "tell")
  <2> DEFINE h == Head(r.todo)
             q == [r EXCEPT !.at = "tell"]
  <2>1. /\ r \in Shape /\ Placed(r) /\ r.n <= begun /\ Accounted(r, history, secrets)
        /\ r.op \in {"create", "save"} /\ r.n # 0 /\ r.mailbox \in Mailboxes /\ r.todo # <<>>
        /\ r.n \in Nat /\ begun \in Nat /\ Informed(r, file)
    BY <1>1, Known DEF Placed, Working
  <2>2. h \in Secrets
    BY <2>1, Fields
  <2>3. req' = [req EXCEPT ![c] = q]
    BY <1>4 DEF GoesTo
  <2>4. r \in Shape /\ "tell" \in Places
    BY <2>1 DEF Places, Working
  <2>5. secrets \in [Mailboxes -> [Secrets -> Nat]]
    BY DEF Inv, Books
  <2>6. /\ secrets' = [secrets EXCEPT ![r.mailbox][h] = r.n]
        /\ history' = history \cup {<<r.n, h>>}
    BY <1>4
  <2> HIDE DEF h, r
  <2>7. /\ q \in Shape /\ q.at = "tell" /\ q.op = r.op /\ q.n = r.n /\ q.mailbox = r.mailbox
        /\ q.form = r.form /\ q.todo = r.todo
    BY <2>4, MovedShape
  <2> HIDE DEF q
  <2>8. /\ secrets' \in [Mailboxes -> [Secrets -> Nat]] /\ secrets'[r.mailbox][h] # 0
        /\ \A m \in Mailboxes, secret \in Secrets : secrets[m][secret] # 0 => secrets'[m][secret] # 0
    BY <2>1, <2>2, <2>5, <2>6
  <2>9. Grows
    <3>1. <<r.n, h>> \in (1..begun) \X Deeds
      <4>1. r.n \in 1..begun
        BY <2>1
      <4>2. h \in Deeds
        BY <2>2 DEF Secrets, Deeds
      <4> QED BY <4>1, <4>2
    <3>2. \A k \in 0..begun, secret \in Secrets : <<r.n, h>> # <<k, Given(secret)>>
      <4>1. \A secret \in Secrets : Given(secret) # h
        BY <2>2 DEF Given, Secrets
      <4> QED BY <4>1
    <3> QED BY <1>1, <2>6, <2>8, <3>1, <3>2, DeedGrows
  <2>10. Placed(q)
    BY <1>1, <2>1, <2>7 DEF Placed, Working, Saving, Locked
  <2>11. Accounted(q, history', secrets')
    <3>1. Accounted(r, history', secrets')
      BY <2>1, <2>9, AccountsStay
    <3>2. Done(r, h, history', secrets')
      BY <2>6, <2>8 DEF Done
    <3> QED BY <1>1, <2>7, <3>1, <3>2 DEF Accounted, Done, Todo, Saving, Locked, r, h
  <2>12. Informed(q, file') /\ Based(q, file', backup')
    BY <1>1, <2>1, <2>7 DEF Informed, Based, Loaded
  <2>13. Requests'
    <3>1. req' = [d \in Clients |-> req'[d]] /\ req'[c] = q /\ \A d \in Clients \ {c} : req'[d] = req[d]
      BY <2>3, Known
    <3> QED BY <1>1, <2>1, <2>7, <2>9, <2>10, <2>11, <2>12, <3>1, RequestsGoOn
  <2>14. LockInv'
    BY <1>1, <2>3, <2>7, LockKept DEF Locked, r
  <2> QED BY <1>1, <1>2, <2>9, <2>13, <2>14, SameFile, SameStates, SameAudit, PartsMakeInv
<1> QED BY <1>3, <1>4 DEF Replace

LEMMA TellInv ==
  ASSUME Inv, NEW c \in Clients, Tell(c)
  PROVE  Inv'
<1> DEFINE r == req[c]
<1>1. UNCHANGED <<file, backup, secrets, history, lock, states, sessions, begun>> /\ r.at = "tell"
  BY DEF Tell, server, Disk
<1>2. sessions' \subseteq Clients
  BY <1>1 DEF Inv, Books
<1>3. CASE Answered(c) /\ UNCHANGED audit
  <2>1. AuditIsTruthful'
    BY <1>1, <1>3 DEF Inv, Books, AuditIsTruthful
  <2> QED BY <1>1, <1>2, <1>3, <2>1, AnsweredInv
<1>4. CASE /\ audit' = audit \cup {<<r.n, Head(r.todo)>>}
           /\ req' = [req EXCEPT ![c].at = NextDeed(c), ![c].todo = Tail(@)]
  <2> DEFINE at == NextDeed(c)
             todo == Tail(r.todo)
             q == [r EXCEPT !.at = at, !.todo = todo]
  <2>1. /\ r \in Shape /\ Placed(r) /\ r.n <= begun /\ Accounted(r, history, secrets)
        /\ r.op \in {"create", "save"} /\ r.todo # <<>> /\ Informed(r, file)
    BY <1>1, Known DEF Placed
  <2>2. Done(r, Head(r.todo), history, secrets)
    BY <1>1, <2>1 DEF Accounted
  <2>3. AuditIsTruthful'
    BY <1>1, <1>4, <2>2 DEF Done, Inv, Books, AuditIsTruthful, Deserved
  <2>4. req' = [req EXCEPT ![c] = q]
    BY <1>4, Known
  <2>5. r.todo \in Seq(Secrets)
    BY <2>1, Fields
  <2>6. /\ at \in Places /\ at \in {"secrets", "enter"}
        /\ at = "secrets" => Len(r.todo) > 1
        /\ at = "enter" => ~(Len(r.todo) > 1)
    BY DEF NextDeed, Places, Working, Saving
  <2> HIDE DEF at, r
  <2>7. todo \in Seq(Secrets) /\ (at = "secrets" => todo # <<>>) /\ (at = "enter" => todo = <<>>)
    <3>1. todo \in Seq(Secrets) /\ Len(todo) = Len(r.todo) - 1 /\ Len(r.todo) \in Nat \ {0}
      BY <2>1, <2>5, HeadTailProperties, EmptySeq
    <3> HIDE DEF todo
    <3>2. Len(r.todo) > 1 => todo # <<>>
      BY <3>1
    <3>3. ~(Len(r.todo) > 1) => todo = <<>>
      BY <3>1, EmptySeq
    <3> QED BY <2>6, <3>1, <3>2, <3>3
  <2>8. \A i \in DOMAIN r.todo : r.todo[i] = Head(r.todo) \/ \E j \in DOMAIN todo : r.todo[i] = todo[j]
    <3>1. /\ DOMAIN r.todo = 1..Len(r.todo) /\ DOMAIN todo = 1..(Len(r.todo) - 1) /\ Len(r.todo) \in Nat
          /\ Head(r.todo) = r.todo[1] /\ \A j \in DOMAIN todo : todo[j] = r.todo[j + 1]
      BY <2>1, <2>5
    <3>2. \A i \in DOMAIN r.todo : i # 1 => i - 1 \in DOMAIN todo /\ (i - 1) + 1 = i
      BY <3>1
    <3> QED BY <3>1, <3>2
  <2> HIDE DEF todo
  <2>9. /\ q \in Shape /\ q.at = at /\ q.op = r.op /\ q.n = r.n /\ q.mailbox = r.mailbox
        /\ q.form = r.form /\ q.todo = todo
    BY <2>1, <2>6, <2>7 DEF Shape, Todos
  <2> HIDE DEF q
  <2>10. Placed(q)
    BY <1>1, <2>1, <2>6, <2>7, <2>9 DEF Placed, Working, Saving, Locked
  <2>11. Accounted(q, history, secrets)
    <3>1. ASSUME NEW secret \in Secrets, <<q.n, Given(secret)>> \in history
          PROVE  secret \in Todo(q) \/ Done(q, secret, history, secrets)
      <4>1. secret \in Todo(r) \/ Done(r, secret, history, secrets)
        BY <1>1, <2>1, <2>9, <3>1 DEF Accounted
      <4>2. secret \in Todo(r) => secret = Head(r.todo) \/ secret \in Todo(q)
        BY <2>8, <2>9 DEF Todo
      <4> QED BY <2>2, <2>9, <4>1, <4>2 DEF Done
    <3>2. at = "enter" => Todo(q) = {}
      BY <2>7, <2>9 DEF Todo
    <3> QED BY <2>6, <2>9, <3>1, <3>2 DEF Accounted, Saving, Locked
  <2>12. Informed(q, file) /\ Based(q, file, backup)
    BY <1>1, <2>1, <2>6, <2>9 DEF Informed, Based, Loaded
  <2> QED BY <1>1, <1>2, <2>1, <2>3, <2>4, <2>6, <2>9, <2>10, <2>11, <2>12, QuietStep DEF Locked, r
<1> QED BY <1>3, <1>4 DEF Tell

LEMMA EnterInv ==
  ASSUME Inv, NEW c \in Clients, Enter(c)
  PROVE  Inv'
<1> DEFINE r == req[c]
           at == IF c \in GoingOn(lock, <<c>>) THEN "mutate" ELSE "queued"
           q == [r EXCEPT !.at = at]
<1>1. UNCHANGED <<file, backup, secrets, history, states, sessions, audit, begun>> /\ r.at = "enter"
  BY DEF Enter, Disk
<1>2. req' = [req EXCEPT ![c] = q]
  BY DEF Enter, GoesTo
<1>3. /\ r \in Shape /\ Placed(r) /\ r.n <= begun /\ Accounted(r, history, secrets)
      /\ Informed(r, file)
  BY Known
<1>4. at \in Places /\ at \in {"mutate", "queued"}
  BY DEF Places, Working, Saving, Locked
<1> HIDE DEF at, r
<1>5. /\ q \in Shape /\ q.at = at /\ q.op = r.op /\ q.n = r.n /\ q.mailbox = r.mailbox
      /\ q.form = r.form /\ q.todo = r.todo
  BY <1>3, <1>4, MovedShape
<1> HIDE DEF q
<1>6. Placed(q)
  BY <1>1, <1>3, <1>4, <1>5 DEF Placed, Working, Saving, Locked
<1>7. Informed(q, file) /\ Based(q, file, backup) /\ Accounted(q, history, secrets)
  BY <1>1, <1>3, <1>4, <1>5 DEF Informed, Based, Accounted, Done, Loaded, Saving, Locked
<1>8. Grows
  BY <1>1, NothingGrows
<1>9. Requests'
  <2>1. req' = [d \in Clients |-> req'[d]] /\ req'[c] = q /\ \A d \in Clients \ {c} : req'[d] = req[d]
    BY <1>2, Known
  <2> QED BY <1>1, <1>3, <1>5, <1>6, <1>7, <1>8, <2>1, RequestsGoOn
<1>10. sessions' \subseteq Clients
  BY <1>1 DEF Inv, Books
<1> QED BY <1>1, <1>8, <1>9, <1>10, LockEntered, SameFile, SameStates, SameAudit, PartsMakeInv

----------------------------------------------------------------------------
\* Steps inside the lock

\* The rows that are there.
RealRow == [saved : 0..MaxRequests, enabled : BOOLEAN,
            folders : ({form.folders : form \in Forms} \cup FolderChoices) \ {{}},
            unseen : {"chosen", "default"}]

LEMMA RealRows ==
  /\ Rows = RealRow \cup {NoRow}
  /\ \A row \in RealRow : row # NoRow /\ row.folders # {} /\ row.saved \in Nat
  /\ NoRow.saved = 0 /\ NoRow.enabled = FALSE
BY Bounds DEF Rows, RealRow, NoRow

\* What a request that may replace the file makes of it.
LEMMA ChangedTyped ==
  ASSUME Inv, NEW c \in Clients, req[c].at \in Locked, Valid(Changed(req[c], file))
  PROVE  LET r == req[c]
             new == Changed(r, file) IN
         /\ new \in [Mailboxes -> Rows]
         /\ \A m \in Mailboxes : Has(file, m) => Has(new, m)
         /\ \A m \in Mailboxes : new[m].saved = file[m].saved \/ (m = r.mailbox /\ new[m].saved = r.n)
         /\ r.op = "toggle" => new[r.mailbox].enabled = r.sets
<1> DEFINE r == req[c]
           new == Changed(r, file)
<1>1. /\ r \in Shape /\ Placed(r) /\ Informed(r, file) /\ file \in [Mailboxes -> Rows]
      /\ r.op \in {"create", "save", "toggle", "folders"} /\ r.mailbox \in Mailboxes
      /\ r.n \in 0..MaxRequests /\ r.sets \in BOOLEAN /\ Valid(new)
  BY Known DEF Placed, Working, Saving, Shape
<1>2. r.op \in {"toggle", "folders"} => file[r.mailbox] \in RealRow
  BY <1>1, RealRows DEF Informed, Has, Loaded, Saving
<1>3. SUFFICES /\ new \in [Mailboxes -> Rows]
               /\ \A m \in Mailboxes : Has(file, m) => Has(new, m)
               /\ \A m \in Mailboxes : new[m].saved = file[m].saved \/ (m = r.mailbox /\ new[m].saved = r.n)
               /\ r.op = "toggle" => new[r.mailbox].enabled = r.sets
  OBVIOUS
<1>4. file \in [Mailboxes -> Rows] /\ r.mailbox \in Mailboxes
  BY <1>1
<1> HIDE DEF r, new
<1>5. CASE r.op = "toggle"
  <2> DEFINE row == [file[r.mailbox] EXCEPT !.enabled = r.sets]
  <2>1. new = [file EXCEPT ![r.mailbox] = row]
    BY <1>1, <1>5 DEF Changed, new
  <2>2. row \in RealRow /\ row.saved = file[r.mailbox].saved /\ row.enabled = r.sets
    BY <1>1, <1>2, <1>5 DEF RealRow
  <2> HIDE DEF row
  <2>3. /\ new \in [Mailboxes -> Rows] /\ new[r.mailbox] = row
        /\ \A m \in Mailboxes : Has(file, m) => Has(new, m)
        /\ \A m \in Mailboxes : m # r.mailbox => new[m] = file[m]
    BY <1>4, <2>1, <2>2, RealRows DEF Has
  <2> QED BY <2>2, <2>3
<1>6. CASE r.op = "folders"
  <2> DEFINE row == [file[r.mailbox] EXCEPT !.folders = r.form.folders]
  <2>1. new = [file EXCEPT ![r.mailbox] = row]
    BY <1>1, <1>6 DEF Changed, new
  <2>2. /\ row.saved = file[r.mailbox].saved /\ row.folders = r.form.folders
        /\ row.unseen \in {"chosen", "default"}
    BY <1>2, <1>6 DEF RealRow
  <2>3. new[r.mailbox] = row
    BY <1>1, <2>1
  <2>4. row.folders # {}
    <3>1. row # NoRow
      <4>1. NoRow.unseen = "absent"
        BY DEF NoRow
      <4> QED BY <2>2, <4>1
    <3> QED BY <1>1, <2>3, <3>1 DEF Valid, Has
  <2>5. row \in RealRow
    BY <1>1, <1>2, <1>6, <2>2, <2>4 DEF RealRow, Placed
  <2> HIDE DEF row
  <2>6. /\ new \in [Mailboxes -> Rows]
        /\ \A m \in Mailboxes : Has(file, m) => Has(new, m)
        /\ \A m \in Mailboxes : m # r.mailbox => new[m] = file[m]
    BY <1>4, <2>1, <2>5, RealRows DEF Has
  <2> QED BY <1>6, <2>2, <2>3, <2>6
<1>7. CASE r.op \in {"create", "save"}
  <2> DEFINE row == Row(r.n, r.form)
  <2>1. new = [file EXCEPT ![r.mailbox] = row]
    BY <1>1, <1>7 DEF Changed, new
  <2>2. row \in RealRow /\ row.saved = r.n
    BY <1>1, <1>7, FormsParse DEF RealRow, Row, Placed
  <2> HIDE DEF row
  <2>3. /\ new \in [Mailboxes -> Rows] /\ new[r.mailbox] = row
        /\ \A m \in Mailboxes : Has(file, m) => Has(new, m)
        /\ \A m \in Mailboxes : m # r.mailbox => new[m] = file[m]
    BY <1>4, <2>1, <2>2, RealRows DEF Has
  <2> QED BY <1>7, <2>2, <2>3
<1> QED BY <1>1, <1>5, <1>6, <1>7

\* A request that gives up inside the lock.
LEMMA GivesUpInv ==
  ASSUME Inv, NEW c \in Clients, req[c].at \in Locked, LeavesWith(c, NoReq),
         UNCHANGED <<file, backup, secrets, history, states, sessions, audit, begun>>
  PROVE  Inv'
<1>1. Grows
  BY NothingGrows
<1>2. NoReq.n <= begun' /\ NoReq.at \notin Locked \cup {"queued"}
  BY <1>1, Idle, Bounds DEF Locked, Grows
<1>3. /\ LockInv'
      /\ req' = [d \in Clients |-> req'[d]] /\ req'[c] = NoReq
      /\ \A d \in Clients \ {c} :
           \/ req'[d] = req[d]
           \/ req[d].at = "queued" /\ req'[d] = [req[d] EXCEPT !.at = "mutate"]
  BY <1>2, LockLeft
<1>4. Requests'
  BY <1>1, <1>2, <1>3, Idle, RequestsGoOn
<1>5. sessions' \subseteq Clients
  BY DEF Inv, Books
<1> QED BY <1>1, <1>3, <1>4, <1>5, SameFile, SameStates, SameAudit, PartsMakeInv

\* A step of the request inside the lock that replaces nothing yet.
LEMMA InsideStep ==
  ASSUME Inv, NEW c \in Clients, req[c].at \in Locked, NEW q, Placed(q), q.n = req[c].n,
         q.op = req[c].op, q.mailbox = req[c].mailbox, q.at \in Locked,
         Based(q, file, backup'), req' = [req EXCEPT ![c] = q],
         UNCHANGED <<file, secrets, history, lock, states, sessions, audit, begun>>
  PROVE  Inv'
<1>1. Grows
  BY NothingGrows
<1>2. Informed(req[c], file) /\ Accounted(req[c], history, secrets) /\ q.n <= begun
  BY Known
<1>3. req[c].at \in Saving /\ q.at \in Saving /\ q.at \notin {"load", "parse", "secrets", "tell", "audit"}
  BY DEF Saving, Locked
<1>4. Informed(q, file) /\ Accounted(q, history, secrets)
  BY <1>2, <1>3 DEF Informed, Accounted, Done, Loaded
<1>5. req' = [d \in Clients |-> req'[d]] /\ req'[c] = q /\ \A d \in Clients \ {c} : req'[d] = req[d]
  BY Known
<1>6. Requests'
  BY <1>1, <1>2, <1>4, <1>5, RequestsGoOn
<1>7. LockInv'
  BY LockKept DEF Locked
<1>8. sessions' \subseteq Clients
  BY DEF Inv, Books
<1> QED BY <1>1, <1>6, <1>7, <1>8, SameFile, SameStates, SameAudit, PartsMakeInv

LEMMA MutateInv ==
  ASSUME Inv, NEW c \in Clients, Mutate(c)
  PROVE  Inv'
<1> DEFINE r == req[c]
           new == Changed(r, file)
           q == [r EXCEPT !.at = "copy", !.base = new]
<1>1. UNCHANGED <<file, backup, secrets, history, states, sessions, audit, begun>>
      /\ r.at = "mutate" /\ r.at \in Locked
  BY DEF Mutate, Disk, Locked
<1>2. CASE ~Valid(new)
  BY <1>1, <1>2, GivesUpInv DEF Mutate
<1>3. CASE Valid(new)
  <2>1. req' = [req EXCEPT ![c] = q] /\ UNCHANGED lock
    BY <1>3 DEF Mutate
  <2>2. r \in Shape /\ Placed(r) /\ new \in Bases /\ "copy" \in Places
    BY <1>1, <1>3, Known, ChangedTyped DEF Bases, Places, Working, Saving, Locked
  <2> HIDE DEF new, r
  <2>4. /\ q \in Shape /\ q.at = "copy" /\ q.op = r.op /\ q.n = r.n /\ q.mailbox = r.mailbox
        /\ q.form = r.form /\ q.todo = r.todo /\ q.sets = r.sets /\ q.base = new
    BY <2>2 DEF Shape
  <2> HIDE DEF q
  <2>5. Placed(q)
    BY <1>1, <2>2, <2>4 DEF Placed, Working, Saving, Locked
  <2>6. Changed(q, file) = new
    BY <2>4 DEF Changed, new
  <2>7. Based(q, file, backup')
    BY <1>3, <2>4, <2>6 DEF Based
  <2> QED BY <1>1, <2>1, <2>4, <2>5, <2>7, InsideStep DEF Locked, r
<1> QED BY <1>2, <1>3

LEMMA CopyInv ==
  ASSUME Inv, NEW c \in Clients, Copy(c) \/ Write(c)
  PROVE  Inv'
<1> DEFINE r == req[c]
           at == IF r.at = "copy" THEN "write" ELSE "rename"
           q == [r EXCEPT !.at = at]
<1>1. /\ UNCHANGED <<file, secrets, history, lock, states, sessions, audit, begun>>
      /\ r.at \in {"copy", "write"} /\ r.at \in Locked /\ req' = [req EXCEPT ![c] = q]
      /\ \/ r.at = "copy" /\ backup' = file
         \/ r.at = "write" /\ backup' = backup
  BY DEF Copy, Write, GoesTo, server, Disk, Locked
<1>2. r \in Shape /\ Placed(r) /\ at \in Places /\ at \in {"write", "rename"} /\ Based(r, file, backup)
  BY Known DEF Places, Working, Saving, Locked
<1> HIDE DEF at, r
<1>3. /\ q \in Shape /\ q.at = at /\ q.op = r.op /\ q.n = r.n /\ q.mailbox = r.mailbox
      /\ q.form = r.form /\ q.todo = r.todo /\ q.sets = r.sets /\ q.base = r.base
  BY <1>2, MovedShape
<1> HIDE DEF q
<1>4. Placed(q)
  BY <1>1, <1>2, <1>3 DEF Placed, Working, Saving, Locked
<1>5. Changed(q, file) = Changed(r, file)
  BY <1>3 DEF Changed
<1>6. Based(q, file, backup')
  BY <1>1, <1>2, <1>3, <1>5 DEF Based
<1> QED BY <1>1, <1>2, <1>3, <1>4, <1>6, InsideStep DEF Locked, r

LEMMA RenameInv ==
  ASSUME Inv, NEW c \in Clients, Rename(c)
  PROVE  Inv'
<1> DEFINE r == req[c]
           entry == Deed(r)
           next == [r EXCEPT !.at = "audit", !.entry = entry, !.base = NoConfig]
<1>1. /\ UNCHANGED <<backup, secrets, states, sessions, audit, begun>>
      /\ r.at = "rename" /\ r.at \in Locked /\ file' = r.base /\ LeavesWith(c, next)
  BY DEF Rename, Locked
<1>2. /\ r \in Shape /\ Placed(r) /\ r.n <= begun /\ r.n \in Nat /\ r.n # 0 /\ begun \in Nat
      /\ r.base = Changed(r, file) /\ Valid(r.base) /\ r.mailbox \in Mailboxes
      /\ Accounted(r, history, secrets)
  BY <1>1, Known DEF Based, Placed, Working, Saving
<1>3. /\ file' \in [Mailboxes -> Rows]
      /\ \A m \in Mailboxes : Has(file, m) => Has(file', m)
      /\ \A m \in Mailboxes : file'[m].saved = file[m].saved \/ (m = r.mailbox /\ file'[m].saved = r.n)
      /\ r.op = "toggle" => r.base[r.mailbox].enabled = r.sets
  BY <1>1, <1>2, ChangedTyped
<1> DEFINE did == Does(r)
<1>4. history' = history \cup {<<r.n, did>>}
  BY DEF Rename
<1>5. /\ entry \in {"created", "updated", "folders", "enabled", "disabled"}
      /\ did \in {"created", "updated", "folders", "enabled", "disabled"}
      /\ entry = did \/ (entry = "created" /\ did = "updated")
  <2>1. r.op \in {"create", "save", "toggle", "folders"} /\ (r.op = "save" => Has(file, r.mailbox))
    BY <1>1, <1>2, Known DEF Placed, Informed, Loaded, Saving
  <2>2. CASE r.op = "toggle"
    BY <1>3, <2>2 DEF Deed, Does
  <2>3. CASE r.op \in {"create", "save", "folders"}
    BY <2>1, <2>3 DEF Deed, Does
  <2> QED BY <2>1, <2>2, <2>3
<1>6. entry \in Entries /\ did \in Deeds /\ NoConfig \in Bases /\ "audit" \in Places
  BY <1>5 DEF Entries, Deeds, Bases, Places
<1> HIDE DEF entry, did, r
<1>7. Grows
  <2>1. <<r.n, did>> \in (1..begun) \X Deeds
    <3>1. r.n \in 1..begun
      BY <1>2
    <3> QED BY <1>6, <3>1
  <2>2. \A k \in 0..begun, secret \in Secrets : <<r.n, did>> # <<k, Given(secret)>>
    <3>1. \A secret \in Secrets : Given(secret) # did
      BY <1>5 DEF Given
    <3> QED BY <3>1
  <2> QED BY <1>1, <1>4, <2>1, <2>2, DeedGrows DEF Inv, Books
<1>8. /\ next \in Shape /\ next.at = "audit" /\ next.entry = entry /\ next.op = r.op /\ next.n = r.n
      /\ next.mailbox = r.mailbox /\ next.form = r.form /\ next.todo = r.todo
  BY <1>2, <1>6 DEF Shape
<1> HIDE DEF next
<1>9. Placed(next)
  BY <1>1, <1>2, <1>8 DEF Placed, Working, Saving, Locked
<1>10. Informed(next, file') /\ Based(next, file', backup')
  BY <1>8 DEF Informed, Based, Loaded, Saving, Locked
<1>11. Accounted(next, history', secrets')
  <2>1. Deserved(<<r.n, entry>>, history')
    BY <1>4, <1>5 DEF Deserved
  <2> QED BY <1>8, <2>1 DEF Accounted, Saving, Locked
<1>12. next.at \notin Locked \cup {"queued"} /\ next.n <= begun'
  BY <1>1, <1>2, <1>8 DEF Locked
<1>13. /\ LockInv'
       /\ req' = [d \in Clients |-> req'[d]] /\ req'[c] = next
       /\ \A d \in Clients \ {c} :
            \/ req'[d] = req[d]
            \/ req[d].at = "queued" /\ req'[d] = [req[d] EXCEPT !.at = "mutate"]
  BY <1>1, <1>12, LockLeft DEF r
<1>14. Requests'
  BY <1>1, <1>3, <1>7, <1>9, <1>10, <1>11, <1>12, <1>13, RequestsGoOn DEF r
<1>15. Files'
  <2>1. ASSUME NEW m \in Mailboxes, NEW secret \in Secrets, <<file'[m].saved, Given(secret)>> \in history'
        PROVE  <<file'[m].saved, secret>> \in history' /\ secrets'[m][secret] # 0
    <3>1. file[m].saved \in 0..begun
      BY RealRows, Known, Bounds DEF Inv, Files
    <3>2. <<file'[m].saved, Given(secret)>> \in history
      BY <1>2, <1>3, <1>7, <2>1, <3>1 DEF Grows
    <3>3. CASE file'[m].saved = file[m].saved
      BY <3>2, <3>3, <1>7 DEF Inv, Files, SettingsHaveTheirSecrets, Grows
    <3>4. CASE m = r.mailbox /\ file'[m].saved = r.n
      BY <3>2, <3>4, <1>1, <1>2, <1>7 DEF Accounted, Done, Saving, Grows
    <3> QED BY <1>3, <3>3, <3>4
  <2>2. \A m \in Mailboxes : file'[m].saved <= begun'
    BY <1>1, <1>2, <1>3 DEF Inv, Files
  <2> QED BY <1>3, <2>1, <2>2 DEF Files, SettingsHaveTheirSecrets
<1>16. sessions' \subseteq Clients
  BY <1>1 DEF Inv, Books
<1> QED BY <1>1, <1>7, <1>13, <1>14, <1>15, <1>16, SameStates, SameAudit, PartsMakeInv

\* A rewrite that is refused gives the lock back and leaves the file as it was.
LEMMA RefusedInv ==
  ASSUME Inv, NEW c \in Clients, Refused(c)
  PROVE  Inv'
BY GivesUpInv DEF Refused, Disk, Locked

LEMMA TestEndsInv ==
  ASSUME Inv, NEW c \in Clients, NEW passes \in BOOLEAN, TestEnds(c, passes)
  PROVE  Inv'
<1> DEFINE r == req[c]
           q == [r EXCEPT !.at = "audit", !.entry = "tested"]
           new == <<r.n, "tested">>
<1>1. /\ UNCHANGED <<file, backup, secrets, sessions, lock, audit, begun>> /\ r.at = "testing"
      /\ history' = history \cup {new} /\ req' = [req EXCEPT ![c] = q]
  BY DEF TestEnds, WillTell, Disk
<1>2. r.n \in 1..begun
  <2>1. Placed(r) /\ r.n <= begun /\ r.n \in Nat /\ begun \in Nat
    BY Known
  <2> QED BY <1>1, <2>1 DEF Placed, Working
<1>3. "tested" \in Entries /\ "tested" \in Deeds
  BY DEF Entries, Deeds
<1>4. Grows
  <2>1. new \in (1..begun) \X Deeds
    BY <1>2, <1>3
  <2>2. \A k \in 0..begun, secret \in Secrets : new # <<k, Given(secret)>>
    BY DEF Given
  <2>3. secrets \in [Mailboxes -> [Secrets -> Nat]]
    BY DEF Inv, Books
  <2> HIDE DEF new
  <2> QED BY <1>1, <2>1, <2>2, <2>3, DeedGrows
<1>5. Deserved(new, history')
  BY <1>1 DEF Deserved
<1>6. /\ Placed(q) /\ q.n <= begun /\ Informed(q, file') /\ Accounted(q, history', secrets')
      /\ Based(q, file', backup') /\ q.at = "audit"
  BY <1>3, <1>5, ToldPlaced
<1> HIDE DEF q
<1>7. Requests'
  <2>1. req' = [d \in Clients |-> req'[d]] /\ req'[c] = q /\ \A d \in Clients \ {c} : req'[d] = req[d]
    BY <1>1, Known
  <2> QED BY <1>1, <1>4, <1>6, <2>1, RequestsGoOn
<1>8. LockInv'
  BY <1>1, <1>6, LockKept DEF Locked
<1>9. \A m \in Mailboxes : states'[m] \in {"unknown", "PASS", "FAIL"}
  BY DEF TestEnds, Inv, Books
<1>10. sessions' \subseteq Clients
  BY <1>1 DEF Inv, Books
<1> QED BY <1>1, <1>4, <1>7, <1>8, <1>9, <1>10, SameFile, SameAudit, PartsMakeInv

----------------------------------------------------------------------------
\* The invariant

\* A stop forgets the requests, the sessions and the lock; what is on disk stays.
LEMMA StopInv ==
  ASSUME Inv, Stop
  PROVE  Inv'
<1>1. /\ UNCHANGED <<file, backup, secrets, history, audit, begun>>
      /\ states' = [m \in Mailboxes |-> "unknown"] /\ sessions' = {}
      /\ lock' = NewSemaphore(1) /\ req' = [c \in Clients |-> NoReq]
  BY DEF Stop, Disk
<1>2. Grows
  BY <1>1, NothingGrows
<1>3. begun \in Nat
  BY Bounds DEF Inv, Books
<1>4. Requests'
  <2>1. \A c \in Clients : req'[c] = NoReq
    BY <1>1
  <2>2. NoReq \in Shape
    BY Idle DEF Placed
  <2> QED BY <1>1, <1>3, <2>1, <2>2, Idle DEF Requests
<1>5. LockInv'
  <2>1. lock' = [free |-> 1, queue |-> <<>>]
    BY <1>1 DEF NewSemaphore
  <2>2. \A c \in Clients : req'[c].at = "none"
    BY <1>1, Idle
  <2> QED BY <2>1, <2>2 DEF LockInv, Locked
<1> QED BY <1>1, <1>2, <1>4, <1>5, SameFile, SameAudit, PartsMakeInv

LEMMA InitInv == Init => Inv
<1> SUFFICES ASSUME Init PROVE Inv
  OBVIOUS
<1>1. /\ begun = 0 /\ history = {} /\ audit = {} /\ sessions = {} /\ lock = NewSemaphore(1)
      /\ req = [c \in Clients |-> NoReq]
      /\ secrets = [m \in Mailboxes |-> [secret \in Secrets |-> 0]]
      /\ states = [m \in Mailboxes |-> "unknown"]
      /\ file \in [Mailboxes -> {NoRow} \cup {[Row(0, form) EXCEPT !.unseen = "chosen"] : form \in Forms}]
  BY DEF Init
<1>2. ASSUME NEW form \in Forms
      PROVE  /\ [Row(0, form) EXCEPT !.unseen = "chosen"] \in Rows
             /\ [Row(0, form) EXCEPT !.unseen = "chosen"].saved = 0
  BY Bounds, FormsParse DEF Row, Rows
<1>3. NoRow \in Rows /\ NoRow.saved = 0
  BY DEF Rows, NoRow
<1> DEFINE chosen(form) == [Row(0, form) EXCEPT !.unseen = "chosen"]
<1>4. file \in [Mailboxes -> {NoRow} \cup {chosen(form) : form \in Forms}]
  BY <1>1
<1>5. \A form \in Forms : chosen(form) \in Rows /\ chosen(form).saved = 0
  BY <1>2
<1> HIDE DEF chosen
<1>6. \A m \in Mailboxes : file[m] \in Rows /\ file[m].saved = 0
  BY <1>3, <1>4, <1>5
<1>7. Files
  BY <1>1, <1>6 DEF Files, SettingsHaveTheirSecrets
<1>8. Books
  BY <1>1, Bounds DEF Books, AuditIsTruthful
<1>9. Requests
  <2>1. NoReq \in Shape
    BY Idle DEF Placed
  <2> QED BY <1>1, <2>1, Idle DEF Requests
<1>10. LockInv
  <2>1. lock = [free |-> 1, queue |-> <<>>]
    BY <1>1 DEF NewSemaphore
  <2>2. \A c \in Clients : req[c].at = "none"
    BY <1>1, Idle
  <2> QED BY <2>1, <2>2 DEF LockInv, Locked
<1> QED BY <1>7, <1>8, <1>9, <1>10 DEF Inv

LEMMA StepInv == Inv /\ [Next]_vars => Inv'
<1> SUFFICES ASSUME Inv, [Next]_vars PROVE Inv'
  OBVIOUS
<1>1. ASSUME NEW c \in Clients, Goes(c) PROVE Inv'
  <2>1. CASE Load(c)
    BY <2>1, LoadInv
  <2>2. CASE Replace(c) \/ Tell(c)
    BY <2>2, ReplaceInv, TellInv
  <2>3. CASE Enter(c) \/ Mutate(c)
    BY <2>3, EnterInv, MutateInv
  <2>4. CASE Copy(c) \/ Write(c) \/ Rename(c) \/ Refused(c)
    BY <2>4, CopyInv, RenameInv, RefusedInv
  <2>5. CASE Destroy(c) \/ Audit(c)
    BY <2>5, DestroyInv, AuditInv
  <2>6. CASE \E yes \in BOOLEAN : Parse(c, yes) \/ TestEnds(c, yes) \/ Verify(c, yes)
    BY <2>6, ParseInv, TestEndsInv, VerifyInv
  <2> QED BY <1>1, <2>1, <2>2, <2>3, <2>4, <2>5, <2>6 DEF Goes
<1>2. CASE UNCHANGED vars
  BY <1>2 DEF vars, Inv, Files, Books, Requests, LockInv, SettingsHaveTheirSecrets, AuditIsTruthful
<1> QED BY <1>1, <1>2, AsksInv, StopInv DEF Next

\* Everything below rests on this invariant.
THEOREM Invariant == Spec => []Inv
BY InitInv, StepInv, PTL DEF Spec

\* Rows are always what the schema of the configuration accepts, and requests, sessions and the
\* lock what the handlers of src/admin make them, wherever several browsers have got to.
THEOREM TypeCorrect == Spec => []TypeOK
<1>1. Inv => TypeOK
  <2> SUFFICES ASSUME Inv PROVE TypeOK
    OBVIOUS
  <2>1. \A c \in Clients : req[c].n \in 0..begun /\ (req[c].at = "none" => req[c] = NoReq)
    BY Known DEF Placed
  <2> QED BY <2>1 DEF Inv, Files, Books, LockInv, TypeOK
<1> QED BY <1>1, Invariant, PTL

\* The settings of a save reach the configuration file only when each secret given with them is
\* in its file, whichever writes were refused and wherever the process stopped (the order of
\* the secrets' writes and of mutate in the save and create handlers).
THEOREM SecretsComeFirst == Spec => []SettingsHaveTheirSecrets
<1>1. Inv => SettingsHaveTheirSecrets
  BY DEF Inv, Files
<1> QED BY <1>1, Invariant, PTL

\* The audit file tells of no deed that was not done, with one exception: MAILBOX_CONFIG_CREATED
\* is also told of the replacement of a row that was there.  MAILBOX_CONFIG_UPDATED and the entries
\* of a toggle are true of the row that was replaced (the order of mutate and audit in the
\* handlers, and the operation fixed before the lock).
THEOREM AuditTellsDeeds == Spec => []AuditIsTruthful
<1>1. Inv => AuditIsTruthful
  BY DEF Inv, Books
<1> QED BY <1>1, Invariant, PTL

----------------------------------------------------------------------------
\* Changes of the file

\* A browser that asks changes no file, and no request that is in the lock.
LEMMA AsksChangeNothing ==
  ASSUME Inv, NEW c \in Clients, Asks(c)
  PROVE  /\ UNCHANGED file
         /\ req[c].at = "none" \/ UNCHANGED req
         /\ \A d \in Clients \ {c} : req'[d] = req[d]
<1>1. req \in [Clients -> Shape] /\ NoReq.at = "none"
  BY Known, Idle
<1>2. ASSUME NEW r, Begin(c, r)
      PROVE  UNCHANGED file /\ req[c].at = "none" /\ \A d \in Clients \ {c} : req'[d] = req[d]
  BY <1>1, <1>2 DEF Begin
<1>3. ASSUME NEW op, NEW at, Logs(c, op, at)
      PROVE  UNCHANGED file /\ req[c].at = "none" /\ \A d \in Clients \ {c} : req'[d] = req[d]
  BY <1>1, <1>3 DEF Logs
<1>4. CASE Login(c) \/ Logout(c)
  BY <1>3, <1>4 DEF Login, Logout
<1>5. CASE Expires(c)
  BY <1>5 DEF Expires
<1>6. ASSUME NEW m \in Mailboxes,
             \/ Toggle(c, m) \/ Test(c, m)
             \/ \E form \in Forms, todo \in Gives[c] : Create(c, m, form, todo) \/ Save(c, m, form, todo)
             \/ \E folders \in FolderChoices : SetFolders(c, m, folders)
      PROVE  UNCHANGED file /\ req[c].at = "none" /\ \A d \in Clients \ {c} : req'[d] = req[d]
  BY <1>2, <1>6 DEF Toggle, Test, Create, Save, SetFolders
<1> QED BY <1>4, <1>5, <1>6 DEF Asks

\* A request that goes on changes the file only by its rename, and leaves the others in the lock
\* where they are.
LEMMA GoesChangeFiles ==
  ASSUME Inv, NEW c \in Clients, Goes(c)
  PROVE  /\ Rename(c) \/ UNCHANGED file
         /\ Rename(c) \/ req[c].at # "rename" \/ req'[c].at # "audit"
         /\ \A d \in Clients \ {c} : req'[d] = req[d] \/ req'[d].at = "mutate"
<1>1. req \in [Clients -> Shape] /\ NoReq.at = "none"
  BY Known, Idle
<1>2. ASSUME NEW next, LeavesWith(c, next)
      PROVE  req'[c] = next /\ \A d \in Clients \ {c} : req'[d] = req[d] \/ req'[d].at = "mutate"
  <2>1. ASSUME NEW d \in Clients \ {c} PROVE req'[d] = req[d] \/ req'[d].at = "mutate"
    <3>1. req[d] \in Shape
      BY <1>1
    <3>2. [req[d] EXCEPT !.at = "mutate"].at = "mutate"
      BY <3>1 DEF Shape
    <3> QED BY <1>2, <3>2 DEF LeavesWith
  <2> QED BY <1>2, <2>1 DEF LeavesWith
<1>3. CASE Mutate(c) \/ Refused(c) \/ Rename(c)
  <2>1. CASE Rename(c)
    BY <1>2, <2>1 DEF Rename
  <2>2. CASE Refused(c)
    BY <1>1, <1>2, <2>2 DEF Refused, Disk
  <2>3. CASE Mutate(c)
    BY <1>1, <1>2, <2>3 DEF Mutate, Disk
  <2> QED BY <1>3, <2>1, <2>2, <2>3
<1>4. CASE Copy(c) \/ Write(c)
  <2>1. UNCHANGED file /\ \E at \in {"write", "rename"} : req' = [req EXCEPT ![c].at = at]
    BY <1>4 DEF Copy, Write, GoesTo, Disk
  <2>2. req'[c].at # "audit"
    BY <1>1, <2>1 DEF Shape
  <2> QED BY <1>1, <2>1, <2>2
<1>5. CASE Load(c) \/ Replace(c) \/ Tell(c) \/ Enter(c) \/ Destroy(c) \/ Audit(c)
  <2>1. UNCHANGED file /\ req[c].at # "rename"
    BY <1>5 DEF Load, Replace, Tell, Enter, Destroy, Audit, Disk
  <2>2. \A d \in Clients \ {c} : req'[d] = req[d]
    BY <1>1, <1>5 DEF Load, Replace, Tell, Enter, Destroy, Audit, Answered, GoesTo, WillTell
  <2> QED BY <2>1, <2>2
<1>6. CASE \E yes \in BOOLEAN : Parse(c, yes) \/ TestEnds(c, yes) \/ Verify(c, yes)
  <2>1. UNCHANGED file /\ req[c].at # "rename"
    BY <1>6 DEF Parse, TestEnds, Verify, Disk
  <2>2. \A d \in Clients \ {c} : req'[d] = req[d]
    BY <1>1, <1>6 DEF Parse, TestEnds, Verify, GoesTo, WillTell
  <2> QED BY <2>1, <2>2
<1> QED BY <1>3, <1>4, <1>5, <1>6 DEF Goes

\* What replaces the file is the change made to the file that is replaced, of which there is a copy.
LEMMA RenameIsSerial ==
  ASSUME Inv, NEW c \in Clients, Rename(c)
  PROVE  backup' = file /\ file' = Changed(req[c], file)
<1>1. Based(req[c], file, backup)
  BY Known
<1> QED BY <1>1 DEF Rename, Based

\* No change is lost and none is without its copy: two browsers that read the same file cannot
\* both replace it, and a refused or stopped rewrite leaves what the next one needs (#mutate and
\* its lock, in the configuration store of src/admin).
THEOREM NoChangeIsLost == Spec => ChangesAreSerial
<1>1. Inv /\ [Next]_vars =>
        [/\ file' # file => backup' = file
         /\ \A c \in Clients : req[c].at = "rename" /\ req'[c].at = "audit" =>
              file' = Changed(req[c], file)]_vars
  <2> SUFFICES ASSUME Inv, [Next]_vars
               PROVE  /\ file' # file => backup' = file
                      /\ \A c \in Clients : req[c].at = "rename" /\ req'[c].at = "audit" =>
                           file' = Changed(req[c], file)
    OBVIOUS
  <2>1. ASSUME NEW d \in Clients, Asks(d)
        PROVE  UNCHANGED file /\ \A c \in Clients : ~(req[c].at = "rename" /\ req'[c].at = "audit")
    BY <2>1, AsksChangeNothing
  <2>2. ASSUME NEW d \in Clients, Goes(d)
        PROVE  /\ file' # file => backup' = file
               /\ \A c \in Clients : req[c].at = "rename" /\ req'[c].at = "audit" =>
                    file' = Changed(req[c], file)
    BY <2>2, GoesChangeFiles, RenameIsSerial
  <2>3. CASE Stop
    BY <2>3, Idle DEF Stop, Disk
  <2>4. CASE UNCHANGED vars
    BY <2>4 DEF vars
  <2> QED BY <2>1, <2>2, <2>3, <2>4 DEF Next
<1> QED BY <1>1, Invariant, PTL DEF Spec, ChangesAreSerial
===============================================================================
