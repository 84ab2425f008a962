--------------------------- MODULE AccountsProofs ---------------------------
(***************************************************************************)
(* Proofs about Accounts: whatever the number of registrations, runs of    *)
(* seed_users and Celery workers, the demo data and the faults.            *)
(***************************************************************************)
EXTENDS Accounts, TLAPS

-----------------------------------------------------------------------------
(***************************************************************************)
(* Types.                                                                  *)
(***************************************************************************)
LEMMA NameType ==
  ASSUME TypeOK, NEW s \in Seeders
  PROVE  Name(s) \in Names /\ DemoMail[Name(s)] \in Mails
BY DataAssumption DEF Name, TypeOK

\* A new key is one, and the rows a client can add have their type.
LEMMA NewKeyTypes ==
  ASSUME TypeOK, NEW p \in Clients, NewKey(p)
  PROVE  /\ lastPk' \in Pks /\ lastPk' = lastPk + 1 /\ lastPk + 1 \in Pks
         /\ made' \in [Clients -> Pks \cup {0}]
<1>1. lastPk + 1 \in Pks
  BY DataAssumption DEF NewKey, TypeOK, Pks
<1> QED BY <1>1 DEF NewKey, TypeOK

LEMMA NewUserType ==
  ASSUME NEW r \in Requests, lastPk + 1 \in Pks
  PROVE  NewUser(r) \in Account
<1>1. NormalName[NameOf[r]] \in Names /\ Normal[MailOf[r]] \in Mails
  BY ClientsAssumption, DataAssumption
<1> QED BY <1>1 DEF NewUser, Account

LEMMA DraftType ==
  ASSUME TypeOK, NEW s \in Seeders, made[s] \in Pks
  PROVE  Draft(s) \in Account
<1>1. Name(s) \in Names /\ DemoMail[Name(s)] \in Mails
  BY NameType
<1> QED BY <1>1 DEF Draft, Account

LEMMA SeedNextTypes ==
  ASSUME TypeOK, NEW s \in Seeders, SeedNext(s)
  PROVE  /\ at' \in [Seeders -> 1..Len(Demo)]
         /\ pc' \in {[pc EXCEPT ![s] = "get"], [pc EXCEPT ![s] = "done"]}
<1>1. Len(Demo) \in Nat /\ at[s] \in 1..Len(Demo)
  BY DataAssumption DEF TypeOK
<1>2. CASE at[s] = Len(Demo)
  BY <1>2 DEF SeedNext, TypeOK
<1>3. CASE at[s] # Len(Demo)
  <2>1. at' = [at EXCEPT ![s] = at[s] + 1] /\ pc' = [pc EXCEPT ![s] = "get"]
    BY <1>3 DEF SeedNext
  <2>2. at[s] + 1 \in 1..Len(Demo)
    BY <1>1, <1>3
  <2> QED BY <2>1, <2>2 DEF TypeOK
<1> QED BY <1>2, <1>3

\* Every step keeps the types.
LEMMA TypeStep == TypeOK /\ MadeIsOwn /\ [Next]_vars => TypeOK'
<1> SUFFICES ASSUME TypeOK, MadeIsOwn, [Next]_vars PROVE TypeOK'
  OBVIOUS
<1>0. \A p \in Clients : pc[p] \in {"commit", "enqueue"} => made[p] \in Pks
  BY DEF MadeIsOwn, TypeOK
<1> USE DEF TypeOK, Goto, Ended, Answers, Clients, dbVars, mailVars
<1>1. ASSUME NEW r \in Requests, CheckUsername(r) PROVE TypeOK'
  BY <1>1 DEF CheckUsername, Exists
<1>2. ASSUME NEW r \in Requests, CheckEmail(r) PROVE TypeOK'
  BY <1>2 DEF CheckEmail
<1>3. ASSUME NEW r \in Requests, CreateUser(r) PROVE TypeOK'
  <2>1. CASE NewKey(r) /\ accounts' = accounts \cup {NewUser(r)}
    <3>1. lastPk' \in Pks /\ made' \in [Clients -> Pks \cup {0}] /\ lastPk + 1 \in Pks
      BY <2>1, NewKeyTypes
    <3>2. accounts' \subseteq Account
      BY <2>1, <3>1, NewUserType
    <3> QED BY <1>3, <3>1, <3>2 DEF CreateUser
  <2>2. CASE UNCHANGED <<accounts, lastPk, made>>
    BY <1>3, <2>2 DEF CreateUser
  <2> QED BY <1>3, <2>1, <2>2 DEF CreateUser
<1>4. ASSUME NEW p \in Clients, Enqueue(p) PROVE TypeOK'
  <2>1. PICK n \in {1, 2} : queue' = [queue EXCEPT ![made[p]] = @ + n]
    BY <1>4 DEF Enqueue
  <2>2. queue' \in [Pks -> Nat]
    <3>1. queue[made[p]] + n \in Nat
      BY <1>0, <1>4 DEF Enqueue
    <3> QED BY <2>1, <3>1
  <2>3. AfterSignal(p) \in {"201", "fetch"}
    BY DEF AfterSignal
  <2> QED BY <1>4, <2>2, <2>3 DEF Enqueue
<1>5. ASSUME NEW s \in Seeders, SeedGet(s) PROVE TypeOK'
  <2>1. CASE SeedNext(s)
    BY <1>5, <2>1, SeedNextTypes DEF SeedGet
  <2>2. CASE ~SeedNext(s)
    BY <1>5, <2>2 DEF SeedGet
  <2> QED BY <2>1, <2>2
<1>6. ASSUME NEW s \in Seeders, SeedInsert(s) \/ SeedCommit(s) PROVE TypeOK'
  <2>1. CASE SeedInsert(s) /\ NewKey(s)
    <3>1. lastPk' \in Pks /\ made' \in [Clients -> Pks \cup {0}]
      BY <2>1, NewKeyTypes
    <3> QED BY <2>1, <3>1 DEF SeedInsert, SignalInside
  <2>2. CASE SeedInsert(s) /\ UNCHANGED <<lastPk, made>>
    BY <2>2 DEF SeedInsert, SignalInside
  <2>3. CASE SeedCommit(s)
    <3>1. accounts' \subseteq Account
      BY <1>0, <2>3, DraftType DEF SeedCommit
    <3> QED BY <2>3, <3>1 DEF SeedCommit
  <2> QED BY <1>6, <2>1, <2>2, <2>3 DEF SeedInsert
<1>7. ASSUME NEW s \in Seeders, SeedFetch(s) PROVE TypeOK'
  BY <1>7 DEF SeedFetch, Account
<1>8. ASSUME NEW s \in Seeders, SeedSave(s) PROVE TypeOK'
  <2>1. CASE Row(fetched[s]) = {}
    BY <1>8, <2>1 DEF SeedSave
  <2>2. CASE Row(fetched[s]) # {}
    <3>1. \A a \in accounts : [a EXCEPT !.password = "demo"] \in Account
      BY DEF Account
    <3>2. accounts' \subseteq Account
      <4>1. \A b \in accounts' : \E a \in accounts :
              b \in {a, [a EXCEPT !.password = "demo"]}
        BY <1>8, <2>2 DEF SeedSave
      <4> HIDE DEF Account
      <4> QED BY <3>1, <4>1
    <3>3. SeedNext(s)
      BY <1>8, <2>2 DEF SeedSave
    <3> QED BY <1>8, <3>2, <3>3, SeedNextTypes DEF SeedSave
  <2> QED BY <2>1, <2>2
<1>9. ASSUME NEW w \in Workers, TakeTask(w) PROVE TypeOK'
  <2>1. PICK k \in Pks :
          /\ queue[k] > 0
          /\ queue' = [queue EXCEPT ![k] = @ - 1]
          /\ job' = [job EXCEPT ![w] = [step |-> "get", pk |-> k]]
    BY <1>9 DEF TakeTask
  <2>2. queue' \in [Pks -> Nat]
    BY <2>1
  <2> QED BY <1>9, <2>1, <2>2 DEF TakeTask
<1>10. ASSUME NEW w \in Workers, GetUser(w) PROVE TypeOK'
  <2>1. job[w].pk \in Pks
    BY <1>10 DEF GetUser, Idle
  <2> QED BY <1>10, <2>1 DEF GetUser
<1>11. ASSUME NEW w \in Workers, SendMail(w) PROVE TypeOK'
  <2>1. job[w].pk \in Pks
    BY <1>11 DEF SendMail, Idle
  <2>2. sent[job[w].pk] + 1 \in Nat
    BY <2>1
  <2> QED BY <1>11, <2>2 DEF SendMail
<1>12. ASSUME NEW p \in Clients, EnqueueFails(p) PROVE TypeOK'
  <2>1. pc' \in {[pc EXCEPT ![p] = "500"], [pc EXCEPT ![p] = "failed"]}
    BY <1>12 DEF EnqueueFails
  <2>2. made[p] \in Pks
    BY <1>0, <1>12 DEF EnqueueFails
  <2>3. CASE queue' = [queue EXCEPT ![made[p]] = @ + 1] /\ UNCHANGED lost
    <3>1. queue[made[p]] + 1 \in Nat
      BY <2>2
    <3> QED BY <1>12, <2>1, <2>3, <3>1 DEF EnqueueFails
  <2>4. CASE lost' = lost \cup {made[p]} /\ UNCHANGED queue
    BY <1>12, <2>1, <2>2, <2>4 DEF EnqueueFails
  <2> QED BY <1>12, <2>3, <2>4 DEF EnqueueFails
<1>13. ASSUME NEW p \in Clients, KillClient(p) PROVE TypeOK'
  <2>1. lost' \subseteq Pks
    BY <1>0, <1>13 DEF KillClient
  <2> QED BY <1>13, <2>1 DEF KillClient
<1>14. ASSUME NEW w \in Workers, SendFails(w) PROVE TypeOK'
  <2>1. job[w].pk \in Pks
    BY <1>14 DEF SendFails, Idle
  <2>2. sent[job[w].pk] + 1 \in Nat
    BY <2>1
  <2>3. sent' \in [Pks -> Nat] /\ lost' \subseteq Pks
    BY <1>14, <2>1, <2>2 DEF SendFails
  <2> QED BY <1>14, <2>3 DEF SendFails
<1>15. ASSUME NEW w \in Workers, KillWorker(w) PROVE TypeOK'
  BY <1>15 DEF KillWorker, Idle
<1>16. CASE ResetRedis
  BY <1>16 DEF ResetRedis
<1>17. CASE FlushUsers
  BY <1>17 DEF FlushUsers, Account
<1>18. CASE UNCHANGED vars
  BY <1>18 DEF vars
<1> QED
  BY <1>1, <1>2, <1>3, <1>4, <1>5, <1>6, <1>7, <1>8, <1>9, <1>10, <1>11,
     <1>12, <1>13, <1>14, <1>15, <1>16, <1>17, <1>18
  DEF Next, Register, Seed, Work, Disturb

-----------------------------------------------------------------------------
(***************************************************************************)
(* What steps do to rows, to the clients' memory of them and to tasks.     *)
(***************************************************************************)
\* No command but p goes on to another user.
OthersStay(p) == \A s \in Seeders : s # p => at'[s] = at[s]

\* A step of p that leaves rows and tasks alone.
Local(p) ==
  /\ UNCHANGED <<accounts, lastPk, removed, made, queue, job, sent>>
  /\ OthersStay(p)
  /\ pc' = [pc EXCEPT ![p] = pc'[p]]
  /\ pc'[p] \notin {"commit", "enqueue", "201"}
  /\ pc'[p] \in {"fetch", "save"} => pc[p] \in {"fetch", "save"}
  /\ p \in Requests =>
       /\ pc'[p] \in {"username", "email", "create"} => pc[p] \in {"username", "email"}
       /\ pc'[p] = "400" => pc[p] = "email"

\* A row with this name and address may be added.
Admitted(name, mail) == Free(name, mail) /\ Unlocked(name, mail)

\* r inserts a, which commits itself.
Inserts(r, a) ==
  /\ pc[r] = "create" /\ pc' = [pc EXCEPT ![r] = "enqueue"]
  /\ Admitted(a.name, a.mail)
  /\ Wanted(r, a)
  /\ a.pk = lastPk + 1 /\ lastPk' = lastPk + 1
  /\ accounts' = accounts \cup {a}
  /\ made' = [made EXCEPT ![r] = lastPk + 1]
  /\ UNCHANGED <<removed, queue, job, sent, at>>

\* s inserts a row in its transaction.
Drafts(s) ==
  /\ pc[s] = "create" /\ pc' = [pc EXCEPT ![s] = "commit"]
  /\ Admitted(Name(s), DemoMail[Name(s)])
  /\ lastPk' = lastPk + 1
  /\ made' = [made EXCEPT ![s] = lastPk + 1]
  /\ UNCHANGED <<accounts, removed, queue, job, sent, at>>

\* s commits its row.
Commits(s) ==
  /\ pc[s] = "commit" /\ pc' = [pc EXCEPT ![s] = "enqueue"]
  /\ accounts' = accounts \cup {Draft(s)}
  /\ UNCHANGED <<lastPk, removed, made, queue, job, sent, at>>

\* p publishes the task of its row, n times.
Publishes(p, n) ==
  /\ pc[p] = "enqueue" /\ pc' = [pc EXCEPT ![p] = pc'[p]]
  /\ pc'[p] \in {"201", "fetch", "500", "failed"}
  /\ queue' = [queue EXCEPT ![made[p]] = @ + n]
  /\ "republish" \notin Faults => n \in {0, 1}
  /\ UNCHANGED <<accounts, lastPk, removed, made, job, sent, at>>

\* s saves a password.
Saves(s) ==
  /\ pc' = [pc EXCEPT ![s] = pc'[s]] /\ pc'[s] \in {"get", "done"}
  /\ accounts' = {IF a.pk = fetched[s] THEN [a EXCEPT !.password = "demo"] ELSE a :
                    a \in accounts}
  /\ OthersStay(s)
  /\ UNCHANGED <<lastPk, removed, made, queue, job, sent>>

\* w leaves its task or goes on with it.
Drops(w) ==
  /\ job[w] # Idle
  /\ job' \in {[job EXCEPT ![w] = Idle],
               [job EXCEPT ![w] = [step |-> "send", pk |-> job[w].pk]]}
  /\ UNCHANGED <<accounts, pc, lastPk, removed, made, queue, sent, at>>

\* w sends a mail.
Sends(w) ==
  /\ job[w] # Idle
  /\ job' = [job EXCEPT ![w] = Idle]
  /\ sent' = [sent EXCEPT ![job[w].pk] = @ + 1]
  /\ UNCHANGED <<accounts, pc, lastPk, removed, made, queue, at>>

Kinds ==
  \/ \E p \in Clients : Local(p)
  \/ \E r \in Requests, a \in Account : Inserts(r, a)
  \/ \E s \in Seeders : Drafts(s) \/ Commits(s) \/ Saves(s)
  \/ \E p \in Clients, n \in Nat : Publishes(p, n)
  \/ \E w \in Workers : TakeTask(w) \/ Drops(w) \/ Sends(w)
  \/ ResetRedis \/ FlushUsers
  \/ UNCHANGED <<accounts, pc, lastPk, removed, made, queue, job, sent, at>>

LEMMA InsertKind ==
  ASSUME TypeOK, NEW r \in Requests, CreateUser(r),
         Free(NormalName[NameOf[r]], Normal[MailOf[r]])
  PROVE  /\ \E a \in Account : Inserts(r, a)
         /\ UNCHANGED <<lost, taken, at, fetched>>
<1>1. NewUser(r).name = NormalName[NameOf[r]] /\ NewUser(r).mail = Normal[MailOf[r]]
      /\ NewUser(r).pk = lastPk + 1
  BY DEF NewUser
<1>2. NewKey(r) /\ r \in Clients
  BY <1>1 DEF CreateUser, Clients
<1>3. NewUser(r) \in Account
  BY <1>2, NewKeyTypes, NewUserType
<1>4. Inserts(r, NewUser(r))
  BY <1>1, <1>2 DEF CreateUser, NewKey, Goto, Inserts, Admitted, Wanted, mailVars
<1> QED BY <1>3, <1>4 DEF CreateUser, mailVars

LEMMA StepKinds == TypeOK /\ [Next]_vars => Kinds
<1> SUFFICES ASSUME TypeOK, [Next]_vars PROVE Kinds
  OBVIOUS
<1> USE DEF dbVars, mailVars
<1>0. /\ \A p \in Clients : \A x : pc' = [pc EXCEPT ![p] = x] => pc'[p] = x
      /\ \A s, t \in Seeders : SeedNext(s) /\ t # s => at'[t] = at[t]
  BY DEF TypeOK, SeedNext
<1>1. ASSUME NEW r \in Requests, CheckUsername(r) \/ CheckEmail(r) PROVE Kinds
  <2>1. Local(r)
    BY <1>0, <1>1 DEF CheckUsername, CheckEmail, Local, OthersStay, Goto, Clients
  <2> QED BY <2>1 DEF Kinds, Clients
<1>2. ASSUME NEW r \in Requests, CreateUser(r) PROVE Kinds
  <2>1. CASE Free(NormalName[NameOf[r]], Normal[MailOf[r]])
    BY <1>2, <2>1, InsertKind DEF Kinds
  <2>2. CASE ~Free(NormalName[NameOf[r]], Normal[MailOf[r]])
    <3>1. r \in Clients
      BY DEF Clients
    <3>2. Local(r)
      BY <1>0, <1>2, <2>2, <3>1 DEF CreateUser, NewUser, Local, OthersStay, Goto
    <3> QED BY <3>1, <3>2 DEF Kinds
  <2> QED BY <2>1, <2>2
<1>3. ASSUME NEW p \in Clients, Enqueue(p) \/ EnqueueFails(p) PROVE Kinds
  <2>1. \E n \in Nat : Publishes(p, n)
    <3>1. CASE Enqueue(p)
      <4>1. PICK n \in {1, 2} :
              /\ queue' = [queue EXCEPT ![made[p]] = @ + n]
              /\ "republish" \notin Faults => n = 1
        BY <3>1 DEF Enqueue
      <4>2. Publishes(p, n)
        BY <1>0, <3>1, <4>1 DEF Enqueue, AfterSignal, Publishes, Goto
      <4> QED BY <4>2
    <3>2. CASE EnqueueFails(p)
      <4>1. PICK n \in {0, 1} : queue' = [queue EXCEPT ![made[p]] = @ + n]
        <5>1. CASE queue' = [queue EXCEPT ![made[p]] = @ + 1]
          BY <5>1
        <5>2. CASE UNCHANGED queue
          BY <5>2 DEF TypeOK
        <5> QED BY <3>2, <5>1, <5>2 DEF EnqueueFails
      <4>2. Publishes(p, n)
        BY <1>0, <3>2, <4>1 DEF EnqueueFails, Publishes, Goto
      <4> QED BY <4>2
    <3> QED BY <1>3, <3>1, <3>2
  <2> QED BY <2>1 DEF Kinds
<1>4. ASSUME NEW s \in Seeders, SeedGet(s) PROVE Kinds
  <2>1. Local(s)
    <3>1. /\ pc' = [pc EXCEPT ![s] = pc'[s]]
          /\ pc'[s] \notin {"commit", "enqueue", "201", "fetch", "save"}
          /\ OthersStay(s)
      BY <1>0, <1>4, SeedNextTypes DEF SeedGet, Goto, Clients, OthersStay
    <3>2. s \notin Requests
      BY ClientsAssumption
    <3> QED BY <1>4, <3>1, <3>2 DEF SeedGet, Local, OthersStay
  <2> QED BY <2>1 DEF Kinds, Clients
<1>5. ASSUME NEW s \in Seeders, SeedInsert(s) \/ SeedCommit(s) PROVE Kinds
  <2>0. s \in Clients /\ s \notin Requests
    BY ClientsAssumption DEF Clients
  <2>1. CASE SeedInsert(s) /\ Free(Name(s), DemoMail[Name(s)])
    <3>1. Drafts(s)
      BY <2>1 DEF SeedInsert, SignalInside, NewKey, Goto, Drafts, Admitted
    <3> QED BY <3>1 DEF Kinds
  <2>2. CASE SeedInsert(s) /\ ~Free(Name(s), DemoMail[Name(s)])
    <3>1. Local(s)
      BY <1>0, <2>0, <2>2 DEF SeedInsert, Local, OthersStay, Goto
    <3> QED BY <2>0, <3>1 DEF Kinds
  <2>3. CASE SeedCommit(s)
    <3>1. Commits(s)
      BY <2>3 DEF SeedCommit, Goto, Commits
    <3> QED BY <3>1 DEF Kinds
  <2> QED BY <1>5, <2>1, <2>2, <2>3
<1>6. ASSUME NEW s \in Seeders, SeedFetch(s) PROVE Kinds
  <2>1. s \notin Requests /\ s \in Clients
    BY ClientsAssumption DEF Clients
  <2>2. Local(s)
    BY <1>0, <1>6, <2>1 DEF SeedFetch, Local, OthersStay, Goto
  <2> QED BY <2>1, <2>2 DEF Kinds
<1>7. ASSUME NEW s \in Seeders, SeedSave(s) PROVE Kinds
  <2>1. s \notin Requests /\ s \in Clients
    BY ClientsAssumption DEF Clients
  <2>2. CASE Row(fetched[s]) = {}
    <3>1. Local(s)
      BY <1>0, <1>7, <2>1, <2>2 DEF SeedSave, Local, OthersStay, Goto
    <3> QED BY <2>1, <3>1 DEF Kinds
  <2>3. CASE Row(fetched[s]) # {}
    <3>1. Saves(s)
      <4>1. SeedNext(s)
        BY <1>7, <2>3 DEF SeedSave
      <4>2. pc' = [pc EXCEPT ![s] = pc'[s]] /\ pc'[s] \in {"get", "done"}
        BY <1>0, <2>1, <4>1, SeedNextTypes
      <4>3. accounts' = {IF a.pk = fetched[s]
                         THEN [a EXCEPT !.password = "demo"] ELSE a : a \in accounts}
        BY <1>7, <2>3, Zenon DEF SeedSave
      <4>4. UNCHANGED <<lastPk, removed, made, queue, job, sent>> /\ OthersStay(s)
        BY <1>0, <1>7, <4>1 DEF SeedSave, OthersStay
      <4> QED BY <4>2, <4>3, <4>4 DEF Saves
    <3> QED BY <3>1 DEF Kinds
  <2> QED BY <2>2, <2>3
<1>8. ASSUME NEW w \in Workers, Work(w) PROVE Kinds
  <2>1. CASE TakeTask(w)
    BY <2>1 DEF Kinds
  <2>2. CASE GetUser(w)
    <3>1. Drops(w)
      <4>1. job[w] # Idle
        BY <2>2 DEF GetUser, Idle
      <4>2. CASE Row(job[w].pk) = {}
        BY <2>2, <4>1, <4>2 DEF GetUser, Drops
      <4>3. CASE Row(job[w].pk) # {}
        BY <2>2, <4>1, <4>3 DEF GetUser, Drops
      <4> QED BY <4>2, <4>3
    <3> QED BY <3>1 DEF Kinds
  <2>3. CASE SendMail(w)
    <3>1. Sends(w)
      BY <2>3 DEF SendMail, Sends, Idle
    <3> QED BY <3>1 DEF Kinds
  <2> QED BY <1>8, <2>1, <2>2, <2>3 DEF Work
<1>9. ASSUME NEW p \in Clients, KillClient(p) PROVE Kinds
  <2>1. Local(p)
    BY <1>0, <1>9 DEF KillClient, Local, OthersStay
  <2> QED BY <2>1 DEF Kinds
<1>10. ASSUME NEW w \in Workers, SendFails(w) PROVE Kinds
  <2>1. Sends(w) \/ Drops(w)
    BY <1>10 DEF SendFails, Sends, Drops, Idle
  <2> QED BY <2>1 DEF Kinds
<1>11. ASSUME NEW w \in Workers, KillWorker(w) PROVE Kinds
  <2>1. Drops(w)
    BY <1>11 DEF KillWorker, Drops
  <2> QED BY <2>1 DEF Kinds
<1>12. CASE ResetRedis \/ FlushUsers
  BY <1>12 DEF Kinds
<1>13. CASE UNCHANGED vars
  BY <1>13 DEF Kinds, vars
<1> QED
  BY <1>1, <1>2, <1>3, <1>4, <1>5, <1>6, <1>7, <1>8, <1>9, <1>10, <1>11,
     <1>12, <1>13 DEF Next, Register, Seed, Disturb, Clients

-----------------------------------------------------------------------------
(***************************************************************************)
(* Rows.                                                                   *)
(***************************************************************************)
\* Saving a password keeps keys, names and addresses.
LEMMA SaveKeepsIdentity ==
  ASSUME TypeOK, NEW s \in Seeders, Saves(s)
  PROVE  /\ \A b \in accounts' : \E a \in accounts :
              b.pk = a.pk /\ b.name = a.name /\ b.mail = a.mail
                /\ b.origin = a.origin
                /\ b = IF a.pk = fetched[s] THEN [a EXCEPT !.password = "demo"] ELSE a
         /\ \A a \in accounts : \E b \in accounts' :
              b.pk = a.pk /\ b.name = a.name /\ b.mail = a.mail
<1> DEFINE saved(a) == IF a.pk = fetched[s] THEN [a EXCEPT !.password = "demo"] ELSE a
<1>1. accounts' = {saved(a) : a \in accounts}
  BY DEF Saves
<1>2. ASSUME NEW a \in accounts
      PROVE  /\ saved(a).pk = a.pk /\ saved(a).name = a.name
             /\ saved(a).mail = a.mail /\ saved(a).origin = a.origin
  <2>1. a \in Account
    BY DEF TypeOK
  <2> QED BY <2>1 DEF Account
<1>3. \A b \in accounts' : \E a \in accounts : b = saved(a)
  BY <1>1
<1>4. \A a \in accounts : saved(a) \in accounts'
  BY <1>1
<1>5. \A b \in accounts' : \E a \in accounts :
        b.pk = a.pk /\ b.name = a.name /\ b.mail = a.mail /\ b.origin = a.origin
          /\ b = saved(a)
  <2> HIDE DEF saved
  <2> QED BY <1>2, <1>3
<1>6. \A a \in accounts : \E b \in accounts' :
        b.pk = a.pk /\ b.name = a.name /\ b.mail = a.mail
  <2> HIDE DEF saved
  <2> QED BY <1>2, <1>4
<1> QED BY <1>5, <1>6

\* What has been committed stays so, or is removed.
LEMMA CommittedStays ==
  ASSUME TypeOK, Kinds, NEW k \in Pks, Committed(k)
  PROVE  Committed(k)'
<1>1. CASE accounts \subseteq accounts' /\ UNCHANGED removed
  BY <1>1 DEF Committed, Row
<1>2. ASSUME NEW s \in Seeders, Saves(s) PROVE Committed(k)'
  <2>1. removed' = removed
    BY <1>2 DEF Saves
  <2>2. ASSUME NEW a \in accounts, a.pk = k PROVE Row(k)' # {}
    <3>1. PICK b \in accounts' : b.pk = a.pk
      BY <1>2, SaveKeepsIdentity
    <3> QED BY <2>2, <3>1 DEF Row
  <2> QED BY <2>1, <2>2 DEF Committed, Row
<1>3. CASE FlushUsers
  BY <1>3 DEF FlushUsers, Committed, Row
<1> QED
  BY <1>1, <1>2, <1>3
  DEF Kinds, Local, Inserts, Drafts, Commits, Publishes, TakeTask, Drops, Sends,
      ResetRedis, dbVars

\* Only an INSERT that commits itself and a commit add to what is committed.
LEMMA CommittedGrows ==
  ASSUME TypeOK, Kinds, NEW k \in Pks, Committed(k)'
  PROVE  \/ Committed(k)
         \/ \E r \in Requests, a \in Account : Inserts(r, a) /\ k = lastPk + 1
         \/ \E s \in Seeders : Commits(s) /\ k = made[s]
<1>1. CASE UNCHANGED <<accounts, removed>>
  BY <1>1 DEF Committed, Row
<1>2. ASSUME NEW r \in Requests, NEW a \in Account, Inserts(r, a), ~Committed(k)
      PROVE  k = lastPk + 1
  BY <1>2 DEF Inserts, Committed, Row
<1>3. ASSUME NEW s \in Seeders, Commits(s), ~Committed(k)
      PROVE  k = made[s]
  BY <1>3 DEF Commits, Draft, Committed, Row
<1>4. ASSUME NEW s \in Seeders, Saves(s) PROVE Committed(k)
  BY <1>4, SaveKeepsIdentity DEF Committed, Row, Saves
<1>5. CASE FlushUsers
  BY <1>5 DEF FlushUsers, Committed, Row
<1> QED
  BY <1>1, <1>2, <1>3, <1>4, <1>5
  DEF Kinds, Local, Drafts, Publishes, TakeTask, Drops, Sends, ResetRedis, dbVars

LEMMA PksAreCountedStep == TypeOK /\ MadeIsOwn /\ PksAreCounted /\ Kinds => PksAreCounted'
<1> SUFFICES ASSUME TypeOK, MadeIsOwn, PksAreCounted, Kinds, NEW k \in Pks, Committed(k)'
             PROVE  k <= lastPk'
  BY DEF PksAreCounted
<1>0. k \in Nat /\ lastPk \in Nat /\ lastPk' \in {lastPk, lastPk + 1}
  <2>1. k \in Nat /\ lastPk \in Nat
    BY DataAssumption DEF Pks, TypeOK
  <2>2. lastPk' \in {lastPk, lastPk + 1}
    BY DEF Kinds, Local, Inserts, Drafts, Commits, Publishes, Saves, TakeTask, Drops,
           Sends, ResetRedis, FlushUsers, dbVars
  <2> QED BY <2>1, <2>2
<1>1. CASE Committed(k)
  <2>1. k <= lastPk
    BY <1>1 DEF PksAreCounted
  <2> QED BY <1>0, <2>1
<1>2. ASSUME NEW r \in Requests, NEW a \in Account, Inserts(r, a), k = lastPk + 1
      PROVE  k <= lastPk'
  BY <1>0, <1>2 DEF Inserts
<1>3. ASSUME NEW s \in Seeders, Commits(s), k = made[s]
      PROVE  k <= lastPk'
  BY <1>0, <1>3 DEF Commits, MadeIsOwn, Clients
<1> QED BY <1>1, <1>2, <1>3, CommittedGrows

\* Keys of rows have been given out.
LEMMA KeysAreGiven ==
  ASSUME TypeOK, PksAreCounted, NEW a \in accounts
  PROVE  a.pk \in Nat /\ a.pk <= lastPk /\ lastPk \in Nat
<1>1. a.pk \in Pks /\ Row(a.pk) # {}
  BY DEF TypeOK, Account, Row
<1> QED BY <1>1, DataAssumption DEF PksAreCounted, Committed, Pks, TypeOK

LEMMA NextIsFresh ==
  ASSUME TypeOK, PksAreCounted
  PROVE  ~Committed(lastPk + 1)
<1> SUFFICES ASSUME Committed(lastPk + 1) PROVE FALSE
  OBVIOUS
<1>1. lastPk + 1 \in Pks /\ lastPk \in Nat
  BY DataAssumption DEF Committed, Row, TypeOK, Account, Pks
<1>2. lastPk + 1 <= lastPk
  BY <1>1 DEF PksAreCounted
<1> QED BY <1>1, <1>2

LEMMA UniqueAccountsStep ==
  TypeOK /\ MadeIsOwn /\ PksAreCounted /\ DraftsAreFree /\ UniqueAccounts /\ Kinds
    => UniqueAccounts'
<1> SUFFICES ASSUME TypeOK, MadeIsOwn, PksAreCounted, DraftsAreFree, UniqueAccounts, Kinds
             PROVE  UniqueAccounts'
  OBVIOUS
<1>1. CASE UNCHANGED accounts
  BY <1>1 DEF UniqueAccounts
<1>2. ASSUME NEW p \in Requests, NEW a \in Account, Inserts(p, a)
      PROVE  UniqueAccounts'
  <2>1. ASSUME NEW b \in accounts
        PROVE  b.pk # a.pk /\ b.name # a.name /\ b.mail # a.mail
    <3>1. b.pk # a.pk
      BY <1>2, KeysAreGiven DEF Inserts
    <3> QED BY <1>2, <3>1 DEF Inserts, Admitted, Free
  <2> QED BY <1>2, <2>1 DEF Inserts, UniqueAccounts
<1>2a. ASSUME NEW s \in Seeders, Commits(s)
       PROVE  UniqueAccounts'
  <2>1. /\ Draft(s).pk = made[s] /\ Draft(s).name = Name(s)
        /\ Draft(s).mail = DemoMail[Name(s)]
    BY DEF Draft
  <2>2. made[s] \in Pks /\ ~Committed(made[s]) /\ Free(Name(s), DemoMail[Name(s)])
    BY <1>2a DEF Commits, DraftsAreFree, MadeIsOwn, Clients, TypeOK
  <2>3. \A b \in accounts :
          b.pk # Draft(s).pk /\ b.name # Draft(s).name /\ b.mail # Draft(s).mail
    BY <2>1, <2>2 DEF Free, Committed, Row
  <2> QED BY <1>2a, <2>3 DEF Commits, UniqueAccounts
<1>3. ASSUME NEW s \in Seeders, Saves(s) PROVE UniqueAccounts'
  <2> SUFFICES ASSUME NEW b \in accounts', NEW c \in accounts',
                      b.name = c.name \/ b.mail = c.mail \/ b.pk = c.pk
               PROVE  b = c
    BY DEF UniqueAccounts
  <2> DEFINE saved(a) == IF a.pk = fetched[s] THEN [a EXCEPT !.password = "demo"] ELSE a
  <2>1. PICK a \in accounts :
          b.pk = a.pk /\ b.name = a.name /\ b.mail = a.mail /\ b = saved(a)
    BY <1>3, SaveKeepsIdentity
  <2>2. PICK d \in accounts :
          c.pk = d.pk /\ c.name = d.name /\ c.mail = d.mail /\ c = saved(d)
    BY <1>3, SaveKeepsIdentity
  <2> HIDE DEF saved
  <2>3. a = d
    BY <2>1, <2>2 DEF UniqueAccounts
  <2> QED BY <2>1, <2>2, <2>3
<1>4. CASE FlushUsers
  BY <1>4 DEF FlushUsers, UniqueAccounts
<1> QED
  BY <1>1, <1>2, <1>2a, <1>3, <1>4
  DEF Kinds, Local, Drafts, Publishes, TakeTask, Drops, Sends, ResetRedis, dbVars

\* A transaction finds its name and address free when it commits.
LEMMA DraftsAreFreeStep ==
  TypeOK /\ MadeIsOwn /\ PksAreCounted /\ DraftsAreFree /\ Kinds => DraftsAreFree'
<1> SUFFICES ASSUME TypeOK, MadeIsOwn, PksAreCounted, DraftsAreFree, Kinds,
                    NEW s \in Seeders, pc'[s] = "commit"
             PROVE  /\ ~Committed(made[s])'
                    /\ Free(Name(s), DemoMail[Name(s)])'
                    /\ \A t \in Seeders : pc'[t] = "commit" /\ t # s =>
                         Name(t)' # Name(s)' /\ DemoMail[Name(t)]' # DemoMail[Name(s)]'
  BY DEF DraftsAreFree
<1>0. /\ Requests \cap Seeders = {} /\ Clients = Requests \cup Seeders
      /\ pc = [p \in Clients |-> pc[p]] /\ made = [p \in Clients |-> made[p]]
      /\ lastPk \in Nat /\ \A p \in Clients : made[p] \in Nat /\ made[p] <= lastPk
  <2>1. Requests \cap Seeders = {} /\ Clients = Requests \cup Seeders
    BY ClientsAssumption DEF Clients
  <2>2. pc = [p \in Clients |-> pc[p]] /\ made = [p \in Clients |-> made[p]]
    BY DEF TypeOK
  <2>3. lastPk \in Nat /\ \A p \in Clients : made[p] \in Nat /\ made[p] <= lastPk
    BY DataAssumption DEF TypeOK, MadeIsOwn, Pks
  <2> QED BY <2>1, <2>2, <2>3
\* A draft that was there has kept its row to itself.
<1>1. ASSUME NEW t \in Seeders, pc'[t] = "commit", ~Drafts(t)
      PROVE  pc[t] = "commit" /\ made'[t] = made[t] /\ at'[t] = at[t]
  <2>1. ASSUME NEW u \in Seeders, Drafts(u) PROVE u # t /\ pc[t] = "commit" /\ made'[t] = made[t] /\ at'[t] = at[t]
    BY <1>0, <1>1, <2>1 DEF Drafts
  <2>2. ASSUME NEW p \in Clients, Local(p) PROVE pc[t] = "commit" /\ made'[t] = made[t] /\ at'[t] = at[t]
    BY <1>0, <1>1, <2>2 DEF Local, OthersStay
  <2>3. ASSUME NEW r \in Requests, NEW a \in Account, Inserts(r, a)
        PROVE  pc[t] = "commit" /\ made'[t] = made[t] /\ at'[t] = at[t]
    BY <1>0, <1>1, <2>3 DEF Inserts
  <2>4. ASSUME NEW u \in Seeders, Commits(u) PROVE pc[t] = "commit" /\ made'[t] = made[t] /\ at'[t] = at[t]
    BY <1>0, <1>1, <2>4 DEF Commits
  <2>5. ASSUME NEW u \in Seeders, Saves(u) PROVE pc[t] = "commit" /\ made'[t] = made[t] /\ at'[t] = at[t]
    BY <1>0, <1>1, <2>5 DEF Saves, OthersStay
  <2>6. ASSUME NEW p \in Clients, NEW n \in Nat, Publishes(p, n)
        PROVE  pc[t] = "commit" /\ made'[t] = made[t] /\ at'[t] = at[t]
    BY <1>0, <1>1, <2>6 DEF Publishes
  <2> QED
    BY <1>1, <2>1, <2>2, <2>3, <2>4, <2>5, <2>6
    DEF Kinds, TakeTask, Drops, Sends, ResetRedis, FlushUsers, dbVars
<1>2. ASSUME NEW t \in Seeders, pc[t] = "commit"
      PROVE  /\ made[t] \in Pks /\ ~Committed(made[t])
             /\ Free(Name(t), DemoMail[Name(t)])
  BY <1>2 DEF DraftsAreFree, MadeIsOwn, TypeOK, Clients
<1>3. CASE Drafts(s)
  <2>1. /\ made'[s] = lastPk + 1 /\ Name(s)' = Name(s) /\ UNCHANGED <<accounts, removed, at>>
        /\ Admitted(Name(s), DemoMail[Name(s)])
    BY <1>0, <1>3 DEF Drafts, Name
  <2>2. ~Committed(made[s])'
    <3>1. ~Committed(lastPk + 1)
      BY NextIsFresh
    <3> QED BY <2>1, <3>1 DEF Committed, Row
  <2>3. Free(Name(s), DemoMail[Name(s)])'
    BY <2>1 DEF Admitted, Free
  <2>4. ASSUME NEW t \in Seeders, pc'[t] = "commit", t # s
        PROVE  Name(t)' # Name(s)' /\ DemoMail[Name(t)]' # DemoMail[Name(s)]'
    <3>1. pc[t] = "commit" /\ Name(t)' = Name(t)
      BY <1>0, <1>3, <2>1, <2>4 DEF Drafts, Name
    <3> QED BY <2>1, <3>1 DEF Admitted, Unlocked
  <2> QED BY <2>2, <2>3, <2>4
<1>4. CASE ~Drafts(s)
  <2>1. pc[s] = "commit" /\ made'[s] = made[s] /\ Name(s)' = Name(s)
    BY <1>1, <1>4 DEF Name
  <2>2. made[s] \in Pks /\ ~Committed(made[s]) /\ Free(Name(s), DemoMail[Name(s)])
    BY <1>2, <2>1
  <2>3. ~Committed(made[s])'
    <3>1. made[s] # lastPk + 1
      <4>1. made[s] \in Nat /\ made[s] <= lastPk /\ lastPk \in Nat
        BY <1>0
      <4> QED BY <4>1
    <3>2. ASSUME NEW t \in Seeders, Commits(t) PROVE made[s] # made[t]
      <4>1. t # s
        BY <1>0, <3>2 DEF Commits
      <4> QED BY <1>0, <2>1, <4>1 DEF MadeIsOwn
    <3>3. ~Committed(made[s])'
      <4>1. SUFFICES ASSUME Committed(made[s])' PROVE FALSE
        BY <2>1
      <4> QED BY <2>1, <2>2, <3>1, <3>2, <4>1, CommittedGrows
    <3> QED BY <2>1, <3>3
  <2>4. Free(Name(s), DemoMail[Name(s)])'
    <3> DEFINE F == \A b \in accounts' : b.name # Name(s) /\ b.mail # DemoMail[Name(s)]
    <3>0. \A b \in accounts : b.name # Name(s) /\ b.mail # DemoMail[Name(s)]
      BY <2>2 DEF Free
    <3>1. ASSUME accounts' \subseteq accounts PROVE F
      BY <3>0, <3>1
    <3>2. ASSUME NEW r \in Requests, NEW a \in Account, Inserts(r, a) PROVE F
      BY <2>1, <2>2, <3>2 DEF Inserts, Admitted, Free, Unlocked
    <3>3. ASSUME NEW t \in Seeders, Commits(t) PROVE F
      <4>1. t # s /\ pc[t] = "commit"
        BY <1>0, <3>3 DEF Commits
      <4>2. Draft(t).name # Name(s) /\ Draft(t).mail # DemoMail[Name(s)]
        BY <2>1, <4>1 DEF Draft, DraftsAreFree
      <4> QED BY <2>2, <3>3, <4>2 DEF Commits, Free
    <3>4. ASSUME NEW t \in Seeders, Saves(t) PROVE F
      BY <2>2, <3>4, SaveKeepsIdentity DEF Free
    <3>5. F
      BY <3>1, <3>2, <3>3, <3>4, <2>2
      DEF Kinds, Local, Drafts, Publishes, TakeTask, Drops, Sends, ResetRedis, FlushUsers,
          dbVars, Free
    <3> QED BY <2>1, <3>5 DEF Free
  <2>5. ASSUME NEW t \in Seeders, pc'[t] = "commit", t # s
        PROVE  Name(t)' # Name(s)' /\ DemoMail[Name(t)]' # DemoMail[Name(s)]'
    <3>1. CASE Drafts(t)
      <4>1. Admitted(Name(t), DemoMail[Name(t)]) /\ Name(t)' = Name(t)
        BY <3>1 DEF Drafts, Name
      <4> QED BY <2>1, <4>1 DEF Admitted, Unlocked
    <3>2. CASE ~Drafts(t)
      <4>1. pc[t] = "commit" /\ Name(t)' = Name(t)
        BY <1>1, <2>5, <3>2 DEF Name
      <4> QED BY <2>1, <2>5, <4>1 DEF DraftsAreFree
    <3> QED BY <3>1, <3>2
  <2> QED BY <2>3, <2>4, <2>5
<1> QED BY <1>3, <1>4

\* The row of r is there as it was asked for, or has been removed.
Kept(r) == made[r] \in removed \/ \E a \in Row(made[r]) : Wanted(r, a)

\* A row that has been made stays until it is removed.
LEMMA KeptStays ==
  ASSUME TypeOK, Kinds, NEW r \in Requests, Kept(r), made'[r] = made[r]
  PROVE  Kept(r)'
<1>1. CASE UNCHANGED <<accounts, removed>>
  BY <1>1 DEF Kept, Row, Wanted
<1>2. ASSUME accounts \subseteq accounts', UNCHANGED removed PROVE Kept(r)'
  BY <1>2 DEF Kept, Row, Wanted
<1>3. ASSUME NEW s \in Seeders, Saves(s) PROVE Kept(r)'
  <2>1. CASE made[r] \in removed
    BY <1>3, <2>1 DEF Saves, Kept
  <2>2. ASSUME NEW a \in Row(made[r]), Wanted(r, a)
        PROVE  Kept(r)'
    <3>1. PICK b \in accounts' : b.pk = a.pk /\ b.name = a.name /\ b.mail = a.mail
      BY <1>3, SaveKeepsIdentity DEF Row
    <3> QED BY <2>2, <3>1 DEF Kept, Row, Wanted
  <2> QED BY <2>1, <2>2 DEF Kept
<1>4. CASE FlushUsers
  BY <1>4 DEF FlushUsers, Kept, Row, Wanted
<1> QED
  BY <1>1, <1>2, <1>3, <1>4
  DEF Kinds, Local, Inserts, Drafts, Commits, Publishes, TakeTask, Drops, Sends, ResetRedis, dbVars

LEMMA MadeIsOwnStep ==
  TypeOK /\ TypeOK' /\ MadeIsOwn /\ Kinds => MadeIsOwn'
<1> SUFFICES ASSUME TypeOK, TypeOK', MadeIsOwn, Kinds PROVE MadeIsOwn'
  OBVIOUS
<1>0. /\ lastPk \in Nat
      /\ \A p \in Clients : made[p] \in Nat /\ made[p] <= lastPk
      /\ \A p \in Clients : made[p] # 0 => made[p] \in Pks
      /\ Requests \subseteq Clients /\ Seeders \subseteq Clients
      /\ Requests \cap Seeders = {}
  BY DataAssumption, ClientsAssumption DEF TypeOK, Pks, MadeIsOwn, Clients
<1>1. ASSUME NEW r \in Requests, made'[r] = made[r],
             pc'[r] \in {"enqueue", "201"} => pc[r] \in {"enqueue", "201"},
             pc'[r] \in {"enqueue", "201"}
      PROVE  Kept(r)'
  <2>1. Kept(r)
    BY <1>1 DEF MadeIsOwn, Kept
  <2> QED BY <1>1, <2>1, KeptStays
\* A client whose row is committed keeps it so.
<1>1a. ASSUME NEW p \in Clients, made'[p] = made[p], Committed(made[p]), made[p] # 0
       PROVE  Committed(made[p])'
  <2>1. PICK k \in Pks : k = made[p]
    BY <1>0, <1>1a
  <2>2. Committed(k)'
    BY <1>1a, <2>1, CommittedStays
  <2> QED BY <1>1a, <2>1, <2>2
<1>2. ASSUME UNCHANGED made, lastPk' = lastPk,
             \A p \in Clients : pc'[p] \in {"commit", "enqueue"} => pc[p] = pc'[p],
             \A p \in Clients : pc'[p] \in {"fetch", "save"} =>
                                pc[p] \in {"enqueue", "fetch", "save"},
             \A r \in Requests :
               /\ pc'[r] \in {"enqueue", "201"} => pc[r] \in {"enqueue", "201"}
               /\ pc'[r] \in {"username", "email", "create"} =>
                    pc[r] \in {"username", "email", "create"}
      PROVE  MadeIsOwn'
  <2>1. \A r \in Requests : pc'[r] \in {"enqueue", "201"} => Kept(r)'
    BY <1>1, <1>2
  <2>2. ASSUME NEW p \in Clients, pc'[p] \in {"enqueue", "fetch", "save"}
        PROVE  made'[p] # 0 /\ Committed(made[p])'
    BY <1>1a, <1>2, <2>2 DEF MadeIsOwn
  <2>3. \A p \in Clients : pc'[p] = "commit" => made'[p] # 0
    BY <1>2 DEF MadeIsOwn
  <2> QED BY <1>2, <2>1, <2>2, <2>3 DEF MadeIsOwn, Kept
<1>3. ASSUME NEW p \in Clients, Local(p) PROVE MadeIsOwn'
  <2>1. \A q \in Clients : q # p => pc'[q] = pc[q]
    BY <1>3 DEF Local, TypeOK
  <2> QED BY <1>0, <1>2, <1>3, <2>1 DEF Local
\* A client that draws a key shares it with nobody.
<1>4. ASSUME NEW p \in Clients, made'[p] = lastPk + 1, lastPk' = lastPk + 1,
             pc[p] = "create",
             \/ pc'[p] = "enqueue" /\ Committed(made[p])' /\ (p \in Requests => Kept(p)')
             \/ pc'[p] = "commit" /\ p \notin Requests,
             \A q \in Clients : q # p => made'[q] = made[q] /\ pc'[q] = pc[q]
      PROVE  MadeIsOwn'
  <2>1. \A q \in Clients : made'[q] <= lastPk'
    BY <1>0, <1>4
  <2>2. ASSUME NEW q \in Clients
        PROVE  /\ pc'[q] \in {"commit", "enqueue", "fetch", "save"} => made'[q] # 0
               /\ pc'[q] \in {"enqueue", "fetch", "save"} => Committed(made[q])'
    <3>1. CASE q = p
      BY <1>0, <1>4, <3>1
    <3>2. CASE q # p
      BY <1>0, <1>1a, <1>4, <3>2 DEF MadeIsOwn
    <3> QED BY <3>1, <3>2
  <2>3. ASSUME NEW q \in Clients, NEW o \in Clients, made'[q] = made'[o], made'[q] # 0
        PROVE  q = o
    BY <1>0, <1>4, <2>3 DEF MadeIsOwn
  <2>4. \A r \in Requests : pc'[r] \in {"username", "email", "create"} => made'[r] = 0
    BY <1>0, <1>4 DEF MadeIsOwn
  <2>5. ASSUME NEW r \in Requests, pc'[r] \in {"enqueue", "201"} PROVE Kept(r)'
    <3>1. CASE r = p
      BY <1>4, <2>5, <3>1
    <3>2. CASE r # p
      BY <1>0, <1>1, <1>4, <2>5, <3>2
    <3> QED BY <3>1, <3>2
  <2> QED BY <2>1, <2>2, <2>3, <2>4, <2>5 DEF MadeIsOwn, Kept
<1>5. ASSUME NEW p \in Requests, NEW a \in Account, Inserts(p, a)
      PROVE  MadeIsOwn'
  <2>1. /\ made'[p] = lastPk + 1 /\ pc'[p] = "enqueue" /\ lastPk' = lastPk + 1
        /\ pc[p] = "create"
        /\ \A q \in Clients : q # p => made'[q] = made[q] /\ pc'[q] = pc[q]
    BY <1>0, <1>5 DEF Inserts, TypeOK
  <2>2. a \in accounts' /\ a.pk = made'[p] /\ Wanted(p, a)
    BY <1>5, <2>1 DEF Inserts
  <2>3. Kept(p)' /\ Committed(made[p])'
    BY <2>2 DEF Kept, Row, Wanted, Committed
  <2> QED BY <1>0, <1>4, <2>1, <2>3
<1>6. ASSUME NEW s \in Seeders, Drafts(s) PROVE MadeIsOwn'
  <2>1. /\ made'[s] = lastPk + 1 /\ pc'[s] = "commit" /\ lastPk' = lastPk + 1
        /\ pc[s] = "create"
        /\ \A q \in Clients : q # s => made'[q] = made[q] /\ pc'[q] = pc[q]
    BY <1>0, <1>6 DEF Drafts, TypeOK
  <2> QED BY <1>0, <1>4, <2>1
<1>7. ASSUME NEW s \in Seeders, Commits(s) PROVE MadeIsOwn'
  <2>1. /\ \A q \in Clients : q # s => pc'[q] = pc[q]
        /\ pc[s] = "commit" /\ pc'[s] = "enqueue" /\ UNCHANGED <<made, lastPk>>
    BY <1>0, <1>7 DEF Commits, TypeOK
  <2>2. Draft(s) \in accounts' /\ Draft(s).pk = made'[s]
    BY <1>7, <2>1 DEF Commits, Draft
  <2>3. Committed(made[s])'
    BY <2>2 DEF Committed, Row
  <2>4. ASSUME NEW q \in Clients
        PROVE  /\ pc'[q] \in {"commit", "enqueue"} => made'[q] # 0
               /\ pc'[q] \in {"enqueue", "fetch", "save"} => Committed(made[q])'
    <3>1. CASE q = s
      BY <2>1, <2>3, <3>1 DEF MadeIsOwn
    <3>2. CASE q # s
      <4>1. pc[q] \in {"commit", "enqueue", "fetch", "save"} /\ made[q] = 0 => FALSE
        BY <1>0 DEF MadeIsOwn
      <4> QED BY <1>1a, <2>1, <3>2, <4>1 DEF MadeIsOwn
    <3> QED BY <3>1, <3>2
  <2>5. \A r \in Requests : pc'[r] = pc[r] /\ made'[r] = made[r]
    BY <1>0, <2>1
  <2>6. \A r \in Requests : pc'[r] \in {"enqueue", "201"} => Kept(r)'
    BY <1>1, <2>5
  <2> QED BY <2>1, <2>4, <2>5, <2>6 DEF MadeIsOwn, Kept
<1>8. ASSUME NEW p \in Clients, NEW n \in Nat, Publishes(p, n) PROVE MadeIsOwn'
  <2>1. /\ \A q \in Clients : q # p => pc'[q] = pc[q]
        /\ pc[p] = "enqueue" /\ pc'[p] \in {"201", "fetch", "500", "failed"}
    BY <1>8 DEF Publishes, TypeOK
  <2> QED BY <1>0, <1>2, <1>8, <2>1 DEF Publishes
<1>9. ASSUME NEW s \in Seeders, Saves(s) PROVE MadeIsOwn'
  <2>1. /\ \A q \in Clients : q # s => pc'[q] = pc[q]
        /\ pc'[s] \in {"get", "done"} /\ s \notin Requests
    BY <1>0, <1>9 DEF Saves, TypeOK
  <2> QED BY <1>0, <1>2, <1>9, <2>1 DEF Saves
<1>10. CASE UNCHANGED <<pc, made, lastPk>>
  BY <1>2, <1>10
<1> QED
  BY <1>3, <1>5, <1>6, <1>7, <1>8, <1>9, <1>10
  DEF Kinds, TakeTask, Drops, Sends, ResetRedis, FlushUsers, dbVars, mailVars

LEMMA RepliesAreTrueStep ==
  TypeOK /\ MadeIsOwn /\ MadeIsOwn' /\ RepliesAreTrue /\ Kinds => RepliesAreTrue'
<1> SUFFICES ASSUME TypeOK, MadeIsOwn, MadeIsOwn', RepliesAreTrue, Kinds,
                    NEW r \in Requests, pc'[r] = "400"
             PROVE  made'[r] = 0
  BY DEF RepliesAreTrue, MadeIsOwn
<1>0. r \in Clients
  BY DEF Clients
<1>1. CASE pc[r] \in {"email", "400"} /\ made'[r] = made[r]
  BY <1>1 DEF RepliesAreTrue, MadeIsOwn
<1>2. ASSUME NEW p \in Clients, Local(p) PROVE made'[r] = 0
  <2>1. pc[r] \in {"email", "400"} /\ made'[r] = made[r]
    BY <1>0, <1>2 DEF Local, TypeOK
  <2> QED BY <1>1, <2>1
<1>3. ASSUME NEW p \in Requests, NEW a \in Account, Inserts(p, a) PROVE made'[r] = 0
  <2>1. pc[r] = "400" /\ made'[r] = made[r]
    BY <1>0, <1>3 DEF Inserts, TypeOK, Clients
  <2> QED BY <1>1, <2>1
<1>3a. ASSUME NEW s \in Seeders, Drafts(s) \/ Commits(s) PROVE made'[r] = 0
  <2>1. pc[r] = "400" /\ made'[r] = made[r]
    BY <1>0, <1>3a, ClientsAssumption DEF Drafts, Commits, TypeOK, Clients
  <2> QED BY <1>1, <2>1
<1>4. ASSUME NEW p \in Clients, NEW n \in Nat, Publishes(p, n) PROVE made'[r] = 0
  <2>1. pc[r] = "400" /\ made'[r] = made[r]
    BY <1>0, <1>4 DEF Publishes, TypeOK
  <2> QED BY <1>1, <2>1
<1>5. ASSUME NEW s \in Seeders, Saves(s) PROVE made'[r] = 0
  <2>1. pc[r] = "400" /\ made'[r] = made[r]
    BY <1>0, <1>5 DEF Saves, TypeOK
  <2> QED BY <1>1, <2>1
<1>6. CASE UNCHANGED <<pc, made>>
  BY <1>1, <1>6
<1> QED
  BY <1>2, <1>3, <1>3a, <1>4, <1>5, <1>6
  DEF Kinds, TakeTask, Drops, Sends, ResetRedis, FlushUsers, dbVars, mailVars

-----------------------------------------------------------------------------
(***************************************************************************)
(* Tasks.                                                                  *)
(***************************************************************************)
\* What the steps of workers do to the jobs.
LEMMA TakeFacts ==
  ASSUME TypeOK, NEW w \in Workers, TakeTask(w)
  PROVE  \E k \in Pks :
           /\ queue[k] > 0 /\ queue'[k] = queue[k] - 1
           /\ \A j \in Pks : j # k => queue'[j] = queue[j]
           /\ \A j \in Pks : ~HasJob(w, j)
           /\ \A j \in Pks : HasJob(w, j)' <=> j = k
           /\ \A v \in Workers, j \in Pks : v # w => (HasJob(v, j)' <=> HasJob(v, j))
           /\ UNCHANGED <<pc, made, sent, lastPk>>
<1>1. PICK k \in Pks :
        /\ queue[k] > 0
        /\ queue' = [queue EXCEPT ![k] = @ - 1]
        /\ job' = [job EXCEPT ![w] = [step |-> "get", pk |-> k]]
  BY DEF TakeTask
<1>2. queue'[k] = queue[k] - 1 /\ \A j \in Pks : j # k => queue'[j] = queue[j]
  BY <1>1 DEF TypeOK
<1>3. \A v \in Workers, j \in Pks : v # w => (HasJob(v, j)' <=> HasJob(v, j))
  BY <1>1 DEF HasJob, TypeOK
<1>4. \A j \in Pks : HasJob(w, j)' <=> j = k
  <2>1. job'[w] = [step |-> "get", pk |-> k]
    BY <1>1 DEF TypeOK
  <2> QED BY <2>1 DEF HasJob, Idle
<1>5. \A j \in Pks : ~HasJob(w, j)
  BY DEF TakeTask, HasJob
<1> QED BY <1>1, <1>2, <1>3, <1>4, <1>5 DEF TakeTask, dbVars

LEMMA DropFacts ==
  ASSUME TypeOK, NEW w \in Workers, Drops(w)
  PROVE  /\ \A v \in Workers, j \in Pks : HasJob(v, j)' => HasJob(v, j)
         /\ UNCHANGED <<pc, made, sent, queue, lastPk>>
<1>1. \A v \in Workers : v # w => job'[v] = job[v]
  BY DEF Drops, TypeOK
<1>2. job'[w] = Idle \/ job'[w] = [step |-> "send", pk |-> job[w].pk]
  BY DEF Drops, TypeOK
<1>3. job[w] # Idle
  BY DEF Drops
<1>4. \A j \in Pks : HasJob(w, j)' => HasJob(w, j)
  BY <1>2, <1>3 DEF HasJob
<1> QED BY <1>1, <1>4 DEF Drops, HasJob

LEMMA SendFacts ==
  ASSUME TypeOK, NEW w \in Workers, Sends(w)
  PROVE  \E k \in Pks :
           /\ HasJob(w, k)
           /\ sent'[k] = sent[k] + 1
           /\ \A j \in Pks : j # k => sent'[j] = sent[j]
           /\ \A j \in Pks : ~HasJob(w, j)'
           /\ \A v \in Workers, j \in Pks : v # w => (HasJob(v, j)' <=> HasJob(v, j))
           /\ UNCHANGED <<pc, made, queue, lastPk>>
<1>1. job[w].pk \in Pks /\ job[w] # Idle
  BY DEF Sends, TypeOK
<1>2. \A v \in Workers : v # w => job'[v] = job[v]
  BY DEF Sends, TypeOK
<1>3. job'[w] = Idle
  BY DEF Sends, TypeOK
<1>4. /\ sent'[job[w].pk] = sent[job[w].pk] + 1
      /\ \A j \in Pks : j # job[w].pk => sent'[j] = sent[j]
  BY <1>1 DEF Sends, TypeOK
<1> QED BY <1>1, <1>2, <1>3, <1>4 DEF Sends, HasJob

LEMMA PublishFacts ==
  ASSUME TypeOK, MadeIsOwn, NEW p \in Clients, NEW n \in Nat, Publishes(p, n)
  PROVE  /\ made[p] \in Pks /\ made[p] <= lastPk
         /\ queue'[made[p]] = queue[made[p]] + n
         /\ \A j \in Pks : j # made[p] => queue'[j] = queue[j]
         /\ pc[p] = "enqueue" /\ pc'[p] # "enqueue"
         /\ \A q \in Clients : q # p => pc'[q] = pc[q]
         /\ UNCHANGED <<made, sent, job, lastPk>>
<1>1. made[p] \in Pks
  BY DEF Publishes, MadeIsOwn, TypeOK
<1>2. /\ queue'[made[p]] = queue[made[p]] + n
      /\ \A j \in Pks : j # made[p] => queue'[j] = queue[j]
  BY <1>1 DEF Publishes, TypeOK
<1>3. /\ pc[p] = "enqueue" /\ pc'[p] # "enqueue"
      /\ \A q \in Clients : q # p => pc'[q] = pc[q]
  BY DEF Publishes, TypeOK
<1> QED BY <1>1, <1>2, <1>3 DEF Publishes, MadeIsOwn

LEMMA TasksAreAboutAccountsStep ==
  TypeOK /\ MadeIsOwn /\ TasksAreAboutAccounts /\ Kinds => TasksAreAboutAccounts'
<1> SUFFICES ASSUME TypeOK, MadeIsOwn, TasksAreAboutAccounts, Kinds, NEW k \in Pks,
                    \/ queue'[k] > 0 \/ sent'[k] > 0
                    \/ \E w \in Workers : HasJob(w, k)'
             PROVE  Committed(k)'
  BY DEF TasksAreAboutAccounts
<1> SUFFICES Committed(k)
  BY CommittedStays
<1>1. ASSUME queue'[k] > 0 => queue[k] > 0,
             sent'[k] > 0 => sent[k] > 0,
             \A w \in Workers : HasJob(w, k)' => HasJob(w, k)
      PROVE  Committed(k)
  BY <1>1 DEF TasksAreAboutAccounts
<1>2. CASE UNCHANGED <<queue, sent, job>>
  BY <1>1, <1>2 DEF HasJob
<1>3. ASSUME NEW p \in Clients, NEW n \in Nat, Publishes(p, n) PROVE Committed(k)
  <2>1. CASE k = made[p]
    BY <1>3, <2>1 DEF Publishes, MadeIsOwn
  <2>2. CASE k # made[p]
    BY <1>1, <1>3, <2>2, PublishFacts DEF HasJob
  <2> QED BY <2>1, <2>2
<1>4. ASSUME NEW w \in Workers, TakeTask(w) PROVE Committed(k)
  <2>1. PICK j \in Pks :
          /\ queue[j] > 0 /\ queue'[j] = queue[j] - 1
          /\ \A i \in Pks : i # j => queue'[i] = queue[i]
          /\ \A i \in Pks : HasJob(w, i)' <=> i = j
          /\ \A v \in Workers, i \in Pks : v # w => (HasJob(v, i)' <=> HasJob(v, i))
          /\ UNCHANGED <<sent, lastPk>>
    BY <1>4, TakeFacts
  <2>2. CASE k = j
    BY <2>1, <2>2 DEF TasksAreAboutAccounts
  <2>3. CASE k # j
    BY <1>1, <2>1, <2>3
  <2> QED BY <2>2, <2>3
<1>5. ASSUME NEW w \in Workers, Drops(w) PROVE Committed(k)
  BY <1>1, <1>5, DropFacts
<1>6. ASSUME NEW w \in Workers, Sends(w) PROVE Committed(k)
  <2>1. PICK j \in Pks :
          /\ HasJob(w, j)
          /\ \A i \in Pks : i # j => sent'[i] = sent[i]
          /\ \A i \in Pks : ~HasJob(w, i)'
          /\ \A v \in Workers, i \in Pks : v # w => (HasJob(v, i)' <=> HasJob(v, i))
          /\ UNCHANGED <<queue, lastPk>>
    BY <1>6, SendFacts
  <2>2. CASE k = j
    BY <2>1, <2>2 DEF TasksAreAboutAccounts
  <2>3. CASE k # j
    BY <1>1, <2>1, <2>3
  <2> QED BY <2>2, <2>3
<1>7. CASE ResetRedis
  <2>1. queue'[k] = 0 /\ UNCHANGED <<sent, job>>
    BY <1>7 DEF ResetRedis, dbVars
  <2> QED BY <1>1, <2>1 DEF HasJob
<1> QED
  BY <1>2, <1>3, <1>4, <1>5, <1>6, <1>7
  DEF Kinds, Local, Inserts, Drafts, Commits, Saves, FlushUsers, mailVars

\* TaskIsInOnePlace, of one account.
InOnePlace(k) ==
  /\ queue[k] + sent[k] <= 1
  /\ \A w \in Workers : HasJob(w, k) => queue[k] + sent[k] = 0
  /\ \A v, w \in Workers : HasJob(v, k) /\ HasJob(w, k) => v = w
  /\ \A p \in Clients : pc[p] = "enqueue" /\ made[p] = k =>
       queue[k] + sent[k] = 0 /\ \A w \in Workers : ~HasJob(w, k)

LEMMA TaskIsInOnePlaceStep ==
  ASSUME "republish" \notin Faults, TypeOK, PksAreCounted, MadeIsOwn, DraftsAreFree,
         TasksAreAboutAccounts, TaskIsInOnePlace, Kinds
  PROVE  TaskIsInOnePlace'
<1> SUFFICES ASSUME NEW k \in Pks PROVE InOnePlace(k)'
  BY DEF TaskIsInOnePlace, InOnePlace
<1>0. /\ k \in Nat /\ lastPk \in Nat /\ queue[k] \in Nat /\ sent[k] \in Nat
      /\ InOnePlace(k)
  BY DataAssumption DEF Pks, TypeOK, TaskIsInOnePlace, InOnePlace
<1>1. ASSUME queue'[k] \in {0, queue[k]}, sent'[k] = sent[k],
             \A w \in Workers : HasJob(w, k)' => HasJob(w, k),
             \A p \in Clients : pc'[p] = "enqueue" /\ made'[p] = k =>
                                pc[p] = "enqueue" /\ made[p] = k
      PROVE  InOnePlace(k)'
  <2>1. queue'[k] + sent'[k] <= queue[k] + sent[k] /\ queue'[k] + sent'[k] \in Nat
    BY <1>0, <1>1
  <2> HIDE DEF HasJob
  <2> QED BY <1>0, <1>1, <2>1 DEF InOnePlace
<1>2. ASSUME UNCHANGED <<queue, sent, job, made>>,
             \A p \in Clients : pc'[p] = "enqueue" => pc[p] = "enqueue"
      PROVE  InOnePlace(k)'
  BY <1>1, <1>2 DEF HasJob
<1>3. ASSUME NEW p \in Clients, Local(p) PROVE InOnePlace(k)'
  <2>1. \A q \in Clients : pc'[q] = "enqueue" => pc[q] = "enqueue"
    BY <1>3 DEF Local, TypeOK
  <2> QED BY <1>2, <1>3, <2>1 DEF Local
\* The row that p adds has no task yet.
<1>4. ASSUME NEW p \in Clients, UNCHANGED <<queue, sent, job>>,
             ~Committed(made'[p]),
             \A q \in Clients : q # p => made'[q] = made[q] /\ pc'[q] = pc[q]
      PROVE  InOnePlace(k)'
  <2>1. CASE k = made'[p]
    <3>1. ~Committed(k)
      BY <1>4, <2>1
    <3>2. ~(queue[k] > 0) /\ ~(sent[k] > 0) /\ \A w \in Workers : ~HasJob(w, k)
      BY <3>1 DEF TasksAreAboutAccounts
    <3>3. queue[k] = 0 /\ sent[k] = 0
      BY <1>0, <3>2
    <3>4. queue'[k] = 0 /\ sent'[k] = 0 /\ \A w \in Workers : ~HasJob(w, k)'
      BY <1>4, <3>2, <3>3 DEF HasJob
    <3> QED BY <3>4 DEF InOnePlace
  <2>2. CASE k # made'[p]
    <3>1. \A q \in Clients : pc'[q] = "enqueue" /\ made'[q] = k =>
                             pc[q] = "enqueue" /\ made[q] = k
      BY <1>4, <2>2
    <3> QED BY <1>1, <1>4, <3>1 DEF HasJob
  <2> QED BY <2>1, <2>2
<1>4a. ASSUME NEW p \in Requests, NEW a \in Account, Inserts(p, a)
       PROVE  InOnePlace(k)'
  <2>1. /\ p \in Clients /\ made'[p] = lastPk + 1
        /\ \A q \in Clients : q # p => made'[q] = made[q] /\ pc'[q] = pc[q]
        /\ UNCHANGED <<queue, sent, job>>
    BY <1>4a DEF Inserts, TypeOK, Clients
  <2>2. ~Committed(lastPk + 1)
    BY NextIsFresh
  <2> QED BY <1>4, <2>1, <2>2
<1>4b. ASSUME NEW s \in Seeders, Drafts(s)
       PROVE  InOnePlace(k)'
  <2>1. /\ s \in Clients /\ made'[s] = lastPk + 1
        /\ \A q \in Clients : q # s => made'[q] = made[q] /\ pc'[q] = pc[q]
        /\ UNCHANGED <<queue, sent, job>>
    BY <1>4b DEF Drafts, TypeOK, Clients
  <2>2. ~Committed(lastPk + 1)
    BY NextIsFresh
  <2> QED BY <1>4, <2>1, <2>2
<1>4c. ASSUME NEW s \in Seeders, Commits(s)
       PROVE  InOnePlace(k)'
  <2>1. /\ s \in Clients /\ made'[s] = made[s] /\ ~Committed(made[s])
        /\ \A q \in Clients : q # s => made'[q] = made[q] /\ pc'[q] = pc[q]
        /\ UNCHANGED <<queue, sent, job>>
    BY <1>4c DEF Commits, DraftsAreFree, TypeOK, Clients
  <2> QED BY <1>4, <2>1
<1>5. ASSUME NEW p \in Clients, NEW n \in Nat, Publishes(p, n)
      PROVE  InOnePlace(k)'
  <2>1. /\ queue'[made[p]] = queue[made[p]] + n /\ n \in {0, 1}
        /\ \A j \in Pks : j # made[p] => queue'[j] = queue[j]
        /\ pc[p] = "enqueue" /\ pc'[p] # "enqueue" /\ made[p] # 0
        /\ \A q \in Clients : q # p => pc'[q] = pc[q]
        /\ UNCHANGED <<made, sent, job>>
    BY <1>5, PublishFacts DEF Publishes, MadeIsOwn
  <2>2. CASE k = made[p]
    <3>1. queue[k] + sent[k] = 0 /\ \A w \in Workers : ~HasJob(w, k)
      BY <1>0, <2>1, <2>2 DEF InOnePlace
    <3>2. queue'[k] + sent'[k] \in {0, 1} /\ \A w \in Workers : ~HasJob(w, k)'
      BY <1>0, <2>1, <2>2, <3>1 DEF HasJob
    <3>3. \A q \in Clients : ~(pc'[q] = "enqueue" /\ made'[q] = k)
      BY <2>1, <2>2 DEF MadeIsOwn
    <3> QED BY <3>2, <3>3 DEF InOnePlace
  <2>3. CASE k # made[p]
    BY <1>1, <2>1, <2>3 DEF HasJob
  <2> QED BY <2>2, <2>3
<1>6. ASSUME NEW s \in Seeders, Saves(s) PROVE InOnePlace(k)'
  <2>1. \A q \in Clients : pc'[q] = "enqueue" => pc[q] = "enqueue"
    BY <1>6 DEF Saves, TypeOK
  <2> QED BY <1>2, <1>6, <2>1 DEF Saves
<1>7. ASSUME NEW w \in Workers, TakeTask(w) PROVE InOnePlace(k)'
  <2>1. PICK j \in Pks :
          /\ queue[j] > 0 /\ queue'[j] = queue[j] - 1
          /\ \A i \in Pks : i # j => queue'[i] = queue[i]
          /\ \A i \in Pks : ~HasJob(w, i)
          /\ \A i \in Pks : HasJob(w, i)' <=> i = j
          /\ \A v \in Workers, i \in Pks : v # w => (HasJob(v, i)' <=> HasJob(v, i))
          /\ UNCHANGED <<pc, made, sent>>
    BY <1>7, TakeFacts
  <2>2. CASE k = j
    <3>1. queue[k] = 1 /\ sent[k] = 0 /\ queue'[k] = 0
      BY <1>0, <2>1, <2>2 DEF InOnePlace
    <3>2. /\ \A v \in Workers : ~HasJob(v, k)
          /\ \A q \in Clients : ~(pc[q] = "enqueue" /\ made[q] = k)
      BY <1>0, <3>1 DEF InOnePlace
    <3>3. \A v \in Workers : HasJob(v, k)' => v = w
      BY <2>1, <3>2
    <3> QED BY <2>1, <3>1, <3>2, <3>3 DEF InOnePlace
  <2>3. CASE k # j
    BY <1>1, <2>1, <2>3
  <2> QED BY <2>2, <2>3
<1>8. ASSUME NEW w \in Workers, Drops(w) PROVE InOnePlace(k)'
  BY <1>1, <1>8, DropFacts
<1>9. ASSUME NEW w \in Workers, Sends(w) PROVE InOnePlace(k)'
  <2>1. PICK j \in Pks :
          /\ HasJob(w, j)
          /\ sent'[j] = sent[j] + 1
          /\ \A i \in Pks : i # j => sent'[i] = sent[i]
          /\ \A i \in Pks : ~HasJob(w, i)'
          /\ \A v \in Workers, i \in Pks : v # w => (HasJob(v, i)' <=> HasJob(v, i))
          /\ UNCHANGED <<pc, made, queue>>
    BY <1>9, SendFacts
  <2>2. CASE k = j
    <3>1. queue[k] = 0 /\ sent[k] = 0
      BY <1>0, <2>1, <2>2 DEF InOnePlace
    <3>2. /\ \A v \in Workers : HasJob(v, k) => v = w
          /\ \A q \in Clients : ~(pc[q] = "enqueue" /\ made[q] = k)
      BY <1>0, <2>1, <2>2 DEF InOnePlace
    <3>3. \A v \in Workers : ~HasJob(v, k)'
      BY <2>1, <3>2
    <3>4. queue'[k] + sent'[k] = 1
      BY <2>1, <2>2, <3>1
    <3> QED BY <2>1, <3>2, <3>3, <3>4 DEF InOnePlace
  <2>3. CASE k # j
    BY <1>1, <2>1, <2>3
  <2> QED BY <2>2, <2>3
<1>10. CASE ResetRedis
  <2>1. queue'[k] = 0 /\ UNCHANGED <<sent, job, pc, made>>
    BY <1>10 DEF ResetRedis, dbVars
  <2> QED BY <1>1, <2>1 DEF HasJob
<1> QED
  BY <1>2, <1>3, <1>4a, <1>4b, <1>4c, <1>5, <1>6, <1>7, <1>8, <1>9, <1>10
  DEF Kinds, FlushUsers, mailVars

-----------------------------------------------------------------------------
(***************************************************************************)
(* Passwords.                                                              *)
(***************************************************************************)
Passwords == SeedersHoldTheirRows /\ RegisteredPasswordsStay /\ SeededPasswords

Holding == {"enqueue", "fetch", "save"}

\* A step in which no command commits, fetches or saves, and rows other than
\* new registrations do not appear.
Quiet ==
  /\ \A s \in Seeders :
       \/ pc'[s] = pc[s] /\ at'[s] = at[s]
       \/ pc[s] = "enqueue" /\ pc'[s] = "fetch" /\ at'[s] = at[s]
       \/ pc'[s] \in {"failed", "killed"}
       \/ pc[s] \in {"get", "again", "create", "commit"} /\ pc'[s] \notin Holding
  /\ \A s \in Seeders : pc[s] # "create" => made'[s] = made[s]
  /\ UNCHANGED fetched
  /\ removed' = {} => removed = {}
  /\ \A a \in accounts' :
       \/ a \in accounts
       \/ a.pk = lastPk + 1 /\ a.origin = "register" /\ a.password = "own"

LEMMA QuietKeepsPasswords ==
  ASSUME TypeOK, MadeIsOwn, Passwords, Quiet
  PROVE  Passwords'
<1>0. /\ lastPk \in Nat /\ Seeders \subseteq Clients
      /\ \A s \in Seeders : made[s] \in Nat /\ made[s] <= lastPk
  BY DataAssumption DEF TypeOK, MadeIsOwn, Pks, Clients
<1>1. \A s \in Seeders : pc'[s] \in Holding => Row(made[s])' \subseteq Row(made[s])
  <2> SUFFICES ASSUME NEW s \in Seeders, pc'[s] \in Holding,
                      NEW a \in accounts', a.pk = made[s]
               PROVE  a \in accounts
    BY DEF Quiet, Row, Holding
  <2>1. a.pk # lastPk + 1
    BY <1>0
  <2> QED BY <2>1 DEF Quiet
<1>2. ASSUME NEW s \in Seeders, pc'[s] \in Holding
      PROVE  /\ pc[s] \in Holding /\ at'[s] = at[s]
             /\ pc'[s] = "save" => pc[s] = "save"
  BY <1>2 DEF Quiet, Holding
<1>3. SeedersHoldTheirRows'
  <2> SUFFICES ASSUME NEW s \in Seeders, pc'[s] \in Holding
               PROVE  /\ made'[s] # 0
                      /\ \A a \in Row(made[s])' : a.name = Name(s)' /\ a.origin = "seed"
                      /\ pc'[s] = "save" => Row(made[s])' = {} \/ fetched'[s] = made'[s]
    BY DEF SeedersHoldTheirRows, Holding
  <2>1. /\ made[s] # 0
        /\ \A a \in Row(made[s]) : a.name = Name(s) /\ a.origin = "seed"
        /\ pc[s] = "save" => Row(made[s]) = {} \/ fetched[s] = made[s]
    BY <1>2 DEF Passwords, SeedersHoldTheirRows, Holding
  <2>2. Name(s)' = Name(s) /\ made'[s] = made[s] /\ fetched' = fetched
    BY <1>2 DEF Name, Quiet, Holding
  <2> QED BY <1>1, <1>2, <2>1, <2>2
<1>4. RegisteredPasswordsStay'
  BY DEF Quiet, Passwords, RegisteredPasswordsStay
<1>5. SeededPasswords'
  <2> SUFFICES ASSUME NEW a \in accounts', a.origin = "seed", a.password = "none"
               PROVE  \E s \in Seeders :
                        made'[s] = a.pk /\ pc'[s] \in Holding \cup {"failed", "killed"}
    BY DEF SeededPasswords, Holding
  <2>1. a \in accounts
    BY DEF Quiet
  <2>2. PICK s \in Seeders :
          made[s] = a.pk /\ pc[s] \in {"enqueue", "fetch", "save", "failed", "killed"}
    BY <2>1 DEF Passwords, SeededPasswords
  <2>3. pc'[s] \in Holding \cup {"failed", "killed"} /\ made'[s] = made[s]
    BY <2>2 DEF Quiet, Holding
  <2> QED BY <2>2, <2>3
<1> QED BY <1>3, <1>4, <1>5 DEF Passwords

\* A command commits a row of its own, which nobody else can hold.
LEMMA SeedCommitKeepsPasswords ==
  ASSUME TypeOK, MadeIsOwn, DraftsAreFree, Passwords, NEW s \in Seeders, SeedCommit(s)
  PROVE  Passwords'
<1> DEFINE b == Draft(s)
<1>0. /\ Seeders \subseteq Clients
      /\ made[s] # 0 /\ ~Committed(made[s])
      /\ \A t \in Seeders : t # s => made[t] # made[s]
  BY DEF MadeIsOwn, Clients, SeedCommit, Goto, DraftsAreFree
<1>1. /\ accounts' = accounts \cup {b}
      /\ pc[s] = "commit" /\ pc'[s] = "enqueue"
      /\ \A t \in Seeders : t # s => pc'[t] = pc[t]
      /\ UNCHANGED <<at, fetched, removed, made>>
  BY <1>0 DEF SeedCommit, Goto, TypeOK, mailVars
<1>2. b.pk = made[s] /\ b.name = Name(s) /\ b.password = "none" /\ b.origin = "seed"
  BY DEF Draft
<1> HIDE DEF b
<1>3. \A a \in accounts : a.pk # made[s]
  BY <1>0 DEF Committed, Row
<1>4. SeedersHoldTheirRows'
  <2> SUFFICES ASSUME NEW t \in Seeders, pc'[t] \in Holding
               PROVE  /\ made'[t] # 0
                      /\ \A a \in Row(made[t])' : a.name = Name(t)' /\ a.origin = "seed"
                      /\ pc'[t] = "save" => Row(made[t])' = {} \/ fetched'[t] = made'[t]
    BY DEF SeedersHoldTheirRows, Holding
  <2>0. Name(t)' = Name(t)
    BY <1>1 DEF Name
  <2>1. CASE t = s
    <3>1. Row(made[t])' = {b}
      BY <1>1, <1>2, <1>3, <2>1 DEF Row
    <3> QED BY <1>0, <1>1, <1>2, <2>0, <2>1, <3>1
  <2>2. CASE t # s
    <3>1. Row(made[t])' = Row(made[t])
      <4>1. b.pk # made[t]
        BY <1>0, <1>2, <2>2
      <4> QED BY <1>1, <2>2, <4>1 DEF Row
    <3>2. pc[t] \in {"enqueue", "fetch", "save"}
      BY <1>1, <2>2 DEF Holding
    <3> QED BY <1>1, <2>0, <2>2, <3>1, <3>2 DEF Passwords, SeedersHoldTheirRows
  <2> QED BY <2>1, <2>2
<1>5. RegisteredPasswordsStay'
  BY <1>1, <1>2 DEF Passwords, RegisteredPasswordsStay
<1>6. SeededPasswords'
  <2> SUFFICES ASSUME NEW a \in accounts', a.origin = "seed", a.password = "none"
               PROVE  \E t \in Seeders :
                        /\ made'[t] = a.pk
                        /\ pc'[t] \in {"enqueue", "fetch", "save", "failed", "killed"}
    BY DEF SeededPasswords
  <2>1. CASE a = b
    BY <1>1, <1>2, <2>1
  <2>2. CASE a # b
    <3>1. PICK t \in Seeders :
            made[t] = a.pk /\ pc[t] \in {"enqueue", "fetch", "save", "failed", "killed"}
      BY <1>1, <2>2 DEF Passwords, SeededPasswords
    <3>2. t # s
      BY <1>1, <3>1
    <3> QED BY <1>1, <3>1, <3>2
  <2> QED BY <2>1, <2>2
<1> QED BY <1>4, <1>5, <1>6 DEF Passwords

\* The row a command fetches by name is its own if that is still there.
LEMMA SeedFetchKeepsPasswords ==
  ASSUME TypeOK, UniqueAccounts, Passwords, NEW s \in Seeders, SeedFetch(s),
         NEW a \in accounts, a.name = Name(s), Goto(s, "fetch", "save"),
         fetched' = [fetched EXCEPT ![s] = a.pk]
  PROVE  Passwords'
<1>1. /\ UNCHANGED <<accounts, at, made, removed>>
      /\ pc[s] = "fetch" /\ pc'[s] = "save" /\ fetched'[s] = a.pk
      /\ \A t \in Seeders : t # s => pc'[t] = pc[t] /\ fetched'[t] = fetched[t]
  BY DEF SeedFetch, Goto, TypeOK, dbVars, Clients
<1>2. /\ made[s] # 0
      /\ \A b \in Row(made[s]) : b.name = Name(s) /\ b.origin = "seed"
  BY <1>1 DEF Passwords, SeedersHoldTheirRows
<1>3. Row(made[s]) = {} \/ a.pk = made[s]
  BY <1>2 DEF Row, UniqueAccounts
<1>4. SeedersHoldTheirRows'
  BY <1>1, <1>2, <1>3 DEF Passwords, SeedersHoldTheirRows, Row, Name
<1>5. RegisteredPasswordsStay'
  BY <1>1 DEF Passwords, RegisteredPasswordsStay
<1>6. SeededPasswords'
  <2> SUFFICES ASSUME NEW b \in accounts, b.origin = "seed", b.password = "none"
               PROVE  \E t \in Seeders :
                        /\ made[t] = b.pk
                        /\ pc'[t] \in {"enqueue", "fetch", "save", "failed", "killed"}
    BY <1>1 DEF SeededPasswords
  <2>1. PICK t \in Seeders :
          made[t] = b.pk /\ pc[t] \in {"enqueue", "fetch", "save", "failed", "killed"}
    BY DEF Passwords, SeededPasswords
  <2> QED BY <1>1, <2>1
<1> QED BY <1>4, <1>5, <1>6 DEF Passwords

\* The password a command saves is that of its own row, or of nobody's whose
\* name it has not deleted.
LEMMA SeedSaveKeepsPasswords ==
  ASSUME TypeOK, MadeIsOwn, Passwords, NEW s \in Seeders, pc[s] = "save",
         Saves(s), UNCHANGED fetched,
         \A t \in Seeders : t # s => at'[t] = at[t]
  PROVE  Passwords'
<1>1. /\ pc'[s] \notin Holding /\ UNCHANGED <<made, removed, fetched>>
      /\ \A t \in Seeders : t # s => pc'[t] = pc[t]
  BY DEF Saves, TypeOK, Holding, Clients
<1>2. /\ made[s] # 0
      /\ \A b \in Row(made[s]) : b.name = Name(s) /\ b.origin = "seed"
      /\ Row(made[s]) = {} \/ fetched[s] = made[s]
  BY DEF Passwords, SeedersHoldTheirRows
<1> DEFINE saved(a) == IF a.pk = fetched[s] THEN [a EXCEPT !.password = "demo"] ELSE a
<1>3. \A b \in accounts' : \E a \in accounts :
        b.pk = a.pk /\ b.name = a.name /\ b.origin = a.origin /\ b = saved(a)
  BY SaveKeepsIdentity
<1>4. \A a \in accounts : saved(a).password = IF a.pk = fetched[s] THEN "demo" ELSE a.password
  <2> SUFFICES ASSUME NEW a \in accounts
               PROVE  saved(a).password = IF a.pk = fetched[s] THEN "demo" ELSE a.password
    OBVIOUS
  <2>1. a \in Account
    BY DEF TypeOK
  <2> QED BY <2>1 DEF Account
<1> HIDE DEF saved
<1>5. SeedersHoldTheirRows'
  <2> SUFFICES ASSUME NEW t \in Seeders, pc'[t] \in Holding
               PROVE  /\ made'[t] # 0
                      /\ \A b \in Row(made[t])' : b.name = Name(t)' /\ b.origin = "seed"
                      /\ pc'[t] = "save" => Row(made[t])' = {} \/ fetched'[t] = made'[t]
    BY DEF SeedersHoldTheirRows, Holding
  <2>1. t # s /\ pc'[t] = pc[t] /\ Name(t)' = Name(t)
    BY <1>1 DEF Name
  <2>2. /\ made[t] # 0
        /\ \A b \in Row(made[t]) : b.name = Name(t) /\ b.origin = "seed"
        /\ pc[t] = "save" => Row(made[t]) = {} \/ fetched[t] = made[t]
    BY <2>1 DEF Passwords, SeedersHoldTheirRows, Holding
  <2>3. \A b \in Row(made[t])' : \E a \in Row(made[t]) :
          b.name = a.name /\ b.origin = a.origin
    BY <1>1, <1>3 DEF Row
  <2> QED BY <1>1, <2>1, <2>2, <2>3
<1>6. RegisteredPasswordsStay'
  <2> SUFFICES ASSUME removed = {}, NEW b \in accounts', b.origin = "register"
               PROVE  b.password = "own"
    BY <1>1 DEF RegisteredPasswordsStay
  <2>1. PICK a \in accounts :
          b.pk = a.pk /\ b.origin = a.origin /\ b = saved(a)
    BY <1>3
  <2>3. Row(made[s]) # {}
    BY DEF MadeIsOwn, Committed, Clients
  <2>4. a.pk # fetched[s]
    BY <1>2, <2>1, <2>3 DEF Row
  <2> QED BY <1>4, <2>1, <2>4 DEF Passwords, RegisteredPasswordsStay
<1>7. SeededPasswords'
  <2> SUFFICES ASSUME NEW b \in accounts', b.origin = "seed", b.password = "none"
               PROVE  \E t \in Seeders :
                        /\ made[t] = b.pk
                        /\ pc'[t] \in {"enqueue", "fetch", "save", "failed", "killed"}
    BY <1>1 DEF SeededPasswords
  <2>1. PICK a \in accounts :
          b.pk = a.pk /\ b.origin = a.origin /\ b = saved(a)
    BY <1>3
  <2>2. a.pk # fetched[s] /\ a.password = "none"
    BY <1>4, <2>1
  <2>3. PICK t \in Seeders :
          made[t] = a.pk /\ pc[t] \in {"enqueue", "fetch", "save", "failed", "killed"}
    BY <2>1, <2>2 DEF Passwords, SeededPasswords
  <2>4. t # s
    BY <1>2, <2>2, <2>3 DEF Row
  <2> QED BY <1>1, <2>1, <2>3, <2>4
<1> QED BY <1>5, <1>6, <1>7 DEF Passwords

\* Every step keeps the passwords.
LEMMA PasswordsStep ==
  TypeOK /\ UniqueAccounts /\ MadeIsOwn /\ DraftsAreFree /\ Passwords /\ [Next]_vars
    => Passwords'
<1> SUFFICES ASSUME TypeOK, UniqueAccounts, MadeIsOwn, DraftsAreFree, Passwords,
                    [Next]_vars
             PROVE  Passwords'
  OBVIOUS
<1>0. /\ Requests \cap Seeders = {} /\ Clients = Requests \cup Seeders
      /\ pc = [p \in Clients |-> pc[p]] /\ at = [s \in Seeders |-> at[s]]
      /\ made = [p \in Clients |-> made[p]]
  BY ClientsAssumption DEF Clients, TypeOK
<1> USE DEF dbVars, mailVars
<1>1. ASSUME NEW r \in Requests, CheckUsername(r) \/ CheckEmail(r) PROVE Passwords'
  <2>1. Quiet
    BY <1>0, <1>1 DEF CheckUsername, CheckEmail, Goto, Quiet
  <2> QED BY <2>1, QuietKeepsPasswords
<1>2. ASSUME NEW r \in Requests, CreateUser(r) PROVE Passwords'
  <2>1. Quiet
    <3>1. \A s \in Seeders : pc'[s] = pc[s] /\ at'[s] = at[s] /\ made'[s] = made[s]
      BY <1>0, <1>2 DEF CreateUser, NewKey, Goto
    <3>2. \A a \in accounts' :
            \/ a \in accounts
            \/ a.pk = lastPk + 1 /\ a.origin = "register" /\ a.password = "own"
      BY <1>2 DEF CreateUser, NewUser
    <3> QED BY <1>2, <3>1, <3>2 DEF CreateUser, Quiet
  <2> QED BY <2>1, QuietKeepsPasswords
<1>3. ASSUME NEW p \in Clients, Enqueue(p) PROVE Passwords'
  <2>1. Quiet
    BY <1>0, <1>3 DEF Enqueue, AfterSignal, Goto, Quiet
  <2> QED BY <2>1, QuietKeepsPasswords
<1>4. ASSUME NEW p \in Clients, EnqueueFails(p) PROVE Passwords'
  <2>1. Quiet
    BY <1>0, <1>4 DEF EnqueueFails, Goto, Quiet
  <2> QED BY <2>1, QuietKeepsPasswords
<1>5. ASSUME NEW s \in Seeders, SeedGet(s) PROVE Passwords'
  <2>1. /\ pc[s] \in {"get", "again"} /\ pc'[s] \in {"get", "done", "create", "failed"}
        /\ \A t \in Seeders : t # s => pc'[t] = pc[t] /\ at'[t] = at[t]
    <3>1. CASE SeedNext(s)
      BY <1>0, <1>5, <3>1 DEF SeedGet, SeedNext
    <3>2. CASE ~SeedNext(s)
      BY <1>0, <1>5, <3>2 DEF SeedGet, Goto
    <3> QED BY <3>1, <3>2
  <2>2. Quiet
    BY <1>5, <2>1 DEF SeedGet, Quiet, Holding
  <2> QED BY <2>2, QuietKeepsPasswords
<1>6. ASSUME NEW s \in Seeders, SeedInsert(s) PROVE Passwords'
  <2>1. /\ pc[s] = "create" /\ pc'[s] \in {"commit", "again"}
        /\ pc'[s] = "commit" \/ UNCHANGED made
        /\ \A t \in Seeders : t # s => pc'[t] = pc[t] /\ made'[t] = made[t]
        /\ UNCHANGED <<accounts, at, fetched, removed>>
    BY <1>0, <1>6 DEF SeedInsert, NewKey, Goto
  <2>2. Quiet
    BY <2>1 DEF Quiet, Holding
  <2> QED BY <2>2, QuietKeepsPasswords
<1>6a. ASSUME NEW s \in Seeders, SeedCommit(s) PROVE Passwords'
  BY <1>6a, SeedCommitKeepsPasswords
<1>7. ASSUME NEW s \in Seeders, SeedFetch(s) PROVE Passwords'
  <2>1. ASSUME NEW a \in accounts, a.name = Name(s), Goto(s, "fetch", "save"),
               fetched' = [fetched EXCEPT ![s] = a.pk]
        PROVE  Passwords'
    BY <1>7, <2>1, SeedFetchKeepsPasswords
  <2>2. CASE Goto(s, "fetch", "failed") /\ UNCHANGED fetched
    <3>1. Quiet
      BY <1>0, <1>7, <2>2 DEF SeedFetch, Goto, Quiet
    <3> QED BY <3>1, QuietKeepsPasswords
  <2> QED BY <1>7, <2>1, <2>2 DEF SeedFetch
<1>8. ASSUME NEW s \in Seeders, SeedSave(s) PROVE Passwords'
  <2>1. CASE Row(fetched[s]) = {}
    <3>1. Quiet
      BY <1>0, <1>8, <2>1 DEF SeedSave, Goto, Quiet
    <3> QED BY <3>1, QuietKeepsPasswords
  <2>2. CASE Row(fetched[s]) # {}
    <3>1. SeedNext(s)
      BY <1>8, <2>2 DEF SeedSave
    <3>2. /\ pc' = [pc EXCEPT ![s] = pc'[s]] /\ pc'[s] \in {"get", "done"}
          /\ \A t \in Seeders : t # s => at'[t] = at[t]
      BY <1>0, <3>1 DEF SeedNext
    <3>3. accounts' = {IF a.pk = fetched[s]
                       THEN [a EXCEPT !.password = "demo"] ELSE a : a \in accounts}
      BY <1>8, <2>2, Zenon DEF SeedSave
    <3>4. Saves(s) /\ pc[s] = "save" /\ UNCHANGED fetched
      BY <1>8, <3>2, <3>3 DEF SeedSave, Saves, OthersStay
    <3> QED BY <3>2, <3>4, SeedSaveKeepsPasswords
  <2> QED BY <2>1, <2>2
<1>9. ASSUME NEW w \in Workers, Work(w) \/ SendFails(w) \/ KillWorker(w)
      PROVE  Passwords'
  <2>1. Quiet
    BY <1>9 DEF Work, TakeTask, GetUser, SendMail, SendFails, KillWorker, Quiet
  <2> QED BY <2>1, QuietKeepsPasswords
<1>10. ASSUME NEW p \in Clients, KillClient(p) PROVE Passwords'
  <2>1. Quiet
    BY <1>0, <1>10 DEF KillClient, Quiet
  <2> QED BY <2>1, QuietKeepsPasswords
<1>11. CASE ResetRedis \/ FlushUsers \/ UNCHANGED vars
  <2>1. Quiet
    BY <1>11 DEF ResetRedis, FlushUsers, vars, Quiet
  <2> QED BY <2>1, QuietKeepsPasswords
<1> QED
  BY <1>0, <1>1, <1>2, <1>3, <1>4, <1>5, <1>6, <1>6a, <1>7, <1>8, <1>9, <1>10, <1>11
  DEF Next, Register, Seed, Disturb

-----------------------------------------------------------------------------
(***************************************************************************)
(* The theorems.                                                           *)
(***************************************************************************)
LEMMA InitIInv == Init => IInv
<1> SUFFICES ASSUME Init PROVE IInv
  OBVIOUS
<1>1. TypeOK
  <2>1. 1 \in 1..Len(Demo)
    BY DataAssumption
  <2> QED BY <2>1 DEF Init, TypeOK, Ended, Answers, Clients
<1>2. UniqueAccounts /\ PksAreCounted /\ DraftsAreFree
  <2>1. accounts = {} /\ lastPk = 0 /\ removed = {}
    BY DEF Init
  <2>2. \A k \in Pks : Row(k) = {}
    BY <2>1 DEF Row
  <2>3. \A s \in Seeders : pc[s] # "commit"
    BY DEF Init, Clients
  <2>4. PksAreCounted /\ DraftsAreFree
    BY <2>1, <2>2, <2>3 DEF PksAreCounted, DraftsAreFree, Committed
  <2>5. UniqueAccounts
    BY <2>1 DEF UniqueAccounts
  <2> QED BY <2>4, <2>5
<1>3. RepliesAreTrue /\ MadeIsOwn
  <2>1. \A p \in Clients : made[p] = 0 /\ pc[p] \in {"username", "get"}
    BY DEF Init
  <2>2. lastPk = 0
    BY DEF Init
  <2>3. Requests \subseteq Clients
    BY DEF Clients
  <2>4. RepliesAreTrue
    BY <2>1, <2>3 DEF RepliesAreTrue
  <2>5. MadeIsOwn
    BY <2>1, <2>2, <2>3 DEF MadeIsOwn
  <2> QED BY <2>4, <2>5
<1>4. TasksAreAboutAccounts /\ TaskIsInOnePlace
  <2>1. \A w \in Workers, k \in Pks : ~HasJob(w, k)
    BY DEF Init, HasJob
  <2>2. \A k \in Pks : queue[k] = 0 /\ sent[k] = 0
    BY DEF Init
  <2> QED BY <2>1, <2>2 DEF TasksAreAboutAccounts, TaskIsInOnePlace
<1>5. Passwords
  <2>1. accounts = {} /\ \A s \in Seeders : pc[s] = "get"
    BY ClientsAssumption DEF Init, Clients
  <2> QED BY <2>1 DEF Passwords, SeedersHoldTheirRows, RegisteredPasswordsStay,
                      SeededPasswords
<1> QED BY <1>1, <1>2, <1>3, <1>4, <1>5 DEF IInv, Passwords

LEMMA NextIInv == IInv /\ [Next]_vars => IInv'
<1> SUFFICES ASSUME IInv, [Next]_vars PROVE IInv'
  OBVIOUS
<1>1. TypeOK' /\ Kinds
  BY TypeStep, StepKinds DEF IInv
<1>2. PksAreCounted' /\ UniqueAccounts' /\ DraftsAreFree'
  BY <1>1, PksAreCountedStep, UniqueAccountsStep, DraftsAreFreeStep DEF IInv
<1>3. MadeIsOwn' /\ RepliesAreTrue'
  BY <1>1, MadeIsOwnStep, RepliesAreTrueStep DEF IInv
<1>4. TasksAreAboutAccounts'
  BY <1>1, TasksAreAboutAccountsStep DEF IInv
<1>5. "republish" \notin Faults => TaskIsInOnePlace'
  BY <1>1, TaskIsInOnePlaceStep DEF IInv
<1>6. Passwords'
  BY PasswordsStep DEF IInv, Passwords
<1> QED BY <1>1, <1>2, <1>3, <1>4, <1>5, <1>6 DEF IInv, Passwords

\* The inductive invariant holds in every state: rows are unique and stay,
\* replies are true, and a task is in one place.
THEOREM AccountsInvariance == Spec => []IInv
<1>1. Init => IInv
  BY InitIInv
<1>2. IInv /\ [Next]_vars => IInv'
  BY NextIInv
<1> QED BY <1>1, <1>2, PTL DEF Spec

\* Every variable keeps its type.
THEOREM AccountsTypes == Spec => []TypeOK
<1>1. IInv => TypeOK
  BY DEF IInv
<1> QED BY <1>1, AccountsInvariance, PTL

\* Two accounts never share a name or an address.
THEOREM NoTwins == Spec => []UniqueAccounts
<1>1. IInv => UniqueAccounts
  BY DEF IInv
<1> QED BY <1>1, AccountsInvariance, PTL

\* A registration answered 201 has its account, one answered 400 has none.
THEOREM TrueReplies == Spec => []RepliesAreTrue
<1>1. IInv => RepliesAreTrue
  BY DEF IInv
<1> QED BY <1>1, AccountsInvariance, PTL

\* No account is welcomed twice, whatever fails, dies or is repeated, unless
\* the broker client publishes a task twice.
THEOREM WelcomedOnce == Spec => []AtMostOneMail
<1>1. IInv => AtMostOneMail
  BY DEF IInv, AtMostOneMail, TaskIsInOnePlace, TypeOK
<1> QED BY <1>1, AccountsInvariance, PTL

\* A worker that looks for the user of its task finds it, unless the account
\* has been deleted: also the signal that runs inside the transaction of
\* get_or_create publishes its task after the commit.
THEOREM TaskAfterCommit == Spec => []TasksFindTheirUser
<1>1. IInv => TasksFindTheirUser
  BY DEF IInv, TasksFindTheirUser, TasksAreAboutAccounts, HasJob, Idle
<1> QED BY <1>1, AccountsInvariance, PTL

\* As long as nobody deletes accounts, seed_users changes the password of no
\* account that somebody registered, though it fetches and saves by name.
THEOREM PasswordsAreLeftAlone == Spec => []RegisteredPasswordsStay
<1>1. IInv => RegisteredPasswordsStay
  BY DEF IInv
<1> QED BY <1>1, AccountsInvariance, PTL

\* A demo account without a password is that of a command on its way, or of
\* one that failed or died.
THEOREM PasswordsAreSeeded == Spec => []SeededPasswords
<1>1. IInv => SeededPasswords
  BY DEF IInv
<1> QED BY <1>1, AccountsInvariance, PTL

-----------------------------------------------------------------------------
(***************************************************************************)
(* Where the task of an account can be.                                    *)
(***************************************************************************)
\* What has been said of an account stays: mails, deletions and losses are
\* never taken back.
LEMMA AccountedStays ==
  ASSUME TypeOK, NEW k \in Pks, Accounted(k),
         \A p \in Clients : pc[p] = "enqueue" /\ made[p] = k =>
                              pc'[p] = "enqueue" /\ made'[p] = k,
         queue[k] > 0 => queue'[k] > 0,
         \A w \in Workers : HasJob(w, k) => HasJob(w, k)',
         sent[k] > 0 => sent'[k] > 0,
         removed \subseteq removed', lost \subseteq lost'
  PROVE  Accounted(k)'
BY DEF Accounted

\* A client that publishes, fails to or dies leaves no account unaccounted for.
LEMMA PublishingAccounts ==
  ASSUME TypeOK, MadeIsOwn, NEW k \in Pks, Accounted(k), NEW p \in Clients,
         Enqueue(p) \/ EnqueueFails(p) \/ KillClient(p)
  PROVE  Accounted(k)'
<1> USE DEF dbVars, mailVars
<1>0. /\ \A q \in Clients : q # p => pc'[q] = pc[q]
      /\ \A w \in Workers : HasJob(w, k)' <=> HasJob(w, k)
      /\ lost \subseteq lost' /\ UNCHANGED <<made, sent, removed>>
  BY DEF Enqueue, EnqueueFails, KillClient, Goto, TypeOK, HasJob
<1>1. CASE pc[p] = "enqueue" /\ made[p] = k
  <2>1. queue'[k] > 0 \/ k \in lost'
    BY <1>1 DEF Enqueue, EnqueueFails, KillClient, TypeOK
  <2> QED BY <2>1 DEF Accounted
<1>2. CASE ~(pc[p] = "enqueue" /\ made[p] = k)
  <2>1. queue[k] > 0 => queue'[k] > 0
    <3>1. pc[p] = "enqueue" => made[p] \in Pks
      BY DEF MadeIsOwn, TypeOK
    <3> QED BY <1>2, <3>1 DEF Enqueue, EnqueueFails, KillClient, TypeOK, Goto
  <2> QED BY <1>0, <1>2, <2>1, AccountedStays
<1> QED BY <1>1, <1>2

\* Nor does a worker that takes, finishes, fails or drops a task.
LEMMA WorkingAccounts ==
  ASSUME IInv, NEW k \in Pks, Accounted(k), NEW w \in Workers,
         TakeTask(w) \/ GetUser(w) \/ SendMail(w) \/ SendFails(w) \/ KillWorker(w)
  PROVE  Accounted(k)'
<1> USE DEF dbVars, mailVars
<1>0. /\ TypeOK /\ job[w] \in [step : {"get", "send"}, pk : Pks] \cup {Idle}
      /\ \A v \in Workers : v # w => (HasJob(v, k)' <=> HasJob(v, k))
      /\ UNCHANGED <<pc, made, removed>> /\ lost \subseteq lost'
      /\ sent[k] > 0 => sent'[k] > 0
  <2>1. TypeOK /\ job[w] \in [step : {"get", "send"}, pk : Pks] \cup {Idle}
    BY DEF IInv, TypeOK
  <2>2. \A v \in Workers : v # w => job'[v] = job[v]
    BY <2>1 DEF TypeOK, TakeTask, GetUser, SendMail, SendFails, KillWorker
  <2>3. UNCHANGED <<pc, made, removed>> /\ lost \subseteq lost'
    BY DEF TakeTask, GetUser, SendMail, SendFails, KillWorker
  <2>4. CASE SendMail(w) \/ SendFails(w)
    <3>1. sent' = sent \/ sent' = [sent EXCEPT ![job[w].pk] = @ + 1]
      BY <2>4 DEF SendMail, SendFails
    <3>2. sent \in [Pks -> Nat] /\ sent[k] \in Nat
      BY <2>1 DEF TypeOK
    <3>3. sent[k] > 0 => sent'[k] > 0
      BY <3>1, <3>2
    <3> QED BY <2>1, <2>2, <2>3, <3>3 DEF HasJob
  <2>5. CASE ~(SendMail(w) \/ SendFails(w))
    <3>1. sent' = sent
      BY <2>5 DEF TakeTask, GetUser, KillWorker
    <3> QED BY <2>1, <2>2, <2>3, <3>1 DEF HasJob
  <2> QED BY <2>4, <2>5
<1>1. CASE TakeTask(w)
  <2>1. PICK j \in Pks :
          /\ \A i \in Pks : i # j => queue'[i] = queue[i]
          /\ \A i \in Pks : ~HasJob(w, i)
          /\ HasJob(w, j)'
    BY <1>0, <1>1, TakeFacts
  <2>2. CASE j = k
    BY <2>1, <2>2 DEF Accounted
  <2>3. CASE j # k
    BY <1>0, <2>1, <2>3, AccountedStays
  <2> QED BY <2>2, <2>3
<1>2. CASE ~TakeTask(w) /\ ~HasJob(w, k)
  BY <1>0, <1>2, AccountedStays DEF GetUser, SendMail, SendFails, KillWorker
<1>3. CASE ~TakeTask(w) /\ HasJob(w, k)
  <2>0. job[w].pk = k /\ job[w] # Idle /\ sent[k] \in Nat /\ sent \in [Pks -> Nat]
    BY <1>0, <1>3 DEF HasJob, TypeOK
  <2>1. CASE GetUser(w) /\ Row(k) # {}
    <3>1. HasJob(w, k)'
      BY <1>0, <2>0, <2>1 DEF GetUser, HasJob, TypeOK, Idle
    <3> QED BY <3>1 DEF Accounted
  <2>2. CASE GetUser(w) /\ Row(k) = {}
    <3>1. k \in removed
      BY <1>3, <2>2 DEF IInv, TasksAreAboutAccounts, Committed
    <3> QED BY <1>0, <3>1 DEF Accounted
  <2>3. CASE SendMail(w) \/ SendFails(w) \/ KillWorker(w)
    <3>1. sent'[k] > 0 \/ k \in lost'
      BY <2>0, <2>3 DEF SendMail, SendFails, KillWorker
    <3> QED BY <3>1 DEF Accounted
  <2> QED BY <1>3, <2>1, <2>2, <2>3
<1> QED BY <1>1, <1>2, <1>3

\* The row of p is committed and its task still with p.
LEMMA NewRowsAccount ==
  ASSUME TypeOK, NoTaskVanishes, Kinds, UNCHANGED <<queue, sent, job, removed, lost>>,
         NEW p \in Clients, pc[p] # "enqueue", pc'[p] = "enqueue",
         \A q \in Clients : q # p => pc'[q] = pc[q] /\ made'[q] = made[q],
         NEW k \in Pks, Committed(k) \/ k = made'[p]
  PROVE  Accounted(k)'
<1>1. CASE k = made'[p]
  BY <1>1 DEF Accounted
<1>2. CASE k # made'[p]
  <2>1. Accounted(k)
    BY <1>2 DEF NoTaskVanishes
  <2> QED BY <2>1, AccountedStays DEF HasJob
<1> QED BY <1>1, <1>2

LEMMA NoTaskVanishesStep == IInv /\ NoTaskVanishes /\ [Next]_vars => NoTaskVanishes'
<1> SUFFICES ASSUME IInv, NoTaskVanishes, [Next]_vars, NEW k \in Pks, Committed(k)'
             PROVE  Accounted(k)'
  BY DEF NoTaskVanishes
<1> USE DEF dbVars, mailVars
<1>0. /\ TypeOK /\ MadeIsOwn /\ Kinds
      /\ Committed(k) => Accounted(k)
      /\ \/ Committed(k)
         \/ \E r \in Requests, a \in Account : Inserts(r, a) /\ k = lastPk + 1
         \/ \E s \in Seeders : Commits(s) /\ k = made[s]
  <2>1. TypeOK /\ MadeIsOwn /\ Kinds
    BY StepKinds DEF IInv
  <2> QED BY <2>1, CommittedGrows DEF NoTaskVanishes
<1>1. ASSUME NEW r \in Requests, NEW a \in Account, Inserts(r, a), k = lastPk + 1 \/ Committed(k),
             UNCHANGED lost
      PROVE  Accounted(k)'
  <2>1. /\ r \in Clients /\ pc'[r] = "enqueue" /\ made'[r] = lastPk + 1
        /\ pc[r] = "create"
        /\ \A q \in Clients : q # r => pc'[q] = pc[q] /\ made'[q] = made[q]
        /\ UNCHANGED <<queue, sent, job, removed>>
    BY <1>0, <1>1 DEF Inserts, TypeOK, Clients
  <2> QED BY <1>0, <1>1, <2>1, NewRowsAccount
<1>1a. ASSUME NEW s \in Seeders, Commits(s), k = made[s] \/ Committed(k), UNCHANGED lost
       PROVE  Accounted(k)'
  <2>1. /\ s \in Clients /\ pc'[s] = "enqueue" /\ made'[s] = made[s]
        /\ pc[s] = "commit"
        /\ \A q \in Clients : q # s => pc'[q] = pc[q] /\ made'[q] = made[q]
        /\ UNCHANGED <<queue, sent, job, removed>>
    BY <1>0, <1>1a DEF Commits, TypeOK, Clients
  <2> QED BY <1>0, <1>1a, <2>1, NewRowsAccount
\* In the other steps k was committed before.
<1>2. ASSUME NEW p \in Clients, Enqueue(p) \/ EnqueueFails(p) \/ KillClient(p)
      PROVE  Accounted(k)'
  <2>1. UNCHANGED <<accounts, removed>>
    BY <1>2 DEF Enqueue, EnqueueFails, KillClient
  <2>2. Committed(k)
    BY <2>1 DEF Committed, Row
  <2> QED BY <1>0, <1>2, <2>2, PublishingAccounts
<1>3. ASSUME NEW w \in Workers,
             TakeTask(w) \/ GetUser(w) \/ SendMail(w) \/ SendFails(w) \/ KillWorker(w)
      PROVE  Accounted(k)'
  <2>1. UNCHANGED <<accounts, removed>>
    BY <1>3 DEF TakeTask, GetUser, SendMail, SendFails, KillWorker
  <2>2. Committed(k)
    BY <2>1 DEF Committed, Row
  <2> QED BY <1>0, <1>3, <2>2, WorkingAccounts
<1>4. CASE ResetRedis
  <2>1. lost \cup {j \in Pks : queue[j] > 0} = lost'
        /\ UNCHANGED <<accounts, pc, made, sent, job, removed>>
    BY <1>4 DEF ResetRedis
  <2>2. CASE queue[k] > 0
    BY <1>0, <2>1, <2>2 DEF Accounted
  <2>3. CASE ~(queue[k] > 0)
    <3>1. Accounted(k)
      BY <1>0, <2>1 DEF Committed, Row
    <3> QED BY <1>0, <2>1, <2>3, <3>1, AccountedStays DEF HasJob
  <2> QED BY <2>2, <2>3
<1>5. ASSUME UNCHANGED <<queue, job, sent, lost>>, removed \subseteq removed', Committed(k),
             \A p \in Clients : pc[p] = "enqueue" => pc'[p] = "enqueue" /\ made'[p] = made[p]
      PROVE  Accounted(k)'
  BY <1>0, <1>5, AccountedStays DEF HasJob
<1>6. ASSUME NEW p \in Clients, pc[p] # "enqueue", Committed(k),
             \A q \in Clients : q # p => pc'[q] = pc[q] /\ made'[q] = made[q],
             UNCHANGED <<queue, job, sent, lost, removed>>
      PROVE  Accounted(k)'
  BY <1>5, <1>6
<1>7. CASE FlushUsers \/ UNCHANGED vars
  <2>1. Committed(k)
    BY <1>7 DEF FlushUsers, vars, Committed, Row
  <2> QED BY <1>5, <1>7, <2>1 DEF FlushUsers, vars
<1>8. ASSUME NEW r \in Requests, CheckUsername(r) \/ CheckEmail(r)
      PROVE  Accounted(k)'
  <2>1. /\ r \in Clients /\ pc[r] # "enqueue"
        /\ \A q \in Clients : q # r => pc'[q] = pc[q] /\ made'[q] = made[q]
    BY <1>0, <1>8 DEF CheckUsername, CheckEmail, Goto, Clients, TypeOK
  <2>2. Committed(k)
    BY <1>8 DEF CheckUsername, CheckEmail, Committed, Row
  <2> QED BY <1>6, <1>8, <2>1, <2>2 DEF CheckUsername, CheckEmail
<1>9. ASSUME NEW s \in Seeders, SeedGet(s) \/ SeedFetch(s) \/ SeedSave(s)
      PROVE  Accounted(k)'
  <2>1. /\ s \in Clients /\ pc[s] # "enqueue"
        /\ \A q \in Clients : q # s => pc'[q] = pc[q] /\ made'[q] = made[q]
    BY <1>0, <1>9 DEF SeedGet, SeedFetch, SeedSave, SeedNext, Goto, Clients, TypeOK
  <2>2. Committed(k)
    <3>1. ~\E t \in Seeders : Commits(t)
      BY <1>0, <1>9, ClientsAssumption DEF SeedGet, SeedFetch, SeedSave, SeedNext, Goto, Commits, Clients, TypeOK
    <3>2. ~\E r \in Requests, a \in Account : Inserts(r, a)
      BY <1>0, <1>9, ClientsAssumption DEF SeedGet, SeedFetch, SeedSave, SeedNext, Goto, Inserts, Clients, TypeOK
    <3> QED BY <1>0, <3>1, <3>2
  <2> QED BY <1>6, <1>9, <2>1, <2>2 DEF SeedGet, SeedFetch, SeedSave
<1>10. ASSUME NEW r \in Requests, CreateUser(r) PROVE Accounted(k)'
  <2>1. CASE Free(NormalName[NameOf[r]], Normal[MailOf[r]])
    <3>1. PICK a \in Account : Inserts(r, a) /\ UNCHANGED lost
      BY <1>0, <1>10, <2>1, InsertKind
    <3>2. k = lastPk + 1 \/ Committed(k)
      BY <3>1 DEF Inserts, Committed, Row
    <3> QED BY <1>1, <3>1, <3>2
  <2>2. CASE ~Free(NormalName[NameOf[r]], Normal[MailOf[r]])
    <3>1. /\ r \in Clients /\ pc[r] # "enqueue" /\ UNCHANGED <<accounts, made>>
          /\ \A q \in Clients : q # r => pc'[q] = pc[q]
          /\ UNCHANGED <<queue, job, sent, lost, removed>>
      BY <1>0, <1>10, <2>2 DEF CreateUser, NewUser, Goto, TypeOK, Clients
    <3>2. Committed(k)
      BY <3>1 DEF Committed, Row
    <3> QED BY <1>6, <3>1, <3>2
  <2> QED BY <2>1, <2>2
<1>11. ASSUME NEW s \in Seeders, SeedInsert(s) PROVE Accounted(k)'
  <2>1. /\ s \in Clients /\ pc[s] # "enqueue" /\ UNCHANGED accounts
        /\ \A q \in Clients : q # s => pc'[q] = pc[q] /\ made'[q] = made[q]
        /\ UNCHANGED <<queue, job, sent, lost, removed>>
    BY <1>0, <1>11 DEF SeedInsert, SignalInside, NewKey, Goto, TypeOK, Clients
  <2>2. Committed(k)
    BY <2>1 DEF Committed, Row
  <2> QED BY <1>6, <2>1, <2>2
<1>12. ASSUME NEW s \in Seeders, SeedCommit(s) PROVE Accounted(k)'
  <2>1. Commits(s) /\ UNCHANGED lost
    BY <1>12 DEF SeedCommit, Commits, Goto
  <2>2. k = made[s] \/ Committed(k)
    BY <2>1 DEF Commits, Draft, Committed, Row
  <2> QED BY <1>1a, <2>1, <2>2
<1> QED
  BY <1>2, <1>3, <1>4, <1>7, <1>8, <1>9, <1>10, <1>11, <1>12
  DEF Next, Register, Seed, Work, Disturb, Clients

\* No account loses its welcome unnoticed: from the commit on its task is with
\* its client, in the queue, with a worker or done, or the account has been
\* deleted, or one of the named faults has dropped the task.
THEOREM NoTaskLost == Spec => []NoTaskVanishes
<1>1. Init => NoTaskVanishes
  BY DEF Init, NoTaskVanishes, Committed, Row
<1> QED BY <1>1, NoTaskVanishesStep, AccountsInvariance, PTL DEF Spec

-----------------------------------------------------------------------------
(***************************************************************************)
(* Progress, as long as whoever is about to publish a task, or has one, has a*)
(* next step.                                                              *)
(***************************************************************************)
\* Who moves a client.
LEMMA OtherClients ==
  ASSUME TypeOK, NEW p \in Clients, [Next]_vars
  PROVE  \/ Serve(p) \/ EnqueueFails(p) \/ KillClient(p)
         \/ pc'[p] = pc[p] /\ made'[p] = made[p]
<1> USE DEF TypeOK, Goto, dbVars, mailVars
<1>1. ASSUME NEW r \in Requests, Register(r), r # p
      PROVE  pc'[p] = pc[p] /\ made'[p] = made[p]
  BY <1>1 DEF Register, CheckUsername, CheckEmail, CreateUser, NewKey, Enqueue, Clients
<1>2. ASSUME NEW s \in Seeders, Seed(s), s # p
      PROVE  pc'[p] = pc[p] /\ made'[p] = made[p]
  BY <1>2 DEF Seed, SeedGet, SeedNext, SeedInsert, SeedCommit, NewKey, Enqueue, SeedFetch, SeedSave, Clients
<1>3. ASSUME NEW q \in Clients, EnqueueFails(q) \/ KillClient(q), q # p
      PROVE  pc'[p] = pc[p] /\ made'[p] = made[p]
  BY <1>3 DEF EnqueueFails, KillClient
<1>4. ASSUME NEW w \in Workers, Work(w) \/ SendFails(w) \/ KillWorker(w)
      PROVE  pc'[p] = pc[p] /\ made'[p] = made[p]
  BY <1>4 DEF Work, TakeTask, GetUser, SendMail, SendFails, KillWorker
<1>5. ResetRedis \/ FlushUsers \/ UNCHANGED vars => pc'[p] = pc[p] /\ made'[p] = made[p]
  BY DEF ResetRedis, FlushUsers, vars
<1>6. (p \in Requests => (Register(p) => Serve(p))) /\ (p \in Seeders => (Seed(p) => Serve(p)))
  BY ClientsAssumption DEF Serve
<1> QED BY <1>1, <1>2, <1>3, <1>4, <1>5, <1>6 DEF Next, Disturb

\* Whatever a client does next with a new row publishes its task or loses it.
LEMMA PublisherStep ==
  ASSUME IInv, NEW p \in Clients, NEW k \in Pks, pc[p] = "enqueue", made[p] = k,
         Serve(p) \/ EnqueueFails(p) \/ KillClient(p)
  PROVE  queue'[k] > 0 \/ k \in lost'
<1>1. TypeOK
  BY DEF IInv
<1>2. CASE Serve(p)
  <2>1. Enqueue(p)
    BY <1>2 DEF Serve, Register, Seed, CheckUsername, CheckEmail, CreateUser, SeedGet,
           SeedInsert, SeedCommit, SeedFetch, SeedSave, Goto
  <2> QED BY <1>1, <2>1 DEF Enqueue, TypeOK
<1>3. CASE EnqueueFails(p) \/ KillClient(p)
  BY <1>1, <1>3 DEF EnqueueFails, KillClient, TypeOK
<1> QED BY <1>2, <1>3

\* The task of a committed row gets to the queue or is lost to a fault: the
\* handler between commit and answer does nothing else.
THEOREM RowsArePublished ==
  ASSUME NEW p \in Clients, NEW k \in Pks
  PROVE  Spec /\ []TasksCanMove =>
           (pc[p] = "enqueue" /\ made[p] = k ~> queue[k] > 0 \/ k \in lost)
<1> DEFINE P == pc[p] = "enqueue" /\ made[p] = k
           Q == queue[k] > 0 \/ k \in lost
<1>1. IInv /\ P /\ [Next]_vars => P' \/ Q'
  <2>1. IInv => TypeOK
    BY DEF IInv
  <2> QED BY <2>1, OtherClients, PublisherStep
<1>2. IInv /\ P /\ <<Serve(p)>>_vars => Q'
  BY PublisherStep
<1>3. TasksCanMove /\ P => ENABLED <<Serve(p)>>_vars
  BY DEF TasksCanMove
<1>4. Fairness => FairClient(p)
  BY DEF Fairness
<1> HIDE DEF P, Q
<1>5. Spec /\ []TasksCanMove => (P ~> Q)
  BY <1>1, <1>2, <1>3, <1>4, AccountsInvariance, PTL DEF Spec, FairClient
<1> QED BY <1>5 DEF P, Q

\* Who moves a worker.
LEMMA OtherWorkers ==
  ASSUME TypeOK, NEW w \in Workers, [Next]_vars
  PROVE  Work(w) \/ SendFails(w) \/ KillWorker(w) \/ job'[w] = job[w]
<1> USE DEF TypeOK, dbVars, mailVars
<1>1. ASSUME NEW r \in Requests, Register(r) PROVE job' = job
  BY <1>1 DEF Register, CheckUsername, CheckEmail, CreateUser, Enqueue
<1>2. ASSUME NEW s \in Seeders, Seed(s) PROVE job' = job
  BY <1>2 DEF Seed, SeedGet, SeedInsert, SeedCommit, SignalInside, Enqueue, SeedFetch, SeedSave
<1>3. ASSUME NEW q \in Clients, EnqueueFails(q) \/ KillClient(q) PROVE job' = job
  BY <1>3 DEF EnqueueFails, KillClient
<1>4. ASSUME NEW v \in Workers, Work(v) \/ SendFails(v) \/ KillWorker(v), v # w
      PROVE  job'[w] = job[w]
  BY <1>4 DEF Work, TakeTask, GetUser, SendMail, SendFails, KillWorker
<1>5. ResetRedis \/ FlushUsers \/ UNCHANGED vars => job' = job
  BY DEF ResetRedis, FlushUsers, vars
<1> QED BY <1>1, <1>2, <1>3, <1>4, <1>5 DEF Next, Disturb

\* A worker with the task of k.
At(w, k, step) == job[w] = [step |-> step, pk |-> k]

\* k has been welcomed, or has no welcome to come.
Settled(k) == sent[k] > 0 \/ k \in removed \cup lost

\* A worker goes on to the mail and settles its account.
LEMMA JobStep ==
  ASSUME IInv, NEW w \in Workers, NEW k \in Pks,
         Work(w) \/ SendFails(w) \/ KillWorker(w)
  PROVE  /\ At(w, k, "get") => At(w, k, "send")' \/ Settled(k)'
         /\ At(w, k, "send") => Settled(k)'
<1> USE DEF dbVars, mailVars, At, Settled
<1>1. TypeOK /\ job \in [Workers -> [step : {"get", "send"}, pk : Pks] \cup {Idle}]
      /\ sent \in [Pks -> Nat] /\ sent[k] \in Nat
  BY DEF IInv, TypeOK
<1>2. ASSUME At(w, k, "get")
      PROVE  At(w, k, "send")' \/ Settled(k)'
  <2>1. HasJob(w, k) /\ job[w].step = "get" /\ job[w].pk = k
    BY <1>2 DEF HasJob, Idle
  <2>2. CASE GetUser(w) /\ Row(k) # {}
    BY <1>1, <2>1, <2>2 DEF GetUser
  <2>3. CASE GetUser(w) /\ Row(k) = {}
    <3>1. Committed(k)
      BY <2>1 DEF IInv, TasksAreAboutAccounts
    <3>2. k \in removed'
      BY <2>3, <3>1 DEF Committed, GetUser
    <3> QED BY <3>2
  <2>4. CASE KillWorker(w)
    BY <2>1, <2>4 DEF KillWorker
  <2> QED BY <2>1, <2>2, <2>3, <2>4 DEF Work, TakeTask, SendMail, SendFails, HasJob
<1>3. ASSUME At(w, k, "send")
      PROVE  Settled(k)'
  <2>1. HasJob(w, k) /\ job[w].step = "send" /\ job[w].pk = k
    BY <1>3 DEF HasJob, Idle
  <2>2. CASE SendMail(w) \/ SendFails(w) \/ KillWorker(w)
    BY <1>1, <2>1, <2>2 DEF SendMail, SendFails, KillWorker
  <2> QED BY <2>1, <2>2 DEF Work, TakeTask, GetUser, HasJob
<1> QED BY <1>2, <1>3

\* Whoever has the task of an account sends the mail, unless the account has been
\* deleted or a fault drops the task.
THEOREM JobsEnd ==
  ASSUME NEW w \in Workers, NEW k \in Pks
  PROVE  Spec /\ []TasksCanMove =>
           (HasJob(w, k) ~> sent[k] > 0 \/ k \in removed \cup lost)
<1>0. IInv => TypeOK
  BY DEF IInv
<1> DEFINE G == At(w, k, "get")
           S == At(w, k, "send")
<1>1. IInv /\ G /\ [Next]_vars => G' \/ S' \/ Settled(k)'
  BY <1>0, OtherWorkers, JobStep DEF At
<1>2. IInv /\ G /\ <<Work(w)>>_vars => S' \/ Settled(k)'
  BY JobStep
<1>3. IInv /\ S /\ [Next]_vars => S' \/ Settled(k)'
  BY <1>0, OtherWorkers, JobStep DEF At
<1>4. IInv /\ S /\ <<Work(w)>>_vars => Settled(k)'
  BY JobStep
<1>5. TasksCanMove /\ (G \/ S) => ENABLED <<Work(w)>>_vars
  BY DEF TasksCanMove, At, Idle
<1>6. Fairness => FairWorker(w)
  BY DEF Fairness
<1>7. IInv /\ HasJob(w, k) => G \/ S
  BY DEF IInv, TypeOK, HasJob, At
<1> HIDE DEF G, S
<1>8. Spec /\ []TasksCanMove => (HasJob(w, k) ~> Settled(k))
  BY <1>1, <1>2, <1>3, <1>4, <1>5, <1>6, <1>7, AccountsInvariance, PTL
     DEF Spec, FairWorker
<1> QED BY <1>8 DEF Settled

=============================================================================
