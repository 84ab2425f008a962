------------------------------ MODULE Accounts ------------------------------
(***************************************************************************)
(* How accounts come to be and are greeted: RegisterView with its          *)
(* serializer, the seed_users command, the post_save signal that enqueues  *)
(* send_welcome_email once the row is committed, the Celery workers that   *)
(* run the task, and flush_demo, which deletes the demo accounts.          *)
(*                                                                         *)
(* The database runs in autocommit mode: every query of a handler is a     *)
(* step of its own, and only the unique constraints of the user table hold *)
(* between two of them.  get_or_create alone opens a transaction: its row  *)
(* is inserted, the signal runs, and then the row is committed.  The task  *)
(* queue is a bag of primary keys.                                         *)
(***************************************************************************)
EXTENDS Naturals, Sequences

CONSTANTS
  Requests,   \* registrations
  Seeders,    \* runs of seed_users
  Workers,    \* Celery workers
  Names,      \* usernames as clients write them
  NormalName, \* Names -> Names: create_user applies NFKC to the username
  Mails,      \* addresses as clients write them
  Normal,     \* Mails -> Mails: create_user lower-cases the domain
  NameOf,     \* Requests -> Names
  MailOf,     \* Requests -> Mails
  Demo,       \* DEMO_USERS: a sequence of names
  DemoMail,   \* Names -> Mails
  MaxPk,      \* bound: accounts ever created
  Faults      \* subset of AllFaults

AllFaults == {"broker", "republish", "smtp", "kill", "reset", "flush"}
Pks == 1..MaxPk
DemoNames == {Demo[i] : i \in 1..Len(Demo)}
Clients == Requests \cup Seeders

ASSUME ClientsAssumption ==
  /\ Requests \cap Seeders = {}
  /\ NameOf \in [Requests -> Names]
  /\ MailOf \in [Requests -> Mails]

ASSUME DataAssumption ==
  /\ Normal \in [Mails -> Mails]
  /\ NormalName \in [Names -> Names]
  /\ Demo \in Seq(Names) /\ Demo # <<>>
  /\ DemoMail \in [Names -> Mails]
  /\ MaxPk \in Nat
  /\ Faults \subseteq AllFaults

VARIABLES
  accounts,  \* the committed rows of the user table
  pc,        \* pc[p]: where the handler or the command is; its outcome
  taken,     \* taken[r]: the validator of username has found it in use
  at,        \* at[s]: the position of s in DEMO_USERS
  fetched,   \* fetched[s]: the row whose password s is about to save
  made,      \* made[p]: the row p has inserted last, 0 if none
  queue,     \* queue[k]: tasks for account k in the broker
  job,       \* job[w]: the task of worker w
  sent,      \* sent[k]: welcome mails for account k
  \* History
  lastPk,    \* the primary key given last
  removed,   \* accounts that have been deleted
  lost       \* accounts whose task a fault has dropped

dbVars == <<accounts, lastPk, removed>>
mailVars == <<queue, job, sent, lost>>
vars == <<accounts, pc, taken, at, fetched, made, queue, job, sent,
          lastPk, removed, lost>>

Answers == {"201", "400", "500"}
Ended == Answers \cup {"done", "failed", "killed"}
Idle == [step |-> "idle", pk |-> 0]

Account == [pk : Pks, name : Names, mail : Mails,
            password : {"none", "own", "demo"}, origin : {"register", "seed"}]

Init ==
  /\ accounts = {}
  /\ pc = [p \in Clients |-> IF p \in Requests THEN "username" ELSE "get"]
  /\ taken = [r \in Requests |-> FALSE]
  /\ at = [s \in Seeders |-> 1]
  /\ fetched = [s \in Seeders |-> 0]
  /\ made = [p \in Clients |-> 0]
  /\ queue = [k \in Pks |-> 0]
  /\ job = [w \in Workers |-> Idle]
  /\ sent = [k \in Pks |-> 0]
  /\ lastPk = 0
  /\ removed = {}
  /\ lost = {}

Goto(p, from, to) == pc[p] = from /\ pc' = [pc EXCEPT ![p] = to]

Exists(name) == \E a \in accounts : a.name = name
Row(pk) == {a \in accounts : a.pk = pk}

\* The seeded user whose turn it is for s.
Name(s) == Demo[at[s]]

\* What the unique constraints of username and email ask of a new row, and
\* the rows that are inserted but not committed: an INSERT that would collide
\* with one of them waits for the end of its transaction.
Free(name, mail) == \A a \in accounts : a.name # name /\ a.mail # mail
Unlocked(name, mail) ==
  \A s \in Seeders : pc[s] = "commit" => Name(s) # name /\ DemoMail[Name(s)] # mail

\* p draws the next key for the row it inserts.
NewKey(p) ==
  /\ lastPk < MaxPk
  /\ lastPk' = lastPk + 1
  /\ made' = [made EXCEPT ![p] = lastPk + 1]

(***************************************************************************)
(* RegisterView.                                                           *)
(***************************************************************************)
\* is_valid, the UniqueValidator of username.
CheckUsername(r) ==
  /\ Goto(r, "username", "email")
  /\ taken' = [taken EXCEPT ![r] = Exists(NameOf[r])]
  /\ UNCHANGED <<dbVars, at, fetched, made, mailVars>>

\* is_valid, the UniqueValidator of email, which looks for the address as it
\* was written; then validate_password and the errors of all fields.
CheckEmail(r) ==
  LET inUse == \E a \in accounts : a.mail = MailOf[r]
  IN /\ \E weak \in BOOLEAN :
          Goto(r, "email", IF taken[r] \/ inUse \/ weak THEN "400" ELSE "create")
     /\ UNCHANGED <<dbVars, taken, at, fetched, made, mailVars>>

\* The row that create_user makes of what r has sent: the username and the
\* domain of the address are normalised, the password is hashed.
NewUser(r) ==
  [pk |-> lastPk + 1, name |-> NormalName[NameOf[r]], mail |-> Normal[MailOf[r]],
   password |-> "own", origin |-> "register"]

\* Slip: no unique constraints, the validators must do.
CreateUserUnchecked(r) ==
  /\ Goto(r, "create", "enqueue")
  /\ NewKey(r)
  /\ accounts' = accounts \cup {NewUser(r)}
  /\ UNCHANGED <<taken, at, fetched, removed, mailVars>>

\* Slip: an IntegrityError is taken for an account that is already there.
CreateUserForgiving(r) ==
  LET user == NewUser(r)
  IN /\ Unlocked(user.name, user.mail)
     /\ \/ /\ Free(user.name, user.mail)
           /\ Goto(r, "create", "enqueue")
           /\ NewKey(r)
           /\ accounts' = accounts \cup {user}
        \/ /\ ~Free(user.name, user.mail)
           /\ Goto(r, "create", "201")
           /\ UNCHANGED <<accounts, lastPk, made>>
     /\ UNCHANGED <<taken, at, fetched, removed, mailVars>>

\* create_user: one INSERT that commits itself; post_save comes after it.
\* Nobody catches its IntegrityError.
CreateUser(r) ==
  LET user == NewUser(r)
  IN /\ Unlocked(user.name, user.mail)
     /\ \/ /\ Free(user.name, user.mail)
           /\ Goto(r, "create", "enqueue")
           /\ NewKey(r)
           /\ accounts' = accounts \cup {user}
        \/ /\ ~Free(user.name, user.mail)
           /\ Goto(r, "create", "500")
           /\ UNCHANGED <<accounts, lastPk, made>>
     /\ UNCHANGED <<taken, at, fetched, removed, mailVars>>

(***************************************************************************)
(* The seed_users command: get_or_create, and for a row it has created     *)
(* get, set_password and save of each user in turn.                        *)
(***************************************************************************)
\* On to the next user, or to the end of the command.
SeedNext(s) ==
  IF at[s] = Len(Demo)
  THEN pc' = [pc EXCEPT ![s] = "done"] /\ UNCHANGED at
  ELSE pc' = [pc EXCEPT ![s] = "get"] /\ at' = [at EXCEPT ![s] = @ + 1]

\* Slip: was_created is not asked for.
SeedGetAlways(s) ==
  /\ pc[s] \in {"get", "again"}
  /\ IF Exists(Name(s)) THEN Goto(s, pc[s], "fetch")
     ELSE Goto(s, pc[s], IF pc[s] = "get" THEN "create" ELSE "failed")
  /\ UNCHANGED <<dbVars, taken, at, fetched, made, mailVars>>

\* The first query of get_or_create, and the one after an IntegrityError,
\* which is raised again if there is still no such row.
SeedGet(s) ==
  /\ pc[s] \in {"get", "again"}
  /\ IF Exists(Name(s)) THEN SeedNext(s)
     ELSE /\ Goto(s, pc[s], IF pc[s] = "get" THEN "create" ELSE "failed")
          /\ UNCHANGED at
  /\ UNCHANGED <<dbVars, taken, fetched, made, mailVars>>

\* Slip: the signal calls delay itself.
SignalAtOnce(k) == queue' = [queue EXCEPT ![k] = @ + 1]

\* send_welcome_on_create inside the transaction that has inserted row k:
\* on_commit keeps the task until the commit.
SignalInside(k) == UNCHANGED queue

\* The INSERT of get_or_create, in a transaction, and the post_save signal.
\* An IntegrityError is caught.
SeedInsert(s) ==
  LET name == Name(s)
      mail == DemoMail[name]
  IN /\ Unlocked(name, mail)
     /\ \/ /\ Free(name, mail)
           /\ Goto(s, "create", "commit")
           /\ NewKey(s)
           /\ SignalInside(lastPk + 1)
        \/ /\ ~Free(name, mail)
           /\ Goto(s, "create", "again")
           /\ UNCHANGED <<lastPk, made, queue>>
     /\ UNCHANGED <<accounts, removed, taken, at, fetched, job, sent, lost>>

\* The row of s, which has no password yet.
Draft(s) ==
  [pk |-> made[s], name |-> Name(s), mail |-> DemoMail[Name(s)],
   password |-> "none", origin |-> "seed"]

\* The transaction ends and everybody sees its row; what on_commit has kept
\* runs next.
SeedCommit(s) ==
  /\ Goto(s, "commit", "enqueue")
  /\ accounts' = accounts \cup {Draft(s)}
  /\ UNCHANGED <<lastPk, removed, taken, at, fetched, made, mailVars>>

\* User.objects.get by name: flush_demo may have been faster.
SeedFetch(s) ==
  /\ \/ \E a \in accounts :
          /\ a.name = Name(s)
          /\ Goto(s, "fetch", "save")
          /\ fetched' = [fetched EXCEPT ![s] = a.pk]
     \/ /\ ~Exists(Name(s))
        /\ Goto(s, "fetch", "failed")
        /\ UNCHANGED fetched
  /\ UNCHANGED <<dbVars, taken, at, made, mailVars>>

\* Slip: the signal greets whenever a user is saved.
SeedSaveGreets(s) ==
  /\ pc[s] = "save" /\ Row(fetched[s]) # {}
  /\ accounts' = {IF a.pk = fetched[s] THEN [a EXCEPT !.password = "demo"] ELSE a :
                    a \in accounts}
  /\ queue' = [queue EXCEPT ![fetched[s]] = @ + 1]
  /\ SeedNext(s)
  /\ UNCHANGED <<taken, fetched, made, lastPk, removed, job, sent, lost>>

\* Slip: update_fields names another column.
SeedSaveElsewhere(s) ==
  /\ pc[s] = "save"
  /\ SeedNext(s)
  /\ UNCHANGED <<dbVars, taken, fetched, made, mailVars>>

\* save(update_fields): an UPDATE by primary key that fails if it finds no
\* row.  post_save is sent, not for a new row: no task.
SeedSave(s) ==
  /\ pc[s] = "save"
  /\ IF Row(fetched[s]) = {}
     THEN Goto(s, "save", "failed") /\ UNCHANGED <<accounts, at>>
     ELSE /\ accounts' = {IF a.pk = fetched[s]
                          THEN [a EXCEPT !.password = "demo"] ELSE a :
                            a \in accounts}
          /\ SeedNext(s)
  /\ UNCHANGED <<taken, fetched, made, lastPk, removed, mailVars>>

(***************************************************************************)
(* The signal and the task queue.                                          *)
(***************************************************************************)
AfterSignal(p) == IF p \in Requests THEN "201" ELSE "fetch"

\* Slip: the signal forgets the task.
EnqueueNothing(p) ==
  /\ Goto(p, "enqueue", AfterSignal(p))
  /\ UNCHANGED <<dbVars, taken, at, fetched, made, mailVars>>

\* send_welcome_on_create for a new row: the commit is done, on_commit calls
\* delay.  Accounts made here have an address: both serializer and
\* DEMO_USERS see to it.
Enqueue(p) ==
  /\ Goto(p, "enqueue", AfterSignal(p))
  /\ \E n \in {1} \cup (IF "republish" \in Faults THEN {2} ELSE {}) :
       queue' = [queue EXCEPT ![made[p]] = @ + n]
  /\ UNCHANGED <<dbVars, taken, at, fetched, made, job, sent, lost>>

\* The broker cannot be reached, or its answer is lost for good: delay raises
\* in a handler whose row is committed.
EnqueueFails(p) ==
  /\ "broker" \in Faults
  /\ Goto(p, "enqueue", IF p \in Requests THEN "500" ELSE "failed")
  /\ \/ queue' = [queue EXCEPT ![made[p]] = @ + 1] /\ UNCHANGED lost
     \/ lost' = lost \cup {made[p]} /\ UNCHANGED queue
  /\ UNCHANGED <<dbVars, taken, at, fetched, made, job, sent>>

\* A Celery worker acknowledges a task before it runs it.
TakeTask(w) ==
  /\ job[w] = Idle
  /\ \E k \in Pks :
       /\ queue[k] > 0
       /\ queue' = [queue EXCEPT ![k] = @ - 1]
       /\ job' = [job EXCEPT ![w] = [step |-> "get", pk |-> k]]
  /\ UNCHANGED <<dbVars, pc, taken, at, fetched, made, sent, lost>>

\* send_welcome_email looks its user up; DoesNotExist ends the task.
GetUser(w) ==
  LET k == job[w].pk
  IN /\ job[w].step = "get"
     /\ job' = [job EXCEPT ![w] =
                  IF Row(k) = {} THEN Idle ELSE [step |-> "send", pk |-> k]]
     /\ UNCHANGED <<dbVars, pc, taken, at, fetched, made, queue, sent, lost>>

SendMail(w) ==
  /\ job[w].step = "send"
  /\ sent' = [sent EXCEPT ![job[w].pk] = @ + 1]
  /\ job' = [job EXCEPT ![w] = Idle]
  /\ UNCHANGED <<dbVars, pc, taken, at, fetched, made, queue, lost>>

\* The mail server refuses, or takes the mail and then fails: the task has no
\* retry.
SendFails(w) ==
  /\ "smtp" \in Faults
  /\ job[w].step = "send"
  /\ job' = [job EXCEPT ![w] = Idle]
  /\ \/ sent' = [sent EXCEPT ![job[w].pk] = @ + 1] /\ UNCHANGED lost
     \/ lost' = lost \cup {job[w].pk} /\ UNCHANGED sent
  /\ UNCHANGED <<dbVars, pc, taken, at, fetched, made, queue>>

(***************************************************************************)
(* Kills, restarts and deletions.                                          *)
(***************************************************************************)
\* A gunicorn worker or a command dies with what it holds; an open
\* transaction is rolled back, its key stays used.
KillClient(p) ==
  /\ "kill" \in Faults
  /\ pc[p] \notin Ended
  /\ pc' = [pc EXCEPT ![p] = "killed"]
  /\ lost' = IF pc[p] = "enqueue" THEN lost \cup {made[p]} ELSE lost
  /\ UNCHANGED <<dbVars, taken, at, fetched, made, queue, job, sent>>

\* A Celery worker dies with its task, which nobody delivers again.
KillWorker(w) ==
  /\ "kill" \in Faults
  /\ job[w] # Idle
  /\ job' = [job EXCEPT ![w] = Idle]
  /\ lost' = lost \cup {job[w].pk}
  /\ UNCHANGED <<dbVars, pc, taken, at, fetched, made, queue, sent>>

\* Redis crashes or is recreated: it has neither a volume nor an append-only
\* file, so the queue is lost.
ResetRedis ==
  /\ "reset" \in Faults
  /\ \E k \in Pks : queue[k] > 0
  /\ queue' = [k \in Pks |-> 0]
  /\ lost' = lost \cup {k \in Pks : queue[k] > 0}
  /\ UNCHANGED <<dbVars, pc, taken, at, fetched, made, job, sent>>

\* flush_demo deletes the users with a name of DEMO_USERS, whoever made them.
FlushUsers ==
  LET gone == {a \in accounts : a.name \in DemoNames}
  IN /\ "flush" \in Faults
     /\ gone # {}
     /\ accounts' = accounts \ gone
     /\ removed' = removed \cup {a.pk : a \in gone}
     /\ UNCHANGED <<pc, taken, at, fetched, made, lastPk, mailVars>>

-----------------------------------------------------------------------------
Register(r) == CheckUsername(r) \/ CheckEmail(r) \/ CreateUser(r) \/ Enqueue(r)
Seed(s) ==
  \/ SeedGet(s) \/ SeedInsert(s) \/ SeedCommit(s) \/ Enqueue(s)
  \/ SeedFetch(s) \/ SeedSave(s)
Work(w) == TakeTask(w) \/ GetUser(w) \/ SendMail(w)

Disturb ==
  \/ \E p \in Clients : EnqueueFails(p) \/ KillClient(p)
  \/ \E w \in Workers : SendFails(w) \/ KillWorker(w)
  \/ ResetRedis \/ FlushUsers

Next ==
  \/ \E r \in Requests : Register(r)
  \/ \E s \in Seeders : Seed(s)
  \/ \E w \in Workers : Work(w)
  \/ Disturb

Serve(p) == IF p \in Requests THEN Register(p) ELSE Seed(p)
FairClient(p) == WF_vars(Serve(p))
FairWorker(w) == WF_vars(Work(w))

\* Handlers, commands and workers go on as long as they can; nothing is
\* asked of faults.
Fairness ==
  /\ \A p \in Clients : FairClient(p)
  /\ \A w \in Workers : FairWorker(w)

Spec == Init /\ [][Next]_vars /\ Fairness

\* Whoever is about to publish a task, or has one, has a next step.
TasksCanMove ==
  /\ \A p \in Clients : pc[p] = "enqueue" => ENABLED <<Serve(p)>>_vars
  /\ \A w \in Workers : job[w] # Idle => ENABLED <<Work(w)>>_vars

(***************************************************************************)
(* Properties.                                                             *)
(***************************************************************************)
TypeOK ==
  /\ accounts \subseteq Account
  /\ pc \in [Clients -> {"username", "email", "get", "again", "create",
                         "commit", "enqueue", "fetch", "save"} \cup Ended]
  /\ taken \in [Requests -> BOOLEAN]
  /\ at \in [Seeders -> 1..Len(Demo)]
  /\ fetched \in [Seeders -> Pks \cup {0}]
  /\ made \in [Clients -> Pks \cup {0}]
  /\ queue \in [Pks -> Nat]
  /\ job \in [Workers -> [step : {"get", "send"}, pk : Pks] \cup {Idle}]
  /\ sent \in [Pks -> Nat]
  /\ lastPk \in Pks \cup {0}
  /\ removed \subseteq Pks
  /\ lost \subseteq Pks

\* No two accounts share a name or a (normalised) address, although the
\* validators look before another handler or command inserts.
UniqueAccounts ==
  \A a, b \in accounts :
    a.name = b.name \/ a.mail = b.mail \/ a.pk = b.pk => a = b

\* An account is welcomed at most once, whoever fails or dies, unless the
\* broker client publishes a task twice.
AtMostOneMail == "republish" \notin Faults => \A k \in Pks : sent[k] <= 1

\* Row k has been committed, at some time.
Committed(k) == k \in removed \/ Row(k) # {}

\* A task finds the row it is about, unless the account has been deleted: the
\* signal runs inside the transaction of get_or_create, and still no worker
\* hears of a row that is not committed, or never will be.
TasksFindTheirUser ==
  \A k \in Pks :
    queue[k] > 0 \/ (\E w \in Workers : job[w] = [step |-> "get", pk |-> k]) =>
      Committed(k)

\* The account that r has asked for: create_user normalises both.
Wanted(r, a) == a.name = NormalName[NameOf[r]] /\ a.mail = Normal[MailOf[r]]

\* 201 means that the account is there, under the normalised name and address
\* asked for, or has been deleted since; 400 means that none was made.
RepliesAreTrue ==
  \A r \in Requests :
    /\ pc[r] = "201" => made[r] \in removed \/ \E a \in Row(made[r]) : Wanted(r, a)
    /\ pc[r] = "400" => made[r] = 0

\* Seeding never changes the password of an account that somebody
\* registered, as long as no account is deleted meanwhile.
RegisteredPasswordsStay ==
  removed = {} => \A a \in accounts : a.origin = "register" => a.password = "own"

\* Only a command that is on its way or has failed or died leaves a demo
\* account without a password.
SeededPasswords ==
  \A a \in accounts :
    a.origin = "seed" /\ a.password = "none" =>
      \E s \in Seeders :
        made[s] = a.pk /\ pc[s] \in {"enqueue", "fetch", "save", "failed", "killed"}

\* The help text of seed_users calls the command idempotent.  When a run has
\* succeeded and none is left, every demo account should have its password.
SeedIsIdempotent ==
  (\E s \in Seeders : pc[s] = "done") /\ (\A s \in Seeders : pc[s] \in Ended) =>
    \A a \in accounts : a.origin = "seed" => a.password = "demo"

(***************************************************************************)
(* The inductive invariant: the task of an account is in one place at a    *)
(* time, and the row of a command is its own.                              *)
(***************************************************************************)
HasJob(w, k) == job[w].pk = k /\ job[w] # Idle

\* Accounts are numbered as they are inserted.
PksAreCounted == \A k \in Pks : Committed(k) => k <= lastPk

\* A transaction that is about to commit finds its name and address free.
DraftsAreFree ==
  \A s \in Seeders : pc[s] = "commit" =>
    /\ ~Committed(made[s])
    /\ Free(Name(s), DemoMail[Name(s)])
    /\ \A t \in Seeders : pc[t] = "commit" /\ t # s =>
         Name(t) # Name(s) /\ DemoMail[Name(t)] # DemoMail[Name(s)]

\* A client remembers the row it has made; nobody else has made it.
MadeIsOwn ==
  /\ \A p \in Clients : made[p] <= lastPk
  /\ \A p \in Clients : pc[p] \in {"commit", "enqueue", "fetch", "save"} => made[p] # 0
  /\ \A p \in Clients : pc[p] \in {"enqueue", "fetch", "save"} => Committed(made[p])
  /\ \A p, q \in Clients : made[p] = made[q] /\ made[p] # 0 => p = q
  /\ \A r \in Requests : pc[r] \in {"username", "email", "create"} => made[r] = 0
  /\ \A r \in Requests : pc[r] \in {"enqueue", "201"} =>
       made[r] \in removed \/ \E a \in Row(made[r]) : Wanted(r, a)

\* Tasks are about rows that have been committed.
TasksAreAboutAccounts ==
  \A k \in Pks :
    queue[k] > 0 \/ sent[k] > 0 \/ (\E w \in Workers : HasJob(w, k)) => Committed(k)

\* With a handler that is about to publish it, in the queue, with a worker,
\* or done.
TaskIsInOnePlace ==
  \A k \in Pks :
    /\ queue[k] + sent[k] <= 1
    /\ \A w \in Workers : HasJob(w, k) => queue[k] + sent[k] = 0
    /\ \A v, w \in Workers : HasJob(v, k) /\ HasJob(w, k) => v = w
    /\ \A p \in Clients : pc[p] = "enqueue" /\ made[p] = k =>
         queue[k] + sent[k] = 0 /\ \A w \in Workers : ~HasJob(w, k)

\* A command between INSERT and UPDATE thinks of the row it has made: only a
\* deletion can make it fetch another one of that name.
SeedersHoldTheirRows ==
  \A s \in Seeders : pc[s] \in {"enqueue", "fetch", "save"} =>
    /\ made[s] # 0
    /\ \A a \in Row(made[s]) : a.name = Name(s) /\ a.origin = "seed"
    /\ pc[s] = "save" => Row(made[s]) = {} \/ fetched[s] = made[s]

IInv ==
  /\ TypeOK
  /\ UniqueAccounts
  /\ RepliesAreTrue
  /\ PksAreCounted
  /\ MadeIsOwn
  /\ DraftsAreFree
  /\ TasksAreAboutAccounts
  /\ SeedersHoldTheirRows
  /\ RegisteredPasswordsStay
  /\ SeededPasswords
  /\ "republish" \notin Faults => TaskIsInOnePlace

\* The task of every account that was committed is accounted for: it is to be
\* published, in the queue, with a worker or done, or the account was deleted or
\* a fault has dropped it.
Accounted(k) ==
  \/ \E p \in Clients : pc[p] = "enqueue" /\ made[p] = k
  \/ queue[k] > 0
  \/ \E w \in Workers : HasJob(w, k)
  \/ sent[k] > 0
  \/ k \in removed \cup lost

NoTaskVanishes == \A k \in Pks : Committed(k) => Accounted(k)

\* Every account that is created is welcomed in the end, unless it is deleted
\* or a fault drops its task.
EveryAccountIsGreeted ==
  <>[](\A k \in Pks : Committed(k) => sent[k] > 0 \/ k \in removed \cup lost)

=============================================================================
