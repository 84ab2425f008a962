# LLM Portrait in TLA+

TLA+ models of the back end of *llm-portrait*: a Django application in which
people register, chat in rooms over WebSocket, react to messages over REST, and
have texts translated or summarised by a local LLM. The models are translated
from the code in `src/src/app/`; the documents in `src/docs/` supply claims to
check, not definitions. Paths below are relative to `src/src/app/` unless they
start with `docs/` or `schemas/`.

- [1. The system](#1-the-system): parts, state, interactions, what is hard
- [2. The modules](#2-the-modules): correspondence with the code
- [3. The runs](#3-the-runs): instances, bounds, what they show
- [4. Fairness](#4-fairness)
- [5. The proofs](#5-the-proofs)
- [6. Disagreements found](#6-disagreements-between-code-and-documents)
- [7. What is not modelled or not proved](#7-limits)
- [8. Plan](#8-plan)

Model-check with `tlc -workers 2 -config <X>.cfg <Module>`, prove with
`tlapm <Module>Proofs.tla`.

## 1. The system

Two kinds of server processes share PostgreSQL and Redis. **daphne** (`ws`)
holds all WebSocket connections in an event loop: a handler runs until its next
`await`, then any other may run. **gunicorn** (`web`) has three synchronous
workers, each busy with one HTTP request at a time; views run in autocommit
mode, so between any two queries of a view another worker, the daphne process
or a management command may change the database. A **celery** worker sends
mail. Redis is the broker, the rate-limit cache and the channel layer at once.

| Component | Code | State it keeps | Operations | What makes it correct |
|---|---|---|---|---|
| WebSocket chat | `ws/consumers.py`, `chat/models.py` | per connection: room, user, channel; rooms and messages (database); groups and per-channel queues (Redis) | connect, receive text, save, group_send, deliver, disconnect | whoever is in a room hears its messages, in one order, none twice; first connections share one room; what was shown was saved; failures are told; deleted rooms and accounts are never written to |
| WebSocket authentication | `ws/middleware.py` | none of its own | check a token's expiry, fetch its user | no expired token and no account that is gone gets in |
| AI pipeline | `ai/` | counters of the rate limit; a graph state per request | count, validate, three LLM nodes, fallback, respond | the limit is exact; status and outputs tell what happened; every request ends |
| Registration and welcome mail | `api/`, `users/` | accounts; the task queue | register, signal after commit, run the task | names and addresses are unique, replies are true, at most one mail, none lost but to a fault |
| Demo-data commands | `users/management`, `chat/management` | none of their own | `seed_users`, `seed_rooms`, `seed_messages`, `flush_demo` | do no harm to rows that are not demo data; success means that old rows are gone and new ones all there |
| Chat REST: rooms, history | `chat/views.py` | rooms, messages | create a room, page through the history | every page is true; nobody who pages to the end misses a message |
| Reactions | `chat/views.py`, `chat/models.py`, `chat/serializers.py` | reactions | add, remove, aggregate per page | idempotent, atomic, nothing dangles, counts are true |
| Access log and redaction | `core/middleware.py`, `core/log_redact.py` | the log context of a worker, the log | bind an id, read and dump bodies, write a line | secrets are masked at any depth; one line per answer under its id, unless its dump cannot be made; the view still gets its body |
| Tokens and sessions | `api/auth.py`, `api/urls.py`, settings | blacklist of refresh tokens | login, refresh with rotation, logout | spent tokens are refused; accounts that are switched off or deleted get nothing from the API, deleted ones no handshake; access ends with the token it goes back to; no token is spent for nothing |
| Prompts, settings, routing, admin, logging set-up, deployment | | none | | not modelled (section 7) |

**How they interact.** The chat writes rows which the history reads and which
`flush_demo` or the admin delete under open connections. Registration hands a
primary key to Celery through Redis, after the commit. The REST views and the
consumers share rooms, users and messages only through foreign keys and unique
constraints. The demo-data commands run next to all of them, in processes of
their own. Tokens connect the REST API with the WebSocket handshake: both look
at expiry and account, neither at the blacklist. The middlewares wrap every HTTP
request.

**What is hard here.** Awaits inside handlers (a save can be overtaken by
another one before its broadcast); look-then-write without transactions
(validators before INSERT, `get_or_create`, two queries per page, the blacklist before it
is added to, rows collected before they are deleted); identifiers
drawn before a commit; a room or an account deleted while someone holds it;
failures half-way (saved but not broadcast, committed but not queued); killed
workers; queues at capacity; tasks that are acknowledged before they run; text
of exceptions used as a condition. `PROJECT.json` lists 40 such hazards, each
with its line and with the properties that would notice.

## 2. The modules

```
RoomBroadcast  <---- implements ----  ChatConsumer --- ChatConsumerProofs --- ChatRefinementProofs
IdempotentSet  <---- implements ----  ChatRest     --- ChatRestProofs
                                      AiPipeline   --- AiPipelineProofs
                                      Accounts     --- AccountsProofs
                                      Sessions     --- SessionsProofs
                                      DemoData     --- DemoDataProofs
                      Redaction <---  AccessLog    --- AccessLogProofs
```

`MC<Module>` gives each module its instances for TLC. Every module has one type
invariant `TypeOK`, one action per query, await or task step, and an inductive invariant
`IInv`, which the proofs use. A definition introduced by `\* Slip:` is not
part of a specification; it is the definition of nearly the same name with a
mistake that somebody could make in that code, and shows that the property
beside it in `PROJECT.json` would notice.

### ChatConsumer and RoomBroadcast

`pc[c]` is the await at which connection `c` is suspended: `new`, `rejected`,
`room`, `create` and `again` (the get, the INSERT and the second get of
get_or_create), `join` (group_add), `accept`, `open` (waiting for the
next event), `save`, `send` (group_send), `leave` (group_discard), `closed`,
`crashed`. Channels dispatches one event at a time to a consumer, so a consumer
in `save` receives nothing; other consumers go on. An exception that the code
does not catch ends the consumer *without* `disconnect()` (`crashed`): its
channel stays in the group, as in the code. `roomRef[c]` is `self.room`, read
once in `connect()`; `rooms`, `users` and `stored` are the tables; a save
succeeds only if both foreign keys still resolve. In one daphne process the
three queries of get_or_create run in one thread, one call after the other;
between them come the connections of other processes and the commands that
create and delete rooms, so first connections race for the INSERT
(`RacersShareTheRoom`). `erased` and `dropped` (history) tell messages that were
deleted by themselves and rooms that were deleted.

Environment actions, switched on per run by `Faults`:

| fault | meaning |
|---|---|
| `db`, `commit` | a query fails; the database commits and then the connection breaks |
| `layer` | the channel layer raises in group_add, group_send, group_discard |
| `kill` | the process dies or daphne cancels the consumer at an await |
| `expiry` | a membership outlives `group_expiry`; only `connect()` renews it |
| `erase` | `flush_demo` (before it deletes rooms, in a transaction of its own), `seed_messages` or the admin deletes messages whose room and author stay |
| `delete` | `flush_demo` or the admin deletes a room or an account, with cascade |

A full channel loses one broadcast: the layer drops the new one, or the
reader's buffer its oldest (`Push`).

`RoomBroadcast` is the promise in terms a user would understand: connections
join, post, hear and leave; all posts are numbered; everyone hears posts of the
own room in that order, perhaps with gaps, never twice. `ChatConsumer!Broadcast`
maps the consumers onto it: a connection joins with group_add, what waits for a
consumer that has ended is dropped, the number of a post is the number of its
group_send.

### AiPipeline

A request waits for one of `Workers` processes, is counted, validated, and runs
through the LangGraph: node and outgoing edge are one step since a run's state
is its own. `Absent` stands for a missing key of the TypedDict; `HasError` is
`if state.get("error")`, which is false for `""` as well. `CountRequest`
models django-ratelimit as used here: one atomic add-or-incr of the key of this
user and window, *before* validation. `KillWorker` is gunicorn's `--timeout`.
Texts are abstract, languages are not.

### Accounts

`RegisterView` is four steps: the validator of the name, that of the address,
the INSERT, which commits itself, and the signal. `seed_users` runs get_or_create
for each demo user, and for a user it has created a second `get` and the UPDATE
of the password. `get_or_create` does its INSERT in a transaction: `SeedInsert`
draws the key and runs the `post_save` signal while nobody sees the row,
`SeedCommit` makes it visible, and only then `Enqueue` publishes what `on_commit`
has kept (`SignalInside`; without `on_commit` a worker could look for a row
before its commit). Until the commit the row is a `Draft`, and an INSERT
that would collide with it waits (`Unlocked`). After an IntegrityError `get_or_create` looks
again and re-raises if there is still nothing: `again`. Every step may meet
another client or `flush_demo`. The queue is a bag; Celery takes a task off it
before running it and never retries. `create_user` normalises what it is given
when the row is made: `NormalName` is NFKC of the name, `Normal` lower-cases the domain of the
address, whereas the validators have looked for both as written; the account
`Wanted` is the normalised one. `made`, `removed` and `lost` are history. What `flush_demo` does to accounts is one DELETE and one step; that it
deletes messages and rooms first is the matter of DemoData.

### Sessions

A login or a refresh `p` makes one access and one refresh token, known by `p`
(every `jti` is new) and stamped `at[p]`. A refresh or a logout goes through `stamp`
(RefreshToken(...) takes the time and checks the expiry), `check` (the
blacklist), for a refresh `user` (the account is still active), `spend`
(blacklist()) and `rotate` (the new pair and its outstanding row); between any
two, other requests run and the clock goes on. Rotation renews the token it has
read and therefore keeps its stamp. A logout and a handshake come with a
bearer token: `bearer` looks at its expiry, `caller` fetches the account. The
middleware of the WebSocket uses `UntypedToken`, hence takes a token of either
kind, and `User.objects.get`, hence asks only whether the account exists;
Django's REST authentication wants an active one. `Closed` keeps the two apart:
`ClosedAccountsAreOut` promises nothing about the handshake of an account
that is switched off. Clients use the tokens they
have been given, as often as they like. `black` is the blacklist; `blackAt`,
`late` and `outcast` are history.

### DemoData

A command is a list of items (`Work`): get_or_create of a name, a `delete()`, the
query for the senders, a batch for a room; `seed_all` is the three lists of
`seed_users`, `seed_rooms` and `seed_messages` in a row. `at[p]` is the item and
`pc[p]` the query within it: `get_or_create` is get / INSERT / get again,
`delete()` collects (`doomed`) and then deletes what it has collected in one transaction,
which fails (`conflict`) if a row that nobody collected refers to it by then;
`bulk_create` writes a batch or nothing. Rows are told apart by name and maker, so
a room that is deleted and made again is another row. People open a room and
write to it later, as real or as demo users. `old` (what was there
when a command began to delete) and `disturbed` (commands during or after which another
one deleted) are history.

### ChatRest and IdempotentSet

One room, whose row and whose reactions are the keys that `get_or_create`
makes. A request to add is `auth`, `target` (get_object_or_404 and the
serializer), `get`, `insert`, `again`; a request to remove is `auth`, `remove`.
A client that reads pages goes through `auth`, `room`, `page`, `reactions` for
every page, with the smallest id it was shown as the next `before`, until a
page is empty. Writers take the time (`auto_now_add`), draw an id and commit in
three steps, since a sequence is not transactional; nothing keeps ids, times
and commits in the same order. `stale` are readers and writers that hold a room
which has been deleted since, whatever was created under its name later.
Deletions cascade in one transaction and are one step. With the faults `loss` and
`kill` the connection to the database breaks, or the worker dies, after an INSERT or a DELETE
has been committed (`LoseAnswer`): the client gets 500, or nothing, for what has been done.

`IdempotentSet` promises that each request applies at most one atomic
operation and that its status tells which; after a 4xx it has applied none, after a 500 or
without an answer none or its own. `kept[g]` and `seen[g]` note which
keys were there all the time and at some time while a page is made;
`PagesAreTimely` uses them.

### AccessLog and Redaction

AccessLog extends Redaction, which has no state. JSON values are trees of
leaves, dicts and lists; the constant `Json` is any set of them that holds what
its members hold, and `Depth` witnesses that each of them ends. `RedactBody` is the
recursion of `redact_body`, written as a recursive function on `Json`. What it is for
is told without that recursion, by what stands at the end of a path (`Masks`):
without a sensitive name on the path the node is as it was; behind the first such
name there is the mask, and behind that nothing. TLC asks this of every path of
`Paths`, here all paths of the instance's values; the proof leaves `Paths` open. A body has a size, a value, and the value of what
the first 4096 bytes hold alone (`Invalid` if the cut breaks it, itself if only
padding is lost). `Bottomless` is what `json.loads` gives up on, and `TooDeep` what
`redact_body` needs more than `RecursionLimit` calls for: both raise RecursionError, which the
`except` clauses do not name. A worker binds an id, reads the body if dumps are on
(`RefuseBody`: 400 for one that is too large, 500 when the client hangs up), calls
the view, writes the line (or `FailToDump`), echoes the id. Django turns exceptions into answers
at each middleware layer, and writes a line of its own there: so a view's exception has an access line, and
what HttpAccessLog itself raises has only Django's. An error that a view answers without raising gets Django's
line when both middlewares have returned and the context is left: `LateLine`, whose id is `-`. Names are opaque: `Lower` and `Contains` say what
`lower()` and `in` make of them.

## 3. The runs

| run | instance | states | what it shows |
|---|---|---|---|
| `chat_faults` | three connections, one of them in a second room, one text each, capacity 1; database, commit, layer, kill, expiry | 1.6 M | membership, genuineness and order survive all faults; rooms do not mix; every step is a step of the abstract broadcast |
| `chat_live` | two connections of one account, one text and two texts, capacity 4, two generations of the room; deletions of rooms and accounts, and of one message alone | 233 k | first connections share one room; what was shown is in the history or deleted; stale connections stay mute; everyone connected gets a copy; texts are answered, queues drain |
| `ai_pipeline` | three requests of two users, limit 1, two windows, two workers; cache failures and kills | 48 k | the limit is exact, statuses and outputs are true, every request ends |
| `accounts` | two registrations that collide with `seed_users` by name and address and by normalised name, two demo users; all faults but republication | 1.6 M | unique rows, true replies, at most one mail, tasks after their commit, passwords of others untouched, everyone is greeted unless a fault says otherwise |
| `reactions` | two equal clicks, another user's click and a removal against a reader, one message, deletions of messages and accounts, answers lost | 1.8 M | one atomic operation per request, nothing dangles, counts are true |
| `history` | a reader with pages of one message, two writers, two messages, room deleted and created again, kills | 752 k | no message is missed if ids and times agree; paging ends |
| `access_log` | two workers, two requests; nested, oversized, padded, empty, refused bodies and ones too deep for `json.loads` or `redact_body`; errors that views answer or raise; kills | 2.1 M | exact masking, one line per answer or none for a named reason, own ids, the body reaches the view |
| `sessions` | a login, two refreshes, a logout or handshake; lifetimes 1 and 2, clock to 3; kills, deactivation and its reversal, deletion | 1.5 M | spent tokens are refused, accounts off or deleted get nothing from the API and deleted ones no handshake, access ends in time, a refresh replaces its token |
| `demo_data` | two `seed_all`, a `flush_demo`, a writer; two demo users, one demo and one real room, two messages per batch; kills, reactions | 4.8 M | batches are whole, success means that old rows are gone and that an undisturbed `seed_all` has filled the rooms, real accounts and rooms stay |
| `chat_layer_down`, `ai_empty_error`, `accounts_seed_twice` | | | the disagreements of section 6 |

**Why these bounds are enough to be interesting.** Two connections already
overtake each other between save and broadcast, a third one in another room
shows that rooms do not mix; capacity 1 overflows with the second broadcast, and
capacity 4 holds all there can be, which is what a promise of delivery needs; two
keys of a room are what a stale reference needs; two first connections race for its INSERT, and one of them sends
the second text that order within a connection needs. All connections of a chat run
are of one account: the code asks of an account only whether it exists, and the
proofs have any number. Two requests of one user and
limit 1 reach the limit from two workers at once, and the second window shows
that it is per window. Two clients that want one name or one address are all a
constraint can tell apart, and a second demo user lets a command fail after it
has half succeeded. Two ids can be drawn and committed in both orders; pages of
one message make the cursor matter. Two refreshes and a logout overlap in every
way, a token can be refreshed and its successor refreshed again, and the clock
passes both lifetimes. Two equal commands race for each INSERT, and the third
one deletes under both. Where a larger instance could differ, the
theorems of section 5 close the gap.

Bounds, all named constants: `TextsOf`, `MaxTexts`, `MaxRooms`, `MaxErased` (messages deleted
alone; one is enough to part what was shown from what is stored), `Capacity` (chat),
`MaxWindow` (AI), `MaxPk` (accounts; four keys are enough for two registrations
and a seeder with two users, so the bound never stops anyone), `MaxMessages`,
`MaxLimit` (history), `RecursionLimit` (access log; 4 in the instance, so that a list of
lists can exceed it), `MaxTime` (sessions). In `history` and `reactions` a writer that has drawn no
id because of the bound is simply one that never comes back.

`CHECK_DEADLOCK FALSE` stands where a finished system really stops: `accounts`,
`reactions`, `history`, `access_log`, `sessions`, `demo_data`. In the chat and the AI pipeline a `Quiet`
step marks the only legitimate end and any other stop is an error. Symmetry is
used for two connections of one room (`chat_faults`), two identical clicks
(`reactions`), two identical workers (`access_log`) and two runs of `seed_all`
(`demo_data`), with invariants and action properties only, never in a run with
liveness.

Selected properties in words:

- `SeenInSendOrder` (chat): savers overtake each other, so the order of rows is
  not the order of broadcasts; what members see is the latter, without
  duplicates, even across overflow and expiry.
- `EveryoneConnectedGetsACopy` compares the audience at the moment of
  group_send (open connections of the room) with what they have seen or will
  find in their queue; it holds while the layer works, has room, and no
  membership expires, which is the instance of `chat_live`.
- `TasksFindTheirUser`: the signal of `seed_users` runs before its row is
  committed; a task without its row would be one that `on_commit` had not kept back.
- `OneLinePerAnswer` and `LinesCarryTheirId` name what the dump and the order of
  the layers cost: with dumps on, a body that is refused or nests too deeply leaves an answer
  without access line, and an error that a view answers has a second line that the id does not find.
- `LimitIsExact`: for each user and window the number let through is the
  minimum of the limit and the number counted.
- `AtMostOneMail` excludes `republish`, a broker client that publishes again
  after a lost acknowledgement. `EveryAccountIsGreeted` allows for what is in
  `lost`, to which only faults add.
- `PagesAreComplete` has the premise `Ordered` because the code orders a page by
  `created_at` and cuts it by `id`: where these disagree a message can be
  skipped. The premise holds in every behaviour in which the writers take the
  time and draw their ids in the same order; the slips of `PROJECT.json` that
  violate the property do so in such behaviours.
- `AccessEndsWithItsToken`: a refresh that overlaps with the logout of its token may
  still succeed; what it gets ends when the old access token could have, one
  access lifetime after the blacklisting. It holds because a token is stamped
  when it is read, not when its successor is made.
- `RefreshReplaces` also says that a token is never spent for nothing: only a
  kill or the deletion of the account leaves a client without either.
- `OldDataGoes`: the rows a command finds and those its `delete()` collects come
  from different queries; a message written in between makes `delete()` fail
  rather than leave it dangling, so success does mean that all is gone.
- `SeedAllDelivers` needs that nobody else deleted (`disturbed`): otherwise rooms
  may be missing, and are skipped, or a batch fails.
- `PagesAreTimely`: messages and reactions of a page come from two queries;
  counts lie between what was there throughout and what was there at some time.

## 4. Fairness

- **Chat**: weak fairness of the server's steps of each connection (daphne's
  event loop resumes an await that can return). Clients need not send, connect
  or leave; faults need not happen. `EveryTextIsAnswered` allows a crash.
- **AI**: weak fairness of each request's steps. A worker is always freed: an LLM call ends with a
  reply, with the 600 s time-out of the client in `_make_llm`, or with
  gunicorn's kill, and gunicorn replaces the worker.
- **Accounts**: weak fairness of registrations, of commands and of Celery
  workers (`restart: unless-stopped`, so a killed one returns). Faults are unfair.
- **ChatRest**: weak fairness of requests that were accepted; writers and deletions are
  unfair. Paging ends because the cursor strictly falls.
- **AccessLog**, **Sessions** and **DemoData** have no liveness property and no fairness.

## 5. The proofs

Each proof module shows `Init => IInv`, `IInv /\ [Next]_vars => IInv'` (one
lemma per conjunct, one step per action) and derives the listed theorems for
every value of the constants that satisfies the module's assumptions: any number of connections, requests,
workers, messages, any limit, and any set of faults.

**ChatConsumerProofs, ChatRefinementProofs.** `MembersAreThoseInside` is inductive together with
`GroupsByName`. Order needs to say where a message is: `TapeInSendOrder` says that what a
connection has seen precedes what waits for it, both in the order of
`sentAt`; a new broadcast goes last because `TextsHandledOnce` bounds all
numbers by `sends` and gives the text being handled none yet. `SeenIsInHistory`
needs `SentWasStored` also for the text between its save and its broadcast,
and `RoomKeysAreUnique`: if a key could be handed out twice, a stale
connection would come to life in somebody else's room. `OneRoom` needs
`TakenOrDropped`: whoever met a taken name finds its row unless it was deleted. Refinement: each action
either leaves the mapped variables alone or is one step of `RoomBroadcast`;
`GroupSend` is `Post` with the hearers among the members of the group.
`EveryoneConnectedGetsACopy` is proved under a premise that the code cannot do without: no
more broadcasts so far than a channel holds (`CopiesWhileThereIsRoom`), or room for all
messages there can be (`CopiesForEveryone`), and no expiry; channels then
hold at most as many broadcasts as there have been (`CopyInv`).
Progress: `Answered` is `EveryTextIsAnswered`, from the two steps by which a
text is saved and broadcast. `MessagesMoveOn` is one round of `InboxDrains`:
between two deliveries a consumer has at most the two steps of a text before it
(`Stage`), and a message that stays in its channel moves up (`MessageMovesUp`).

**AiPipelineProofs.** `CountersAreExact` ties each counter to the set of requests counted in it, and
`LimitIsExact` follows by cases on the counter and the limit. `Progress` says
what is set where; `Outcome` ties `raised` (history) to state and response and
holds under `ErrorsHaveText` (no exception has an empty text), the premise that
`ai_empty_error` shows to be needed. Without it the other parts still hold.
`TakenEnds`: each step of a request lowers its `Stage`, which is at most 8, whichever
edge it takes and whichever handler catches its exception.

**AccountsProofs.** The actions are grouped into kinds of steps (insert, publish, take,
send, drop, delete); `TaskIsInOnePlace` says that the task of an account is with the client
about to publish it, in the queue, with one worker, or done. It needs
`MadeIsOwn` (no two clients made one row) and `PksAreCounted`, and the premise
that nothing is published twice. Passwords rest on `SeedersHoldTheirRows`: a command
fetches by name, but while the row it has made is there that name is its own, so
what it saves is its own row or one made after a deletion. `TaskAfterCommit` rests on
`TasksAreAboutAccounts` (only what is committed is queued) and `DraftsAreFree` (a draft
collides with no row and no other draft).
`NoTaskLost` is the converse of `TaskIsInOnePlace`: the task is in *some* place
unless the account was deleted or a named fault dropped it. That a worker gives
up a task whose row it does not find loses nothing, since by `PksAreCounted` that row
has been deleted. `RowsArePublished` and `JobsEnd` follow a task
through the client and the worker that hold it.

**ChatRestProofs.** `NothingDangles` needs `RoomIsHeld`, because a writer commits into a room it
looked up earlier. `WatchIsTight` (`kept \subseteq rows \subseteq seen` while a page is made)
gives the timeliness of pages with two facts about cardinality. `WalkKeepsUp`
says that of the messages a client began with those not shown lie before its
cursor, and that of these the page at hand holds the newest; with `Ordered`
"newest" and "largest id" agree, and an empty page means that none is left.
`ApiRefinement` needs no more than the guards: the INSERT is the atomic
operation when it succeeds, answered or not, either `get` when it finds the row.
`RequestsGetOn` and `ReactionsEnd`: each query lowers `Left`, in which the cursor of
a client weighs more than the queries of a page, because a page lies before
the cursor it was asked for with (`PageIsBefore`).

**SessionsProofs.** `LateAreStopped` and `OutcastsAreStopped` say where requests can be that
began too late: behind the one query that stands between them and success.
`StampsComeFirst` orders the clock: who has read a token before it
was blacklisted is stamped no later than the blacklisting, hence the bound on its
access tokens. `TokensAreSpentForSomething` is inductive because a blacklisted
token points back to the request that spent it.

**AccessLogProofs.** `ServedOnce` (a request is with one worker) and `ContextIsBound` tie the
context of a worker to the request it serves; `LinesAreInTime` and
`LinesAreWritten` say when its access line exists, and when Django's stands for it
(`Accounted`). The bodies are
whatever JSON the client and the view send, of any shape and depth.
`RedactionMasks` needs two inductions, and the library's induction theorems take
an operator as parameter, which the provers cannot instantiate. `Induction` gets by
with sets: a set of values that holds each value whose less deep values it holds
is all of `Json`, since else a value of least depth would be missing (`WFMin`). From it
follows first that `Redacted` satisfies its own equation (`RedactedEquation`:
TLA+ defines a recursive function by CHOOSE, so that some function must be
shown to satisfy it), then that it masks what stands at the end of every path
(`At` is again a recursive function, characterised by `IsWalk`).
`DumpsAreMasked` adds that a line is written from the request its worker holds
(`DumpsAreGenuine`, part of `IInv`) and that nobody changes what was asked later (`OldDumpsStay`).

**DemoDataProofs.** First the work of each command as a sequence: no item comes twice,
`delete()` of the messages precedes the batches, rooms precede their batches
(`PlanFacts`, `WorkFacts`). `RowsHaveMakers` says that whoever made a row that is
known anywhere, even only as an old or doomed one, is past making it: so no row
comes back once it is deleted, and no message joins a batch that somebody has
collected (`BatchesAreDoomedWhole`), which gives `BatchesAreWhole`.
`OldRowsAreOut` follows a `delete()` from what it finds to what is gone;
`UndisturbedWorkStands` says that what a `seed_all` has done is still
there while nobody else deletes.

**Progress and its premise.** TLAPS has no rules for ENABLED, so that what fairness gives must
come in by a premise: `ServersCanMove`, `RequestsCanMove` and `TasksCanMove`, beside
`Fairness` in each module, say that whoever has something left to do has an enabled step.
The theorems named above have the form `Spec /\ []Premise => (P ~> Q)`: what
they show for all values of the constants is that no step, of anybody, leads from `P`
anywhere but towards `Q`, and that the one fair step needed gets there. The
premise is no restriction of the behaviours: in all instances of section 3 each
step is enabled where it says so, or the liveness properties would fail there, a state
in which a consumer, request or worker is stuck being one where it may stay for ever. Each is also
an invariant TLC confirms when it is added to `ChatLive.cfg`, `AiPipeline.cfg`, `History.cfg`,
`Reactions.cfg` or `Accounts.cfg`.

What TLC alone shows: the premises, and the liveness properties `InboxDrains`,
`EveryRequestEnds`, `RequestsEnd` and `EveryAccountIsGreeted` as wholes. Their single rounds
are proved (`MessagesMoveOn`, `TakenEnds`, `RequestsGetOn`, `RowsArePublished`, `JobsEnd`); to
chain rounds over a channel's length, a cursor or a set of requests takes
an induction over temporal formulas. The set form of `Induction` does not serve: there is no set
of the numbers for which a temporal formula holds, as the level rules of TLA+ forbid it.
Every invariant and every action property of a passing run is also a theorem. What proofs alone
show in the present configurations: the type invariants and each module's
`IInv` (checked by TLC on the instances of section 3 before it was proved), `NoOrphanRows`,
`FailureLeavesNoOutput`, `NoTaskVanishes` and `QueueInv`.
RECURSIVE operators stand in `MCAccessLog` only, where they enumerate the
values, depths and paths of the instance.

## 6. Disagreements between code and documents

Each with a run whose counterexample TLC prints:

1. `ai_empty_error`: `_safe` stores `str(exc)`; for an exception with no text
   this is `""`, which router, edges and view take for no error. The view
   answers 200 without output, against `ai/state.py:22` and
   `docs/api/rest.md:96`.
2. `chat_layer_down`: the comment in `receive_json` says that any channel-layer
   failure is handled; `group_send` stands outside the `try`, and its failure
   ends the connection.
3. `accounts_seed_twice`: `seed_users` calls itself idempotent; a run stopped
   between creating a user and saving the password is not repaired by the next.

Noted on the way, without a run: `docs/debug/workflow/2-trace-http.md:41` says
that bodies over 4 KB are truncated, whereas a truncated JSON body is replaced
by a note (which `tests/test_access_log.py` expects); `core/middleware.py:24` and
`docs/debug/README.md:14` say that every line of a request carries its id, and the docstring of
RequestIdMiddleware speaks of Celery tasks, but Django writes its `django.request` line on an error
that a view has answered (the 503 of `ai/views.py`) after the context is left, with `-`, and nothing passes the id on to
tasks; "one structured log line per HTTP request" (`core/middleware.py:49`) does not hold where the dump fails:
with `LOG_HTTP_BODY=1` a body over Django's upload limit becomes a 400, though
DRF might have read it from the stream, and one nested deeper than Python recurses a 500 after its view has
done its work;
`flush_demo` says that it leaves real data alone but deletes whatever real
users wrote in rooms with a demo name, demo users' messages in other rooms,
and accounts registered under a demo name (`Targets` in DemoData); connecting to
a room creates it with any name, although `chat/models.py:5-8` declares a
validator, and a name that is no legal group name leaves its row behind while
the handshake fails (`CreateRoom`, `ConnectFails`).

Of tokens, as facts rather than disagreements: two overlapping
refreshes of one token can both succeed, and a refresh that overlaps with a
logout leaves its successor valid; a WebSocket handshake takes a refresh token
as well as an access token and, for it, an account that is deactivated but not deleted
(`ws/middleware.py:18`), which the REST API refuses;
neither expiry nor logout ends an open connection.

## 7. Limits

Assumed of code outside `src/`, from how it is used: Channels dispatches one
event at a time to a consumer and does not call `disconnect()` after an
exception; the Redis layer keeps `capacity` messages per channel and forgets
memberships after `group_expiry`; django-ratelimit counts atomically and
before the view; Django's `get_or_create` is get, INSERT, get; cascaded deletes
run in one transaction; foreign keys are checked at the commit of the INSERT;
`request.body` is cached, and raises for a body that is too large (400) or breaks off (500);
Django turns what a layer raises into an answer just outside it, with a line, and writes
one line for any other 5xx when all layers have returned; an INSERT that collides with an uncommitted row
waits for that transaction; simplejwt checks expiry and blacklist when a token is
read and the account when it is refreshed, and stores outstanding tokens; Celery acknowledges early; Redis has neither volume nor append-only file.

Not modelled:

- **Deep bodies**: the limits of `json.loads` and of `redact_body` are one constant and
  `Bottomless`; how many Python frames each takes is not.
- **Demo texts and reports** of the commands; the passwords and mails of
  `seed_users` are in Accounts, not in DemoData.
- **Prompts, serialisation, pagination of lists of rooms, health check**: no state.
- **Logging set-up, settings, routing, admin, static pages**: declarations.
- **Deployment**: only worker counts and time-outs enter the models.

## 8. Plan

Modules were written in the order of what the product is for: chat, AI
pipeline, accounts, chat REST, access log, sessions, demo data. What is left
is a composition of Sessions and ChatConsumer in which the account closes while
a connection is open; at present each module has the part of it that its own
code decides.
