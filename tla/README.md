# CRM-Bro in TLA+

CRM-Bro is a multi-tenant CRM for WhatsApp: an HTTP and WebSocket API
(`src/main.rs`), an outbox worker (`src/bin/worker.rs`), a seeding program
(`src/bin/seed_admin.rs`) and a MySQL database that they share. The API takes
messages from users and from Meta's webhook; the worker sends the queued ones to
Meta's WhatsApp API. No statement sequence but one is a transaction, any task may
be dropped at any await, and any number of API tasks (and, if so deployed,
workers) run at once. This directory models that concurrent system, checks it
with TLC and proves most of its safety properties with TLAPS. Paths below are
relative to the repository.

Contents: [inventory](#inventory) · [modules](#modules-and-code) ·
[runs](#runs) · [findings](#where-the-code-and-its-documentation-disagree) ·
[proofs](#what-is-proved) · [limits](#what-is-not-modelled) · [plan](#plan)

## Inventory

**Outbox worker** — `src/bin/worker.rs`, `infrastructure/whatsapp/sender.rs`.
State: rows of `outbox_messages` (status, attempts, next_attempt_at,
updated_at), rows of `messages` (status, wa_message_id), the batch a poll
returned and the job in hand. Operations: `run_once` polls ten ready rows;
`mark_processing` claims one by compare-and-set of (status, updated_at);
`load_account`, `send_job`; `mark_success` writes both rows in one transaction;
`mark_failure` and `mark_job_failure` count the attempt and set a back-off.
Interacts with `queue_send` and the status webhook through the rows, with Meta
over HTTP. Hard: two workers with one snapshot; a claim taken over after ten
minutes although its worker is only slow (the HTTP client has no timeout); a
crash between the statements; an answer lost after Meta accepted. Correct when
the claim is a lock, outcomes are final, retries are bounded and counted, no
delivered message is shown as failed, and every job ends.

**Chat sending** — `api/routes/chat.rs`, `application/messaging/chat_use_cases.rs`.
`queue_send` finds the account, finds or inserts contact and conversation,
inserts the message, dates the conversation and inserts the job: up to six
statements without a transaction. `send_upload` resolves the tenant's storage
first, puts the file between message and job, and deletes the message when a
later statement fails. Hard: two requests, or a request and a webhook, on one
new phone number; settings that change under a request; an insert that was
executed and not answered; a task dropped half-way. Correct when a job is whole
(message, account, file and URL belong together), the client is told the truth,
and clean-up never takes a job's message.

**Inbound webhook** — `api/routes/whatsapp_webhook.rs`,
`application/messaging/webhook_use_cases.rs`. `receive` resolves tenant and
account, hands each message to `handle_inbound_message` (contact, conversation,
message, media, date of the conversation, broadcast) and answers 200 whatever
became of them. Hard: Meta delivers again what it has no answer for, perhaps
while the first call runs; first contacts race for the unique keys; a task dies
between the row and its broadcast. Correct when a message is stored and
broadcast once, its rows are there when it is broadcast, one bad message does
not stop the others, and a user's name for a contact is kept.

**Status webhooks** — `handle_status_update`. Finds the message by its WhatsApp
id and writes the reported status by row id: any that `MessageStatus::parse`
knows, but not a failure of a message with an id. Hard: reports arrive late,
twice, out of order, before the worker has stored the id, or while it writes, and
may say `received` or `queued`. Correct when nothing but such a report takes a
sent message out of the success statuses, and nothing takes its id.

**WebSocket hub and sessions** — `infrastructure/websocket/`,
`api/routes/websocket.rs`. Actors with a mailbox each. The hub maps tenant (and
conversation) to the recipients of live sessions; a session sends `Connect` in
`started`, `Disconnect` from the heartbeat and again from `stopping`, and times
out after 10 s. Hard: the two `Disconnect`s, broadcasts queued to a session that
is going, ids. Correct when a session is written every later message of its
subject, in order, once and no other, and when gone sessions leave the tables.

**Authentication and RBAC** — `api/middleware/auth_extractor.rs`,
`application/auth/rbac.rs`. Loads the user, then role ids, permission ids and
codes in separate queries per request. Hard: roles change between the queries.

**Tenant, user and role administration** — `api/routes/admin.rs`,
`src/bin/seed_admin.rs`. Tenants with default roles, users, role assignment, role
permissions; seeding of the catalogue and the first superadmin. Hard:
`set_role_permissions` deletes all rows of a role before it validates and
re-inserts; `assign_user_role` compares rows and links them later; seeding goes
on after an insert that failed. Correct when nobody acts outside the tenant, a
role has the codes last asked for or none, and default roles stay as they are.

**Contacts and tags** — `api/routes/contacts.rs`. Patch a contact, attach and
detach tags, create a tag on first use. Hard: two first uses of one name, two
patches of one contact. Correct when a link a client was told of stays, and
patches of different columns do not undo each other.

**Tenant settings and object storage** — `application/tenants/settings_use_cases.rs`,
`api/routes/settings.rs`, `infrastructure/storage/object_storage.rs`. WhatsApp
accounts, at most one storage configuration per tenant, files under tenant-scoped
keys. Hard: a request that has read them before they change.

**Domain entities and services** — `src/domain/messaging/`. Entities with
documented invariants, `ChatService` and `OutboxService` over repositories that
the source declares and does not implement; the binaries write rows directly.
Hard: entities are saved whole, long after they were loaded. Correct when rows
always load again and the services keep the same promise as the worker.

**Paged lists** — `chat_use_cases.rs`. Conversations, messages of a contact,
search. Hard: rows come, move and go between two pages.

**The rest** — validation, DTOs, login, configuration, JWT, passwords: no
concurrent state.

`PROJECT.json` lists the same components with their sources, and under
`hazards` each hard behaviour at its line with the property that covers it.

## Modules and code

| module | models |
|---|---|
| `OutboxWorker` | worker, the two inserts of `queue_send`, the clock, faults |
| `Delivery` | abstract promise: transmit, confirm, fail, give up |
| `OutboxDelivery` | the refinement mapping to `Delivery`, fairness, liveness |
| `OutboxInvariant` | the inductive invariants `IInv` (prompt workers) and `IInv1` (one worker) |
| `Messaging` | `OutboxWorker` composed with concurrent status webhooks |
| `Inbound` | inbound webhook, the rows `queue_send` creates first, a user renaming a contact |
| `ChatSend` | `queue_send` and `send_upload` statement by statement, with the settings and the storage they read |
| `Broadcast` | abstract promise of the hub: publish, join, write, leave |
| `ChatHub` | hub and sessions, and the refinement mapping to `Broadcast` |
| `DomainOutbox` | the domain services and entities, and their refinement mapping to `Delivery` |
| `Rbac` | the extractor, the admin requests, `seed_admin` |
| `ContactTags` | patches, tags and their links |
| `Paging` | a client reading a list that changes |
| `TenantApi` | `Rbac`, `ContactTags`, `ChatSend` and `Paging` as parts of one API |
| `OutboxProofs`, `MessagingProofs`, `InboundProofs`, `ChatHubProofs`, `RbacProofs`, `ChatSendProofs`, `DomainProofs` | theorems about the module of that name |
| `TenantApiProofs` | theorems about `Paging`, about `ContactTags`, and about `TenantApi` as their composition with `Rbac` and `ChatSend` |
| `MC…` | instances for TLC |

**Grain.** One step is one SQL statement (or the one transaction), one exchange
with Meta or with the storage, or the handling of one mailbox message. A task can
be preempted, dropped or hit by an error between any two. A statement that was
executed although its caller saw an error is the step followed by a fault, or,
where the caller goes on, an action of its own (`InsertJobFailed`,
`LinkAnswerLost`).

**OutboxWorker.** `job[j]` and `msg[j]` are the rows with id `j`; `queue_send`
inserts them one for one. `pc[w]` is the next statement of `process_job`,
`batch[w]` the snapshot of rows a poll returned, `held[w]` what the worker has
read of its job: the attempts after the claim, the WhatsApp id the message had
then, the id Meta returned. Outcomes are written by row id with no check of the
claim, as in the code. `accepted[j]` is Meta's side: how many sends it accepted,
the n-th with id n. `now` counts whole seconds, as DATETIME does, which is what
makes the compare-and-set coarse. `unrecorded` and `torn` are history variables
that no action reads. Payload, `last_error` and the kind of message are left
out; a payload that `send_job` refuses is `SendRefused`.

**Messaging.** `report[r]` is what a task of `handle_status_update` has decided
to write. `FindMessage` is the look-up with the early returns (no row, unknown
status, failure of a message with an id); `WriteStatus` the update, which the
database in strict mode refuses for `sending`, a status that is parsed and that
the ENUM of `messages.status` lacks (`migrations/005_messages_status_queued.sql`);
`DropReport` that refusal, another error or a dropped task. Any report for any
accepted send can come at any time, repeatedly, and say any of the eight words
of `Reported`. `recalled` is history: the messages whose last written report said
`received` or `queued`; `DoneIsShown` and `StatusMachine` say that only such a
report takes a message out of the success statuses.

**Inbound.** A task (`handler[h]`) is a webhook call or a request to send. A
phone is a number as one tenant knows it: all queries and unique keys start with
the tenant. `contact[q]` is where the name comes from, `conv[q]` what set
`last_message_at`, `stored[m]` the row of a message. `Insert…` succeeds or is a
`…Conflict` by the unique key, exactly as the row is absent or there. `Deliver`
may repeat a call while the earlier one runs. Messages of a payload are handled
in any order. `dropped` and `torn` are history variables, `known` is a history
field: whether contact and conversation existed when the message was taken up.
The tenant and account look-ups are one step; download, storage and row update
of media are one step that succeeds or fails (the message is then kept without
media). `conversations.contact_name` and the date itself are abstracted; a
database in strict mode refuses a `msg_type` outside its ENUM
(`migrations/001_whatsapp_tables.sql:17`), which is `Unsupported`.

**ChatSend.** `send[k]` holds the locals of a request: the storage it resolved,
the account it found, its message. `smessage`, `job` and `files` are what it
writes, `accounts` and `storage` what other requests change meanwhile. A file is
known by its bucket and message, its URL by its base and message, because the key
holds their ids; so it matters, and is checked, that file and URL come from the
same configuration. `cleanup_message` is refused by the foreign key of a job, and
its own error is ignored, as in the code. `answer`, `leftover`, `lost` and
`inForce` are history. Contact and conversation are `Inbound`'s and count here as
one look-up that may fail.

**ChatHub.** `hub` and `mail[s]` are mailboxes, `globalSessions` and
`conversationSessions` the hub's maps, `session[s]` the record of a session with
its actor state. `age` counts heartbeat intervals since the last sign of life: a
client is late after two, give or take the jitter of the timer. Messages to an
actor that has stopped are dropped; a context told to stop handles nothing more.
`Publish` is the webhook, which broadcasts what it has stored; the routes that
send do not. `log`, `from`, `wrote` are history and the
variables of `Broadcast`.

**DomainOutbox.** `message[j]` and `outbox[j]` are rows; `worker[w]` holds the
entities a caller of `OutboxService` has loaded, `receiver[r]` those found for a
report. A method of an entity is an operator from a value to a value with its
refusal as a guard (`MayFail`, `MayUpdate`). A save writes the whole row. The
repositories are modelled from their documentation in `domain/messaging/repositories`
and marked external. A report may carry any status of `MessageStatus`;
`update_status` refuses some of them, and `recalled` is history as in `Messaging`.
Unlike the worker, `mark_failure` of `OutboxService` saves
the message as failed at every failure, while `domain/messaging/errors.rs:102`
describes that status as "after max retries"; the model follows the code.

**Rbac.** `task[k]` holds the locals of a request, from the three reads of the
extractor on; `granted[r]` stands for `role_permissions`, `member` for
`user_roles`. `SetDelete`, `SetFound` or `SetRefused`, and one `SetInsert` per
code are `set_role_permissions`; `seed_default_tenant_roles` runs it for each
default role. A find and an insert are one step where only the unique key can
come between them. `seed_admin` is `seeder`. History: `asked`, `torn`, `skipped`.
E-mail addresses are left out, as a user is named by its row: `UpdateUser` does
not have the change of address (`admin.rs:429`), and an address that is taken is
a statement that fails. `RoleKeys`, the key of role names, is part of `RTypeOK`
and is not assumed of a step: it follows from the unique key as `SeedInsert`,
`CreateRole` and `UpdateRole` meet it.

**ContactTags.** `ctask[k]` holds the locals of a request. The unique keys of
`tags` and `contact_tags` turn the second insert into a conflict. `contact[c]`
records per column which request wrote it last; `promised` and `last` are
history.

**Paging.** `present` and `stamp` are the rows that match and their order,
`reader` the client. A page is any that OFFSET and LIMIT may return, rows of one
stamp in any order. Inserts, new dates and clean-ups come between pages. The
handlers cap `per_page` at 100 and have no lower bound: a client that asks for 0
gets empty pages which are not short, and reads on until `MaxPages`.

**TenantApi.** The four parts above read none of each other's variables, so each
is run by itself: a first choice of `part` keeps TLC from multiplying states that
cannot influence each other. By this construction each behaviour of `ApiSpec` is
one of `RSpec`, of `CSpec`, of `SSpec` and of `PSpec` (lemma `PartsRunAlone`,
which says nothing of the code), and the theorems about those carry over
(`ApiKeepsItsPromises`).

Definitions commented "Mutant" are plausible mistakes in the code and are no
part of the specification: each property is checked to fail when its mutant
replaces the definition after it.

## Runs

| run | instance | states | shows |
|---|---|---|---|
| `one_worker` | 1 worker of any speed, 2 jobs, 1 report task, 1 fault | 1,499,125 | the docker-compose deployment: what users see agrees with the job until a report takes it back; back-off kept; status state machine; workers keep receipts |
| `two_workers` | 2 prompt workers, 1 job, 1 fault | 23,321 | the claim is a lock, outcomes final, sends bounded, `Delivery` implemented |
| `slow_workers` | 2 workers of any speed, 1 job, 2 report tasks | 1,300,446 | what holds without fencing |
| `liveness` | 1 worker, 2 jobs, batch of 1, 2 faults | 45,685 | every job settles, its message shows it |
| `inbound_race` | 3 tasks, 1 new phone, 2 messages, 2 deliveries each, 1 send, 1 fault | 1,495,188 | all interleavings of a first contact |
| `inbound_liveness` | 2 tasks, one payload with media and unsupported type | 131,694 | every call is answered, every message stored or logged |
| `hub` | 2 sessions, 2 messages, 1 client that may vanish | 571,444 | `Broadcast` implemented, ended sessions forgotten, for good and in the end |
| `domain` | 2 prompt workers, 1 job, 1 receiver, 1 fault | 42,794 | rows always load, done means sent, `Delivery` implemented |
| `tenant_api` | 2 requests, 2 tenants, per part | 816,765 | isolation of tenants, role permissions, tags and patches, whole jobs and true answers, complete lists |
| `overlap`, `late_failure`, `same_second` | 2 workers, 1 job | — | the three findings |

**Bounds.** `MaxAttempts` 2 instead of 5 still has a first, a last and one more
attempt; `Backoff` is scaled to 1, 2, 2, 3 and `StaleAfter` to 2 or 3, so that
back-off, takeover and second attempt all fall within `MaxTime` (3 for
`one_worker`, 4 or 6 with two; 20 under fairness, where the clock only moves
when workers are idle). Two workers suffice for every race over one claim, since
a third only repeats a role; two jobs let one wait behind the other in a batch of
one. `BatchLimit` stands for 10. `MaxFaults` bounds crashes and database errors,
not Meta's refusals and lost answers, which are unbounded by themselves. In
`Inbound`, three tasks allow a delivery, its repetition and a user's request at
once on one phone; other phones share no row.

In `hub`, one session may listen to a whole tenant and the other to a
conversation of the same tenant, of another, or one that is not its own (which
the route refuses); two messages have an order and a repetition to get wrong. In
`tenant_api` two requests overlap everywhere, from the empty or from a used
database, with `MaxRequests` 2, `MaxSeedings` 1 and one fault in administration;
`MaxTagRequests` 3 allows two overlapping requests and one before or after them;
`MaxSends` 2 with `MaxChanges` 3 changes of settings and two faults cover a send
whose clean-up fails too; `Rows` 3 with `PerPage` 2 and clients that ask for 1 or
3 give lists of one to three pages, with three edits among them; one that asks
for 0 comes to no end, and `MaxPages` 4 ends only that one, since no list fills
four pages.

One report task in `one_worker` suffices for its properties: a report is one
write, so that two pending ones differ from two in turn only in what was looked
up before, and the look-up's answer (a row with that id) stays true; that two
tasks may hold contrary statuses at once is in `slow_workers`.

Symmetry is declared in safety runs only, on identities that no definition
names. The proofs below have none of these bounds.

`CHECK_DEADLOCK FALSE` everywhere: when all jobs are settled, all messages
handled, all requests made or the bound of the clock is reached, the system
rightly stops.

**Fairness.** A worker is a loop that polls every two seconds and that docker
restarts (`restart: unless-stopped`): weak fairness of each worker's `Step`. An
exchange with Meta ends somehow: this is an assumption, since the client sets no
timeout (`sender.rs:25`). In `Inbound`, a runnable task runs on: weak fairness
of its `Step`; Meta calls again for what has no 200
(`whatsapp_webhook.rs:178`): weak fairness of `Deliver` per payload. Faults and
submissions are not fair, and faults are finitely many; `MaxDeliveries` is
above `MaxFaults`, so that the bound never stands for Meta giving up. In
`ChatHub`, actix polls every actor that has mail, a due timer or a stop: weak
fairness of the hub's mail handling and of each session's `Started`, heartbeat,
`Deliver` and `Stopping` (`HFairness`). Clients are not fair.

**Prompt.** With `Prompt = TRUE` no worker is still busy `StaleAfter` seconds
after its claim. The code hopes for it and does not enforce it; runs and theorems
that need it say so, and `slow_workers` and `overlap` show what it buys.

## Where the code and its documentation disagree

- `overlap` (24 steps): a worker overtaken after the cutoff writes `failed` over
  a message that the other delivered, against README line 122 ("prevents
  wa_message_id + failed state"). `mark_failure` tests the id as read before
  the send.
- `late_failure` (17 steps): `mark_failure` releases the job before it writes the
  message. With a second worker, however prompt, the next attempt can succeed in
  between, and the message of a done job ends as queued. The domain service
  saves in the other order and does not have this (`DoneIsSent`). The run has no
  reports, so nothing but a worker can have taken the status back.
- `same_second` (10 steps): a job claimed, failed and pending again within one
  second has the stamp of an older snapshot, whose compare-and-set then takes it
  before its back-off is over.

All three need a second worker; docker-compose runs one, and the properties hold
there (`one_worker`, and theorems `DoneIsShownAsSent`, `DoneStaysShown`,
`InductiveOneWorker`, `BackoffIsKept`). Nothing in the code prevents the second: README describes
starting a worker container by hand.

## What is proved

For every set of workers, jobs, receivers, phones, messages, payloads, tasks,
tenants, sessions, conversations, users, roles, codes, contacts, tags, accounts,
buckets and rows, and every value of the numeric constants allowed by the
ASSUMEs, TLAPS checks (`tlapm OutboxProofs.tla`, and so on):

- **Outbox.** `TypeCorrect` unconditionally. Under `Undisputed` (prompt workers,
  or a single one) `Inductive` and from it `ClaimIsExclusive`,
  `NeverFailedWithWa`, `DoneExactlyWhenDelivered`, `SendsAreBounded`,
  `GivenUpExactlyAtLimit`, `SettledStaysSettled`, `AttemptsAreCounted`, and the
  refinement `OutboxImplementsDelivery`. For one worker of any speed
  `InductiveOneWorker`, `DoneIsShownAsSent`, `FailureIsShown`.
- **Messaging.** `SuccessAlwaysHasWa` and `DeliveredKeepsWa` for any workers,
  however slow; `MessagingInductive` and `ReportsNeverFail` when undisputed;
  `MessagingInductiveOneWorker`, `DoneStaysShown`, `StatusFollowsMachine`,
  `WorkersKeepReceipts` and `BackoffIsKept` for one worker. `DeliveredKeepsWa` is
  about the id alone: the status may be taken back, by a late worker or by a
  report of `received` or `queued`.
- **Inbound.** `InboundInductive` and from it `AnnouncedAtMostOnce`,
  `AnnouncedAfterRows`, `StoredGetsAnnounced`, `ConversationsAreWhole`,
  `KnownAlwaysStored`, `NamesAreKept`, with any number of concurrent tasks.
- **Hub and sessions.** `HubInductive` and from it `HubTypesCorrect`,
  `SessionsForgotten`, `NoMessageMissed`, and the refinement
  `HubImplementsBroadcast`.
- **Contacts and tags.** `TagsInductive`, `TagsTypeCorrect`, `TagsAreKept`,
  `PatchesAreKept`.
- **Administration.** From any database `DatabasesAssumption` allows:
  `RowsInductive`, `RbacTypesCorrect`, `RolesAreOfTenant`, `TenantsAreIsolated`,
  `CodesAreAsAsked`, `SystemRolesStay`.
- **Sending.** `SendInductive`, `SendTypesCorrect`, `JobsAreWhole`,
  `AnswersAreTrue`.
- **Paged lists.** `PagesInductive`, `PagingTypes`, `PagesAreComplete`.
- **The API as a whole.** `ApiTypesCorrect` and `ApiKeepsItsPromises`: what the
  four parts promise, for `ApiSpec`.
- **Domain services.** `RowsAlwaysParse` for workers of any speed; when
  undisputed `DomInductive`, `DoneIsAlwaysSent` and the refinement
  `ServicesImplementDelivery`.

**The argument for the outbox.** `ClaimExclusive` is not inductive: an old
snapshot might match the row of a running claim. `SnapshotInv` says a snapshot
is of a pending row or of one already stale when it was taken; `ClockInv` says a
prompt worker's claim is younger than that. So the stamps differ, and no
snapshot matches an owned row. `HeldInv` carries what the owner has read,
`RowInv` ties status and attempts, and `SendsInv` charges each accepted send to
a counted attempt, a success, an answer in hand or a claim lost to a fault. With
one worker, `FailMessageInv` says nobody moves the job between the two
statements of `mark_failure`, and `BatchFresh` that what a poll returned is still
so until the worker itself writes the row: hence the back-off is kept. The step
proofs sort the actions into kinds (what they do to rows, owners and snapshots),
and each conjunct is proved per kind.

**With reports.** Receivers write only to messages that have an id, whose jobs
are done (`ReportInv`), so they do not disturb `IInv`. With one worker
`DoneIsShown` joins the invariant: `MarkSuccess` sets the status of a job that no
report can have named before, `WriteStatus` keeps `recalled` in step with what it
writes, and `FailMessageInv` keeps a failure from a message whose job is done.

**The argument for inbound.** There is no lock. `RowsGrow` says contacts,
conversations and messages appear and are never removed, and dates are never
unset; so what a task has seen stays true (`LocalInv` is stable under the steps
of the others). For the broadcast, each step either moves no message between
hands, begins one (by the insert, which the unique key lets succeed once) or
ends one (by the broadcast or a fault); `AnnouncedOnce` and `StoredIsAnnounced`
follow from these three.

**The arguments for the API** have the same shape: there is no lock, but what
requests rely on only grows. *Tags* are never deleted (`TagsGrow`), so the tag a
request found is there when it links it (`RequestOK`). *Roles* never leave their
tenant or cease to be system roles, and a user leaves a tenant only to become a
superadmin of none (`Grow`); so a comparison of user and role made before the
link is written stays good enough. Names of roles are checked again, by the
unique key, in the statement that writes them, so `RoleKeys` is kept by each
such step alone. The codes of a role are followed through the gap between DELETE
and INSERTs by `CodesOK`: codes granted and codes still to insert make up the
codes asked for, as long as one request writes; `CatalogueInv` says why a
default role finds all its codes. *Sending*: accounts keep their tenant, files
stay, storages once used stay known (`Grown`); a message is in the hands of at
most one request (`HandsInv`), so that each step touches one message (`Only`),
for which `WholeJob` and `Accounted` are proved.

**The argument for the domain services.** Entities are saved whole, so the
invariant is about every copy of one, in a row, with a worker, with a receiver:
`CopiesInv` needs no assumption on speed. That an outcome is not saved over needs
`ClaimInv`: an owner's copy of the job is the row, and nobody owns what a claimant
has found ready (`NobodyOwns`). `SentInv` then follows a success from the
message to the job.

**The argument for the hub.** `NothingMissed` and the refinement are about what
a client is written, but what decides it is where notices stand in the hub's one
mailbox. A `Connect` that waits divides the messages there in those published
before it was sent and those after (`ConnectInv`); once it is handled, only later
ones are left (`ConnectedInv`). While a session runs, no `Disconnect` of it waits
and it is in its table or about to be (`OpenInv`); when it has stopped and is in
its table, or about to be, a `Disconnect` is behind (`GoneInv`), which is why a
second one does no harm and the table forgets it. Tables and notices name a
session as it is (`TablesInv`, `NoticesInv`), so an id, used once (`IdsInv`),
removes no other. Messages leave the hub in the order of the log (`PendingInv`);
hence what was written to a client, what waits in its mailbox and what waits in
the hub's are three successive stretches of the log (`MailInv`), and each
`Deliver` writes the next message of the subject that `Broadcast` asks for. All
parts of `HubInv` also hold on the instance of run `hub`.

**The argument for lists.** `PagesComplete` alone says nothing until the last
page. `UnseenAhead` does: a row that has not moved, ties with none and was not
seen has at least as many rows ahead of it as the pages so far have skipped. Rows
that come in only make them more; rows ahead that are dated anew move away from
the end; only rows that go back or away make them fewer, which is what `calm`
excludes. A query lists every row once (`ListingIsComplete`, by the pigeonhole
principle on finite sets), and the place of a row that ties with none is the
number of rows ahead of it plus one (`PlaceInListing`). So a page either holds
the row, or ends before it, and then is full (`PageOfListing`): the next one is
asked for, and the row is still ahead.

**Assumptions.** Besides the numeric constants and the contents of the database:
there is a tenant (`HubAssumption`), the rows there may ever be are finite
(`PagingAssumption`), and marks such as `NoRow` are no rows. TLC evaluates all of
them in the runs.

**Only model-checked:** liveness under fairness (`EventuallySettled`,
`EventuallyShown`, `EventuallyHandled`, `EventuallyForgotten`), which is beyond the
prover. Every invariant, action property and refinement that a passing run checks
is also a theorem, with the hypothesis (prompt workers, one worker) that the run's
instance fixes.

## What is not modelled

- Login, the JWT, hashing and configuration; DTOs, serialisation and validation
  of fields (a request they refuse is a refusal of the model); the entities of
  contacts, conversations, tenants and users, which only validate.
- What payloads and media contain, keys and signatures of the storage, file I/O:
  a put or a download succeeds or fails.
- `list_contacts` (`application/contacts/contact_use_cases.rs`): it pages without
  an ORDER BY, so no completeness can be stated of it. The total that lists carry
  comes from a query before the page and is left out.
- The order of dates: `last_message_at` may go back when messages are handled out
  of order, and a report of `delivered` may overwrite `read`, or one of `queued`
  overwrite `sent`. The code promises no order and the models allow all of these;
  `PagesComplete` and `DoneIsShown` say what may still be expected. A report that arrives before the worker has stored the id finds
  no row and is lost, which the models allow as well.
- Deleting rows: no route of the modelled components deletes rows that others
  refer to, except `cleanup_message`.
- Isolation levels: single statements are atomic in MySQL, and the one
  transaction writes two rows by id without reading.

## Plan

Done: the outbox with its refinement (`OutboxWorker` to `OutboxProofs`), status
webhooks (`Messaging`), the inbound webhook (`Inbound`), hub and sessions
(`ChatHub`), administration (`Rbac`), contacts and tags, sending with settings and
storage (`ChatSend`), paged lists, the domain services, their composition in the
API of a tenant, and the proofs listed above, which cover every safety property
and every refinement of the passing runs.

Left, in this order:

1. What `IInv` needs of promptness alone: which parts of it hold for workers of
   any speed, beyond `TypeCorrect`, `DeliveredKeepsWa` and `RowsAlwaysParse`.
2. That `Broadcast` gives each client a subsequence of the log from its join on,
   stated of `Broadcast` itself and carried to the hub by the refinement.
3. A composition of `ChatHub` with `Inbound`'s broadcast, so that a stored message
   can be followed to the client.
