---------------------------- MODULE OutboxWorker ----------------------------
(***************************************************************************)
(* The outbox of CRM-Bro (src/bin/worker.rs) and the two rows it shares    *)
(* with the API: a row of outbox_messages (a "job") and the row of         *)
(* messages it delivers.  The API inserts both; worker processes poll the  *)
(* jobs, claim one with a compare-and-set, send the message to the         *)
(* WhatsApp API of Meta and write the outcome back.                        *)
(*                                                                         *)
(* One step is one statement (or one transaction) of the database, or one  *)
(* exchange with Meta: workers interleave between them, may crash between  *)
(* them, and the clock may advance between them.                           *)
(*                                                                         *)
(* Every job has the message of its own number: queue_send inserts them    *)
(* one for one, and a foreign key keeps the message as long as the job.    *)
(***************************************************************************)
EXTENDS Integers, FiniteSets

CONSTANTS
  Workers,      \* worker processes
  Jobs,         \* ids that AUTO_INCREMENT can hand out
  MaxAttempts,  \* MAX_ATTEMPTS: failures after which a job is given up
  Backoff,      \* RetryDelaySeconds as a table: <<10, 30, 60, 300>> in the code
  StaleAfter,   \* seconds after which a claim may be taken over (600)
  BatchLimit,   \* jobs read by one poll (10)
  Prompt,       \* TRUE: no worker is still busy StaleAfter seconds after a claim
  MaxTime,      \* bound of the clock
  MaxFaults     \* bound on crashes and database errors

ASSUME JobsAssumption     == Jobs \subseteq Nat \ {0}
ASSUME AttemptsAssumption == MaxAttempts \in Nat \ {0}
ASSUME BackoffAssumption  == Backoff \in [1..4 -> Nat]
ASSUME StaleAssumption    == StaleAfter \in Nat \ {0}
ASSUME PromptAssumption   == Prompt \in BOOLEAN
ASSUME BoundsAssumption   == BatchLimit \in Nat /\ MaxTime \in Nat /\ MaxFaults \in Nat

VARIABLES
  now,         \* the clock; a DATETIME column keeps whole seconds
  job,         \* rows of outbox_messages
  msg,         \* rows of messages
  pc,          \* where each worker is in process_job
  batch,       \* the rows its last poll returned and it has not taken up yet
  held,        \* the job it has claimed, with what it has read of its rows
  accepted,    \* Meta: how many sends of a job it accepted; the n-th has id n
  faults,      \* crashes and database errors so far
  unrecorded,  \* history: claims of a job that ended without any write
  torn         \* history: jobs given up without their message being marked

rows    == <<job, msg>>
history == <<unrecorded, torn>>
vars    == <<now, job, msg, pc, batch, held, accepted, faults, unrecorded, torn>>

NoJob == 0
NoWa  == 0    \* messages.wa_message_id IS NULL

JobStatus     == {"none", "pending", "processing", "done", "failed"}
MessageStatus == {"none", "received", "queued", "sent", "delivered", "read", "failed"}

\* Where a worker can be while the job it claimed is its own to write, and in all.
Owning   == {"reload", "load_message", "load_account", "send", "mark_success",
             "fail_job", "fail_job_only"}
Location == Owning \cup {"ready", "fail_message"}

JobRow     == [status : JobStatus, attempts : Nat, next_attempt_at : Nat, updated_at : Nat]
MessageRow == [status : MessageStatus, wa_message_id : Nat]
Snapshot   == [id : Jobs, status : JobStatus, next_attempt_at : Nat, updated_at : Nat]
Claimed    == [id : Jobs \cup {NoJob}, since : Nat, attempts : Nat,
               wa_read : Nat, wa_sent : Nat]

NoClaim == [id |-> NoJob, since |-> 0, attempts |-> 0, wa_read |-> NoWa, wa_sent |-> NoWa]

Owns(w, j) == pc[w] \in Owning /\ held[w].id = j
OneWorker  == \A v, w \in Workers : v = w

(***************************************************************************)
(* One type invariant.                                                     *)
(***************************************************************************)
\* Every row, snapshot and program counter holds a value of its column or
\* type, and a worker past its claim names a job.
TypeOK ==
  /\ now \in Nat
  /\ job \in [Jobs -> JobRow]
  /\ msg \in [Jobs -> MessageRow]
  /\ pc \in [Workers -> Location]
  /\ batch \in [Workers -> SUBSET Snapshot]
  /\ held \in [Workers -> Claimed]
  /\ \A w \in Workers : pc[w] # "ready" => held[w].id \in Jobs
  /\ accepted \in [Jobs -> Nat]
  /\ faults \in Nat
  /\ unrecorded \in [Jobs -> Nat]
  /\ torn \in SUBSET Jobs

Init ==
  /\ now = 0
  /\ job = [j \in Jobs |-> [status |-> "none", attempts |-> 0,
                            next_attempt_at |-> 0, updated_at |-> 0]]
  /\ msg = [j \in Jobs |-> [status |-> "none", wa_message_id |-> NoWa]]
  /\ pc = [w \in Workers |-> "ready"]
  /\ batch = [w \in Workers |-> {}]
  /\ held = [w \in Workers |-> NoClaim]
  /\ accepted = [j \in Jobs |-> 0]
  /\ faults = 0
  /\ unrecorded = [j \in Jobs |-> 0]
  /\ torn = {}

(***************************************************************************)
(* The API side, queue_send: two inserts and no transaction.  A request    *)
(* that dies in between leaves a queued message that no job will send.     *)
(***************************************************************************)
\* Mutant: the status of the outbox column instead of the message column.
CreateQueuedMessageAsPending(j) ==
  /\ msg[j].status = "none"
  /\ msg' = [msg EXCEPT ![j] = [status |-> "pending", wa_message_id |-> NoWa]]
  /\ UNCHANGED <<now, job, pc, batch, held, accepted, faults, history>>

CreateQueuedMessage(j) ==
  /\ msg[j].status = "none"
  /\ msg' = [msg EXCEPT ![j] = [status |-> "queued", wa_message_id |-> NoWa]]
  /\ UNCHANGED <<now, job, pc, batch, held, accepted, faults, history>>

CreateOutbox(j) ==
  /\ msg[j].status = "queued"
  /\ job[j].status = "none"
  /\ job' = [job EXCEPT ![j] = [status |-> "pending", attempts |-> 0,
                                next_attempt_at |-> now, updated_at |-> now]]
  /\ UNCHANGED <<now, msg, pc, batch, held, accepted, faults, history>>

(***************************************************************************)
(* run_once: one SELECT, then the rows in order, one after the other.      *)
(***************************************************************************)
Due(j)   == job[j].status = "pending" /\ job[j].next_attempt_at <= now
\* Mutant: no recovery of claims.
StaleNever(j) == FALSE

Stale(j) == job[j].status = "processing" /\ job[j].updated_at + StaleAfter <= now

\* Mutants: next_attempt_at only sorts the rows, it does not filter them; the
\* status is not tested.
ReadyAnyStatus       == {j \in Jobs : job[j].status # "none" /\ job[j].next_attempt_at <= now}
ReadyIgnoringBackoff == {j \in Jobs : job[j].status = "pending" \/ Stale(j)}

Ready == {j \in Jobs : Due(j) \/ Stale(j)}

SnapshotOf(j) == [id |-> j, status |-> job[j].status,
                  next_attempt_at |-> job[j].next_attempt_at,
                  updated_at |-> job[j].updated_at]

\* ORDER BY next_attempt_at, id
Before(r, s) ==
  \/ r.next_attempt_at < s.next_attempt_at
  \/ r.next_attempt_at = s.next_attempt_at /\ r.id < s.id

FirstOf(S) == {s \in S : Cardinality({r \in S : Before(r, s)}) < BatchLimit}

Poll(w) ==
  /\ pc[w] = "ready"
  /\ batch[w] = {}
  /\ Ready # {}
  /\ batch' = [batch EXCEPT ![w] = FirstOf({SnapshotOf(j) : j \in Ready})]
  /\ UNCHANGED <<now, rows, pc, held, accepted, faults, history>>

(***************************************************************************)
(* mark_processing: UPDATE ... WHERE id, status and updated_at are those   *)
(* of the snapshot, then a second statement that re-reads the row.         *)
(***************************************************************************)
\* Mutants: half of the compare-and-set.
UnchangedStatusOnly(s) == job[s.id].status = s.status
UnchangedStampOnly(s)  == job[s.id].updated_at = s.updated_at

Unchanged(s) == job[s.id].status = s.status /\ job[s.id].updated_at = s.updated_at

\* The next row of the batch that w takes up.
IsNext(w, s) ==
  /\ pc[w] = "ready"
  /\ s \in batch[w]
  /\ \A r \in batch[w] \ {s} : Before(s, r)

Claim(w) == \E s \in batch[w] :
  /\ IsNext(w, s)
  /\ Unchanged(s)
  /\ job' = [job EXCEPT ![s.id].status = "processing", ![s.id].updated_at = now]
  /\ pc' = [pc EXCEPT ![w] = "reload"]
  /\ held' = [held EXCEPT ![w] = [NoClaim EXCEPT !.id = s.id, !.since = now]]
  /\ batch' = [batch EXCEPT ![w] = @ \ {s}]
  /\ UNCHANGED <<now, msg, accepted, faults, history>>

\* rows_affected is 0: another worker was faster.
ClaimLost(w) == \E s \in batch[w] :
  /\ IsNext(w, s)
  /\ ~Unchanged(s)
  /\ batch' = [batch EXCEPT ![w] = @ \ {s}]
  /\ UNCHANGED <<now, rows, pc, held, accepted, faults, history>>

Goto(w, from, to) == pc[w] = from /\ pc' = [pc EXCEPT ![w] = to]

\* Mutant: the attempts are not those of the row.
ReloadForgetsAttempts(w) ==
  /\ Goto(w, "reload", "load_message")
  /\ UNCHANGED <<now, rows, batch, held, accepted, faults, history>>

Reload(w) ==
  /\ Goto(w, "reload", "load_message")
  /\ held' = [held EXCEPT ![w].attempts = job[held[w].id].attempts]
  /\ UNCHANGED <<now, rows, batch, accepted, faults, history>>

(***************************************************************************)
(* process_job between the claim and the outcome.                          *)
(***************************************************************************)
LoadMessage(w) ==
  /\ Goto(w, "load_message", "load_account")
  /\ held' = [held EXCEPT ![w].wa_read = msg[held[w].id].wa_message_id]
  /\ UNCHANGED <<now, rows, batch, accepted, faults, history>>

LoadMessageError(w) ==
  /\ faults < MaxFaults
  /\ Goto(w, "load_message", "fail_job_only")
  /\ faults' = faults + 1
  /\ UNCHANGED <<now, rows, batch, held, accepted, history>>

LoadAccount(w) ==
  /\ Goto(w, "load_account", "send")
  /\ UNCHANGED <<now, rows, batch, held, accepted, faults, history>>

\* The account of the payload was deactivated, or the query failed.
LoadAccountError(w) ==
  /\ Goto(w, "load_account", "fail_job")
  /\ UNCHANGED <<now, rows, batch, held, accepted, faults, history>>

\* Meta accepts the message and its answer, with the new id, arrives.
SendAccepted(w) == LET j == held[w].id IN
  /\ Goto(w, "send", "mark_success")
  /\ accepted' = [accepted EXCEPT ![j] = @ + 1]
  /\ held' = [held EXCEPT ![w].wa_sent = accepted[j] + 1]
  /\ UNCHANGED <<now, rows, batch, faults, history>>

\* Meta accepts the message, but the answer is lost or cannot be parsed.
SendAnswerLost(w) ==
  /\ Goto(w, "send", "fail_job")
  /\ accepted' = [accepted EXCEPT ![held[w].id] = @ + 1]
  /\ UNCHANGED <<now, rows, batch, held, faults, history>>

\* No connection, a status that is not 2xx, or a payload send_job refuses.
SendRefused(w) ==
  /\ Goto(w, "send", "fail_job")
  /\ UNCHANGED <<now, rows, batch, held, accepted, faults, history>>

(***************************************************************************)
(* The outcome.  Rows are written by id alone: nothing checks that the     *)
(* claim is still the worker's.                                            *)
(***************************************************************************)
Release(w) ==
  /\ pc' = [pc EXCEPT ![w] = "ready"]
  /\ held' = [held EXCEPT ![w] = NoClaim]

\* Mutants: mark_success without its job update; without the message status.
MarkSuccessMessageOnly(w) ==
  /\ pc[w] = "mark_success"
  /\ msg' = [msg EXCEPT ![held[w].id] = [status |-> "sent", wa_message_id |-> held[w].wa_sent]]
  /\ Release(w)
  /\ UNCHANGED <<now, job, batch, accepted, faults, history>>

MarkSuccessKeepsStatus(w) ==
  /\ pc[w] = "mark_success"
  /\ msg' = [msg EXCEPT ![held[w].id].wa_message_id = held[w].wa_sent]
  /\ job' = [job EXCEPT ![held[w].id].status = "done", ![held[w].id].updated_at = now]
  /\ Release(w)
  /\ UNCHANGED <<now, batch, accepted, faults, history>>

\* mark_success: message and job in one transaction.
MarkSuccess(w) == LET j == held[w].id IN
  /\ pc[w] = "mark_success"
  /\ msg' = [msg EXCEPT ![j] = [status |-> "sent", wa_message_id |-> held[w].wa_sent]]
  /\ job' = [job EXCEPT ![j].status = "done", ![j].updated_at = now]
  /\ Release(w)
  /\ UNCHANGED <<now, batch, accepted, faults, history>>

RetryDelaySeconds(attempts) ==
  Backoff[IF attempts <= 1 THEN 1 ELSE IF attempts <= 3 THEN attempts ELSE 4]

\* Mutant: the failure is not counted.
AttemptsUncounted(w) == held[w].attempts

Attempts(w) == held[w].attempts + 1

\* Mutants: the limit is one failure late, or one early.
TerminalLate(w)  == Attempts(w) > MaxAttempts
TerminalEarly(w) == Attempts(w) + 1 >= MaxAttempts

Terminal(w) == Attempts(w) >= MaxAttempts

\* The UPDATE of outbox_messages that mark_failure and mark_job_failure share.
WriteJobFailure(w) ==
  job' = [job EXCEPT ![held[w].id] =
            [status          |-> IF Terminal(w) THEN "failed" ELSE "pending",
             attempts        |-> Attempts(w),
             next_attempt_at |-> now + RetryDelaySeconds(Attempts(w)),
             updated_at      |-> now]]

\* mark_failure, first statement.  The message is left alone when the job is
\* given up and the message, as read after the claim, has a WhatsApp id.
FailJob(w) ==
  /\ pc[w] = "fail_job"
  /\ WriteJobFailure(w)
  /\ \/ /\ Terminal(w) /\ held[w].wa_read # NoWa
        /\ Release(w)
     \/ /\ ~(Terminal(w) /\ held[w].wa_read # NoWa)
        /\ pc' = [pc EXCEPT ![w] = "fail_message"]
        /\ UNCHANGED held
  /\ UNCHANGED <<now, msg, batch, accepted, faults, history>>

\* What every version of that statement does around the write.
FailMessageWith(w, row) ==
  /\ pc[w] = "fail_message"
  /\ msg' = [msg EXCEPT ![held[w].id] = row]
  /\ Release(w)
  /\ UNCHANGED <<now, job, batch, accepted, faults, history>>

MessageStatusAfter(w) == IF Terminal(w) THEN "failed" ELSE "queued"

\* Mutants: failed at every failure, as OutboxService::mark_failure does; never
\* failed; the whole row as it was read, not the status column alone.
FailMessageAlways(w) ==
  FailMessageWith(w, [msg[held[w].id] EXCEPT !.status = "failed"])
FailMessageNever(w) ==
  FailMessageWith(w, [msg[held[w].id] EXCEPT !.status = "queued"])
FailMessageWholeRow(w) ==
  FailMessageWith(w, [status |-> MessageStatusAfter(w), wa_message_id |-> held[w].wa_read])

\* mark_failure, second statement: it writes the status column only.
FailMessage(w) ==
  FailMessageWith(w, [msg[held[w].id] EXCEPT !.status = MessageStatusAfter(w)])

\* mark_job_failure: the message could not be loaded, so it is not written.
FailJobOnly(w) ==
  /\ pc[w] = "fail_job_only"
  /\ WriteJobFailure(w)
  /\ torn' = IF Terminal(w) THEN torn \cup {held[w].id} ELSE torn
  /\ Release(w)
  /\ UNCHANGED <<now, msg, batch, accepted, faults, unrecorded>>

(***************************************************************************)
(* Faults and time.                                                        *)
(***************************************************************************)
\* What is lost when w stops working on the job it holds without a write.
Forget(w) == LET j == held[w].id IN
  /\ faults < MaxFaults
  /\ faults' = faults + 1
  /\ unrecorded' = IF pc[w] \in Owning THEN [unrecorded EXCEPT ![j] = @ + 1] ELSE unrecorded
  /\ torn' = IF pc[w] = "fail_message" /\ Terminal(w) THEN torn \cup {j} ELSE torn
  /\ Release(w)

\* The statement w is at fails: process_job returns the error, run_once logs
\* it and goes on with the batch.
DbError(w) ==
  /\ pc[w] \in {"reload", "mark_success", "fail_job", "fail_job_only", "fail_message"}
  /\ Forget(w)
  /\ UNCHANGED <<now, rows, batch, accepted>>

\* The claim UPDATE itself fails: the job is skipped until a later poll.
ClaimError(w) == \E s \in batch[w] :
  /\ IsNext(w, s)
  /\ faults < MaxFaults
  /\ faults' = faults + 1
  /\ batch' = [batch EXCEPT ![w] = @ \ {s}]
  /\ UNCHANGED <<now, rows, pc, held, accepted, history>>

\* The process dies, and docker starts it again (restart: unless-stopped).
Crash(w) ==
  /\ Forget(w)
  /\ batch' = [batch EXCEPT ![w] = {}]
  /\ UNCHANGED <<now, rows, accepted>>

Tick ==
  /\ now < MaxTime
  /\ Prompt => \A w \in Workers : pc[w] # "ready" => now + 1 < held[w].since + StaleAfter
  /\ now' = now + 1
  /\ UNCHANGED <<rows, pc, batch, held, accepted, faults, history>>

Submit(j) == CreateQueuedMessage(j) \/ CreateOutbox(j)

Step(w) ==
  \/ Poll(w) \/ Claim(w) \/ ClaimLost(w) \/ Reload(w)
  \/ LoadMessage(w) \/ LoadAccount(w) \/ LoadAccountError(w)
  \/ SendAccepted(w) \/ SendAnswerLost(w) \/ SendRefused(w)
  \/ MarkSuccess(w) \/ FailJob(w) \/ FailMessage(w) \/ FailJobOnly(w)

Fault(w) == LoadMessageError(w) \/ DbError(w) \/ ClaimError(w) \/ Crash(w)

Next ==
  \/ \E j \in Jobs : Submit(j)
  \/ \E w \in Workers : Step(w) \/ Fault(w)
  \/ Tick

Spec == Init /\ [][Next]_vars

-----------------------------------------------------------------------------
(***************************************************************************)
(* Properties.  A message is "sent" for its readers when its status is one *)
(* of SentStatus; a job is settled when no poll returns it any more.       *)
(***************************************************************************)
SentStatus == {"sent", "delivered", "read"}
Settled    == {"done", "failed"}

\* The claim of mark_processing is a lock: a job has at most one owner, and
\* until the owner writes its outcome the row is as its claim left it.
ClaimExclusive ==
  \A w \in Workers : pc[w] \in Owning =>
    /\ job[held[w].id].status = "processing"
    /\ job[held[w].id].updated_at = held[w].since
    /\ \A v \in Workers \ {w} : ~Owns(v, held[w].id)

\* README, "prevents wa_message_id + failed state": no message that carries the
\* id of an accepted send is shown as failed, whatever the retries did.
WaNeverFailed ==
  \A j \in Jobs : msg[j].wa_message_id # NoWa => msg[j].status # "failed"

\* mark_success is the only way to either: a job is done exactly when its
\* message carries an id, and that id is one Meta handed out for this job.
DoneIffDelivered ==
  \A j \in Jobs :
    /\ job[j].status = "done" <=> msg[j].wa_message_id # NoWa
    /\ msg[j].wa_message_id <= accepted[j]

\* A message whose job is done is shown as sent: no failure written late by an
\* earlier attempt (mark_failure's second statement) hides the delivery.
DoneMeansSent ==
  \A j \in Jobs : job[j].status = "done" => msg[j].status \in SentStatus

\* MAX_ATTEMPTS bounds what the recipient can receive: each accepted send is
\* paid for by a counted attempt, by the success, or by a claim that a crash or
\* a database error ended before it was written.
SendsBounded ==
  \A j \in Jobs : accepted[j] <= MaxAttempts + unrecorded[j]

\* A job is given up exactly when its attempts are used up.
GivenUpAtLimit ==
  \A j \in Jobs : job[j].status # "none" =>
    (job[j].status = "failed" <=> job[j].attempts = MaxAttempts)

\* A job given up is shown to the user: its message is marked failed, or is
\* about to be, unless a fault fell between the two statements of mark_failure.
FailureShown ==
  \A j \in Jobs : job[j].status = "failed" =>
    \/ msg[j].status = "failed"
    \/ j \in torn
    \/ \E w \in Workers : pc[w] = "fail_message" /\ held[w].id = j

\* No worker touches the row of a job that is done or failed: a settled job is
\* never revived, sent again or given another outcome.
SettledIsFinal ==
  [][\A j \in Jobs : job[j].status \in Settled => job'[j] = job[j]]_vars

\* A job is only taken up when the poll condition holds of the row as it is at
\* the claim, not merely of the snapshot: the back-off is kept.
ClaimOnlyReady ==
  [][\A j \in Jobs :
       job'[j].status = "processing" /\ job'[j] # job[j] => Due(j) \/ Stale(j)]_vars

\* Attempts count the failures written: one more with each claim that ends in
\* pending or failed, and no other step adds one or takes one back.
AttemptsCounted ==
  [][\A j \in Jobs : job[j].status # "none" =>
       job'[j].attempts = job[j].attempts +
         (IF job[j].status = "processing" /\ job'[j].status \in {"pending", "failed"}
          THEN 1 ELSE 0)]_vars

(***************************************************************************)
(* What survives even when a worker outlives its claim (Prompt = FALSE).   *)
(***************************************************************************)
\* A delivered message never loses its WhatsApp id again: failure writes the
\* status column only, so that status webhooks still find the message.
WaKept ==
  [][\A j \in Jobs :
       msg[j].wa_message_id # NoWa => msg'[j].wa_message_id # NoWa]_vars

=============================================================================
