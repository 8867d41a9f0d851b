---------------------------- MODULE DomainOutbox ----------------------------
(***************************************************************************)
(* The domain layer of messaging: entities that change by value, services  *)
(* that load one, change it and save it whole, over repositories.          *)
(*                                                                         *)
(*   src/domain/messaging/entities/    Message, Outbox                     *)
(*   src/domain/messaging/errors.rs    the statuses and their invariants   *)
(*   src/domain/messaging/services/    ChatService, OutboxService          *)
(*   src/domain/messaging/repositories/  what a repository promises        *)
(*                                                                         *)
(* The repositories have no implementation in the source: a find reads a   *)
(* row, a save writes every column of a row, claim_job is an optimistic    *)
(* lock, each in one step.  The callers are the workflow OutboxService     *)
(* documents, fetch, claim, send, mark, by any number of workers, and a    *)
(* receiver that applies the reports of Meta to the entities.              *)
(***************************************************************************)
EXTENDS Naturals, FiniteSets

CONSTANTS
  Workers,          \* callers of OutboxService
  Receivers,        \* callers of Message::update_status
  Jobs,             \* messages handed to ChatService, with their jobs
  MaxAttempts,      \* MAX_ATTEMPTS
  Backoff,          \* retry_delay_seconds: four delays
  StaleAfter,       \* is_ready: ten minutes
  Prompt,           \* TRUE: no claim outlives StaleAfter in a worker's hands
  MaxTime,          \* bound on the clock
  MaxFaults         \* bound on failing calls of a repository and on crashes

ASSUME DomainAssumption ==
  /\ Jobs # {} /\ MaxAttempts \in Nat \ {0} /\ StaleAfter \in Nat \ {0}
  /\ Backoff \in [1 .. 4 -> Nat]
  /\ Prompt \in BOOLEAN /\ MaxTime \in Nat /\ MaxFaults \in Nat

VARIABLES
  now,              \* chrono::Utc::now
  message,          \* message[j]: the row of a message
  outbox,           \* outbox[j]: the row of its job
  worker,           \* worker[w]: where a caller of OutboxService is
  receiver,         \* receiver[r]: the message it has found, if any
  accepted,         \* history: accepted[j], the sends Meta has accepted
  faults,           \* faults so far
  recalled          \* history: messages whose last report was none of a sent message

vars == <<now, message, outbox, worker, receiver, accepted, faults, recalled>>

NoWa == 0           \* wa_message_id = None; Meta's ids are 1, 2, ...

SuccessStatus == {"sent", "delivered", "read"}
MessageStatus == {"received", "queued", "sending", "failed"} \cup SuccessStatus
OutboxStatus  == {"pending", "processing", "done", "failed"}

\* The entities.
Message == [status : MessageStatus, wa_message_id : Nat]
Outbox  == [status : OutboxStatus, attempts : Nat, next_attempt_at : Nat, updated_at : Nat]

NoRow == [status |-> "none"]

Places == {"idle", "fetched", "claimed", "success", "save_sent", "save_done",
           "failure", "save_failed", "save_failure"}
Owning == Places \ {"idle", "fetched"}

NoEntity == [status |-> "queued", wa_message_id |-> NoWa]
NoJob    == [status |-> "pending", attempts |-> 0, next_attempt_at |-> 0, updated_at |-> 0]
Idle     == [at |-> "idle", id |-> CHOOSE j \in Jobs : TRUE, job |-> NoJob,
             msg |-> NoEntity, wa |-> NoWa]

DomInit ==
  /\ now = 0
  /\ message = [j \in Jobs |-> NoRow]
  /\ outbox = [j \in Jobs |-> NoRow]
  /\ worker = [w \in Workers |-> Idle]
  /\ receiver = [r \in Receivers |-> {}]
  /\ accepted = [j \in Jobs |-> 0]
  /\ faults = 0
  /\ recalled = {}

-----------------------------------------------------------------------------
(* The entities' methods: a new value, or a refusal.                       *)

\* Message::mark_sent; the ids of Meta are not blank.
MarkSent(m, wa) == [m EXCEPT !.wa_message_id = wa, !.status = "sent"]

\* Message::mark_failed, and what it refuses.  Mutant: it refuses nothing.
MayFailAlways(m) == TRUE
MayFail(m)       == m.wa_message_id = NoWa
MarkFailed(m)    == [m EXCEPT !.status = "failed"]

\* Message::update_status: sent must come from mark_sent, delivered and read
\* need an id, failed is mark_failed.
MayUpdate(m, status) ==
  /\ status # "sent"
  /\ status \in {"delivered", "read"} => m.wa_message_id # NoWa
  /\ status = "failed" => MayFail(m)
UpdateStatus(m, status) == [m EXCEPT !.status = status]

\* Message::from_model accepts a row.
Parses(m) ==
  /\ m.status \in SuccessStatus => m.wa_message_id # NoWa
  /\ m.status = "failed" => m.wa_message_id = NoWa

\* Outbox::new, mark_processing, mark_done, mark_failed, is_ready.
NewJob == [status |-> "pending", attempts |-> 0, next_attempt_at |-> now, updated_at |-> now]

MarkProcessing(o) == [o EXCEPT !.status = "processing", !.updated_at = now]
MarkDone(o)       == [o EXCEPT !.status = "done", !.updated_at = now]

RetryDelaySeconds(attempts) == Backoff[IF attempts \in 1 .. 4 THEN attempts ELSE 4]

\* Mutant: one attempt too many.
RetriedLate(attempts) == attempts <= MaxAttempts
Retried(attempts)     == attempts < MaxAttempts

\* A job that is given up keeps the date of its next attempt.
FailJob(o) ==
  LET attempts == o.attempts + 1 IN
  [status          |-> IF Retried(attempts) THEN "pending" ELSE "failed",
   attempts        |-> attempts,
   next_attempt_at |-> IF Retried(attempts) THEN now + RetryDelaySeconds(attempts)
                       ELSE o.next_attempt_at,
   updated_at      |-> now]

IsReady(o) ==
  \/ o.status = "pending" /\ o.next_attempt_at <= now
  \/ o.status = "processing" /\ o.updated_at + StaleAfter <= now

-----------------------------------------------------------------------------
(* ChatService: queue_text, queue_template and queue_media differ in the   *)
(* payload only.  Two saves, no transaction.                               *)

QueueMessage(j) ==
  /\ message[j] = NoRow
  /\ message' = [message EXCEPT ![j] = NoEntity]
  /\ UNCHANGED <<now, outbox, worker, receiver, accepted, faults, recalled>>

\* Mutant: the job is claimed from the start.
CreateOutboxClaimed(j) ==
  /\ message[j] # NoRow /\ outbox[j] = NoRow
  /\ outbox' = [outbox EXCEPT ![j] = [NewJob EXCEPT !.status = "sending"]]
  /\ UNCHANGED <<now, message, worker, receiver, accepted, faults, recalled>>

CreateOutbox(j) ==
  /\ message[j] # NoRow /\ outbox[j] = NoRow
  /\ outbox' = [outbox EXCEPT ![j] = NewJob]
  /\ UNCHANGED <<now, message, worker, receiver, accepted, faults, recalled>>

-----------------------------------------------------------------------------
(* The workflow of OutboxService.                                          *)

At(w, place) == worker[w].at = place

\* w goes on to a place with some fields of its record changed.
Goto(w, place) == worker' = [worker EXCEPT ![w].at = place]

\* fetch_ready_jobs; the worker takes one job at a time.
FetchReadyJobs(w) ==
  /\ At(w, "idle")
  /\ \E j \in Jobs :
       /\ outbox[j] # NoRow /\ IsReady(outbox[j])
       /\ worker' = [worker EXCEPT ![w] =
            [Idle EXCEPT !.at = "fetched", !.id = j, !.job = outbox[j]]]
  /\ UNCHANGED <<now, message, outbox, receiver, accepted, faults, recalled>>

\* claim_job: the lock compares the row with the entity that was fetched.
ClaimJob(w) == LET j == worker[w].id IN
  /\ At(w, "fetched")
  /\ outbox[j].status = worker[w].job.status
  /\ outbox[j].updated_at = worker[w].job.updated_at
  /\ outbox' = [outbox EXCEPT ![j] = MarkProcessing(@)]
  /\ worker' = [worker EXCEPT ![w].at = "claimed", ![w].job = MarkProcessing(outbox[j])]
  /\ UNCHANGED <<now, message, receiver, accepted, faults, recalled>>

\* claim_job returns None.
ClaimLost(w) == LET j == worker[w].id IN
  /\ At(w, "fetched")
  /\ \/ outbox[j].status # worker[w].job.status
     \/ outbox[j].updated_at # worker[w].job.updated_at
  /\ worker' = [worker EXCEPT ![w] = Idle]
  /\ UNCHANGED <<now, message, outbox, receiver, accepted, faults, recalled>>

\* The send: accepted with an answer, accepted without one, or refused.
SendAccepted(w) == LET j == worker[w].id IN
  /\ At(w, "claimed")
  /\ accepted' = [accepted EXCEPT ![j] = @ + 1]
  /\ worker' = [worker EXCEPT ![w].at = "success", ![w].wa = accepted[j] + 1]
  /\ UNCHANGED <<now, message, outbox, receiver, faults, recalled>>

SendAnswerLost(w) ==
  /\ At(w, "claimed") /\ Goto(w, "failure")
  /\ accepted' = [accepted EXCEPT ![worker[w].id] = @ + 1]
  /\ UNCHANGED <<now, message, outbox, receiver, faults, recalled>>

SendRefused(w) ==
  /\ At(w, "claimed") /\ Goto(w, "failure")
  /\ UNCHANGED <<now, message, outbox, receiver, accepted, faults, recalled>>

\* mark_success: find the message, save it sent, save the job done.
FindForSuccess(w) ==
  /\ At(w, "success")
  /\ worker' = [worker EXCEPT ![w].at = "save_sent",
       ![w].msg = MarkSent(message[worker[w].id], worker[w].wa)]
  /\ UNCHANGED <<now, message, outbox, receiver, accepted, faults, recalled>>

SaveMessage(w) == message' = [message EXCEPT ![worker[w].id] = worker[w].msg]

\* Mutant: the message is not saved.
SaveSentNever(w) ==
  /\ At(w, "save_sent") /\ Goto(w, "save_done")
  /\ UNCHANGED <<now, message, outbox, receiver, accepted, faults, recalled>>

SaveSent(w) ==
  /\ At(w, "save_sent") /\ Goto(w, "save_done")
  /\ SaveMessage(w)
  /\ recalled' = recalled \ {worker[w].id}
  /\ UNCHANGED <<now, outbox, receiver, accepted, faults>>

SaveJob(w, job) ==
  /\ outbox' = [outbox EXCEPT ![worker[w].id] = job]
  /\ worker' = [worker EXCEPT ![w] = Idle]

SaveDone(w) ==
  /\ At(w, "save_done")
  /\ SaveJob(w, MarkDone(worker[w].job))
  /\ UNCHANGED <<now, message, receiver, accepted, faults, recalled>>

\* mark_failure: find the message; save it failed if it has no id; save the
\* job, with its attempt counted, in both cases.
FindForFailure(w) == LET m == message[worker[w].id] IN
  /\ At(w, "failure")
  /\ \/ /\ MayFail(m)
        /\ worker' = [worker EXCEPT ![w].at = "save_failed", ![w].msg = MarkFailed(m)]
     \/ /\ ~MayFail(m)
        /\ Goto(w, "save_failure")
  /\ UNCHANGED <<now, message, outbox, receiver, accepted, faults, recalled>>

SaveFailed(w) ==
  /\ At(w, "save_failed") /\ Goto(w, "save_failure")
  /\ SaveMessage(w)
  /\ UNCHANGED <<now, outbox, receiver, accepted, faults, recalled>>

SaveFailure(w) ==
  /\ At(w, "save_failure")
  /\ SaveJob(w, FailJob(worker[w].job))
  /\ UNCHANGED <<now, message, receiver, accepted, faults, recalled>>

\* A call of a repository fails and the service returns its error, or the
\* worker dies: what was saved stays, the claim is not given back.
Abandon(w) ==
  /\ ~At(w, "idle")
  /\ faults < MaxFaults
  /\ faults' = faults + 1
  /\ worker' = [worker EXCEPT ![w] = Idle]
  /\ UNCHANGED <<now, message, outbox, receiver, accepted, recalled>>

-----------------------------------------------------------------------------
(* Reports of Meta: find_by_wa_message_id, update_status, save.            *)

\* Every status there is; a database with the ENUM of migration 005 would refuse
\* to save "sending", of which the documented repository says nothing.
Reported == MessageStatus

FindReported(r) ==
  /\ receiver[r] = {}
  /\ \E j \in Jobs :
       /\ message[j] # NoRow /\ message[j].wa_message_id # NoWa
       /\ receiver' = [receiver EXCEPT ![r] = {<<j, message[j]>>}]
  /\ UNCHANGED <<now, message, outbox, worker, accepted, faults, recalled>>

\* The whole row is saved, as it was found but for its status.
SaveReported(r) ==
  /\ \E found \in receiver[r], status \in Reported :
       /\ MayUpdate(found[2], status)
       /\ message' = [message EXCEPT ![found[1]] = UpdateStatus(found[2], status)]
       /\ recalled' = IF status \in SuccessStatus
                      THEN recalled \ {found[1]} ELSE recalled \cup {found[1]}
  /\ receiver' = [receiver EXCEPT ![r] = {}]
  /\ UNCHANGED <<now, outbox, worker, accepted, faults>>

\* update_status refuses the report, or the save fails.
DropReport(r) ==
  /\ receiver[r] # {}
  /\ receiver' = [receiver EXCEPT ![r] = {}]
  /\ UNCHANGED <<now, message, outbox, worker, accepted, faults, recalled>>

-----------------------------------------------------------------------------
DomTick ==
  /\ now < MaxTime
  /\ Prompt => \A w \in Workers :
       worker[w].at \in Owning => now + 1 < worker[w].job.updated_at + StaleAfter
  /\ now' = now + 1
  /\ UNCHANGED <<message, outbox, worker, receiver, accepted, faults, recalled>>

WorkerStep(w) ==
  \/ FetchReadyJobs(w) \/ ClaimJob(w) \/ ClaimLost(w)
  \/ SendAccepted(w) \/ SendAnswerLost(w) \/ SendRefused(w)
  \/ FindForSuccess(w) \/ SaveSent(w) \/ SaveDone(w)
  \/ FindForFailure(w) \/ SaveFailed(w) \/ SaveFailure(w)
  \/ Abandon(w)

ReceiverStep(r) == FindReported(r) \/ SaveReported(r) \/ DropReport(r)

DomNext ==
  \/ \E j \in Jobs : QueueMessage(j) \/ CreateOutbox(j)
  \/ \E w \in Workers : WorkerStep(w)
  \/ \E r \in Receivers : ReceiverStep(r)
  \/ DomTick

DomSpec == DomInit /\ [][DomNext]_vars

-----------------------------------------------------------------------------
(* Properties                                                              *)

\* Rows and entities have the types of their fields, and a worker past its
\* fetch is at a job that has its rows.
DomTypeOK ==
  /\ now \in Nat
  /\ message \in [Jobs -> Message \cup {NoRow}]
  /\ outbox \in [Jobs -> Outbox \cup {NoRow}]
  /\ worker \in [Workers -> [at : Places, id : Jobs, job : Outbox, msg : Message, wa : Nat]]
  /\ receiver \in [Receivers -> SUBSET (Jobs \X Message)]
  /\ accepted \in [Jobs -> Nat]
  /\ faults \in Nat
  /\ recalled \in SUBSET Jobs
  /\ \A j \in Jobs : outbox[j] # NoRow => message[j] # NoRow
  /\ \A w \in Workers : ~At(w, "idle") => outbox[worker[w].id] # NoRow

\* Whatever the services save, from_model will accept when the row is next
\* loaded: a success status has a WhatsApp id and failed has none, although
\* rows are saved whole, from entities found long before, by callers that
\* overlap.
RowsParse == \A j \in Jobs : message[j] # NoRow => Parses(message[j])

\* The services save the message before the job, so that a job is done only
\* when its message carries the id of an accepted send, and says that it was
\* sent unless the last report says that it was not, whatever call failed in
\* between (the worker binary, which writes them in the other order after a
\* failure, cannot promise this with two workers).
DoneIsSent ==
  \A j \in Jobs : outbox[j].status = "done" =>
    /\ message[j].status \in SuccessStatus \/ j \in recalled
    /\ message[j].wa_message_id \in 1 .. accepted[j]

PhaseOf(status) ==
  IF status = "none" THEN "unknown"
  ELSE IF status \in {"pending", "processing"} THEN "waiting"
  ELSE IF status = "done" THEN "sent" ELSE "failed"

FailuresOf(o) == IF o = NoRow THEN 0 ELSE o.attempts

DomainDelivery == INSTANCE Delivery WITH
  Messages <- Jobs,
  phase    <- [j \in Jobs |-> PhaseOf(outbox[j].status)],
  failures <- [j \in Jobs |-> FailuresOf(outbox[j])],
  copies   <- accepted

\* Used as documented, the services keep the promise the worker binary keeps:
\* nothing is sent once its outcome is saved, a job is given up at the
\* MaxAttempts-th failure, and outcomes are final.
DomainDelivers == DomainDelivery!DSpec

=============================================================================
