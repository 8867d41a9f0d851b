---------------------------- MODULE DomainProofs ----------------------------
(***************************************************************************)
(* Proofs about DomainOutbox, for any workers, receivers, jobs and delays. *)
(*                                                                         *)
(* Entities are read, kept and saved whole, so the invariant is about      *)
(* every copy of one: in a row, with a worker, with a receiver (CopiesInv, *)
(* of workers of any speed).  When workers are prompt, or there is one, an *)
(* owner's copy of its job is the row (ClaimInv), so that nobody saves     *)
(* over an outcome (SentInv).                                              *)
(***************************************************************************)
EXTENDS DomainOutbox, TLAPS

\* What holds of every copy of a message of which Meta accepted n sends.
EntityOK(m, n) == Parses(m) /\ m.wa_message_id \in 0 .. n

CopiesInv ==
  /\ \A j \in Jobs : message[j] # NoRow => EntityOK(message[j], accepted[j])
  /\ \A w \in Workers :
       /\ worker[w].at \in {"save_sent", "save_failed"} =>
            EntityOK(worker[w].msg, accepted[worker[w].id])
       /\ At(w, "success") => worker[w].wa \in 1 .. accepted[worker[w].id]
  /\ \A r \in Receivers : \A found \in receiver[r] :
       EntityOK(found[2], accepted[found[1]]) /\ found[2].wa_message_id # NoWa

\* The claim of w is its own, and what it fetched was ready.
ClaimInv ==
  /\ \A w \in Workers : worker[w].at \in Owning =>
       /\ outbox[worker[w].id] = worker[w].job
       /\ worker[w].job.status = "processing"
       /\ Prompt => now < worker[w].job.updated_at + StaleAfter
  /\ \A w \in Workers : At(w, "fetched") =>
       \/ worker[w].job.status = "pending"
       \/ worker[w].job.status = "processing" /\ worker[w].job.updated_at + StaleAfter <= now
  /\ \A v, w \in Workers :
       (worker[v].at \in Owning /\ worker[w].at \in Owning /\ worker[v].id = worker[w].id)
         => v = w

\* A job that waits has an attempt left.
AttemptsInv ==
  \A j \in Jobs : outbox[j].status \in {"pending", "processing"} =>
    outbox[j].attempts < MaxAttempts

\* A message carries the id of its send and, but for a report, is shown as sent.
Delivered(j) ==
  /\ message[j] # NoRow
  /\ message[j].wa_message_id # NoWa
  /\ message[j].status \in SuccessStatus \/ j \in recalled

\* On its way to a done job, a message is delivered, and it stays so.
SentInv ==
  /\ \A w \in Workers :
       /\ At(w, "save_sent") => worker[w].msg.status = "sent"
       /\ At(w, "save_done") => Delivered(worker[w].id)
  /\ \A j \in Jobs : outbox[j].status = "done" => Delivered(j)

DomInv == DomTypeOK /\ CopiesInv /\ ClaimInv /\ AttemptsInv /\ SentInv

\* Workers are prompt, or there is only one.
Undisputed == Prompt \/ \A v, w \in Workers : v = w

-----------------------------------------------------------------------------
USE DomainAssumption

\* The records that a worker's locals and a row are given.
LEMMA IdleType ==
  Idle \in [at : Places, id : Jobs, job : Outbox, msg : Message, wa : Nat]
BY DEF Idle, Places, NoJob, NoEntity, Outbox, Message, OutboxStatus, MessageStatus, NoWa

LEMMA FailJobType ==
  ASSUME NEW o \in Outbox, now \in Nat
  PROVE  FailJob(o) \in Outbox
<1>1. RetryDelaySeconds(o.attempts + 1) \in Nat
  BY DEF RetryDelaySeconds, Outbox
<1>2. o.attempts \in Nat /\ o.next_attempt_at \in Nat
  BY DEF Outbox
<1>3. QED
  BY <1>1, <1>2 DEF FailJob, Outbox, OutboxStatus

LEMMA TypeInit == DomInit => DomTypeOK
BY IdleType DEF DomInit, DomTypeOK, NoRow, At, Idle

WorkerType == [at : Places, id : Jobs, job : Outbox, msg : Message, wa : Nat]

\* A worker that goes on has its locals, with a few of them changed.
LEMMA WorkerTypeStep ==
  ASSUME DomTypeOK, NEW w \in Workers, WorkerStep(w)
  PROVE  /\ worker' \in [Workers -> WorkerType]
         /\ outbox' \in [Jobs -> Outbox \cup {NoRow}]
         /\ \A v \in Workers : worker'[v].at # "idle" => outbox'[worker'[v].id] # NoRow
<1>0. /\ worker \in [Workers -> WorkerType] /\ Idle \in WorkerType
      /\ outbox \in [Jobs -> Outbox \cup {NoRow}] /\ worker[w] \in WorkerType
      /\ message \in [Jobs -> Message \cup {NoRow}] /\ now \in Nat
      /\ \A v \in Workers : worker[v].at # "idle" => outbox[worker[v].id] # NoRow
  BY IdleType DEF DomTypeOK, WorkerType, At
<1>1. CASE FetchReadyJobs(w)
  <2>1. PICK j \in Jobs : /\ outbox[j] # NoRow
                          /\ worker' = [worker EXCEPT ![w] =
                               [Idle EXCEPT !.at = "fetched", !.id = j, !.job = outbox[j]]]
    BY <1>1 DEF FetchReadyJobs
  <2>2. [Idle EXCEPT !.at = "fetched", !.id = j, !.job = outbox[j]] \in WorkerType
    BY <1>0, <2>1 DEF WorkerType, Places
  <2>3. QED
    BY <1>0, <1>1, <2>1, <2>2 DEF FetchReadyJobs, WorkerType, Idle
<1>2. CASE ClaimJob(w)
  <2>1. outbox[worker[w].id] \in Outbox /\ worker[w].id \in Jobs
    BY <1>0, <1>2 DEF ClaimJob, At, WorkerType
  <2>2. MarkProcessing(outbox[worker[w].id]) \in Outbox
    BY <1>0, <2>1 DEF MarkProcessing, Outbox, OutboxStatus
  <2>3. MarkProcessing(outbox[worker[w].id]) # NoRow
    BY <2>2 DEF Outbox, NoRow, OutboxStatus
  <2>4. [worker[w] EXCEPT !.at = "claimed", !.job = MarkProcessing(outbox[worker[w].id])]
          \in WorkerType
    BY <1>0, <2>2 DEF WorkerType, Places
  <2>5. QED
    BY <1>0, <1>2, <2>1, <2>2, <2>3, <2>4 DEF ClaimJob, WorkerType
<1>3. CASE ClaimLost(w) \/ Abandon(w)
  <2>1. worker' = [worker EXCEPT ![w] = Idle] /\ UNCHANGED outbox
    BY <1>3 DEF ClaimLost, Abandon
  <2>2. Idle.at = "idle"
    BY DEF Idle
  <2>3. QED
    BY <1>0, <2>1, <2>2
<1>4. CASE SendAccepted(w)
  <2>1. [worker[w] EXCEPT !.at = "success", !.wa = accepted[worker[w].id] + 1] \in WorkerType
    <3>1. accepted[worker[w].id] + 1 \in Nat
      BY <1>0 DEF DomTypeOK, WorkerType
    <3>2. QED
      BY <1>0, <3>1 DEF WorkerType, Places
  <2>2. QED
    BY <1>0, <1>4, <2>1 DEF SendAccepted, WorkerType, At
<1>5. CASE SendAnswerLost(w) \/ SendRefused(w) \/ SaveSent(w) \/ SaveFailed(w)
  <2>1. PICK place \in Places : Goto(w, place) /\ UNCHANGED outbox /\ worker[w].at # "idle"
    BY <1>5 DEF SendAnswerLost, SendRefused, SaveSent, SaveFailed, Places, At
  <2>2. [worker[w] EXCEPT !.at = place] \in WorkerType
    BY <1>0 DEF WorkerType
  <2>3. QED
    BY <1>0, <2>1, <2>2 DEF Goto, WorkerType
<1>6. CASE FindForSuccess(w)
  <2>1. message[worker[w].id] \in Message
    BY <1>0, <1>6 DEF FindForSuccess, At, DomTypeOK, WorkerType
  <2>2. MarkSent(message[worker[w].id], worker[w].wa) \in Message
    BY <1>0, <2>1 DEF MarkSent, Message, MessageStatus, SuccessStatus, WorkerType
  <2>3. [worker[w] EXCEPT !.at = "save_sent", !.msg = MarkSent(message[worker[w].id], worker[w].wa)]
          \in WorkerType
    BY <1>0, <2>2 DEF WorkerType, Places
  <2>4. QED
    BY <1>0, <1>6, <2>3 DEF FindForSuccess, WorkerType, At
<1>7. CASE FindForFailure(w)
  <2>1. message[worker[w].id] \in Message
    BY <1>0, <1>7 DEF FindForFailure, At, DomTypeOK, WorkerType
  <2>2. MarkFailed(message[worker[w].id]) \in Message
    BY <2>1 DEF MarkFailed, Message, MessageStatus
  <2>3. /\ [worker[w] EXCEPT !.at = "save_failed", !.msg = MarkFailed(message[worker[w].id])]
             \in WorkerType
        /\ [worker[w] EXCEPT !.at = "save_failure"] \in WorkerType
    BY <1>0, <2>2 DEF WorkerType, Places
  <2>4. UNCHANGED outbox /\ worker[w].at # "idle"
    BY <1>7 DEF FindForFailure, At
  <2>5. CASE worker' = [worker EXCEPT ![w].at = "save_failed",
                          ![w].msg = MarkFailed(message[worker[w].id])]
    BY <1>0, <2>3, <2>4, <2>5 DEF WorkerType
  <2>6. CASE Goto(w, "save_failure")
    BY <1>0, <2>3, <2>4, <2>6 DEF Goto, WorkerType
  <2>7. QED
    BY <1>7, <2>5, <2>6 DEF FindForFailure
<1>8. CASE SaveDone(w) \/ SaveFailure(w)
  <2>1. PICK o \in Outbox : SaveJob(w, o)
    <3>1. MarkDone(worker[w].job) \in Outbox
      BY <1>0 DEF MarkDone, Outbox, OutboxStatus, WorkerType
    <3>2. FailJob(worker[w].job) \in Outbox
      BY <1>0, FailJobType DEF WorkerType
    <3>3. QED
      BY <1>8, <3>1, <3>2 DEF SaveDone, SaveFailure
  <2>2. o # NoRow
    BY DEF Outbox, NoRow, OutboxStatus
  <2>3. QED
    BY <1>0, <2>1, <2>2 DEF SaveJob, Idle, WorkerType
<1>9. QED
  BY <1>1, <1>2, <1>3, <1>4, <1>5, <1>6, <1>7, <1>8 DEF WorkerStep

\* The rows of messages, and the receivers' copies.
LEMMA MessageTypeStep ==
  ASSUME DomTypeOK, [DomNext]_vars
  PROVE  /\ message' \in [Jobs -> Message \cup {NoRow}]
         /\ receiver' \in [Receivers -> SUBSET (Jobs \X Message)]
         /\ accepted' \in [Jobs -> Nat]
         /\ \A j \in Jobs : message[j] # NoRow => message'[j] # NoRow
         /\ recalled' \in SUBSET Jobs
<1>0. /\ message \in [Jobs -> Message \cup {NoRow}]
      /\ receiver \in [Receivers -> SUBSET (Jobs \X Message)]
      /\ accepted \in [Jobs -> Nat]
      /\ worker \in [Workers -> WorkerType]
  BY DEF DomTypeOK, WorkerType
<1>1. \A m \in Message : m # NoRow
  BY DEF Message, NoRow, MessageStatus, SuccessStatus
<1>2. ASSUME NEW j \in Jobs, QueueMessage(j)
      PROVE  /\ message' \in [Jobs -> Message \cup {NoRow}]
             /\ \A i \in Jobs : message[i] # NoRow => message'[i] # NoRow
             /\ UNCHANGED <<receiver, accepted>>
  <2>1. NoEntity \in Message
    BY DEF NoEntity, Message, MessageStatus, NoWa
  <2>2. QED
    BY <1>0, <1>1, <1>2, <2>1 DEF QueueMessage
<1>3. ASSUME NEW w \in Workers, SaveSent(w) \/ SaveFailed(w)
      PROVE  /\ message' \in [Jobs -> Message \cup {NoRow}]
             /\ \A i \in Jobs : message[i] # NoRow => message'[i] # NoRow
             /\ UNCHANGED <<receiver, accepted>>
  <2>1. worker[w].msg \in Message
    BY <1>0 DEF WorkerType
  <2>2. QED
    BY <1>0, <1>1, <1>3, <2>1 DEF SaveSent, SaveFailed, SaveMessage
<1>4. ASSUME NEW w \in Workers, SendAccepted(w) \/ SendAnswerLost(w)
      PROVE  accepted' \in [Jobs -> Nat] /\ UNCHANGED <<message, receiver>>
  BY <1>0, <1>4 DEF SendAccepted, SendAnswerLost, WorkerType
<1>5. ASSUME NEW r \in Receivers, FindReported(r)
      PROVE  /\ receiver' \in [Receivers -> SUBSET (Jobs \X Message)]
             /\ UNCHANGED <<message, accepted>>
  BY <1>0, <1>5 DEF FindReported
<1>6. ASSUME NEW r \in Receivers, SaveReported(r)
      PROVE  /\ message' \in [Jobs -> Message \cup {NoRow}]
             /\ receiver' \in [Receivers -> SUBSET (Jobs \X Message)]
             /\ \A i \in Jobs : message[i] # NoRow => message'[i] # NoRow
             /\ UNCHANGED accepted
  <2>1. PICK found \in receiver[r], status \in Reported :
          message' = [message EXCEPT ![found[1]] = UpdateStatus(found[2], status)]
    BY <1>6 DEF SaveReported
  <2>2. UpdateStatus(found[2], status) \in Message
    BY <1>0, <2>1 DEF UpdateStatus, Message, MessageStatus, SuccessStatus, Reported
  <2>3. QED
    BY <1>0, <1>1, <1>6, <2>1, <2>2 DEF SaveReported
<1>7. ASSUME NEW r \in Receivers, DropReport(r)
      PROVE  /\ receiver' \in [Receivers -> SUBSET (Jobs \X Message)]
             /\ UNCHANGED <<message, accepted>>
  BY <1>0, <1>7 DEF DropReport
<1>8. \/ UNCHANGED <<message, receiver, accepted>>
      \/ \E j \in Jobs : QueueMessage(j)
      \/ \E w \in Workers : SaveSent(w) \/ SaveFailed(w) \/ SendAccepted(w) \/ SendAnswerLost(w)
      \/ \E r \in Receivers : ReceiverStep(r)
  BY DEF DomNext, vars, CreateOutbox, DomTick, WorkerStep, FetchReadyJobs, ClaimJob,
         ClaimLost, SendRefused, FindForSuccess, SaveDone, FindForFailure, SaveFailure,
         Abandon
<1>9. recalled' \in SUBSET Jobs
  <2>1. recalled \in SUBSET Jobs
    BY DEF DomTypeOK
  <2>2. ASSUME NEW r \in Receivers, SaveReported(r) PROVE recalled' \in SUBSET Jobs
    <3>1. PICK found \in receiver[r], status \in Reported :
            recalled' = IF status \in SuccessStatus
                        THEN recalled \ {found[1]} ELSE recalled \cup {found[1]}
      BY <2>2 DEF SaveReported
    <3>2. found[1] \in Jobs
      BY <1>0
    <3>3. QED
      BY <2>1, <3>1, <3>2
  <2>3. ASSUME NEW w \in Workers, SaveSent(w) PROVE recalled' \in SUBSET Jobs
    BY <2>1, <2>3 DEF SaveSent
  <2>4. \/ recalled' = recalled \/ \E w \in Workers : SaveSent(w)
        \/ \E r \in Receivers : SaveReported(r)
    BY DEF DomNext, vars, QueueMessage, CreateOutbox, DomTick, WorkerStep, FetchReadyJobs,
       ClaimJob, ClaimLost, SendAccepted, SendAnswerLost, SendRefused, FindForSuccess,
       SaveDone, FindForFailure, SaveFailed, SaveFailure, Abandon, ReceiverStep,
       FindReported, DropReport
  <2>5. QED
    BY <2>1, <2>2, <2>3, <2>4
<1>10. QED
  BY <1>0, <1>2, <1>3, <1>4, <1>5, <1>6, <1>7, <1>8, <1>9 DEF ReceiverStep

LEMMA TypeStep == DomTypeOK /\ [DomNext]_vars => DomTypeOK'
<1> SUFFICES ASSUME DomTypeOK, [DomNext]_vars PROVE DomTypeOK'
  OBVIOUS
<1>0. /\ outbox \in [Jobs -> Outbox \cup {NoRow}] /\ worker \in [Workers -> WorkerType]
      /\ now \in Nat /\ faults \in Nat
      /\ \A j \in Jobs : outbox[j] # NoRow => message[j] # NoRow
      /\ \A w \in Workers : worker[w].at # "idle" => outbox[worker[w].id] # NoRow
  BY DEF DomTypeOK, WorkerType, At
<1>1. now' \in Nat /\ faults' \in Nat
  <2>1. CASE \E w \in Workers : WorkerStep(w)
    <3>1. now' = now /\ (faults' = faults \/ faults' = faults + 1)
      BY <2>1 DEF WorkerStep, FetchReadyJobs, ClaimJob, ClaimLost, SendAccepted, SendAnswerLost,
           SendRefused, FindForSuccess, SaveSent, SaveDone, FindForFailure, SaveFailed,
           SaveFailure, Abandon
    <3>2. QED
      BY <1>0, <3>1
  <2>2. CASE DomTick
    BY <1>0, <2>2 DEF DomTick
  <2>3. CASE UNCHANGED <<now, faults>>
    BY <1>0, <2>3
  <2>4. \/ UNCHANGED <<now, faults>> \/ DomTick \/ \E w \in Workers : WorkerStep(w)
    BY DEF DomNext, vars, QueueMessage, CreateOutbox, ReceiverStep, FindReported,
           SaveReported, DropReport
  <2>5. QED
    BY <2>1, <2>2, <2>3, <2>4
<1>2. ASSUME NEW j \in Jobs, CreateOutbox(j)
      PROVE  outbox' \in [Jobs -> Outbox \cup {NoRow}] /\ outbox'[j] # NoRow
  <2>1. NewJob \in Outbox
    BY <1>0 DEF NewJob, Outbox, OutboxStatus
  <2>2. NewJob # NoRow
    BY <2>1 DEF Outbox, NoRow, OutboxStatus
  <2>3. QED
    BY <1>0, <1>2, <2>1, <2>2 DEF CreateOutbox
<1>3. /\ worker' \in [Workers -> WorkerType]
      /\ outbox' \in [Jobs -> Outbox \cup {NoRow}]
      /\ \A v \in Workers : worker'[v].at # "idle" => outbox'[worker'[v].id] # NoRow
  <2>1. CASE \E w \in Workers : WorkerStep(w)
    BY <2>1, WorkerTypeStep
  <2>2. ASSUME NEW j \in Jobs, CreateOutbox(j)
        PROVE  /\ UNCHANGED worker /\ outbox' \in [Jobs -> Outbox \cup {NoRow}]
               /\ \A i \in Jobs : outbox[i] # NoRow => outbox'[i] # NoRow
    BY <1>0, <1>2, <2>2 DEF CreateOutbox
  <2>3. \/ UNCHANGED <<worker, outbox>> \/ \E w \in Workers : WorkerStep(w)
        \/ \E j \in Jobs : CreateOutbox(j)
    BY DEF DomNext, vars, QueueMessage, DomTick, ReceiverStep, FindReported, SaveReported,
           DropReport
  <2>4. \A w \in Workers : worker[w].id \in Jobs
    BY <1>0 DEF WorkerType
  <2>5. QED
    BY <1>0, <2>1, <2>2, <2>3, <2>4
<1>4. \A j \in Jobs : outbox'[j] # NoRow => outbox[j] # NoRow \/ message[j] # NoRow
  <2>1. CASE \E w \in Workers : WorkerStep(w)
    BY <1>0, <2>1 DEF WorkerStep, FetchReadyJobs, ClaimJob, ClaimLost, SendAccepted,
         SendAnswerLost, SendRefused, FindForSuccess, SaveSent, SaveDone, FindForFailure,
         SaveFailed, SaveFailure, Abandon, SaveJob, At, WorkerType
  <2>2. QED
    BY <1>0, <2>1 DEF DomNext, vars, QueueMessage, CreateOutbox, DomTick, ReceiverStep,
           FindReported, SaveReported, DropReport
<1>5. QED
  BY <1>0, <1>1, <1>3, <1>4, MessageTypeStep DEF DomTypeOK, WorkerType, At

\* Types, whatever the workers' speed.
THEOREM DomTypesCorrect == DomSpec => []DomTypeOK
BY TypeInit, TypeStep, PTL DEF DomSpec

-----------------------------------------------------------------------------
(* Copies.  Meta's count of accepted sends only grows, so that a copy that *)
(* is good stays good; each step makes at most one new copy, out of a good *)
(* one.                                                                    *)

LEMMA AcceptedGrows ==
  ASSUME DomTypeOK, [DomNext]_vars, NEW j \in Jobs
  PROVE  accepted[j] \in Nat /\ accepted'[j] \in Nat /\ accepted'[j] >= accepted[j]
<1>1. accepted \in [Jobs -> Nat]
  BY DEF DomTypeOK
<1>2. CASE \E i \in Jobs : accepted' = [accepted EXCEPT ![i] = @ + 1]
  BY <1>1, <1>2
<1>3. CASE accepted' = accepted
  BY <1>1, <1>3
<1>4. worker \in [Workers -> WorkerType]
  BY DEF DomTypeOK, WorkerType
<1>5. ASSUME NEW w \in Workers, WorkerStep(w)
      PROVE  accepted' = accepted \/ \E i \in Jobs : accepted' = [accepted EXCEPT ![i] = @ + 1]
  BY <1>4, <1>5 DEF WorkerStep, FetchReadyJobs, ClaimJob, ClaimLost, SendAccepted, SendAnswerLost,
       SendRefused, FindForSuccess, SaveSent, SaveDone, FindForFailure, SaveFailed,
       SaveFailure, Abandon, WorkerType
<1>6. QED
  BY <1>2, <1>3, <1>5 DEF DomNext, vars, QueueMessage, CreateOutbox, DomTick, ReceiverStep,
       FindReported, SaveReported, DropReport

LEMMA EntityStays ==
  ASSUME DomTypeOK, [DomNext]_vars, NEW j \in Jobs, NEW m \in Message,
         EntityOK(m, accepted[j])
  PROVE  EntityOK(m, accepted'[j])
BY AcceptedGrows DEF EntityOK, Message

\* The rows.
LEMMA RowCopiesStep ==
  ASSUME DomTypeOK, CopiesInv, [DomNext]_vars, NEW j \in Jobs, message'[j] # NoRow
  PROVE  EntityOK(message'[j], accepted'[j])
<1>0. /\ message \in [Jobs -> Message \cup {NoRow}]
      /\ receiver \in [Receivers -> SUBSET (Jobs \X Message)]
      /\ worker \in [Workers -> WorkerType]
  BY DEF DomTypeOK, WorkerType
<1>1. CASE message'[j] = message[j]
  <2>1. message[j] \in Message /\ EntityOK(message[j], accepted[j])
    BY <1>0, <1>1 DEF CopiesInv
  <2>2. QED
    BY <1>1, <2>1, EntityStays
<1>2. CASE message'[j] = NoEntity
  <2>1. accepted'[j] \in Nat
    BY AcceptedGrows
  <2>2. QED
    BY <1>2, <2>1 DEF EntityOK, Parses, NoEntity, NoWa, SuccessStatus
<1>3. ASSUME NEW w \in Workers, SaveSent(w) \/ SaveFailed(w), worker[w].id = j
      PROVE  EntityOK(message'[j], accepted'[j])
  <2>1. /\ worker[w].msg \in Message /\ EntityOK(worker[w].msg, accepted[j])
        /\ message'[j] = worker[w].msg
    BY <1>0, <1>3 DEF CopiesInv, WorkerType, SaveSent, SaveFailed, SaveMessage, At
  <2>2. QED
    BY <2>1, EntityStays
<1>4. ASSUME NEW r \in Receivers, SaveReported(r), message'[j] # message[j]
      PROVE  EntityOK(message'[j], accepted'[j])
  <2>1. PICK found \in receiver[r], status \in Reported :
          /\ MayUpdate(found[2], status)
          /\ message' = [message EXCEPT ![found[1]] = UpdateStatus(found[2], status)]
    BY <1>4 DEF SaveReported
  <2>2. /\ found[1] = j /\ found[2] \in Message /\ EntityOK(found[2], accepted[j])
        /\ found[2].wa_message_id # NoWa
    BY <1>0, <1>4, <2>1 DEF CopiesInv
  <2>3. message'[j] = UpdateStatus(found[2], status)
    BY <1>0, <2>1, <2>2
  <2>4. status # "failed"
    BY <2>1, <2>2 DEF MayUpdate, MayFail
  <2>5. EntityOK(found[2], accepted'[j])
    BY <2>2, EntityStays
  <2>6. UpdateStatus(found[2], status).wa_message_id = found[2].wa_message_id
        /\ UpdateStatus(found[2], status).status = status
    BY <2>2 DEF UpdateStatus, Message
  <2>7. QED
    BY <2>2, <2>3, <2>4, <2>5, <2>6 DEF EntityOK, Parses
<1>5. \/ message'[j] = message[j] \/ message'[j] = NoEntity
      \/ \E w \in Workers : (SaveSent(w) \/ SaveFailed(w)) /\ worker[w].id = j
      \/ \E r \in Receivers : SaveReported(r)
  <2>1. ASSUME NEW w \in Workers, WorkerStep(w)
        PROVE  \/ message'[j] = message[j]
               \/ (SaveSent(w) \/ SaveFailed(w)) /\ worker[w].id = j
    BY <1>0, <2>1 DEF WorkerStep, FetchReadyJobs, ClaimJob, ClaimLost, SendAccepted,
       SendAnswerLost, SendRefused, FindForSuccess, SaveSent, SaveDone, FindForFailure,
       SaveFailed, SaveFailure, Abandon, SaveMessage, WorkerType
  <2>2. QED
    BY <1>0, <2>1 DEF DomNext, vars, QueueMessage, CreateOutbox, DomTick, ReceiverStep,
       FindReported, DropReport
<1>6. QED
  BY <1>1, <1>2, <1>3, <1>4, <1>5

\* A worker's step changes its own locals only.
LEMMA OthersStay ==
  ASSUME DomTypeOK, NEW v \in Workers, NEW w \in Workers, v # w, WorkerStep(w)
  PROVE  worker'[v] = worker[v]
<1>0. worker \in [Workers -> WorkerType]
  BY DEF DomTypeOK, WorkerType
<1>1. CASE FetchReadyJobs(w)
  BY <1>0, <1>1 DEF FetchReadyJobs
<1>2. CASE ClaimJob(w) \/ ClaimLost(w) \/ Abandon(w)
  BY <1>0, <1>2 DEF ClaimJob, ClaimLost, Abandon
<1>3. CASE SendAccepted(w) \/ SendAnswerLost(w) \/ SendRefused(w)
  BY <1>0, <1>3 DEF SendAccepted, SendAnswerLost, SendRefused, Goto
<1>4. CASE FindForSuccess(w) \/ SaveSent(w) \/ SaveDone(w)
  BY <1>0, <1>4 DEF FindForSuccess, SaveSent, SaveDone, SaveJob, Goto
<1>5. CASE FindForFailure(w) \/ SaveFailed(w) \/ SaveFailure(w)
  BY <1>0, <1>5 DEF FindForFailure, SaveFailed, SaveFailure, SaveJob, Goto
<1>6. QED
  BY <1>1, <1>2, <1>3, <1>4, <1>5 DEF WorkerStep

\* The workers' copies: made from a row, by mark_sent or mark_failed.
LEMMA WorkerCopiesStep ==
  ASSUME DomTypeOK, CopiesInv, [DomNext]_vars, NEW v \in Workers
  PROVE  /\ worker'[v].at \in {"save_sent", "save_failed"} =>
              EntityOK(worker'[v].msg, accepted'[worker'[v].id])
         /\ worker'[v].at = "success" => worker'[v].wa \in 1 .. accepted'[worker'[v].id]
<1>0. /\ message \in [Jobs -> Message \cup {NoRow}] /\ accepted \in [Jobs -> Nat]
      /\ worker \in [Workers -> WorkerType] /\ worker[v].id \in Jobs
      /\ worker[v].msg \in Message /\ worker[v].wa \in Nat
      /\ worker[v].at # "idle" => message[worker[v].id] \in Message
  BY DEF DomTypeOK, WorkerType, At
<1>1. CASE worker'[v] = worker[v]
  <2>1. worker[v].at \in {"save_sent", "save_failed"} =>
          EntityOK(worker[v].msg, accepted'[worker[v].id])
    BY <1>0, EntityStays DEF CopiesInv
  <2>2. worker[v].at = "success" => worker[v].wa \in 1 .. accepted'[worker[v].id]
    BY <1>0, AcceptedGrows DEF CopiesInv, At
  <2>3. QED
    BY <1>1, <2>1, <2>2
<1>2. CASE worker'[v].at \notin {"save_sent", "save_failed", "success"}
  BY <1>2
<1>3. CASE SendAccepted(v)
  <2>1. /\ worker'[v].at = "success" /\ worker'[v].id = worker[v].id
        /\ worker'[v].wa = accepted[worker[v].id] + 1
        /\ accepted'[worker[v].id] = accepted[worker[v].id] + 1
    BY <1>0, <1>3 DEF SendAccepted, WorkerType
  <2>2. QED
    BY <1>0, <2>1
<1>4. CASE FindForSuccess(v)
  <2>1. PICK m \in Message : m = message[worker[v].id] /\ m # NoRow
    BY <1>0, <1>4 DEF FindForSuccess, At, Message, NoRow, MessageStatus, SuccessStatus
  <2>2. worker[v].wa \in 1 .. accepted[worker[v].id]
    BY <1>4 DEF CopiesInv, FindForSuccess
  <2>3. /\ worker'[v].at = "save_sent" /\ worker'[v].id = worker[v].id
        /\ worker'[v].msg = MarkSent(m, worker[v].wa) /\ accepted' = accepted
    BY <1>0, <1>4, <2>1 DEF FindForSuccess, WorkerType
  <2>4. MarkSent(m, worker[v].wa).wa_message_id = worker[v].wa
        /\ MarkSent(m, worker[v].wa).status = "sent"
    BY DEF MarkSent, Message
  <2>5. QED
    BY <1>0, <2>2, <2>3, <2>4 DEF EntityOK, Parses, NoWa
<1>5. CASE FindForFailure(v)
  <2>1. PICK m \in Message : m = message[worker[v].id] /\ m # NoRow
    BY <1>0, <1>5 DEF FindForFailure, At, Message, NoRow, MessageStatus, SuccessStatus
  <2>2. EntityOK(m, accepted[worker[v].id])
    BY <1>0, <2>1 DEF CopiesInv
  <2>3. CASE worker'[v].at = "save_failed"
    <3>1. /\ worker'[v].id = worker[v].id /\ worker'[v].msg = MarkFailed(m)
          /\ accepted' = accepted /\ MayFail(m)
      BY <1>0, <1>5, <2>1, <2>3 DEF FindForFailure, Goto, WorkerType
    <3>2. MarkFailed(m).wa_message_id = m.wa_message_id /\ MarkFailed(m).status = "failed"
      BY DEF MarkFailed, Message
    <3>3. QED
      BY <2>2, <2>3, <3>1, <3>2 DEF EntityOK, Parses, MayFail, SuccessStatus
  <2>4. CASE worker'[v].at = "save_failure"
    BY <2>4
  <2>5. QED
    BY <1>0, <1>5, <2>3, <2>4 DEF FindForFailure, Goto, WorkerType
<1>6. ASSUME NEW w \in Workers, WorkerStep(w)
      PROVE  \/ worker'[v] = worker[v]
             \/ worker'[v].at \notin {"save_sent", "save_failed", "success"}
             \/ SendAccepted(v) \/ FindForSuccess(v) \/ FindForFailure(v)
  <2>1. \A r : worker' = [worker EXCEPT ![w] = r] => worker'[v] = IF v = w THEN r ELSE worker[v]
    BY <1>0
  <2>2. CASE FetchReadyJobs(w)
    <3>1. PICK j \in Jobs : worker' = [worker EXCEPT ![w] =
                               [Idle EXCEPT !.at = "fetched", !.id = j, !.job = outbox[j]]]
      BY <2>2 DEF FetchReadyJobs
    <3>2. [Idle EXCEPT !.at = "fetched", !.id = j, !.job = outbox[j]].at = "fetched"
      BY DEF Idle
    <3>3. worker'[v] = worker[v] \/ worker'[v].at = "fetched"
      BY <1>0, <3>1, <3>2
    <3>4. QED
      BY <3>3
  <2>3. CASE ClaimJob(w)
    BY <1>0, <2>3 DEF ClaimJob, WorkerType
  <2>4. CASE ClaimLost(w) \/ Abandon(w) \/ SaveDone(w) \/ SaveFailure(w)
    BY <1>0, <2>1, <2>4 DEF ClaimLost, Abandon, SaveDone, SaveFailure, SaveJob, Idle
  <2>5. CASE SendAnswerLost(w) \/ SendRefused(w) \/ SaveSent(w) \/ SaveFailed(w)
    BY <1>0, <2>5 DEF SendAnswerLost, SendRefused, SaveSent, SaveFailed, Goto, WorkerType
  <2>6. CASE v # w
    BY <1>6, <2>6, OthersStay
  <2>7. QED
    BY <1>6, <2>2, <2>3, <2>4, <2>5, <2>6 DEF WorkerStep
<1>7. worker'[v] = worker[v] \/ \E w \in Workers : WorkerStep(w)
  BY DEF DomNext, vars, QueueMessage, CreateOutbox, DomTick, ReceiverStep, FindReported,
     SaveReported, DropReport
<1>8. QED
  BY <1>1, <1>2, <1>3, <1>4, <1>5, <1>6, <1>7

\* The receivers' copies: rows that had an id.
LEMMA ReceiverCopiesStep ==
  ASSUME DomTypeOK, CopiesInv, [DomNext]_vars,
         NEW r \in Receivers, NEW found, found \in receiver'[r]
  PROVE  EntityOK(found[2], accepted'[found[1]]) /\ found[2].wa_message_id # NoWa
<1>0. /\ message \in [Jobs -> Message \cup {NoRow}]
      /\ receiver \in [Receivers -> SUBSET (Jobs \X Message)]
  BY DEF DomTypeOK
<1>1. CASE found \in receiver[r]
  BY <1>0, <1>1, EntityStays DEF CopiesInv
<1>2. CASE FindReported(r)
  <2>1. PICK j \in Jobs : /\ message[j] # NoRow /\ message[j].wa_message_id # NoWa
                          /\ receiver' = [receiver EXCEPT ![r] = {<<j, message[j]>>}]
    BY <1>2 DEF FindReported
  <2>2. found = <<j, message[j]>> /\ message[j] \in Message /\ EntityOK(message[j], accepted[j])
    BY <1>0, <2>1 DEF CopiesInv
  <2>3. QED
    BY <2>1, <2>2, EntityStays
<1>3. CASE \E w \in Workers : WorkerStep(w)
  BY <1>1, <1>3 DEF WorkerStep, FetchReadyJobs, ClaimJob, ClaimLost, SendAccepted,
     SendAnswerLost, SendRefused, FindForSuccess, SaveSent, SaveDone, FindForFailure,
     SaveFailed, SaveFailure, Abandon
<1>4. CASE \E q \in Receivers : ReceiverStep(q)
  BY <1>0, <1>1, <1>2, <1>4 DEF ReceiverStep, FindReported, SaveReported, DropReport
<1>5. QED
  BY <1>1, <1>3, <1>4 DEF DomNext, vars, QueueMessage, CreateOutbox, DomTick

LEMMA CopiesInit == DomInit => CopiesInv
BY DEF DomInit, CopiesInv, Idle, At

LEMMA CopiesStep == DomTypeOK /\ CopiesInv /\ [DomNext]_vars => CopiesInv'
BY RowCopiesStep, WorkerCopiesStep, ReceiverCopiesStep DEF CopiesInv, At

\* Whatever the services save loads again, with workers of any speed.
THEOREM RowsAlwaysParse == DomSpec => []RowsParse
<1>1. DomTypeOK /\ CopiesInv => RowsParse
  BY DEF CopiesInv, RowsParse, EntityOK
<1>2. QED
  BY <1>1, TypeInit, TypeStep, CopiesInit, CopiesStep, PTL DEF DomSpec

-----------------------------------------------------------------------------
(* Claims.                                                                 *)

\* A step that takes no claim and writes no job.
KeepsClaims ==
  /\ UNCHANGED <<now, outbox>>
  /\ \A v \in Workers :
       /\ worker'[v].at = "fetched" => worker'[v] = worker[v]
       /\ worker'[v].at \in Owning =>
            /\ worker[v].at \in Owning
            /\ worker'[v].id = worker[v].id /\ worker'[v].job = worker[v].job

Saves(w) == SaveDone(w) \/ SaveFailure(w)

LEMMA ClaimKinds ==
  ASSUME DomTypeOK, [DomNext]_vars
  PROVE  \/ KeepsClaims \/ DomTick
         \/ \E j \in Jobs : CreateOutbox(j)
         \/ \E w \in Workers : FetchReadyJobs(w) \/ ClaimJob(w) \/ Saves(w)
<1>0. worker \in [Workers -> WorkerType]
  BY DEF DomTypeOK, WorkerType
<1>1. CASE UNCHANGED <<now, outbox, worker>>
  BY <1>1 DEF KeepsClaims
<1>2. ASSUME NEW w \in Workers, UNCHANGED <<now, outbox>>, WorkerStep(w),
             worker'[w].at # "fetched",
             worker'[w].at \in Owning =>
               /\ worker[w].at \in Owning
               /\ worker'[w].id = worker[w].id /\ worker'[w].job = worker[w].job
      PROVE  KeepsClaims
  <2>1. \A v \in Workers : v # w => worker'[v] = worker[v]
    BY <1>2, OthersStay
  <2>2. QED
    BY <1>2, <2>1 DEF KeepsClaims
<1>3. ASSUME NEW w \in Workers, ClaimLost(w) \/ Abandon(w) PROVE KeepsClaims
  <2>1. worker'[w] = Idle /\ UNCHANGED <<now, outbox>> /\ WorkerStep(w)
    BY <1>0, <1>3 DEF ClaimLost, Abandon, WorkerStep
  <2>2. Idle.at = "idle"
    BY DEF Idle
  <2>3. QED
    BY <1>2, <2>1, <2>2 DEF Owning
<1>4. ASSUME NEW w \in Workers, SendAccepted(w) \/ SendAnswerLost(w) \/ SendRefused(w)
      PROVE  KeepsClaims
  <2>1. /\ UNCHANGED <<now, outbox>> /\ WorkerStep(w) /\ worker[w].at \in Owning
        /\ worker'[w].at \in {"success", "failure"}
        /\ worker'[w].id = worker[w].id /\ worker'[w].job = worker[w].job
    BY <1>0, <1>4 DEF SendAccepted, SendAnswerLost, SendRefused, Goto, WorkerStep, Owning,
       Places, At, WorkerType
  <2>2. QED
    BY <1>2, <2>1
<1>5. ASSUME NEW w \in Workers,
             FindForSuccess(w) \/ SaveSent(w) \/ FindForFailure(w) \/ SaveFailed(w)
      PROVE  KeepsClaims
  <2>1. CASE FindForSuccess(w) \/ SaveSent(w)
    <3>1. /\ UNCHANGED <<now, outbox>> /\ WorkerStep(w) /\ worker[w].at \in Owning
          /\ worker'[w].at \in {"save_sent", "save_done"}
          /\ worker'[w].id = worker[w].id /\ worker'[w].job = worker[w].job
      BY <1>0, <2>1 DEF FindForSuccess, SaveSent, Goto, WorkerStep, Owning, Places, At, WorkerType
    <3>2. QED
      BY <1>2, <3>1
  <2>2. CASE FindForFailure(w) \/ SaveFailed(w)
    <3>1. /\ UNCHANGED <<now, outbox>> /\ WorkerStep(w) /\ worker[w].at \in Owning
          /\ worker'[w].at \in {"save_failed", "save_failure"}
          /\ worker'[w].id = worker[w].id /\ worker'[w].job = worker[w].job
      BY <1>0, <2>2 DEF FindForFailure, SaveFailed, Goto, WorkerStep, Owning, Places, At, WorkerType
    <3>2. QED
      BY <1>2, <3>1
  <2>3. QED
    BY <1>5, <2>1, <2>2
<1>6. CASE \E w \in Workers : WorkerStep(w)
  BY <1>3, <1>4, <1>5, <1>6 DEF WorkerStep, Saves
<1>7. QED
  BY <1>1, <1>6 DEF DomNext, vars, QueueMessage, ReceiverStep, FindReported, SaveReported,
     DropReport

\* Who claims a job finds no owner: an owner's claim is younger than what the
\* claimant has fetched.
LEMMA NobodyOwns ==
  ASSUME DomTypeOK, ClaimInv, Undisputed, NEW w \in Workers, ClaimJob(w),
         NEW v \in Workers, worker[v].at \in Owning, worker[v].id = worker[w].id
  PROVE  FALSE
<1>1. worker[w].at = "fetched" /\ v # w
  BY DEF ClaimJob, At, Owning
<1>2. Prompt
  BY <1>1 DEF Undisputed
<1>3. /\ outbox[worker[w].id].status = worker[w].job.status
      /\ outbox[worker[w].id].updated_at = worker[w].job.updated_at
  BY DEF ClaimJob
<1>4. /\ outbox[worker[w].id].status = "processing"
      /\ now < outbox[worker[w].id].updated_at + StaleAfter
  BY <1>2 DEF ClaimInv
<1>5. worker[w].job.updated_at + StaleAfter <= now
  BY <1>1, <1>3, <1>4 DEF ClaimInv, At
<1>6. worker[w].job.updated_at \in Nat /\ now \in Nat
  BY DEF DomTypeOK, Outbox
<1>7. QED
  BY <1>3, <1>4, <1>5, <1>6

LEMMA ClaimInvStep ==
  ASSUME DomTypeOK, ClaimInv, Undisputed, [DomNext]_vars
  PROVE  ClaimInv'
<1>0. /\ worker \in [Workers -> WorkerType] /\ outbox \in [Jobs -> Outbox \cup {NoRow}]
      /\ now \in Nat /\ \A w \in Workers : worker[w].id \in Jobs /\ worker[w].job \in Outbox
      /\ \A w \in Workers : worker[w].at # "idle" => outbox[worker[w].id] # NoRow
  BY DEF DomTypeOK, WorkerType, At
<1>1. CASE KeepsClaims
  BY <1>1 DEF KeepsClaims, ClaimInv, At
<1>2. CASE DomTick
  <2>1. UNCHANGED <<worker, outbox>> /\ now' = now + 1
    BY <1>2 DEF DomTick
  <2>2. Prompt => \A w \in Workers :
          worker[w].at \in Owning => now + 1 < worker[w].job.updated_at + StaleAfter
    BY <1>2 DEF DomTick
  <2>3. \A w \in Workers : worker[w].job.updated_at + StaleAfter \in Nat
    BY <1>0 DEF Outbox
  <2>4. QED
    BY <1>0, <2>1, <2>2, <2>3 DEF ClaimInv, At
<1>3. ASSUME NEW j \in Jobs, CreateOutbox(j) PROVE ClaimInv'
  <2>1. UNCHANGED <<worker, now>> /\ \A i \in Jobs \ {j} : outbox'[i] = outbox[i]
    BY <1>0, <1>3 DEF CreateOutbox
  <2>2. \A w \in Workers : worker[w].at \in Owning => worker[w].id # j
    BY <1>0, <1>3 DEF CreateOutbox, Owning
  <2>3. QED
    BY <1>0, <2>1, <2>2 DEF ClaimInv, At
<1>4. ASSUME NEW w \in Workers, FetchReadyJobs(w) PROVE ClaimInv'
  <2>1. PICK j \in Jobs : /\ outbox[j] # NoRow /\ IsReady(outbox[j])
                          /\ worker' = [worker EXCEPT ![w] =
                               [Idle EXCEPT !.at = "fetched", !.id = j, !.job = outbox[j]]]
    BY <1>4 DEF FetchReadyJobs
  <2>2. UNCHANGED <<now, outbox>>
    BY <1>4 DEF FetchReadyJobs
  <2>3. /\ worker'[w].at = "fetched" /\ worker'[w].job = outbox[j]
        /\ \A v \in Workers : v # w => worker'[v] = worker[v]
    BY <1>0, <2>1 DEF Idle
  <2>4. worker'[w].at \notin Owning
    BY <2>3 DEF Owning
  <2>5. \/ outbox[j].status = "pending"
        \/ outbox[j].status = "processing" /\ outbox[j].updated_at + StaleAfter <= now
    BY <2>1 DEF IsReady
  <2>6. QED
    BY <2>2, <2>3, <2>4, <2>5 DEF ClaimInv, At
<1>5. ASSUME NEW w \in Workers, ClaimJob(w) PROVE ClaimInv'
  <2>1. PICK j \in Jobs : j = worker[w].id /\ outbox[j] \in Outbox
    BY <1>0, <1>5 DEF ClaimJob, At
  <2>2. PICK o : o = MarkProcessing(outbox[j])
    OBVIOUS
  <2>3. o \in Outbox /\ o.status = "processing" /\ o.updated_at = now
    BY <1>0, <2>1, <2>2 DEF MarkProcessing, Outbox, OutboxStatus
  <2>4. /\ UNCHANGED now /\ outbox'[j] = o /\ \A i \in Jobs \ {j} : outbox'[i] = outbox[i]
        /\ worker'[w].at = "claimed" /\ worker'[w].id = j /\ worker'[w].job = o
    BY <1>0, <1>5, <2>1, <2>2 DEF ClaimJob, WorkerType
  <2>5. \A v \in Workers : v # w => worker'[v] = worker[v]
    BY <1>5, OthersStay DEF WorkerStep
  <2>6. \A v \in Workers : worker[v].at \in Owning => worker[v].id # j
    BY <1>5, <2>1, NobodyOwns
  <2>7. ASSUME NEW v \in Workers, v # w, worker'[v].at \in Owning
        PROVE  /\ outbox'[worker'[v].id] = worker'[v].job
               /\ worker'[v].job.status = "processing"
               /\ Prompt => now' < worker'[v].job.updated_at + StaleAfter
               /\ worker'[v].id # j
    BY <1>0, <2>4, <2>5, <2>6, <2>7 DEF ClaimInv
  <2>8. Prompt => now' < o.updated_at + StaleAfter
    BY <1>0, <2>3, <2>4
  <2>9. \A v \in Workers : worker'[v].at = "fetched" => v # w
    BY <2>4
  <2>10. QED
    BY <2>3, <2>4, <2>5, <2>6, <2>7, <2>8, <2>9 DEF ClaimInv, At
<1>6. ASSUME NEW w \in Workers, Saves(w) PROVE ClaimInv'
  <2>1. PICK o : SaveJob(w, o)
    BY <1>6 DEF Saves, SaveDone, SaveFailure
  <2>2. /\ UNCHANGED now /\ worker'[w] = Idle /\ worker[w].at \in Owning
        /\ \A i \in Jobs : i # worker[w].id => outbox'[i] = outbox[i]
    BY <1>0, <1>6, <2>1 DEF Saves, SaveDone, SaveFailure, SaveJob, Owning, Places, At
  <2>3. \A v \in Workers : v # w => worker'[v] = worker[v]
    BY <1>6, OthersStay DEF WorkerStep, Saves
  <2>4. worker'[w].at = "idle"
    BY <2>2 DEF Idle
  <2>5. \A v \in Workers : (v # w /\ worker[v].at \in Owning) => worker[v].id # worker[w].id
    BY <2>2 DEF ClaimInv
  <2>6. QED
    BY <1>0, <2>2, <2>3, <2>4, <2>5 DEF ClaimInv, Owning, At
<1>7. QED
  BY <1>1, <1>2, <1>3, <1>4, <1>5, <1>6, ClaimKinds

-----------------------------------------------------------------------------
(* What becomes of a job's row.                                            *)

\* The owner's copy is the row, which it saves done or with a failure counted.
LEMMA SavedRow ==
  ASSUME DomTypeOK, ClaimInv, NEW w \in Workers, Saves(w)
  PROVE  LET j == worker[w].id IN
         /\ j \in Jobs /\ outbox[j] \in Outbox /\ outbox[j].status = "processing"
         /\ \A i \in Jobs \ {j} : outbox'[i] = outbox[i]
         /\ \/ At(w, "save_done") /\ outbox'[j] = MarkDone(outbox[j])
            \/ outbox'[j] = FailJob(outbox[j])
<1>1. /\ outbox \in [Jobs -> Outbox \cup {NoRow}] /\ worker \in [Workers -> WorkerType]
      /\ worker[w].id \in Jobs /\ worker[w].job \in Outbox
  BY DEF DomTypeOK, WorkerType
<1>2. worker[w].at \in Owning
  BY DEF Saves, SaveDone, SaveFailure, At, Owning, Places
<1>3. outbox[worker[w].id] = worker[w].job /\ worker[w].job.status = "processing"
  BY <1>2 DEF ClaimInv
<1>4. CASE SaveDone(w)
  BY <1>1, <1>3, <1>4 DEF SaveDone, SaveJob
<1>5. CASE SaveFailure(w)
  BY <1>1, <1>3, <1>5 DEF SaveFailure, SaveJob
<1>6. QED
  BY <1>4, <1>5 DEF Saves

LEMMA ClaimedRow ==
  ASSUME DomTypeOK, ClaimInv, NEW w \in Workers, ClaimJob(w)
  PROVE  LET j == worker[w].id IN
         /\ j \in Jobs /\ outbox[j] \in Outbox /\ outbox[j].status \in {"pending", "processing"}
         /\ \A i \in Jobs \ {j} : outbox'[i] = outbox[i]
         /\ outbox'[j] = MarkProcessing(outbox[j])
BY DEF DomTypeOK, ClaimInv, ClaimJob, At

LEMMA FailedRow ==
  ASSUME NEW o \in Outbox, now \in Nat, o.attempts < MaxAttempts
  PROVE  /\ FailJob(o).attempts = o.attempts + 1
         /\ FailJob(o).status = IF o.attempts + 1 = MaxAttempts THEN "failed" ELSE "pending"
BY DEF FailJob, Retried, Outbox

LEMMA AttemptsInvStep ==
  ASSUME DomTypeOK, ClaimInv, AttemptsInv, [DomNext]_vars
  PROVE  AttemptsInv'
<1>0. now \in Nat /\ outbox \in [Jobs -> Outbox \cup {NoRow}]
  BY DEF DomTypeOK
<1>1. CASE KeepsClaims \/ DomTick
  BY <1>1 DEF KeepsClaims, DomTick, AttemptsInv
<1>2. ASSUME NEW j \in Jobs, CreateOutbox(j) PROVE AttemptsInv'
  BY <1>0, <1>2 DEF CreateOutbox, NewJob, AttemptsInv
<1>3. ASSUME NEW w \in Workers, FetchReadyJobs(w) PROVE AttemptsInv'
  BY <1>3 DEF FetchReadyJobs, AttemptsInv
<1>4. ASSUME NEW w \in Workers, ClaimJob(w) PROVE AttemptsInv'
  <2>1. PICK j \in Jobs : j = worker[w].id
    BY <1>4, ClaimedRow
  <2>2. /\ outbox[j] \in Outbox /\ outbox[j].attempts < MaxAttempts
        /\ \A i \in Jobs \ {j} : outbox'[i] = outbox[i]
        /\ outbox'[j] = MarkProcessing(outbox[j])
    BY <1>4, <2>1, ClaimedRow DEF AttemptsInv
  <2>3. outbox'[j].attempts = outbox[j].attempts
    BY <2>2 DEF MarkProcessing, Outbox
  <2>4. QED
    BY <2>1, <2>2, <2>3 DEF AttemptsInv
<1>5. ASSUME NEW w \in Workers, Saves(w) PROVE AttemptsInv'
  <2>1. PICK j \in Jobs : j = worker[w].id
    BY <1>5, SavedRow
  <2>2. /\ outbox[j] \in Outbox /\ outbox[j].attempts < MaxAttempts
        /\ \A i \in Jobs \ {j} : outbox'[i] = outbox[i]
        /\ outbox'[j] = MarkDone(outbox[j]) \/ outbox'[j] = FailJob(outbox[j])
    BY <1>5, <2>1, SavedRow DEF AttemptsInv
  <2>3. MarkDone(outbox[j]).status = "done"
    BY <2>2 DEF MarkDone, Outbox
  <2>4. FailJob(outbox[j]).status = "pending" => FailJob(outbox[j]).attempts < MaxAttempts
    BY <1>0, <2>2 DEF FailJob, Retried, Outbox
  <2>5. FailJob(outbox[j]).status # "processing"
    BY DEF FailJob
  <2>6. QED
    BY <2>1, <2>2, <2>3, <2>4, <2>5 DEF AttemptsInv
<1>6. QED
  BY <1>1, <1>2, <1>3, <1>4, <1>5, ClaimKinds

-----------------------------------------------------------------------------
(* A delivered message stays so: only an owner saves a copy without the    *)
(* id, and the job of an owner is not done.                                *)

LEMMA StaysSent ==
  ASSUME DomTypeOK, CopiesInv, ClaimInv, SentInv, [DomNext]_vars,
         NEW j \in Jobs, Delivered(j),
         \A w \in Workers : ~(SaveFailed(w) /\ worker[w].id = j)
  PROVE  Delivered(j)'
<1>0. /\ worker \in [Workers -> WorkerType] /\ message \in [Jobs -> Message \cup {NoRow}]
      /\ receiver \in [Receivers -> SUBSET (Jobs \X Message)]
      /\ \A m \in Message : m # NoRow
  BY DEF DomTypeOK, WorkerType, Message, NoRow, MessageStatus, SuccessStatus
<1>1. CASE message'[j] = message[j] /\ (j \in recalled => j \in recalled')
  BY <1>1 DEF Delivered
<1>2. ASSUME NEW i \in Jobs, QueueMessage(i)
      PROVE  message'[j] = message[j] /\ recalled' = recalled
  BY <1>0, <1>2 DEF QueueMessage, Delivered
<1>3. ASSUME NEW w \in Workers, SaveSent(w), worker[w].id = j
      PROVE  Delivered(j)'
  <2>1. /\ message'[j] = worker[w].msg /\ worker[w].msg.status = "sent"
        /\ worker[w].msg \in Message /\ EntityOK(worker[w].msg, accepted[j])
    BY <1>0, <1>3 DEF SaveSent, SaveMessage, SentInv, CopiesInv, WorkerType, At
  <2>2. QED
    BY <1>0, <2>1 DEF SuccessStatus, Delivered, EntityOK, Parses
<1>4. ASSUME NEW w \in Workers, WorkerStep(w), ~(SaveSent(w) /\ worker[w].id = j)
      PROVE  message'[j] = message[j] /\ (j \in recalled => j \in recalled')
  <2>1. CASE SaveSent(w) \/ SaveFailed(w)
    BY <1>0, <1>4, <2>1 DEF SaveSent, SaveFailed, SaveMessage, WorkerType
  <2>2. CASE ~(SaveSent(w) \/ SaveFailed(w))
    BY <1>4, <2>2 DEF WorkerStep, FetchReadyJobs, ClaimJob, ClaimLost, SendAccepted,
       SendAnswerLost, SendRefused, FindForSuccess, SaveDone, FindForFailure, SaveFailure,
       Abandon
  <2>3. QED
    BY <2>1, <2>2
<1>5. ASSUME NEW r \in Receivers, SaveReported(r)
      PROVE  Delivered(j)'
  <2>1. PICK found \in receiver[r], status \in Reported :
          /\ message' = [message EXCEPT ![found[1]] = UpdateStatus(found[2], status)]
          /\ recalled' = IF status \in SuccessStatus
                         THEN recalled \ {found[1]} ELSE recalled \cup {found[1]}
    BY <1>5 DEF SaveReported
  <2>2. found[1] \in Jobs /\ found[2] \in Message /\ found[2].wa_message_id # NoWa
    BY <1>0, <2>1 DEF CopiesInv
  <2>3. CASE found[1] = j
    <3>1. message'[j] = UpdateStatus(found[2], status)
      BY <1>0, <2>1, <2>3
    <3>2. /\ UpdateStatus(found[2], status).status = status
          /\ UpdateStatus(found[2], status).wa_message_id = found[2].wa_message_id
      BY <2>2 DEF UpdateStatus, Message
    <3>3. UpdateStatus(found[2], status) \in Message
      BY <2>2, <2>1 DEF UpdateStatus, Message, Reported
    <3>4. status \in SuccessStatus \/ j \in recalled'
      BY <2>1, <2>3
    <3>5. QED
      BY <1>0, <2>2, <3>1, <3>2, <3>3, <3>4 DEF Delivered
  <2>4. CASE found[1] # j
    BY <1>1, <2>1, <2>4
  <2>5. QED
    BY <2>3, <2>4
<1>6. QED
  BY <1>1, <1>2, <1>3, <1>4, <1>5 DEF DomNext, vars, CreateOutbox, DomTick, ReceiverStep,
     FindReported, DropReport

\* Who comes to save a sent message, or has saved it.
LEMMA ComesToSave ==
  ASSUME DomTypeOK, [DomNext]_vars, NEW v \in Workers,
         worker'[v].at \in {"save_sent", "save_done"}, worker'[v] # worker[v]
  PROVE  \/ FindForSuccess(v) /\ worker'[v].at = "save_sent"
         \/ SaveSent(v) /\ worker'[v].at = "save_done"
<1>0. worker \in [Workers -> WorkerType]
  BY DEF DomTypeOK, WorkerType
<1>1. PICK w \in Workers : WorkerStep(w)
  BY DEF DomNext, vars, QueueMessage, CreateOutbox, DomTick, ReceiverStep, FindReported,
     SaveReported, DropReport
<1>2. v = w
  BY <1>1, OthersStay
<1>3. CASE FetchReadyJobs(w)
  <2>1. PICK j \in Jobs : worker' = [worker EXCEPT ![w] =
                             [Idle EXCEPT !.at = "fetched", !.id = j, !.job = outbox[j]]]
    BY <1>3 DEF FetchReadyJobs
  <2>2. worker'[v].at = "fetched"
    BY <1>0, <1>2, <2>1 DEF Idle
  <2>3. QED
    BY <2>2
<1>4. CASE ClaimLost(w) \/ Abandon(w) \/ Saves(w)
  <2>1. worker'[v] = Idle
    BY <1>0, <1>2, <1>4 DEF ClaimLost, Abandon, Saves, SaveDone, SaveFailure, SaveJob
  <2>2. QED
    BY <2>1 DEF Idle
<1>5. CASE ClaimJob(w) \/ SendAccepted(w) \/ SendAnswerLost(w) \/ SendRefused(w)
  BY <1>0, <1>2, <1>5 DEF ClaimJob, SendAccepted, SendAnswerLost, SendRefused, Goto, WorkerType
<1>6. CASE FindForFailure(w) \/ SaveFailed(w)
  BY <1>0, <1>2, <1>6 DEF FindForFailure, SaveFailed, Goto, WorkerType
<1>7. CASE FindForSuccess(w) \/ SaveSent(w)
  BY <1>0, <1>2, <1>7 DEF FindForSuccess, SaveSent, Goto, WorkerType
<1>8. QED
  BY <1>1, <1>3, <1>4, <1>5, <1>6, <1>7 DEF WorkerStep, Saves

LEMMA SentInvStep ==
  ASSUME DomInv, Undisputed, [DomNext]_vars
  PROVE  SentInv'
<1>0. /\ worker \in [Workers -> WorkerType] /\ outbox \in [Jobs -> Outbox \cup {NoRow}]
      /\ message \in [Jobs -> Message \cup {NoRow}] /\ now \in Nat
      /\ \A w \in Workers : worker[w].id \in Jobs /\ worker[w].msg \in Message
      /\ DomTypeOK /\ CopiesInv /\ ClaimInv /\ SentInv
  BY DEF DomInv, DomTypeOK, WorkerType
<1>1. ASSUME NEW v \in Workers, worker'[v].at = "save_sent"
      PROVE  worker'[v].msg.status = "sent"
  <2>1. CASE worker'[v] = worker[v]
    BY <1>0, <1>1, <2>1 DEF SentInv, At
  <2>2. CASE FindForSuccess(v)
    <3>1. PICK m \in Message : m = message[worker[v].id]
      BY <1>0, <2>2 DEF DomTypeOK, FindForSuccess, At
    <3>2. worker'[v].msg = MarkSent(m, worker[v].wa)
      BY <1>0, <2>2, <3>1 DEF FindForSuccess, WorkerType
    <3>3. QED
      BY <3>1, <3>2 DEF MarkSent, Message
  <2>3. QED
    BY <1>0, <1>1, <2>1, <2>2, ComesToSave
<1>2. ASSUME NEW v \in Workers, worker'[v].at = "save_done",
             NEW j \in Jobs, j = worker'[v].id
      PROVE  Delivered(j)'
  <2>1. CASE worker'[v] = worker[v]
    <3>1. Delivered(j) /\ j = worker[v].id
      BY <1>0, <1>2, <2>1 DEF SentInv, At
    <3>2. ASSUME NEW w \in Workers, SaveFailed(w), worker[w].id = j PROVE FALSE
      <4>1. worker[w].at = "save_failed" /\ worker[v].at = "save_done"
        BY <1>2, <2>1, <3>2 DEF SaveFailed, At
      <4>2. worker[w].at \in Owning /\ worker[v].at \in Owning
        BY <4>1 DEF Owning, Places
      <4>3. QED
        BY <1>0, <3>1, <3>2, <4>1, <4>2 DEF ClaimInv
    <3>3. QED
      BY <1>0, <3>1, <3>2, StaysSent
  <2>2. CASE SaveSent(v)
    <3>1. /\ j = worker[v].id /\ message'[j] = worker[v].msg
          /\ worker[v].msg.status = "sent" /\ worker[v].msg \in Message
          /\ EntityOK(worker[v].msg, accepted[j])
      BY <1>0, <1>2, <2>2 DEF SaveSent, SaveMessage, Goto, SentInv, CopiesInv, WorkerType, At
    <3>2. QED
      BY <3>1 DEF SuccessStatus, Delivered, EntityOK, Parses, Message, NoRow
  <2>3. QED
    BY <1>0, <1>2, <2>1, <2>2, ComesToSave
<1>3. ASSUME NEW j \in Jobs, outbox'[j].status = "done"
      PROVE  Delivered(j)'
  <2>1. CASE outbox[j].status = "done"
    <3>1. Delivered(j)
      BY <1>0, <2>1 DEF SentInv
    <3>2. ASSUME NEW w \in Workers, SaveFailed(w), worker[w].id = j PROVE FALSE
      <4>1. worker[w].at \in Owning
        BY <3>2 DEF SaveFailed, At, Owning, Places
      <4>2. QED
        BY <1>0, <2>1, <3>2, <4>1 DEF ClaimInv
    <3>3. QED
      BY <1>0, <3>1, <3>2, StaysSent
  <2>2. ASSUME NEW w \in Workers, Saves(w), outbox[j].status # "done"
        PROVE  Delivered(j)'
    <3>1. j = worker[w].id
      BY <1>0, <1>3, <2>2, SavedRow
    <3>2. FailJob(outbox[j]).status # "done"
      BY DEF FailJob
    <3>3. At(w, "save_done")
      BY <1>0, <1>3, <2>2, <3>1, <3>2, SavedRow
    <3>4. UNCHANGED <<message, recalled>>
      BY <2>2 DEF Saves, SaveDone, SaveFailure
    <3>5. Delivered(j)
      BY <1>0, <3>1, <3>3 DEF SentInv
    <3>6. QED
      BY <3>4, <3>5 DEF Delivered
  <2>3. ASSUME NEW w \in Workers, ClaimJob(w) PROVE outbox[j].status = "done"
    <3>1. PICK i \in Jobs : i = worker[w].id
      BY <1>0
    <3>2. /\ outbox[i] \in Outbox /\ \A k \in Jobs \ {i} : outbox'[k] = outbox[k]
          /\ outbox'[i] = MarkProcessing(outbox[i])
      BY <1>0, <2>3, <3>1, ClaimedRow
    <3>3. outbox'[i].status = "processing"
      BY <3>2 DEF MarkProcessing, Outbox
    <3>4. QED
      BY <1>3, <3>2, <3>3
  <2>4. ASSUME NEW i \in Jobs, CreateOutbox(i) PROVE outbox[j].status = "done"
    BY <1>0, <1>3, <2>4 DEF CreateOutbox, NewJob
  <2>5. ASSUME KeepsClaims \/ DomTick \/ \E w \in Workers : FetchReadyJobs(w)
        PROVE  outbox[j].status = "done"
    BY <1>3, <2>5 DEF KeepsClaims, DomTick, FetchReadyJobs
  <2>6. QED
    BY <1>0, <2>1, <2>2, <2>3, <2>4, <2>5, ClaimKinds
<1>4. \A v \in Workers : worker'[v].id \in Jobs
  BY <1>0, TypeStep DEF DomTypeOK
<1>5. QED
  BY <1>1, <1>2, <1>3, <1>4 DEF SentInv, At

LEMMA DomInvInit == DomInit => DomInv
BY TypeInit, CopiesInit
   DEF DomInit, DomInv, ClaimInv, AttemptsInv, SentInv, NoRow, Idle, At, Owning

LEMMA DomInvStep == Undisputed /\ DomInv /\ [DomNext]_vars => DomInv'
BY TypeStep, CopiesStep, ClaimInvStep, AttemptsInvStep, SentInvStep DEF DomInv

\* The invariant, for prompt workers or a single one.
THEOREM DomInductive == Undisputed => (DomSpec => []DomInv)
<1>1. SUFFICES ASSUME Undisputed PROVE DomSpec => []DomInv
  OBVIOUS
<1>2. DomInv /\ [DomNext]_vars => DomInv'
  BY <1>1, DomInvStep
<1>3. QED
  BY <1>2, DomInvInit, PTL DEF DomSpec

\* A done job's message says it was sent, with the id of an accepted send.
THEOREM DoneIsAlwaysSent == Undisputed => (DomSpec => []DoneIsSent)
<1>1. DomInv => DoneIsSent
  <2> SUFFICES ASSUME DomInv, NEW j \in Jobs, outbox[j].status = "done"
               PROVE  /\ message[j].status \in SuccessStatus \/ j \in recalled
                      /\ message[j].wa_message_id \in 1 .. accepted[j]
    BY DEF DoneIsSent
  <2>1. Delivered(j) /\ accepted[j] \in Nat
    BY DEF DomInv, SentInv, DomTypeOK
  <2>2. EntityOK(message[j], accepted[j])
    BY <2>1 DEF Delivered, DomInv, CopiesInv
  <2>3. QED
    BY <2>1, <2>2 DEF Delivered, EntityOK, NoWa
<1>2. QED
  BY <1>1, DomInductive, PTL

-----------------------------------------------------------------------------
(* The refinement.  A step writes one job's row or counts one send.        *)

\* Rows other than j's have their phases and failures.
LEMMA OneRow ==
  ASSUME NEW j \in Jobs, \A i \in Jobs \ {j} : outbox'[i] = outbox[i]
  PROVE  /\ [i \in Jobs |-> PhaseOf(outbox'[i].status)] =
              [[i \in Jobs |-> PhaseOf(outbox[i].status)] EXCEPT ![j] = PhaseOf(outbox'[j].status)]
         /\ [i \in Jobs |-> FailuresOf(outbox'[i])] =
              [[i \in Jobs |-> FailuresOf(outbox[i])] EXCEPT ![j] = FailuresOf(outbox'[j])]
OBVIOUS

LEMMA DomainDeliveryStep ==
  ASSUME DomInv, [DomNext]_vars
  PROVE  [DomainDelivery!DNext]_(DomainDelivery!dvars)
<1>0. /\ outbox \in [Jobs -> Outbox \cup {NoRow}] /\ accepted \in [Jobs -> Nat]
      /\ worker \in [Workers -> WorkerType] /\ now \in Nat
      /\ DomTypeOK /\ ClaimInv /\ AttemptsInv /\ CopiesInv /\ SentInv
  BY DEF DomInv, DomTypeOK, WorkerType
<1>1. CASE UNCHANGED <<outbox, accepted>>
  BY <1>1 DEF DomainDelivery!dvars
<1>2. ASSUME NEW j \in Jobs, CreateOutbox(j) PROVE DomainDelivery!HandOver(j)
  <2>1. /\ outbox[j] = NoRow /\ outbox'[j] = NewJob /\ accepted' = accepted
        /\ \A i \in Jobs \ {j} : outbox'[i] = outbox[i]
    BY <1>0, <1>2 DEF CreateOutbox
  <2>2. NewJob # NoRow
    BY DEF NewJob, NoRow
  <2>3. /\ PhaseOf(outbox[j].status) = "unknown" /\ PhaseOf(outbox'[j].status) = "waiting"
        /\ FailuresOf(outbox[j]) = 0 /\ FailuresOf(outbox'[j]) = 0
    BY <2>1, <2>2 DEF NewJob, NoRow, PhaseOf, FailuresOf
  <2>4. [i \in Jobs |-> FailuresOf(outbox'[i])] = [i \in Jobs |-> FailuresOf(outbox[i])]
    BY <2>1, <2>3
  <2>5. QED
    BY <2>1, <2>3, <2>4, OneRow DEF DomainDelivery!HandOver
<1>3. ASSUME NEW w \in Workers, SendAccepted(w) \/ SendAnswerLost(w)
      PROVE  DomainDelivery!Transmit(worker[w].id)
  <2>1. PICK j \in Jobs : j = worker[w].id
    BY <1>0 DEF WorkerType
  <2>2. worker[w].at \in Owning
    BY <1>3 DEF SendAccepted, SendAnswerLost, At, Owning, Places
  <2>3. outbox[j].status = "processing"
    BY <1>0, <2>1, <2>2 DEF ClaimInv
  <2>4. accepted' = [accepted EXCEPT ![j] = @ + 1] /\ outbox' = outbox
    BY <1>3, <2>1 DEF SendAccepted, SendAnswerLost
  <2>5. QED
    BY <2>1, <2>3, <2>4 DEF DomainDelivery!Transmit, PhaseOf
<1>4. ASSUME NEW w \in Workers, ClaimJob(w) PROVE UNCHANGED DomainDelivery!dvars
  <2>1. PICK j \in Jobs : j = worker[w].id
    BY <1>0 DEF WorkerType
  <2>2. /\ outbox[j] \in Outbox /\ outbox[j].status \in {"pending", "processing"}
        /\ \A i \in Jobs \ {j} : outbox'[i] = outbox[i]
        /\ outbox'[j] = MarkProcessing(outbox[j]) /\ accepted' = accepted
    BY <1>0, <1>4, <2>1, ClaimedRow DEF ClaimJob
  <2>3. outbox'[j].status = "processing" /\ outbox'[j].attempts = outbox[j].attempts
    BY <2>2 DEF MarkProcessing, Outbox
  <2>4. outbox[j] # NoRow /\ outbox'[j] # NoRow
    BY <2>2, <2>3 DEF NoRow
  <2>5. /\ PhaseOf(outbox'[j].status) = PhaseOf(outbox[j].status)
        /\ FailuresOf(outbox'[j]) = FailuresOf(outbox[j])
    BY <2>2, <2>3, <2>4 DEF PhaseOf, FailuresOf
  <2>6. QED
    BY <2>2, <2>5 DEF DomainDelivery!dvars
<1>5. ASSUME NEW w \in Workers, Saves(w)
      PROVE  DomainDelivery!Confirm(worker[w].id) \/ DomainDelivery!Fail(worker[w].id)
  <2>1. PICK j \in Jobs : j = worker[w].id
    BY <1>0 DEF WorkerType
  <2>2. /\ outbox[j] \in Outbox /\ outbox[j].status = "processing"
        /\ \A i \in Jobs \ {j} : outbox'[i] = outbox[i]
        /\ outbox[j].attempts < MaxAttempts /\ outbox[j] # NoRow
    BY <1>0, <1>5, <2>1, SavedRow DEF AttemptsInv, NoRow
  <2>3. accepted' = accepted
    BY <1>5 DEF Saves, SaveDone, SaveFailure
  <2>4. CASE At(w, "save_done") /\ outbox'[j] = MarkDone(outbox[j])
    <3>1. outbox'[j].status = "done" /\ outbox'[j].attempts = outbox[j].attempts
      BY <2>2, <2>4 DEF MarkDone, Outbox
    <3>2. /\ PhaseOf(outbox'[j].status) = "sent" /\ PhaseOf(outbox[j].status) = "waiting"
          /\ FailuresOf(outbox'[j]) = FailuresOf(outbox[j])
      BY <2>2, <3>1 DEF PhaseOf, FailuresOf, NoRow
    <3>3. message[j] # NoRow /\ message[j].wa_message_id # NoWa
      BY <1>0, <2>1, <2>4 DEF SentInv, Delivered
    <3>4. accepted[j] > 0
      BY <1>0, <3>3 DEF CopiesInv, EntityOK, NoWa
    <3>5. [i \in Jobs |-> FailuresOf(outbox'[i])] = [i \in Jobs |-> FailuresOf(outbox[i])]
      BY <2>2, <3>2
    <3>6. QED
      BY <2>1, <2>2, <2>3, <3>2, <3>4, <3>5, OneRow DEF DomainDelivery!Confirm
  <2>5. CASE outbox'[j] = FailJob(outbox[j])
    <3>1. /\ outbox'[j].attempts = outbox[j].attempts + 1
          /\ outbox'[j].status = IF outbox[j].attempts + 1 = MaxAttempts THEN "failed" ELSE "pending"
      BY <1>0, <2>2, <2>5, FailedRow
    <3>2. /\ PhaseOf(outbox[j].status) = "waiting" /\ FailuresOf(outbox[j]) = outbox[j].attempts
          /\ FailuresOf(outbox'[j]) = outbox[j].attempts + 1
          /\ PhaseOf(outbox'[j].status) =
               IF outbox[j].attempts + 1 = MaxAttempts THEN "failed" ELSE "waiting"
      BY <2>2, <3>1 DEF PhaseOf, FailuresOf, NoRow
    <3>3. QED
      BY <2>1, <2>2, <2>3, <3>2, OneRow DEF DomainDelivery!Fail
  <2>6. QED
    BY <1>0, <1>5, <2>1, <2>4, <2>5, SavedRow
<1>6. \A w \in Workers : worker[w].id \in Jobs
  BY <1>0 DEF WorkerType
<1>7. \/ UNCHANGED <<outbox, accepted>> \/ \E j \in Jobs : CreateOutbox(j)
      \/ \E w \in Workers : SendAccepted(w) \/ SendAnswerLost(w) \/ ClaimJob(w) \/ Saves(w)
  BY DEF DomNext, vars, QueueMessage, DomTick, WorkerStep, Saves, FetchReadyJobs, ClaimLost,
     SendRefused, FindForSuccess, SaveSent, FindForFailure, SaveFailed, Abandon, ReceiverStep,
     FindReported, SaveReported, DropReport
<1>8. QED
  BY <1>1, <1>2, <1>3, <1>4, <1>5, <1>6, <1>7 DEF DomainDelivery!DNext

\* The services keep the same promise as the worker binary.
THEOREM ServicesImplementDelivery == Undisputed => (DomSpec => DomainDelivers)
<1>1. SUFFICES ASSUME Undisputed PROVE DomSpec => DomainDelivers
  OBVIOUS
<1>2. DomInit => DomainDelivery!DInit
  BY DEF DomInit, DomainDelivery!DInit, PhaseOf, FailuresOf, NoRow
<1>3. DomInv /\ [DomNext]_vars => [DomainDelivery!DNext]_(DomainDelivery!dvars)
  BY DomainDeliveryStep
<1>4. DomSpec => []DomInv
  BY <1>1, DomInductive
<1>5. QED
  BY <1>2, <1>3, <1>4, PTL DEF DomSpec, DomainDelivers, DomainDelivery!DSpec

=============================================================================
