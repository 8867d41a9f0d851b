--------------------------- MODULE MessagingProofs ---------------------------
(***************************************************************************)
(* Proofs about the outbox and the reports of Meta together.  A step of    *)
(* the workers is handled by the lemmas of OutboxProofs, point by point; a *)
(* receiver changes nothing of theirs but the status of one message.       *)
(***************************************************************************)
EXTENDS Messaging, OutboxProofs

-----------------------------------------------------------------------------
(***************************************************************************)
(* Any number of workers, however slow.                                    *)
(***************************************************************************)
\* A receiver looks a message up, writes its status, or lets the report go.
Finds(r) ==
  /\ UNCHANGED <<vars, recalled>>
  /\ \A q \in Receivers \ {r} : report'[q] = report[q]
  /\ \/ report'[r] = NoReport
     \/ /\ report'[r].id \in Jobs
        /\ report'[r].status \in Parsed \ {"failed"}
        /\ msg[report'[r].id].wa_message_id # NoWa

Writes(r) ==
  /\ report[r] # NoReport /\ report'[r] = NoReport
  /\ report[r].status \in MessageStatus
  /\ msg'[report[r].id].status = report[r].status
  /\ msg'[report[r].id].wa_message_id = msg[report[r].id].wa_message_id
  /\ \A i \in Jobs \ {report[r].id} : msg'[i] = msg[i]
  /\ recalled \ {report[r].id} \subseteq recalled'
  /\ report[r].status \in SentStatus \/ report[r].id \in recalled'
  /\ \A q \in Receivers \ {r} : report'[q] = report[q]
  /\ UNCHANGED <<now, job, pc, batch, held, accepted, faults, unrecorded, torn>>

LEMMA ReceiveKinds ==
  ASSUME MTypeOK, ReportInv, NEW r \in Receivers, Receive(r)
  PROVE  Finds(r) \/ Writes(r)
<1>1. ASSUME NEW j \in Jobs, NEW n \in 1..accepted[j], NEW status \in Reported,
             FindMessage(r, j, n, status)
      PROVE  Finds(r)
  <2>1. accepted[j] \in Nat /\ n # NoWa /\ msg[j].wa_message_id = n
    BY <1>1 DEF MTypeOK, TypeOK, NoWa, FindMessage
  <2>2. status \in Parsed \ {"failed"}
    BY <1>1 DEF FindMessage
  <2>3. report' = [report EXCEPT ![r] = [id |-> j, status |-> status]]
        /\ UNCHANGED <<vars, recalled>>
    BY <1>1 DEF FindMessage, Look
  <2>4. report'[r] = [id |-> j, status |-> status]
    BY <2>3 DEF MTypeOK
  <2>5. QED
    BY <2>1, <2>2, <2>3, <2>4 DEF Finds, MTypeOK
<1>2. ASSUME WriteStatus(r) PROVE Writes(r)
  BY <1>2 DEF WriteStatus, Writes, ReportInv, MTypeOK, TypeOK, MessageRow, history
<1>3. ASSUME DropReport(r) PROVE Finds(r)
  BY <1>3 DEF DropReport, Finds, MTypeOK
<1>4. QED
  BY <1>1, <1>2, <1>3 DEF Receive

\* Types are kept by both kinds of writer.
LEMMA MTypeStep == MTypeOK /\ ReportInv /\ [MNext]_mvars => MTypeOK'
<1> SUFFICES ASSUME MTypeOK, ReportInv, [MNext]_mvars PROVE MTypeOK'
  OBVIOUS
<1>1. ASSUME [Next]_vars, UNCHANGED <<report, recalled>> PROVE MTypeOK'
  BY <1>1, TypeStep DEF MTypeOK
<1>2. ASSUME NEW r \in Receivers, Receive(r) PROVE MTypeOK'
  <2>1. ASSUME NEW j \in Jobs, NEW n \in 1..accepted[j], NEW status \in Reported,
               FindMessage(r, j, n, status)
        PROVE  MTypeOK'
    <3>1. [id |-> j, status |-> status] \in Report
      BY <2>1 DEF FindMessage, Parsed, Reported, Report, MessageStatus
    <3>2. report' = [report EXCEPT ![r] = [id |-> j, status |-> status]]
          /\ UNCHANGED <<vars, recalled>>
      BY <2>1 DEF FindMessage, Look
    <3>3. report' \in [Receivers -> Report]
      BY <3>1, <3>2 DEF MTypeOK
    <3>4. QED
      BY <3>2, <3>3 DEF MTypeOK, TypeOK, vars
  <2>2. NoReport \in Report
    BY DEF NoReport, Report, MessageStatus
  <2>3. ASSUME WriteStatus(r) PROVE MTypeOK'
    <3>1. msg' \in [Jobs -> MessageRow]
      BY <2>3 DEF WriteStatus, ReportInv, MTypeOK, TypeOK, MessageRow
    <3>2. report' \in [Receivers -> Report]
      BY <2>2, <2>3 DEF WriteStatus, MTypeOK
    <3>3. UNCHANGED <<now, job, pc, batch, held, accepted, faults, unrecorded, torn>>
      BY <2>3 DEF WriteStatus, history
    <3>4. recalled' \in SUBSET Jobs
      BY <2>3 DEF WriteStatus, ReportInv, MTypeOK
    <3>5. QED
      BY <3>1, <3>2, <3>3, <3>4 DEF MTypeOK, TypeOK
  <2>4. ASSUME DropReport(r) PROVE MTypeOK'
    BY <2>2, <2>4 DEF DropReport, MTypeOK, TypeOK, vars
  <2>5. QED
    BY <1>2, <2>1, <2>3, <2>4 DEF Receive
<1>3. CASE UNCHANGED mvars
  BY <1>1, <1>3 DEF mvars
<1>4. QED
  BY <1>1, <1>2, <1>3 DEF MNext

\* Workers never take an id back: they write one with every status of success.
LEMMA MInvWorkers ==
  ASSUME MInv, [Next]_vars, UNCHANGED <<report, recalled>>
  PROVE  /\ MInv'
         /\ \A j \in Jobs : msg[j].wa_message_id # NoWa => msg'[j].wa_message_id # NoWa
<1> USE DEF OthersKept, OtherMsgsKept, SentStatus, NoWa
<1>0. MTypeOK /\ TypeOK /\ ReportInv /\ SuccessHasWa /\ MTypeOK'
  BY TypeStep DEF MInv, MTypeOK
<1>1. \A w \in Workers : pc'[w] = "mark_success" => held'[w].wa_sent # NoWa
  <2> SUFFICES ASSUME NEW v \in Workers, pc'[v] = "mark_success"
               PROVE  held'[v].wa_sent # NoWa
    OBVIOUS
  <2>1. pc[v] = "mark_success" => held[v].wa_sent # NoWa
    BY DEF MInv
  <2>2. ASSUME NEW w \in Workers, Moves(w) PROVE held'[v].wa_sent # NoWa
    <3>1. accepted[held[w].id] \in Nat
      BY <1>0, <2>2 DEF Moves, TypeOK
    <3>2. QED
      BY <2>1, <2>2, <3>1 DEF Moves
  <2>3. ASSUME NEW w \in Workers, NEW s \in batch[w], Claims(w, s)
        PROVE  held'[v].wa_sent # NoWa
    BY <2>1, <2>3 DEF Claims
  <2>4. ASSUME NEW w \in Workers, Succeeds(w) \/ Fails(w) \/ MarksMessage(w) \/ Drops(w)
        PROVE  held'[v].wa_sent # NoWa
    BY <2>1, <2>4 DEF Succeeds, Fails, MarksMessage, Drops
  <2>5. QED
    BY <1>0, <2>1, <2>2, <2>3, <2>4, StepKinds DEF StepKind, Waits, AddsMessage, AddsJob
<1>2. ASSUME NEW j \in Jobs
      PROVE  /\ msg[j].wa_message_id # NoWa => msg'[j].wa_message_id # NoWa
             /\ msg'[j].status \in SentStatus => msg'[j].wa_message_id # NoWa
             /\ msg'[j].wa_message_id # NoWa => msg'[j].status # "none"
  <2>1. /\ msg[j].status \in SentStatus => msg[j].wa_message_id # NoWa
        /\ msg[j].wa_message_id # NoWa => msg[j].status # "none"
    BY DEF MInv, SuccessHasWa
  <2>2. ASSUME NEW w \in Workers, Succeeds(w)
        PROVE  \/ msg'[j] = msg[j]
               \/ msg'[j].wa_message_id # NoWa /\ msg'[j].status = "sent"
    BY <2>2 DEF Succeeds, MInv
  <2>3. ASSUME NEW w \in Workers, MarksMessage(w)
        PROVE  \/ msg'[j] = msg[j]
               \/ /\ msg'[j].wa_message_id = msg[j].wa_message_id
                  /\ msg'[j].status \in {"queued", "failed"}
    BY <2>3 DEF MarksMessage, MessageStatusAfter
  <2>4. ASSUME NEW i \in Jobs, AddsMessage(i)
        PROVE  \/ msg'[j] = msg[j]
               \/ msg[j].status = "none" /\ msg'[j].status = "queued" /\ msg'[j].wa_message_id = NoWa
    BY <2>4 DEF AddsMessage
  <2>5. QED
    BY <1>0, <2>1, <2>2, <2>3, <2>4, StepKinds
       DEF StepKind, Waits, AddsMessage, AddsJob, Claims, Moves, Fails, Drops
<1>3. ReportInv'
  BY <1>0, <1>2 DEF ReportInv
<1>4. SuccessHasWa'
  BY <1>2 DEF SuccessHasWa
<1>5. QED
  BY <1>0, <1>1, <1>2, <1>3, <1>4 DEF MInv

\* A receiver writes only to messages that have an id, which it leaves alone.
LEMMA MInvReceivers ==
  ASSUME MInv, NEW r \in Receivers, Receive(r)
  PROVE  MInv'
<1> USE DEF SentStatus
<1>0. MTypeOK /\ ReportInv /\ SuccessHasWa /\ MTypeOK'
  BY MTypeStep DEF MInv, MNext
<1>1. CASE Finds(r)
  <2>1. ReportInv'
    BY <1>0, <1>1 DEF Finds, ReportInv, vars
  <2>2. QED
    BY <1>0, <1>1, <2>1 DEF Finds, MInv, SuccessHasWa, vars
<1>2. CASE Writes(r)
  <2>1. report[r].id \in Jobs /\ report[r].status # "none"
        /\ msg[report[r].id].wa_message_id # NoWa
    BY <1>0, <1>2 DEF Writes, ReportInv, Parsed, Reported
  <2>2. \A j \in Jobs : msg'[j].wa_message_id = msg[j].wa_message_id
    BY <1>2 DEF Writes
  <2>3. ReportInv'
    BY <1>0, <1>2, <2>2 DEF Writes, ReportInv
  <2>4. SuccessHasWa' /\ \A j \in Jobs : msg'[j].wa_message_id # NoWa => msg'[j].status # "none"
    BY <1>2, <2>1, <2>2 DEF Writes, MInv, SuccessHasWa
  <2>5. QED
    BY <1>0, <1>2, <2>3, <2>4 DEF Writes, MInv
<1>3. QED
  BY <1>0, <1>1, <1>2, ReceiveKinds

LEMMA InitMInv == MInit => MInv
<1> SUFFICES ASSUME MInit PROVE MInv
  OBVIOUS
<1>1. TypeOK
  BY InitIInv DEF MInit, IInv
<1>2. report \in [Receivers -> Report]
  BY DEF MInit, NoReport, Report, MessageStatus
<1>3. QED
  BY <1>1, <1>2 DEF MInit, Init, MInv, MTypeOK, ReportInv, SuccessHasWa, SentStatus

LEMMA MInvStep == MInv /\ [MNext]_mvars => MInv'
<1> SUFFICES ASSUME MInv, [MNext]_mvars PROVE MInv'
  OBVIOUS
<1>1. CASE [Next]_vars /\ UNCHANGED <<report, recalled>>
  BY <1>1, MInvWorkers
<1>2. ASSUME NEW r \in Receivers, Receive(r) PROVE MInv'
  BY <1>2, MInvReceivers
<1>3. QED
  BY <1>1, <1>2 DEF MNext, mvars

\* Rows, reports and program counters keep their types.
THEOREM MessagingTypeCorrect == MSpec => []MTypeOK
<1>1. MInv => MTypeOK
  BY DEF MInv
<1>2. QED
  BY InitMInv, MInvStep, <1>1, PTL DEF MSpec

\* The invariant the domain entity Message documents, for any number of workers
\* and receivers, and however late any of them is.
THEOREM SuccessAlwaysHasWa == MSpec => []SuccessHasWa
<1>1. MInv => SuccessHasWa
  BY DEF MInv
<1>2. QED
  BY InitMInv, MInvStep, <1>1, PTL DEF MSpec

\* Failure writes the status column only: a message that was delivered keeps an
\* id, however late a worker that was overtaken writes, so that reports find it.
THEOREM DeliveredKeepsWa == MSpec => WaKept
<1>1. ASSUME MInv, [MNext]_mvars, NEW j \in Jobs, msg[j].wa_message_id # NoWa
      PROVE  msg'[j].wa_message_id # NoWa
  <2>1. CASE [Next]_vars /\ UNCHANGED <<report, recalled>>
    BY <1>1, <2>1, MInvWorkers
  <2>2. ASSUME NEW r \in Receivers, Receive(r) PROVE msg'[j].wa_message_id # NoWa
    <3>1. Finds(r) \/ Writes(r)
      BY <1>1, <2>2, ReceiveKinds DEF MInv
    <3>2. QED
      BY <1>1, <3>1 DEF Finds, Writes, vars, rows
  <2>3. QED
    BY <1>1, <2>1, <2>2 DEF MNext, mvars
<1>2. MInv /\ [MNext]_mvars => [\A j \in Jobs :
        msg[j].wa_message_id # NoWa => msg'[j].wa_message_id # NoWa]_vars
  BY <1>1
<1>3. MSpec => []MInv
  BY InitMInv, MInvStep, PTL DEF MSpec
<1>4. QED
  BY <1>2, <1>3, PTL DEF MSpec, WaKept

-----------------------------------------------------------------------------
(***************************************************************************)
(* Prompt workers, or one worker.                                          *)
(***************************************************************************)
\* A report is written to a message whose job is done.
LEMMA ReportedIsDone ==
  ASSUME IInv, MInv, NEW r \in Receivers, report[r] # NoReport
  PROVE  job[report[r].id].status = "done"
BY DEF IInv, DoneIffDelivered, MInv, ReportInv

LEMMA IInvReceivers ==
  ASSUME IInv, MInv, NEW r \in Receivers, Receive(r)
  PROVE  IInv'
<1>0. MTypeOK' /\ TypeOK' /\ MTypeOK /\ ReportInv
  BY MTypeStep DEF MInv, MNext, MTypeOK
<1>1. CASE Finds(r)
  BY <1>0, <1>1 DEF Finds, vars, IInv, ClaimExclusive, Owns, ClockInv, SnapshotInv, HeldInv,
     Terminal, Attempts, RowInv, DoneIffDelivered, WaNeverFailed, SendsInv, Extra, Answered
<1>2. CASE Writes(r)
  <2>1. report[r].id \in Jobs /\ report[r].status \notin {"none", "failed"}
    BY <1>0, <1>2 DEF Writes, ReportInv, Parsed, Reported
  <2>2. \A j \in Jobs :
          /\ msg'[j].wa_message_id = msg[j].wa_message_id
          /\ msg'[j].status = msg[j].status \/ msg'[j].status \notin {"none", "failed"}
    BY <1>2, <2>1 DEF Writes
  <2>3. ClaimExclusive' /\ ClockInv' /\ SnapshotInv' /\ HeldInv' /\ SendsInv'
    BY <1>2 DEF Writes, IInv, ClaimExclusive, Owns, ClockInv, SnapshotInv, HeldInv, Terminal,
       Attempts, SendsInv, Extra, Answered
  <2>4. RowInv' /\ DoneIffDelivered' /\ WaNeverFailed'
    BY <1>2, <2>2 DEF Writes, IInv, RowInv, DoneIffDelivered, WaNeverFailed
  <2>5. QED
    BY <1>0, <2>3, <2>4 DEF IInv
<1>3. QED
  BY <1>0, <1>1, <1>2, ReceiveKinds

LEMMA MIInvStep == Undisputed /\ MIInv /\ [MNext]_mvars => MIInv'
<1> SUFFICES ASSUME Undisputed, IInv, MInv, [MNext]_mvars PROVE IInv'
  BY MInvStep DEF MIInv
<1>1. CASE [Next]_vars
  BY <1>1, IInvStep
<1>2. ASSUME NEW r \in Receivers, Receive(r) PROVE IInv'
  BY <1>2, IInvReceivers
<1>3. QED
  BY <1>1, <1>2 DEF MNext, mvars

THEOREM MessagingInductive == Undisputed => (MSpec => []MIInv)
<1>1. SUFFICES ASSUME Undisputed PROVE MSpec => []MIInv
  OBVIOUS
<1>2. MInit => MIInv
  BY InitMInv, InitIInv DEF MInit, MIInv
<1>3. MIInv /\ [MNext]_mvars => MIInv'
  BY <1>1, MIInvStep
<1>4. QED
  BY <1>2, <1>3, PTL DEF MSpec

\* No report and no retry ever shows a message with an id as failed.
THEOREM ReportsNeverFail == Undisputed => (MSpec => []WaNeverFailed)
<1>1. MIInv => WaNeverFailed
  BY DEF MIInv, IInv
<1>2. QED
  BY <1>1, MessagingInductive, PTL

-----------------------------------------------------------------------------
(***************************************************************************)
(* One worker: the status that users see.                                  *)
(***************************************************************************)
\* A worker changes the status of a message that has no id, and one that is
\* shown as failed only to failed again.
LEMMA WorkerWritesMessage ==
  ASSUME OneWorker, MIInv1, [Next]_vars, NEW j \in Jobs
  PROVE  /\ msg[j].wa_message_id # NoWa => msg'[j] = msg[j]
         /\ msg[j].status = "failed" => msg'[j].status = "failed"
         /\ msg'[j].status = "failed" => msg[j].status = "failed" \/ job[j].status = "failed"
<1> USE DEF OtherMsgsKept
<1>0. /\ IInv /\ FailMessageInv
      /\ msg[j].wa_message_id # NoWa => job[j].status = "done" /\ msg[j].status # "none"
      /\ msg[j].status = "failed" => job[j].status = "failed"
  BY DEF MIInv1, IInv, DoneIffDelivered, MInv
<1>1. ASSUME NEW i \in Jobs, AddsMessage(i)
      PROVE  msg'[j] = msg[j] \/ (msg[j].status = "none" /\ msg'[j].status = "queued")
  BY <1>1 DEF AddsMessage
<1>2. ASSUME NEW w \in Workers, Succeeds(w)
      PROVE  msg'[j] = msg[j] \/ (job[j].status = "processing" /\ msg'[j].status = "sent")
  <2>1. job[held[w].id].status = "processing"
    BY <1>0, <1>2, OwnedRow DEF Succeeds, Owning
  <2>2. QED
    BY <1>2, <2>1 DEF Succeeds
<1>3. ASSUME NEW w \in Workers, MarksMessage(w)
      PROVE  \/ msg'[j] = msg[j]
             \/ job[j].status = "failed" /\ msg'[j].status = "failed"
             \/ job[j].status = "pending" /\ msg'[j].status = "queued"
  BY <1>0, <1>3 DEF MarksMessage, MessageStatusAfter, FailMessageInv
<1>4. QED
  BY <1>0, <1>1, <1>2, <1>3, StepKinds
     DEF IInv, StepKind, Waits, AddsJob, Claims, Moves, Fails, Drops

\* A job is done either from before, and its message stays as it is, or by the
\* success that marks the message as sent.
LEMMA WorkerFinishes ==
  ASSUME OneWorker, MIInv1, [Next]_vars, NEW j \in Jobs, job'[j].status = "done"
  PROVE  (job[j].status = "done" /\ msg'[j] = msg[j]) \/ msg'[j].status = "sent"
<1> USE DEF OtherJobsKept
<1>0. IInv /\ TypeOK /\ (job[j].status = "done" => msg'[j] = msg[j])
  BY WorkerWritesMessage DEF MIInv1, IInv, DoneIffDelivered
<1>1. ASSUME NEW i \in Jobs, AddsJob(i) PROVE job[j].status = "done"
  BY <1>0, <1>1 DEF AddsJob
<1>2. ASSUME NEW w \in Workers, \E s \in batch[w] : Claims(w, s) PROVE job[j].status = "done"
  BY <1>0, <1>2 DEF Claims
<1>3. ASSUME NEW w \in Workers, Succeeds(w)
      PROVE  job[j].status = "done" \/ msg'[j].status = "sent"
  BY <1>0, <1>3 DEF Succeeds
<1>4. ASSUME NEW w \in Workers, Fails(w) PROVE job[j].status = "done"
  BY <1>0, <1>4 DEF Fails
<1>5. QED
  BY <1>0, <1>1, <1>2, <1>3, <1>4, StepKinds
     DEF StepKind, Waits, AddsMessage, Moves, MarksMessage, Drops

\* A receiver writes to a message whose job is done what its report says, and
\* recalled records when that is no status of a sent message.
LEMMA ReceiverWritesMessage ==
  ASSUME MIInv1, NEW r \in Receivers, Receive(r)
  PROVE  /\ report' = report => msg' = msg
         /\ UNCHANGED <<job, pc, held, torn>>
         /\ \A j \in Jobs :
              \/ msg'[j] = msg[j] /\ (j \in recalled => j \in recalled')
              \/ job[j].status = "done" /\ msg'[j].status \in SentStatus
              \/ /\ job[j].status = "done" /\ msg'[j].status \in {"received", "queued"}
                 /\ j \in recalled' /\ Recalls(j)
<1>1. MTypeOK /\ TypeOK /\ ReportInv /\ IInv /\ MInv
  BY DEF MIInv1, MInv, MTypeOK
<1>2. CASE Finds(r)
  BY <1>2 DEF Finds, vars
<1>3. CASE Writes(r)
  <2>1. /\ report[r] # NoReport /\ report'[r] = NoReport
        /\ report[r].id \in Jobs /\ job[report[r].id].status = "done"
        /\ report[r] = [id |-> report[r].id, status |-> msg'[report[r].id].status]
    BY <1>1, <1>3, ReportedIsDone DEF Writes, ReportInv, MTypeOK, Report
  <2>2. msg'[report[r].id].status \in SentStatus \cup {"received", "queued"}
    BY <1>1, <1>3 DEF Writes, ReportInv, Parsed, Reported, MessageStatus, SentStatus
  <2>3. Recalls(report[r].id)
    BY <2>1 DEF Recalls
  <2>4. report' # report /\ UNCHANGED <<job, pc, held, torn>>
    BY <1>3, <2>1 DEF Writes
  <2>5. ASSUME NEW j \in Jobs, j # report[r].id
        PROVE  msg'[j] = msg[j] /\ (j \in recalled => j \in recalled')
    BY <1>3, <2>5 DEF Writes
  <2>6. report[r].status = msg'[report[r].id].status
        /\ (report[r].status \in SentStatus \/ report[r].id \in recalled')
    BY <1>3 DEF Writes
  <2>7. QED
    BY <2>1, <2>2, <2>3, <2>4, <2>5, <2>6
<1>4. QED
  BY <1>1, <1>2, <1>3, ReceiveKinds

LEMMA MIInv1Step == OneWorker /\ MIInv1 /\ [MNext]_mvars => MIInv1'
<1> SUFFICES ASSUME OneWorker, MIInv1, [MNext]_mvars PROVE MIInv1'
  OBVIOUS
<1>1. MIInv /\ MIInv'
  BY OneWorkerUndisputed, MIInvStep DEF MIInv, MIInv1
<1>2. CASE [Next]_vars /\ UNCHANGED recalled
  <2>1. FailMessageInv' /\ FailureShown'
    BY <1>2, FailMessageInvStep, FailureShownStep DEF MIInv1
  <2>2. \A j \in Jobs : job[j].status = "failed" => job'[j].status = "failed"
    BY <1>1, <1>2, OneWorkerUndisputed, RowKept DEF MIInv, Settled
  <2>3. \A j \in Jobs : msg'[j].status = "failed" => job'[j].status = "failed"
    BY <1>2, <2>2, WorkerWritesMessage DEF MIInv1
  <2>4. ASSUME NEW j \in Jobs, job'[j].status = "done"
        PROVE  msg'[j].status \in SentStatus \/ j \in recalled'
    <3>1. (job[j].status = "done" /\ msg'[j] = msg[j]) \/ msg'[j].status = "sent"
      BY <1>2, <2>4, WorkerFinishes
    <3>2. job[j].status = "done" => msg[j].status \in SentStatus \/ j \in recalled
      BY DEF MIInv1, DoneIsShown
    <3>3. QED
      BY <1>2, <3>1, <3>2 DEF SentStatus
  <2>5. DoneIsShown'
    BY <2>4 DEF DoneIsShown
  <2>6. QED
    BY <1>1, <2>1, <2>3, <2>5 DEF MIInv, MIInv1
<1>3. ASSUME NEW r \in Receivers, Receive(r) PROVE MIInv1'
  <2>1. /\ UNCHANGED <<job, pc, held, torn>>
        /\ \A j \in Jobs :
             \/ msg'[j] = msg[j] /\ (j \in recalled => j \in recalled')
             \/ job[j].status = "done" /\ msg'[j].status \in SentStatus
             \/ /\ job[j].status = "done" /\ msg'[j].status \in {"received", "queued"}
                /\ j \in recalled'
    BY <1>3, ReceiverWritesMessage
  <2>2. FailMessageInv'
    BY <2>1 DEF MIInv1, FailMessageInv, Terminal, Attempts
  <2>3. DoneIsShown'
    BY <2>1 DEF MIInv1, DoneIsShown
  <2>4. FailureShown'
    BY <2>1 DEF MIInv1, FailureShown
  <2>5. \A j \in Jobs : msg'[j].status = "failed" => job'[j].status = "failed"
    BY <2>1 DEF MIInv1, SentStatus
  <2>6. QED
    BY <1>1, <2>2, <2>3, <2>4, <2>5 DEF MIInv, MIInv1
<1>4. QED
  BY <1>2, <1>3 DEF MNext, mvars

THEOREM MessagingInductiveOneWorker == OneWorker => (MSpec => []MIInv1)
<1>1. SUFFICES ASSUME OneWorker PROVE MSpec => []MIInv1
  OBVIOUS
<1>2. MInit => MIInv1
  BY InitMInv, InitIInv
     DEF MInit, Init, MIInv1, FailMessageInv, DoneIsShown, FailureShown
<1>3. MIInv1 /\ [MNext]_mvars => MIInv1'
  BY <1>1, MIInv1Step
<1>4. QED
  BY <1>2, <1>3, PTL DEF MSpec

\* A message whose job is done is shown as sent until a report of Meta says
\* otherwise, whatever the retries, the faults and the order of the reports.
THEOREM DoneStaysShown == OneWorker => (MSpec => []DoneIsShown)
<1>1. MIInv1 => DoneIsShown
  BY DEF MIInv1
<1>2. QED
  BY <1>1, MessagingInductiveOneWorker, PTL

\* A message once sent leaves the statuses of sent messages by a report that
\* says so and by nothing else, and a message that failed stays failed.
THEOREM StatusFollowsMachine == OneWorker => (MSpec => StatusMachine)
<1>1. SUFFICES ASSUME OneWorker PROVE MSpec => StatusMachine
  OBVIOUS
<1>2. ASSUME MIInv1, [MNext]_mvars, NEW j \in Jobs
      PROVE  /\ msg[j].status \in SentStatus /\ msg'[j].status \notin SentStatus
                  => msg'[j].status \in {"received", "queued"} /\ Recalls(j)
             /\ msg[j].status = "failed" => msg'[j].status = "failed"
  <2>1. /\ msg[j].status \in SentStatus => msg[j].wa_message_id # NoWa
        /\ msg[j].status = "failed" => job[j].status = "failed"
    BY <1>2 DEF MIInv1, MInv, SuccessHasWa
  <2>2. CASE [Next]_vars
    BY <1>1, <1>2, <2>1, <2>2, WorkerWritesMessage
  <2>3. ASSUME NEW r \in Receivers, Receive(r)
        PROVE  \/ msg'[j] = msg[j]
               \/ job[j].status = "done" /\ msg'[j].status \in SentStatus
               \/ /\ job[j].status = "done" /\ msg'[j].status \in {"received", "queued"}
                  /\ Recalls(j)
    BY <1>2, <2>3, ReceiverWritesMessage
  <2>4. QED
    BY <1>2, <2>1, <2>2, <2>3 DEF MNext, mvars
<1>3. MIInv1 /\ [MNext]_mvars =>
        \A j \in Jobs :
          /\ msg[j].status \in SentStatus /\ msg'[j].status \notin SentStatus
               => msg'[j].status \in {"received", "queued"} /\ Recalls(j)
          /\ msg[j].status = "failed" => msg'[j].status = "failed"
  BY <1>2
<1>4. MSpec => []MIInv1
  BY <1>1, MessagingInductiveOneWorker
<1>5. QED
  BY <1>3, <1>4, PTL DEF MSpec, StatusMachine

\* Only another report changes what a report has written.
THEOREM WorkersKeepReceipts == OneWorker => (MSpec => ReceiptsKept)
<1>1. SUFFICES ASSUME OneWorker PROVE MSpec => ReceiptsKept
  OBVIOUS
<1>2. ASSUME MIInv1, [MNext]_mvars, NEW j \in Jobs,
             msg[j].status \in {"delivered", "read"}, report' = report
      PROVE  msg'[j].status = msg[j].status
  <2>1. msg[j].wa_message_id # NoWa
    BY <1>2 DEF MIInv1, MInv, SuccessHasWa, SentStatus
  <2>2. CASE [Next]_vars
    BY <1>1, <1>2, <2>1, <2>2, WorkerWritesMessage
  <2>3. ASSUME NEW r \in Receivers, Receive(r) PROVE msg' = msg
    BY <1>2, <2>3, ReceiverWritesMessage
  <2>4. QED
    BY <1>2, <2>2, <2>3 DEF MNext, mvars
<1>3. MIInv1 /\ [MNext]_mvars =>
        \A j \in Jobs : msg[j].status \in {"delivered", "read"} /\ report' = report
          => msg'[j].status = msg[j].status
  BY <1>2
<1>4. MSpec => []MIInv1
  BY <1>1, MessagingInductiveOneWorker
<1>5. QED
  BY <1>3, <1>4, PTL DEF MSpec, ReceiptsKept

\* The back-off is kept: the rows of a batch are still due, or stale, when the
\* one worker claims them.
THEOREM BackoffIsKept == OneWorker => (MSpec => ClaimOnlyReady)
<1>1. SUFFICES ASSUME OneWorker PROVE MSpec => ClaimOnlyReady
  OBVIOUS
<1> DEFINE Fresh == MInv /\ BatchFresh
<1>2. MInit => Fresh
  <2>1. MInit => BatchFresh
    BY DEF MInit, Init, BatchFresh
  <2>2. QED
    BY <2>1, InitMInv
<1>3. ASSUME NEW r \in Receivers, Receive(r) PROVE UNCHANGED <<now, job, pc, batch, held>>
  BY <1>3 DEF Receive, FindMessage, Look, WriteStatus, DropReport, vars, rows
<1>4. Fresh /\ [MNext]_mvars => Fresh'
  <2> SUFFICES ASSUME Fresh, [MNext]_mvars PROVE Fresh'
    OBVIOUS
  <2>1. CASE [Next]_vars
    BY <1>1, <2>1, BatchFreshStep, MInvStep DEF MInv, MTypeOK
  <2>2. ASSUME NEW r \in Receivers, Receive(r) PROVE BatchFresh'
    BY <1>3, <2>2 DEF BatchFresh, Due, Stale
  <2>3. QED
    BY <2>1, <2>2, MInvStep DEF MNext, mvars
<1>5. Fresh /\ [MNext]_mvars =>
        [\A j \in Jobs : job'[j].status = "processing" /\ job'[j] # job[j]
                           => Due(j) \/ Stale(j)]_vars
  <2> SUFFICES ASSUME Fresh, [MNext]_mvars, NEW j \in Jobs,
                      job'[j].status = "processing", job'[j] # job[j]
               PROVE  Due(j) \/ Stale(j)
    OBVIOUS
  <2>1. CASE [Next]_vars
    BY <2>1, ClaimStep DEF MInv, MTypeOK
  <2>2. ASSUME NEW r \in Receivers, Receive(r) PROVE FALSE
    BY <1>3, <2>2
  <2>3. QED
    BY <2>1, <2>2 DEF MNext, mvars
<1>6. QED
  BY <1>2, <1>4, <1>5, PTL DEF MSpec, ClaimOnlyReady

=============================================================================
