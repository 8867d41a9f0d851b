------------------------------ MODULE Messaging ------------------------------
(***************************************************************************)
(* The outbox together with the other writer of its messages: the webhook  *)
(* by which Meta reports what became of a message it accepted              *)
(* (handle_status_update).  Reports name the WhatsApp id; they come in any *)
(* order, late, twice, or before the worker has stored the id.             *)
(*                                                                         *)
(* A receiver is one task of the API: it looks the message up in one       *)
(* statement and writes its status, by the id of the row, in another.      *)
(***************************************************************************)
EXTENDS OutboxInvariant

CONSTANT Receivers

VARIABLES
  report,   \* what each receiver is about to write
  recalled  \* history: messages whose last report was none of a sent message

mvars == <<vars, report, recalled>>

\* What a report can say: the parser of the webhook takes every status of a
\* message, also those that only the CRM itself gives, and refuses the last.
Reported == {"received", "queued", "sending", "sent", "delivered", "read", "failed", "deleted"}
Parsed   == Reported \ {"deleted"}

NoReport == [id |-> NoJob, status |-> "none"]

Report == [id : Jobs \cup {NoJob}, status : MessageStatus \cup {"sending"}]

\* Rows and program counters hold values of their types, and a receiver is
\* about to write nothing but a status the parser knows.
MTypeOK ==
  /\ TypeOK
  /\ report \in [Receivers -> Report]
  /\ recalled \in SUBSET Jobs

MInit == Init /\ report = [r \in Receivers |-> NoReport] /\ recalled = {}

\* The report for the n-th send of job j finds the message that carries its id.
Look(r, j, n, status) ==
  /\ report[r] = NoReport
  /\ n \in 1..accepted[j]
  /\ report' = [report EXCEPT ![r] = [id |-> j, status |-> status]]
  /\ UNCHANGED <<vars, recalled>>

\* Mutants: the status is not parsed; a failure is not skipped; the row is
\* found by the message it replies to, whatever id that carries.
FindMessageUnparsed(r, j, n, status) ==
  /\ Look(r, j, n, status)
  /\ msg[j].wa_message_id = n
  /\ status # "failed"
FindMessageFailed(r, j, n, status) ==
  /\ Look(r, j, n, status)
  /\ msg[j].wa_message_id = n
  /\ status \in Parsed
FindMessageAnyId(r, j, n, status) ==
  /\ Look(r, j, n, status)
  /\ status \in Parsed \ {"failed"}

\* A report without a message, an unknown status and a failure of a message that
\* carries an id (as each one found does) change nothing.
FindMessage(r, j, n, status) ==
  /\ Look(r, j, n, status)
  /\ msg[j].wa_message_id = n
  /\ status \in Parsed \ {"failed"}

\* UPDATE messages SET status WHERE id.  The ENUM of the column has no value for
\* "sending", with which the statement fails (DropReport).
WriteStatus(r) ==
  /\ report[r] # NoReport
  /\ report[r].status \in MessageStatus
  /\ msg' = [msg EXCEPT ![report[r].id].status = report[r].status]
  /\ recalled' = IF report[r].status \in SentStatus
                 THEN recalled \ {report[r].id} ELSE recalled \cup {report[r].id}
  /\ report' = [report EXCEPT ![r] = NoReport]
  /\ UNCHANGED <<now, job, pc, batch, held, accepted, faults, history>>

\* The statement fails or the task is dropped; Meta may report again.
DropReport(r) ==
  /\ report[r] # NoReport
  /\ report' = [report EXCEPT ![r] = NoReport]
  /\ UNCHANGED <<vars, recalled>>

Receive(r) ==
  \/ \E j \in Jobs : \E n \in 1..accepted[j], status \in Reported : FindMessage(r, j, n, status)
  \/ WriteStatus(r)
  \/ DropReport(r)

MNext ==
  \/ Next /\ UNCHANGED <<report, recalled>>
  \/ \E r \in Receivers : Receive(r)

MSpec == MInit /\ [][MNext]_mvars

-----------------------------------------------------------------------------
\* Message (domain/messaging/entities), "Outbound messages with success status
\* MUST have wa_message_id set": however slow the workers and late the reports.
SuccessHasWa ==
  \A j \in Jobs : msg[j].status \in SentStatus => msg[j].wa_message_id # NoWa

\* A message whose job is done is shown as sent, unless the last thing Meta
\* reported of it is that it is not: no failure written late by an earlier
\* attempt (mark_failure's second statement) hides the delivery.
DoneIsShown ==
  \A j \in Jobs : job[j].status = "done" => msg[j].status \in SentStatus \/ j \in recalled

\* The status users see.  A message is taken out of the statuses of sent
\* messages by a report alone, one about this message that says queued or
\* received; no retry, takeover or late failure does it, and a message shown as
\* failed is never shown as anything else.
Recalls(j) == \E r \in Receivers :
  /\ report[r] = [id |-> j, status |-> msg'[j].status]
  /\ report'[r] = NoReport

StatusMachine ==
  [][\A j \in Jobs :
       /\ msg[j].status \in SentStatus /\ msg'[j].status \notin SentStatus
            => msg'[j].status \in {"received", "queued"} /\ Recalls(j)
       /\ msg[j].status = "failed" => msg'[j].status = "failed"]_mvars

\* No worker takes back what a customer's phone has reported: only another
\* report changes the status of a message delivered or read.
ReceiptsKept ==
  [][\A j \in Jobs :
       msg[j].status \in {"delivered", "read"} /\ report' = report
         => msg'[j].status = msg[j].status]_mvars

-----------------------------------------------------------------------------
(***************************************************************************)
(* What the proofs of these properties need.                               *)
(***************************************************************************)
\* A report is only ever about to be written to a message that has an id.
ReportInv ==
  \A r \in Receivers : report[r] # NoReport =>
    /\ report[r].id \in Jobs
    /\ report[r].status \in Parsed \ {"failed"}
    /\ msg[report[r].id].wa_message_id # NoWa

\* Holds for any number of workers, however slow.
MInv ==
  /\ MTypeOK
  /\ \A w \in Workers : pc[w] = "mark_success" => held[w].wa_sent # NoWa
  /\ ReportInv
  /\ SuccessHasWa
  /\ \A j \in Jobs : msg[j].wa_message_id # NoWa => msg[j].status # "none"

MIInv == IInv /\ MInv

\* What one worker adds: a message is shown as failed only when its job is.
MIInv1 ==
  /\ IInv
  /\ FailMessageInv
  /\ FailureShown
  /\ DoneIsShown
  /\ MInv
  /\ \A j \in Jobs : msg[j].status = "failed" => job[j].status = "failed"

=============================================================================
