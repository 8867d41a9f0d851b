-------------------------- MODULE OutboxInvariant ---------------------------
(***************************************************************************)
(* The inductive invariants behind the safety properties of the outbox.    *)
(* IInv holds when workers are prompt or there is only one; IInv1 is what  *)
(* a single worker adds.                                                   *)
(***************************************************************************)
EXTENDS OutboxDelivery

\* The clock is never behind a row, nor StaleAfter ahead of a prompt worker.
ClockInv ==
  /\ \A j \in Jobs : job[j].updated_at <= now
  /\ Prompt => \A w \in Workers : pc[w] # "ready" => now < held[w].since + StaleAfter

\* A snapshot was taken of a pending row, or of one that is stale by now.
SnapshotInv ==
  \A w \in Workers : \A s \in batch[w] :
    \/ s.status = "pending"
    \/ s.status = "processing" /\ s.updated_at + StaleAfter <= now

\* What an owner has read is still what the rows say: in particular it found
\* no WhatsApp id, since nobody delivers a message that somebody else owns.
HeldInv ==
  \A w \in Workers :
    /\ pc[w] \in Owning \ {"reload"} => held[w].attempts = job[held[w].id].attempts
    /\ held[w].wa_read = NoWa
    /\ pc[w] = "mark_success" => held[w].wa_sent \in 1..accepted[held[w].id]
    /\ pc[w] = "fail_message" /\ Terminal(w) => job[held[w].id].status = "failed"

\* Rows appear in order, and attempts stay below the limit until the job fails.
RowInv ==
  \A j \in Jobs :
    /\ msg[j].status = "none" => job[j].status = "none"
    /\ job[j].status = "none" => accepted[j] = 0 /\ job[j].attempts = 0
    /\ job[j].attempts <= MaxAttempts
    /\ job[j].status = "failed" <=> job[j].attempts = MaxAttempts

\* An owner has had its answer from Meta and not written it yet.
Answered(j) == \E w \in Workers : pc[w] \in {"mark_success", "fail_job"} /\ held[w].id = j

\* What a success, written or about to be, pays for.
Extra(j) == IF job[j].status = "done" \/ Answered(j) THEN 1 ELSE 0

\* Each accepted send is an attempt counted, a claim lost, a success, or the
\* answer its owner is about to write.
SendsInv ==
  \A j \in Jobs : accepted[j] <= job[j].attempts + unrecorded[j] + Extra(j)

IInv ==
  /\ TypeOK
  /\ ClaimExclusive
  /\ ClockInv
  /\ SnapshotInv
  /\ HeldInv
  /\ RowInv
  /\ DoneIffDelivered
  /\ WaNeverFailed
  /\ SendsInv

\* What a single worker adds: between the statements of mark_failure nobody
\* else moves the job.
FailMessageInv ==
  \A w \in Workers : pc[w] = "fail_message" =>
    job[held[w].id].status = IF Terminal(w) THEN "failed" ELSE "pending"

IInv1 ==
  /\ IInv
  /\ FailMessageInv
  /\ DoneMeansSent
  /\ FailureShown

=============================================================================
