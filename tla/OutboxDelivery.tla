--------------------------- MODULE OutboxDelivery ---------------------------
(***************************************************************************)
(* The outbox implements Delivery: the phase of a message is read off the  *)
(* status of its job, its failures are the attempts column, its copies the *)
(* sends Meta accepted.                                                    *)
(***************************************************************************)
EXTENDS OutboxWorker

PhaseOf(status) ==
  IF status = "none" THEN "unknown"
  ELSE IF status \in {"pending", "processing"} THEN "waiting"
  ELSE IF status = "done" THEN "sent" ELSE "failed"

D == INSTANCE Delivery WITH
       Messages <- Jobs,
       phase    <- [j \in Jobs |-> PhaseOf(job[j].status)],
       failures <- [j \in Jobs |-> job[j].attempts],
       copies   <- accepted

\* The workers keep the outbox's promise: no transmission after the outcome,
\* success only after an accepted send, failure only at the limit, and every
\* outcome final, whatever the order in which workers, faults and clock step.
ImplementsDelivery == D!DSpec

-----------------------------------------------------------------------------
(***************************************************************************)
(* Liveness.  The clock moves only while a job is unsettled and no worker  *)
(* has anything to do, so that the bound MaxTime is never what stops a     *)
(* job.  Fairness: a worker is a loop that polls every POLL_INTERVAL and   *)
(* that docker restarts, and an exchange with Meta ends, in whatever way.  *)
(* Submissions and faults are not fair, and faults are finitely many.      *)
(***************************************************************************)
Busy(w) == pc[w] # "ready" \/ batch[w] # {} \/ Ready # {}

LazyTick ==
  /\ \A w \in Workers : ~Busy(w)
  /\ \E j \in Jobs : job[j].status \in {"pending", "processing"}
  /\ Tick

LazyNext ==
  \/ \E j \in Jobs : Submit(j)
  \/ \E w \in Workers : Step(w) \/ Fault(w)
  \/ LazyTick

LiveSpec ==
  /\ Init /\ [][LazyNext]_vars
  /\ \A w \in Workers : WF_vars(Step(w))
  /\ WF_vars(LazyTick)

\* Every job reaches an outcome: retries end, a claim whose worker died is
\* taken over, and no job starves behind the others in the batches.
EventuallySettled ==
  \A j \in Jobs : job[j].status # "none" ~> job[j].status \in Settled

\* The user learns the outcome: a queued message with a job does not stay
\* queued, unless a fault tore the two statements of mark_failure apart.
EventuallyShown ==
  \A j \in Jobs : job[j].status # "none" ~>
    msg[j].status \in SentStatus \cup {"failed"} \/ j \in torn

=============================================================================
