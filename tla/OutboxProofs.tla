---------------------------- MODULE OutboxProofs ----------------------------
(***************************************************************************)
(* Proofs about the outbox: for every set of workers and jobs, and every   *)
(* value of the limits.                                                    *)
(***************************************************************************)
EXTENDS OutboxInvariant, TLAPS

USE JobsAssumption, AttemptsAssumption, BackoffAssumption, StaleAssumption,
    PromptAssumption, BoundsAssumption

-----------------------------------------------------------------------------
(***************************************************************************)
(* Type correctness.                                                       *)
(***************************************************************************)

\* The retry table has an entry for every number of attempts.
LEMMA RetryDelayType ==
  ASSUME NEW a \in Nat
  PROVE  RetryDelaySeconds(a) \in Nat
BY DEF RetryDelaySeconds

\* Counting one more keeps a function of counters.
LEMMA CountOneMore ==
  ASSUME NEW S, NEW f \in [S -> Nat], NEW x \in S
  PROVE  [f EXCEPT ![x] = @ + 1] \in [S -> Nat]
OBVIOUS

\* What a worker reads of its own claim has the type of its column.
LEMMA HeldType ==
  ASSUME TypeOK, NEW w \in Workers
  PROVE  /\ held[w].since \in Nat
         /\ held[w].attempts \in Nat
         /\ held[w].wa_read \in Nat
         /\ held[w].wa_sent \in Nat
         /\ pc[w] # "ready" => held[w].id \in Jobs
BY DEF TypeOK, Claimed

\* The row that mark_failure and mark_job_failure write.
LEMMA WriteJobFailureType ==
  ASSUME TypeOK, NEW w \in Workers, pc[w] # "ready", WriteJobFailure(w)
  PROVE  job' \in [Jobs -> JobRow]
<1>1. Attempts(w) \in Nat
  BY HeldType DEF Attempts
<1>2. RetryDelaySeconds(Attempts(w)) \in Nat
  BY <1>1, RetryDelayType
<1>3. now \in Nat
  BY DEF TypeOK
<1> DEFINE row == [status          |-> IF Terminal(w) THEN "failed" ELSE "pending",
                   attempts        |-> Attempts(w),
                   next_attempt_at |-> now + RetryDelaySeconds(Attempts(w)),
                   updated_at      |-> now]
<1>4. row \in JobRow
  BY <1>1, <1>2, <1>3 DEF JobRow, JobStatus
<1>5. job' = [job EXCEPT ![held[w].id] = row]
  BY DEF WriteJobFailure
<1>6. QED
  BY <1>4, <1>5 DEF TypeOK

\* Releasing a claim leaves a worker that is ready and holds nothing.
LEMMA ReleaseType ==
  ASSUME TypeOK, NEW w \in Workers, Release(w)
  PROVE  /\ pc' \in [Workers -> Location]
         /\ held' \in [Workers -> Claimed]
         /\ \A v \in Workers : pc'[v] # "ready" => held'[v].id \in Jobs
<1>1. pc' \in [Workers -> Location]
  BY DEF TypeOK, Release, Location
<1>2. held' \in [Workers -> Claimed]
  BY DEF TypeOK, Release, Claimed, NoClaim, NoJob, NoWa
<1>3. \A v \in Workers : pc'[v] # "ready" => held'[v].id \in Jobs
  BY DEF TypeOK, Release
<1>4. QED
  BY <1>1, <1>2, <1>3

\* One step per action, and below it one per variable that the action sets.
LEMMA TypeStep == TypeOK /\ [Next]_vars => TypeOK'
<1> SUFFICES ASSUME TypeOK, [Next]_vars PROVE TypeOK'
  OBVIOUS
<1>1. ASSUME NEW j \in Jobs, CreateQueuedMessage(j) PROVE TypeOK'
  <2>1. msg' \in [Jobs -> MessageRow]
    BY <1>1 DEF TypeOK, CreateQueuedMessage, MessageRow, MessageStatus, NoWa
  <2>2. UNCHANGED <<now, job, pc, batch, held, accepted, faults, unrecorded, torn>>
    BY <1>1 DEF CreateQueuedMessage, rows, history
  <2>3. QED
    BY <2>1, <2>2 DEF TypeOK
<1>2. ASSUME NEW j \in Jobs, CreateOutbox(j) PROVE TypeOK'
  <2>1. job' \in [Jobs -> JobRow]
    BY <1>2 DEF TypeOK, CreateOutbox, JobRow, JobStatus
  <2>2. UNCHANGED <<now, msg, pc, batch, held, accepted, faults, unrecorded, torn>>
    BY <1>2 DEF CreateOutbox, rows, history
  <2>3. QED
    BY <2>1, <2>2 DEF TypeOK
<1>3. ASSUME NEW w \in Workers, Poll(w) PROVE TypeOK'
  <2>1. batch' \in [Workers -> SUBSET Snapshot]
    BY <1>3 DEF TypeOK, Poll, FirstOf, SnapshotOf, Snapshot, Ready, JobRow
  <2>2. UNCHANGED <<now, job, msg, pc, held, accepted, faults, unrecorded, torn>>
    BY <1>3 DEF Poll, rows, history
  <2>3. QED
    BY <2>1, <2>2 DEF TypeOK
<1>4. ASSUME NEW w \in Workers, Claim(w) PROVE TypeOK'
  <2>1. job' \in [Jobs -> JobRow]
    BY <1>4 DEF TypeOK, Claim, IsNext, JobRow, JobStatus, Snapshot
  <2>2. pc' \in [Workers -> Location]
    BY <1>4 DEF TypeOK, Claim, Location, Owning
  <2>3. held' \in [Workers -> Claimed]
    <3>1. PICK s \in batch[w] : held' = [held EXCEPT ![w] = [NoClaim EXCEPT !.id = s.id, !.since = now]]
      BY <1>4 DEF Claim
    <3>2. s.id \in Jobs /\ now \in Nat
      BY DEF TypeOK, Snapshot
    <3>3. [NoClaim EXCEPT !.id = s.id, !.since = now] \in Claimed
      BY <3>2 DEF Claimed, NoClaim, NoJob, NoWa
    <3>4. QED
      BY <3>1, <3>3 DEF TypeOK
  <2>4. \A v \in Workers : pc'[v] # "ready" => held'[v].id \in Jobs
    BY <1>4 DEF TypeOK, Claim, Claimed, NoClaim, Snapshot
  <2>5. batch' \in [Workers -> SUBSET Snapshot]
    BY <1>4 DEF TypeOK, Claim
  <2>6. UNCHANGED <<now, msg, accepted, faults, unrecorded, torn>>
    BY <1>4 DEF Claim, rows, history
  <2>7. QED
    BY <2>1, <2>2, <2>3, <2>4, <2>5, <2>6 DEF TypeOK
<1>5. ASSUME NEW w \in Workers, ClaimLost(w) PROVE TypeOK'
  <2>1. batch' \in [Workers -> SUBSET Snapshot]
    BY <1>5 DEF TypeOK, ClaimLost
  <2>2. UNCHANGED <<now, job, msg, pc, held, accepted, faults, unrecorded, torn>>
    BY <1>5 DEF ClaimLost, rows, history
  <2>3. QED
    BY <2>1, <2>2 DEF TypeOK
<1>6. ASSUME NEW w \in Workers, ClaimError(w) PROVE TypeOK'
  <2>1. batch' \in [Workers -> SUBSET Snapshot]
    BY <1>6 DEF TypeOK, ClaimError
  <2>2. faults' \in Nat
    BY <1>6 DEF TypeOK, ClaimError
  <2>3. UNCHANGED <<now, job, msg, pc, held, accepted, unrecorded, torn>>
    BY <1>6 DEF ClaimError, rows, history
  <2>4. QED
    BY <2>1, <2>2, <2>3 DEF TypeOK
<1>7. ASSUME NEW w \in Workers, Reload(w) PROVE TypeOK'
  <2>1. pc' \in [Workers -> Location]
    BY <1>7 DEF TypeOK, Reload, Goto, Location, Owning
  <2>2. held' \in [Workers -> Claimed]
    BY <1>7 DEF TypeOK, Reload, Goto, Claimed, JobRow
  <2>3. \A v \in Workers : pc'[v] # "ready" => held'[v].id \in Jobs
    BY <1>7 DEF TypeOK, Reload, Goto, Claimed
  <2>4. UNCHANGED <<now, job, msg, batch, accepted, faults, unrecorded, torn>>
    BY <1>7 DEF Reload, rows, history
  <2>5. QED
    BY <2>1, <2>2, <2>3, <2>4 DEF TypeOK
<1>8. ASSUME NEW w \in Workers, LoadMessage(w) PROVE TypeOK'
  <2>1. pc' \in [Workers -> Location]
    BY <1>8 DEF TypeOK, LoadMessage, Goto, Location, Owning
  <2>2. held' \in [Workers -> Claimed]
    BY <1>8 DEF TypeOK, LoadMessage, Goto, Claimed, MessageRow
  <2>3. \A v \in Workers : pc'[v] # "ready" => held'[v].id \in Jobs
    BY <1>8 DEF TypeOK, LoadMessage, Goto, Claimed
  <2>4. UNCHANGED <<now, job, msg, batch, accepted, faults, unrecorded, torn>>
    BY <1>8 DEF LoadMessage, rows, history
  <2>5. QED
    BY <2>1, <2>2, <2>3, <2>4 DEF TypeOK
<1>9. ASSUME NEW w \in Workers, LoadMessageError(w) PROVE TypeOK'
  <2>1. pc' \in [Workers -> Location]
    BY <1>9 DEF TypeOK, LoadMessageError, Goto, Location, Owning
  <2>2. \A v \in Workers : pc'[v] # "ready" => held'[v].id \in Jobs
    BY <1>9 DEF TypeOK, LoadMessageError, Goto
  <2>3. faults' \in Nat
    BY <1>9 DEF TypeOK, LoadMessageError
  <2>4. UNCHANGED <<now, job, msg, batch, held, accepted, unrecorded, torn>>
    BY <1>9 DEF LoadMessageError, rows, history
  <2>5. QED
    BY <2>1, <2>2, <2>3, <2>4 DEF TypeOK
<1>10. ASSUME NEW w \in Workers, LoadAccount(w) PROVE TypeOK'
  <2>1. pc' \in [Workers -> Location]
    BY <1>10 DEF TypeOK, LoadAccount, Goto, Location, Owning
  <2>2. \A v \in Workers : pc'[v] # "ready" => held'[v].id \in Jobs
    BY <1>10 DEF TypeOK, LoadAccount, Goto
  <2>3. UNCHANGED <<now, job, msg, batch, held, accepted, faults, unrecorded, torn>>
    BY <1>10 DEF LoadAccount, rows, history
  <2>4. QED
    BY <2>1, <2>2, <2>3 DEF TypeOK
<1>11. ASSUME NEW w \in Workers, LoadAccountError(w) PROVE TypeOK'
  <2>1. pc' \in [Workers -> Location]
    BY <1>11 DEF TypeOK, LoadAccountError, Goto, Location, Owning
  <2>2. \A v \in Workers : pc'[v] # "ready" => held'[v].id \in Jobs
    BY <1>11 DEF TypeOK, LoadAccountError, Goto
  <2>3. UNCHANGED <<now, job, msg, batch, held, accepted, faults, unrecorded, torn>>
    BY <1>11 DEF LoadAccountError, rows, history
  <2>4. QED
    BY <2>1, <2>2, <2>3 DEF TypeOK
<1>12. ASSUME NEW w \in Workers, SendAccepted(w) PROVE TypeOK'
  <2>1. pc' \in [Workers -> Location]
    BY <1>12 DEF TypeOK, SendAccepted, Goto, Location, Owning
  <2>2. accepted' \in [Jobs -> Nat]
    BY <1>12 DEF TypeOK, SendAccepted, Goto
  <2>3. held' \in [Workers -> Claimed]
    BY <1>12 DEF TypeOK, SendAccepted, Goto, Claimed
  <2>4. \A v \in Workers : pc'[v] # "ready" => held'[v].id \in Jobs
    BY <1>12 DEF TypeOK, SendAccepted, Goto, Claimed
  <2>5. UNCHANGED <<now, job, msg, batch, faults, unrecorded, torn>>
    BY <1>12 DEF SendAccepted, rows, history
  <2>6. QED
    BY <2>1, <2>2, <2>3, <2>4, <2>5 DEF TypeOK
<1>13. ASSUME NEW w \in Workers, SendAnswerLost(w) PROVE TypeOK'
  <2>1. pc' \in [Workers -> Location]
    BY <1>13 DEF TypeOK, SendAnswerLost, Goto, Location, Owning
  <2>2. accepted' \in [Jobs -> Nat]
    <3>1. held[w].id \in Jobs
      BY <1>13 DEF TypeOK, SendAnswerLost, Goto
    <3>2. accepted' = [accepted EXCEPT ![held[w].id] = @ + 1]
      BY <1>13 DEF SendAnswerLost
    <3>3. QED
      BY <3>1, <3>2, CountOneMore DEF TypeOK
  <2>3. \A v \in Workers : pc'[v] # "ready" => held'[v].id \in Jobs
    BY <1>13 DEF TypeOK, SendAnswerLost, Goto
  <2>4. UNCHANGED <<now, job, msg, batch, held, faults, unrecorded, torn>>
    BY <1>13 DEF SendAnswerLost, rows, history
  <2>5. QED
    BY <2>1, <2>2, <2>3, <2>4 DEF TypeOK
<1>14. ASSUME NEW w \in Workers, SendRefused(w) PROVE TypeOK'
  <2>1. pc' \in [Workers -> Location]
    BY <1>14 DEF TypeOK, SendRefused, Goto, Location, Owning
  <2>2. \A v \in Workers : pc'[v] # "ready" => held'[v].id \in Jobs
    BY <1>14 DEF TypeOK, SendRefused, Goto
  <2>3. UNCHANGED <<now, job, msg, batch, held, accepted, faults, unrecorded, torn>>
    BY <1>14 DEF SendRefused, rows, history
  <2>4. QED
    BY <2>1, <2>2, <2>3 DEF TypeOK
<1>15. ASSUME NEW w \in Workers, MarkSuccess(w) PROVE TypeOK'
  <2>1. job' \in [Jobs -> JobRow]
    BY <1>15 DEF TypeOK, MarkSuccess, JobRow, JobStatus
  <2>2. msg' \in [Jobs -> MessageRow]
    BY <1>15 DEF TypeOK, MarkSuccess, MessageRow, MessageStatus, Claimed
  <2>3. Release(w)
    BY <1>15 DEF MarkSuccess
  <2>4. /\ pc' \in [Workers -> Location]
       /\ held' \in [Workers -> Claimed]
       /\ \A v \in Workers : pc'[v] # "ready" => held'[v].id \in Jobs
    BY <2>3, ReleaseType
  <2>5. UNCHANGED <<now, batch, accepted, faults, unrecorded, torn>>
    BY <1>15 DEF MarkSuccess, rows, history
  <2>6. QED
    BY <2>1, <2>2, <2>3, <2>4, <2>5 DEF TypeOK
<1>16. ASSUME NEW w \in Workers, FailJob(w) PROVE TypeOK'
  <2>1. job' \in [Jobs -> JobRow]
    BY <1>16, WriteJobFailureType DEF FailJob
  <2>2. pc' \in [Workers -> Location]
    BY <1>16 DEF TypeOK, FailJob, Release, Location
  <2>3. held' \in [Workers -> Claimed]
    BY <1>16 DEF TypeOK, FailJob, Release, Claimed, NoClaim, NoJob, NoWa
  <2>4. \A v \in Workers : pc'[v] # "ready" => held'[v].id \in Jobs
    BY <1>16 DEF TypeOK, FailJob, Release
  <2>5. UNCHANGED <<now, msg, batch, accepted, faults, unrecorded, torn>>
    BY <1>16 DEF FailJob, rows, history
  <2>6. QED
    BY <2>1, <2>2, <2>3, <2>4, <2>5 DEF TypeOK
<1>17. ASSUME NEW w \in Workers, FailMessage(w) PROVE TypeOK'
  <2>1. msg' \in [Jobs -> MessageRow]
    BY <1>17 DEF TypeOK, FailMessage, FailMessageWith, MessageStatusAfter,
         MessageRow, MessageStatus
  <2>2. Release(w)
    BY <1>17 DEF FailMessage, FailMessageWith
  <2>3. /\ pc' \in [Workers -> Location]
       /\ held' \in [Workers -> Claimed]
       /\ \A v \in Workers : pc'[v] # "ready" => held'[v].id \in Jobs
    BY <2>2, ReleaseType
  <2>4. UNCHANGED <<now, job, batch, accepted, faults, unrecorded, torn>>
    BY <1>17 DEF FailMessage, FailMessageWith, rows, history
  <2>5. QED
    BY <2>1, <2>2, <2>3, <2>4 DEF TypeOK
<1>18. ASSUME NEW w \in Workers, FailJobOnly(w) PROVE TypeOK'
  <2>1. job' \in [Jobs -> JobRow]
    BY <1>18, WriteJobFailureType DEF FailJobOnly
  <2>2. torn' \in SUBSET Jobs
    BY <1>18 DEF TypeOK, FailJobOnly
  <2>3. Release(w)
    BY <1>18 DEF FailJobOnly
  <2>4. /\ pc' \in [Workers -> Location]
       /\ held' \in [Workers -> Claimed]
       /\ \A v \in Workers : pc'[v] # "ready" => held'[v].id \in Jobs
    BY <2>3, ReleaseType
  <2>5. UNCHANGED <<now, msg, batch, accepted, faults, unrecorded>>
    BY <1>18 DEF FailJobOnly, rows, history
  <2>6. QED
    BY <2>1, <2>2, <2>3, <2>4, <2>5 DEF TypeOK
<1>19. ASSUME NEW w \in Workers, DbError(w) PROVE TypeOK'
  <2>1. faults' \in Nat
    BY <1>19 DEF TypeOK, DbError, Forget
  <2>2. unrecorded' \in [Jobs -> Nat]
    <3>1. pc[w] \in Owning => held[w].id \in Jobs
      BY DEF TypeOK, Owning
    <3>2. CASE pc[w] \in Owning
      <4>1. unrecorded' = [unrecorded EXCEPT ![held[w].id] = @ + 1]
        BY <1>19, <3>2 DEF DbError, Forget
      <4>2. QED
        BY <3>1, <3>2, <4>1, CountOneMore DEF TypeOK
    <3>3. CASE pc[w] \notin Owning
      BY <1>19, <3>3 DEF TypeOK, DbError, Forget
    <3>4. QED
      BY <3>2, <3>3
  <2>3. torn' \in SUBSET Jobs
    BY <1>19 DEF TypeOK, DbError, Forget
  <2>4. Release(w)
    BY <1>19 DEF DbError, Forget
  <2>5. /\ pc' \in [Workers -> Location]
       /\ held' \in [Workers -> Claimed]
       /\ \A v \in Workers : pc'[v] # "ready" => held'[v].id \in Jobs
    BY <2>4, ReleaseType
  <2>6. UNCHANGED <<now, job, msg, batch, accepted>>
    BY <1>19 DEF DbError, Forget, rows, history
  <2>7. QED
    BY <2>1, <2>2, <2>3, <2>4, <2>5, <2>6 DEF TypeOK
<1>20. ASSUME NEW w \in Workers, Crash(w) PROVE TypeOK'
  <2>1. faults' \in Nat
    BY <1>20 DEF TypeOK, Crash, Forget
  <2>2. unrecorded' \in [Jobs -> Nat]
    <3>1. pc[w] \in Owning => held[w].id \in Jobs
      BY DEF TypeOK, Owning
    <3>2. CASE pc[w] \in Owning
      <4>1. unrecorded' = [unrecorded EXCEPT ![held[w].id] = @ + 1]
        BY <1>20, <3>2 DEF Crash, Forget
      <4>2. QED
        BY <3>1, <3>2, <4>1, CountOneMore DEF TypeOK
    <3>3. CASE pc[w] \notin Owning
      BY <1>20, <3>3 DEF TypeOK, Crash, Forget
    <3>4. QED
      BY <3>2, <3>3
  <2>3. torn' \in SUBSET Jobs
    BY <1>20 DEF TypeOK, Crash, Forget
  <2>4. batch' \in [Workers -> SUBSET Snapshot]
    BY <1>20 DEF TypeOK, Crash, Forget
  <2>5. Release(w)
    BY <1>20 DEF Crash, Forget
  <2>6. /\ pc' \in [Workers -> Location]
       /\ held' \in [Workers -> Claimed]
       /\ \A v \in Workers : pc'[v] # "ready" => held'[v].id \in Jobs
    BY <2>5, ReleaseType
  <2>7. UNCHANGED <<now, job, msg, accepted>>
    BY <1>20 DEF Crash, Forget, rows, history
  <2>8. QED
    BY <2>1, <2>2, <2>3, <2>4, <2>5, <2>6, <2>7 DEF TypeOK
<1>21. CASE Tick
  <2>1. now' \in Nat
    BY <1>21 DEF TypeOK, Tick
  <2>2. UNCHANGED <<job, msg, pc, batch, held, accepted, faults, unrecorded, torn>>
    BY <1>21 DEF Tick, rows, history
  <2>3. QED
    BY <2>1, <2>2 DEF TypeOK
<1>22. CASE UNCHANGED vars
  BY <1>22 DEF TypeOK, vars
<1>23. QED
  BY <1>1, <1>2, <1>3, <1>4, <1>5, <1>6, <1>7, <1>8, <1>9, <1>10, <1>11, <1>12,
     <1>13, <1>14, <1>15, <1>16, <1>17, <1>18, <1>19, <1>20, <1>21, <1>22 DEF Next,
     Submit, Step, Fault

\* Rows, snapshots and program counters keep the types of their columns.
THEOREM TypeCorrect == Spec => []TypeOK
<1>1. Init => TypeOK
  BY DEF Init, TypeOK, JobRow, MessageRow, JobStatus, MessageStatus, Claimed, Snapshot,
         Location, Owning, NoClaim, NoJob, NoWa
<1>2. QED
  BY <1>1, TypeStep, PTL DEF Spec

-----------------------------------------------------------------------------
(***************************************************************************)
(* What a step does, point by point.  The invariants below only need these *)
(* nine kinds of step, and not the actions themselves.                     *)
(***************************************************************************)
OthersKept(w)     == \A v \in Workers \ {w} : pc'[v] = pc[v] /\ held'[v] = held[v]
OtherJobsKept(j)  == \A i \in Jobs \ {j} : job'[i] = job[i]
OtherMsgsKept(j)  == \A i \in Jobs \ {j} : msg'[i] = msg[i]

\* Nothing but batches and the clock changes.
Waits ==
  /\ UNCHANGED <<job, msg, pc, held, accepted, unrecorded, torn>>
  /\ now' \in {now, now + 1}
  /\ \/ now' = now
     \/ ~Prompt
     \/ \A w \in Workers : pc[w] # "ready" => now + 1 < held[w].since + StaleAfter

AddsMessage(j) ==
  /\ msg[j].status = "none"
  /\ msg'[j].status = "queued" /\ msg'[j].wa_message_id = NoWa
  /\ OtherMsgsKept(j)
  /\ UNCHANGED <<now, job, pc, held, accepted, unrecorded, torn>>

AddsJob(j) ==
  /\ job[j].status = "none" /\ msg[j].status = "queued"
  /\ job'[j].status = "pending" /\ job'[j].attempts = 0 /\ job'[j].updated_at = now
  /\ OtherJobsKept(j)
  /\ UNCHANGED <<now, msg, pc, held, accepted, unrecorded, torn>>

Claims(w, s) ==
  /\ pc[w] = "ready" /\ pc'[w] = "reload"
  /\ s.id \in Jobs /\ Unchanged(s) /\ batch'[w] = batch[w] \ {s}
  /\ job'[s.id].status = "processing" /\ job'[s.id].updated_at = now
  /\ job'[s.id].attempts = job[s.id].attempts
  /\ OtherJobsKept(s.id)
  /\ held'[w].id = s.id /\ held'[w].since = now /\ held'[w].wa_read = NoWa
  /\ OthersKept(w)
  /\ UNCHANGED <<now, msg, accepted, unrecorded, torn>>

Moves(w) == LET j == held[w].id IN
  /\ j \in Jobs
  /\ pc[w] \in Owning \ {"mark_success", "fail_job", "fail_job_only"}
  /\ pc'[w] \in Owning \ {"reload"}
  /\ held'[w].id = j /\ held'[w].since = held[w].since
  /\ held'[w].attempts = IF pc[w] = "reload" THEN job[j].attempts ELSE held[w].attempts
  /\ held'[w].wa_read \in {held[w].wa_read, msg[j].wa_message_id}
  /\ \/ accepted' = accepted /\ pc'[w] # "mark_success"
     \/ /\ pc'[w] \in {"mark_success", "fail_job"}
        /\ accepted'[j] = accepted[j] + 1
        /\ \A i \in Jobs \ {j} : accepted'[i] = accepted[i]
        /\ pc'[w] = "mark_success" => held'[w].wa_sent = accepted[j] + 1
  /\ OthersKept(w)
  /\ UNCHANGED <<now, job, msg, unrecorded, torn>>

Succeeds(w) == LET j == held[w].id IN
  /\ j \in Jobs
  /\ pc[w] = "mark_success" /\ pc'[w] = "ready" /\ held'[w].wa_read = NoWa
  /\ job'[j].status = "done" /\ job'[j].updated_at = now /\ job'[j].attempts = job[j].attempts
  /\ msg'[j].status = "sent" /\ msg'[j].wa_message_id = held[w].wa_sent
  /\ OtherJobsKept(j) /\ OtherMsgsKept(j) /\ OthersKept(w)
  /\ UNCHANGED <<now, accepted, unrecorded, torn>>

Fails(w) == LET j == held[w].id IN
  /\ j \in Jobs
  /\ pc[w] \in {"fail_job", "fail_job_only"}
  /\ job'[j].status = IF Terminal(w) THEN "failed" ELSE "pending"
  /\ job'[j].attempts = held[w].attempts + 1 /\ job'[j].updated_at = now
  /\ \/ pc'[w] = "fail_message" /\ held'[w] = held[w] /\ torn' = torn
     \/ /\ pc'[w] = "ready" /\ held'[w].wa_read = NoWa
        /\ torn \subseteq torn'
        /\ Terminal(w) => j \in torn' \/ held[w].wa_read # NoWa
  /\ OtherJobsKept(j) /\ OthersKept(w)
  /\ UNCHANGED <<now, msg, accepted, unrecorded>>

MarksMessage(w) == LET j == held[w].id IN
  /\ j \in Jobs
  /\ pc[w] = "fail_message" /\ pc'[w] = "ready" /\ held'[w].wa_read = NoWa
  /\ msg'[j].status = MessageStatusAfter(w)
  /\ msg'[j].wa_message_id = msg[j].wa_message_id
  /\ OtherMsgsKept(j) /\ OthersKept(w)
  /\ UNCHANGED <<now, job, accepted, unrecorded, torn>>

Drops(w) == LET j == held[w].id IN
  /\ pc'[w] = "ready" /\ held'[w].wa_read = NoWa
  /\ pc[w] \in Owning => unrecorded'[j] = unrecorded[j] + 1
  /\ \A i \in Jobs : i # j \/ pc[w] \notin Owning => unrecorded'[i] = unrecorded[i]
  /\ torn \subseteq torn'
  /\ pc[w] = "fail_message" /\ Terminal(w) => j \in torn'
  /\ OthersKept(w)
  /\ UNCHANGED <<now, job, msg, accepted>>

\* One of the nine kinds of step.
StepKind ==
  \/ Waits
  \/ \E j \in Jobs : AddsMessage(j) \/ AddsJob(j)
  \/ \E w \in Workers : \/ \E s \in batch[w] : Claims(w, s)
                        \/ Moves(w) \/ Succeeds(w) \/ Fails(w)
                        \/ MarksMessage(w) \/ Drops(w)

\* Every step of the specification is one of them.
LEMMA StepKinds == TypeOK /\ [Next]_vars => StepKind
<1> SUFFICES ASSUME TypeOK, [Next]_vars PROVE StepKind
  OBVIOUS
<1>1. ASSUME NEW j \in Jobs, CreateQueuedMessage(j) PROVE AddsMessage(j)
  BY <1>1 DEF CreateQueuedMessage, AddsMessage, OtherMsgsKept, history, TypeOK
<1>2. ASSUME NEW j \in Jobs, CreateOutbox(j) PROVE AddsJob(j)
  BY <1>2 DEF CreateOutbox, AddsJob, OtherJobsKept, history, TypeOK
<1>3. ASSUME NEW w \in Workers, Poll(w) \/ ClaimLost(w) \/ ClaimError(w) PROVE Waits
  BY <1>3 DEF Poll, ClaimLost, ClaimError, Waits, rows, history
<1>4. ASSUME NEW w \in Workers, Claim(w) PROVE \E s \in batch[w] : Claims(w, s)
  <2>1. PICK s \in batch[w] :
          /\ IsNext(w, s)
          /\ Unchanged(s)
          /\ job' = [job EXCEPT ![s.id].status = "processing", ![s.id].updated_at = now]
          /\ pc' = [pc EXCEPT ![w] = "reload"]
          /\ held' = [held EXCEPT ![w] = [NoClaim EXCEPT !.id = s.id, !.since = now]]
          /\ batch' = [batch EXCEPT ![w] = @ \ {s}]
          /\ UNCHANGED <<now, msg, accepted, faults, history>>
    BY <1>4 DEF Claim
  <2>2. s.id \in Jobs
    BY DEF TypeOK, Snapshot
  <2>3. /\ job'[s.id].status = "processing" /\ job'[s.id].updated_at = now
        /\ job'[s.id].attempts = job[s.id].attempts
        /\ OtherJobsKept(s.id)
    BY <2>1, <2>2 DEF TypeOK, JobRow, OtherJobsKept
  <2>4. /\ held'[w].id = s.id /\ held'[w].since = now /\ held'[w].wa_read = NoWa
        /\ pc'[w] = "reload"
        /\ OthersKept(w)
    BY <2>1 DEF TypeOK, NoClaim, OthersKept
  <2>5. batch'[w] = batch[w] \ {s}
    BY <2>1 DEF TypeOK
  <2>6. QED
    BY <2>1, <2>2, <2>3, <2>4, <2>5 DEF Claims, IsNext, history
<1>5. ASSUME NEW w \in Workers, Reload(w) PROVE Moves(w)
  BY <1>5 DEF Reload, Goto, Moves, OthersKept, TypeOK, Claimed, Owning, rows, history
<1>6. ASSUME NEW w \in Workers, LoadMessage(w) PROVE Moves(w)
  BY <1>6 DEF LoadMessage, Goto, Moves, OthersKept, TypeOK, Claimed, Owning, rows, history
<1>7. ASSUME NEW w \in Workers,
             LoadMessageError(w) \/ LoadAccount(w) \/ LoadAccountError(w) \/ SendRefused(w)
      PROVE  Moves(w)
  BY <1>7 DEF LoadMessageError, LoadAccount, LoadAccountError, SendRefused, Goto, Moves,
              OthersKept, TypeOK, Claimed, Owning, rows, history
<1>8. ASSUME NEW w \in Workers, SendAccepted(w) PROVE Moves(w)
  BY <1>8 DEF SendAccepted, Goto, Moves, OthersKept, TypeOK, Claimed, Owning, rows, history
<1>9. ASSUME NEW w \in Workers, SendAnswerLost(w) PROVE Moves(w)
  BY <1>9 DEF SendAnswerLost, Goto, Moves, OthersKept, TypeOK, Claimed, Owning, rows, history
<1>10. ASSUME NEW w \in Workers, MarkSuccess(w) PROVE Succeeds(w)
  BY <1>10 DEF MarkSuccess, Release, NoClaim, Succeeds, OthersKept, OtherJobsKept,
               OtherMsgsKept, TypeOK, JobRow, history
<1>11. ASSUME NEW w \in Workers, FailJob(w) PROVE Fails(w)
  BY <1>11 DEF FailJob, WriteJobFailure, Attempts, Release, NoClaim, Fails, OthersKept,
               OtherJobsKept, TypeOK, history
<1>12. ASSUME NEW w \in Workers, FailJobOnly(w) PROVE Fails(w)
  BY <1>12 DEF FailJobOnly, WriteJobFailure, Attempts, Release, NoClaim, Fails, OthersKept,
               OtherJobsKept, TypeOK
<1>13. ASSUME NEW w \in Workers, FailMessage(w) PROVE MarksMessage(w)
  BY <1>13 DEF FailMessage, FailMessageWith, Release, NoClaim, MarksMessage, OthersKept,
               OtherMsgsKept, TypeOK, MessageRow, history
<1>14. ASSUME NEW w \in Workers, DbError(w) \/ Crash(w) PROVE Drops(w)
  BY <1>14 DEF DbError, Crash, Forget, Release, NoClaim, Drops, OthersKept, TypeOK, rows,
               Owning
<1>15. CASE Tick
  BY <1>15 DEF Tick, Waits, StepKind, rows, history
<1>16. CASE UNCHANGED vars
  BY <1>16 DEF vars, Waits, StepKind
<1>17. QED
  BY <1>1, <1>2, <1>3, <1>4, <1>5, <1>6, <1>7, <1>8, <1>9, <1>10, <1>11, <1>12, <1>13,
     <1>14, <1>15, <1>16 DEF Next, Submit, Step, Fault, StepKind

-----------------------------------------------------------------------------
(***************************************************************************)
(* The inductive invariant, part by part.  Every part assumes all of IInv  *)
(* before the step, and that workers are prompt or that there is only one. *)
(***************************************************************************)
Undisputed == Prompt \/ OneWorker

\* A batch gets smaller, or a ready worker whose batch was empty polls.
LEMMA BatchKinds ==
  ASSUME TypeOK, [Next]_vars, NEW v \in Workers
  PROVE  \/ batch'[v] \subseteq batch[v]
         \/ /\ UNCHANGED <<now, job, pc, held>> /\ pc[v] = "ready"
            /\ batch'[v] \subseteq {SnapshotOf(j) : j \in Ready}
<1>1. ASSUME NEW w \in Workers, Poll(w)
      PROVE  \/ batch'[v] \subseteq batch[v]
             \/ /\ UNCHANGED <<now, job, pc, held>> /\ pc[v] = "ready"
                /\ batch'[v] \subseteq {SnapshotOf(j) : j \in Ready}
  <2>1. /\ batch' = [batch EXCEPT ![w] = FirstOf({SnapshotOf(j) : j \in Ready})]
        /\ UNCHANGED <<now, job, pc, held>> /\ pc[w] = "ready"
    BY <1>1 DEF Poll, rows
  <2>2. CASE v = w
    <3>1. batch'[v] = FirstOf({SnapshotOf(j) : j \in Ready})
      BY <2>1, <2>2 DEF TypeOK
    <3>2. batch'[v] \subseteq {SnapshotOf(j) : j \in Ready}
      BY <3>1 DEF FirstOf
    <3>3. QED
      BY <2>1, <2>2, <3>2
  <2>3. CASE v # w
    BY <2>1, <2>3 DEF TypeOK
  <2>4. QED
    BY <2>2, <2>3
<1>2. ASSUME NEW w \in Workers, Claim(w) \/ ClaimLost(w) \/ ClaimError(w) \/ Crash(w)
      PROVE  batch'[v] \subseteq batch[v]
  <2>1. \E B \in SUBSET batch[w] : batch' = [batch EXCEPT ![w] = B]
    <3>1. CASE Crash(w)
      BY <3>1 DEF Crash
    <3>2. CASE Claim(w) \/ ClaimLost(w) \/ ClaimError(w)
      <4>1. PICK r \in batch[w] : batch' = [batch EXCEPT ![w] = @ \ {r}]
        BY <3>2 DEF Claim, ClaimLost, ClaimError
      <4>2. batch[w] \ {r} \in SUBSET batch[w]
        OBVIOUS
      <4>3. QED
        BY <4>1, <4>2
    <3>3. QED
      BY <1>2, <3>1, <3>2
  <2>2. QED
    BY <2>1 DEF TypeOK
<1>3. CASE UNCHANGED batch
  BY <1>3
<1>4. ASSUME NEW j \in Jobs, Submit(j) PROVE UNCHANGED batch
  BY <1>4 DEF Submit, CreateQueuedMessage, CreateOutbox
<1>5. ASSUME NEW w \in Workers, Step(w) \/ Fault(w)
      PROVE  \/ UNCHANGED batch
             \/ Poll(w) \/ Claim(w) \/ ClaimLost(w) \/ ClaimError(w) \/ Crash(w)
  BY <1>5 DEF Step, Fault, Reload, LoadMessage, LoadMessageError, LoadAccount,
     LoadAccountError, SendAccepted, SendAnswerLost, SendRefused, MarkSuccess, FailJob,
     FailMessage, FailMessageWith, FailJobOnly, DbError
<1>6. CASE Tick \/ UNCHANGED vars
  BY <1>6, <1>3 DEF Tick, vars
<1>7. QED
  BY <1>1, <1>2, <1>3, <1>4, <1>5, <1>6 DEF Next

\* A row of a batch was there before the step, or was read by it.
LEMMA BatchStep ==
  ASSUME TypeOK, [Next]_vars, NEW v \in Workers, NEW s, s \in batch'[v]
  PROVE  s \in batch[v] \/ (now' = now /\ \E j \in Ready : s = SnapshotOf(j))
BY BatchKinds

\* The clock never goes back.
LEMMA ClockStep == TypeOK /\ [Next]_vars => now' \in Nat /\ now' >= now
BY StepKinds, TypeStep DEF StepKind, Waits, AddsMessage, AddsJob, Claims, Moves, Succeeds,
   Fails, MarksMessage, Drops, TypeOK

LEMMA SnapshotStep == TypeOK /\ SnapshotInv /\ [Next]_vars => SnapshotInv'
<1> SUFFICES ASSUME TypeOK, SnapshotInv, [Next]_vars,
                    NEW w \in Workers, NEW s, s \in batch'[w]
             PROVE  \/ s.status = "pending"
                    \/ s.status = "processing" /\ s.updated_at + StaleAfter <= now'
  BY DEF SnapshotInv
<1>1. now \in Nat /\ now' \in Nat /\ now' >= now
  BY ClockStep DEF TypeOK
<1>2. CASE s \in batch[w]
  <2>1. s.updated_at \in Nat
    BY <1>2 DEF TypeOK, Snapshot
  <2>2. QED
    BY <1>1, <1>2, <2>1 DEF SnapshotInv
<1>3. ASSUME NEW j \in Ready, s = SnapshotOf(j), now' = now
      PROVE  \/ s.status = "pending"
             \/ s.status = "processing" /\ s.updated_at + StaleAfter <= now'
  BY <1>3 DEF SnapshotOf, Ready, Due, Stale
<1>4. QED
  BY <1>2, <1>3, BatchStep

LEMMA ClockInvStep ==
  ASSUME IInv, [Next]_vars
  PROVE  ClockInv'
<1> USE DEF OthersKept, OtherJobsKept, OtherMsgsKept
<1>0. TypeOK /\ ClockInv /\ TypeOK' /\ now' \in Nat /\ now' >= now
  BY TypeStep, ClockStep DEF IInv
<1>1. CASE Waits
  BY <1>0, <1>1 DEF Waits, ClockInv, TypeOK, JobRow, Claimed
<1>2. ASSUME NEW j \in Jobs, AddsMessage(j) \/ AddsJob(j) PROVE ClockInv'
  BY <1>0, <1>2 DEF AddsMessage, AddsJob, ClockInv, TypeOK, JobRow
<1>3. ASSUME NEW w \in Workers, NEW s \in batch[w], Claims(w, s) PROVE ClockInv'
  <2>1. \A j \in Jobs : job'[j].updated_at <= now'
    BY <1>0, <1>3 DEF Claims, ClockInv, TypeOK, JobRow
  <2>2. now < now + StaleAfter
    BY <1>0 DEF TypeOK
  <2>3. Prompt => \A v \in Workers : pc'[v] # "ready" => now' < held'[v].since + StaleAfter
    BY <1>0, <1>3, <2>2 DEF Claims, ClockInv
  <2>4. QED
    BY <2>1, <2>3 DEF ClockInv
<1>4. ASSUME NEW w \in Workers, Moves(w) PROVE ClockInv'
  BY <1>0, <1>4 DEF Moves, ClockInv, TypeOK, JobRow, Claimed, Owning
<1>5. ASSUME NEW w \in Workers, Succeeds(w) \/ Fails(w) PROVE ClockInv'
  BY <1>0, <1>5 DEF Succeeds, Fails, ClockInv, TypeOK, JobRow, Claimed
<1>6. ASSUME NEW w \in Workers, MarksMessage(w) \/ Drops(w) PROVE ClockInv'
  BY <1>0, <1>6 DEF MarksMessage, Drops, ClockInv, TypeOK, JobRow, Claimed
<1>7. QED
  BY <1>0, <1>1, <1>2, <1>3, <1>4, <1>5, <1>6, StepKinds DEF StepKind

\* The heart of the matter: a claim succeeds on a job that somebody owns only
\* from a snapshot that calls the owner's claim stale, and there is none.
LEMMA ClaimExclusiveStep ==
  ASSUME IInv, [Next]_vars, Undisputed
  PROVE  ClaimExclusive'
<1> USE DEF OthersKept, OtherJobsKept, OtherMsgsKept, Owns
<1>0. TypeOK /\ ClaimExclusive /\ ClockInv /\ SnapshotInv /\ TypeOK'
  BY TypeStep DEF IInv
<1>1. CASE Waits
  BY <1>0, <1>1 DEF Waits, ClaimExclusive, TypeOK
<1>2. ASSUME NEW j \in Jobs, AddsMessage(j) PROVE ClaimExclusive'
  BY <1>0, <1>2 DEF AddsMessage, ClaimExclusive, TypeOK
<1>3. ASSUME NEW j \in Jobs, AddsJob(j) PROVE ClaimExclusive'
  <2>1. \A w \in Workers : pc[w] \in Owning => held[w].id \in Jobs \ {j}
    BY <1>0, <1>3 DEF AddsJob, ClaimExclusive, TypeOK, Owning
  <2>2. QED
    BY <1>0, <1>3, <2>1 DEF AddsJob, ClaimExclusive
<1>4. ASSUME NEW w \in Workers, NEW s \in batch[w], Claims(w, s) PROVE ClaimExclusive'
  <2>1. ASSUME NEW v \in Workers, Owns(v, s.id) PROVE FALSE
    <3>1. job[s.id].status = "processing" /\ job[s.id].updated_at = held[v].since
      BY <1>0, <2>1 DEF ClaimExclusive
    <3>2. s.status = "processing" /\ s.updated_at = held[v].since
      BY <1>4, <3>1 DEF Claims, Unchanged
    <3>3. held[v].since + StaleAfter <= now
      BY <1>0, <3>2 DEF SnapshotInv
    <3>4. v # w /\ pc[v] # "ready"
      BY <1>4, <2>1 DEF Claims, Owning
    <3>5. CASE Prompt
      BY <1>0, <3>3, <3>4, <3>5 DEF ClockInv, TypeOK, Claimed
    <3>6. CASE OneWorker
      BY <3>4, <3>6 DEF OneWorker
    <3>7. QED
      BY <3>5, <3>6 DEF Undisputed
  <2>2. \A v \in Workers \ {w} : pc'[v] \in Owning =>
          /\ held'[v] = held[v] /\ held[v].id \in Jobs \ {s.id} /\ pc[v] \in Owning
          /\ job'[held[v].id] = job[held[v].id]
    BY <1>0, <1>4, <2>1 DEF Claims, TypeOK, Owning
  <2>3. /\ held'[w].id = s.id /\ held'[w].since = now
        /\ job'[s.id].status = "processing" /\ job'[s.id].updated_at = now
    BY <1>4 DEF Claims
  <2>4. QED
    BY <1>0, <2>2, <2>3 DEF ClaimExclusive
<1>5. ASSUME NEW w \in Workers, Moves(w) PROVE ClaimExclusive'
  <2>1. job' = job /\ pc[w] \in Owning
    BY <1>5 DEF Moves
  <2>2. \A v \in Workers : pc'[v] \in Owning =>
          pc[v] \in Owning /\ held'[v].id = held[v].id /\ held'[v].since = held[v].since
    BY <1>5 DEF Moves
  <2>3. QED
    BY <2>1, <2>2, <1>0 DEF ClaimExclusive
<1>6. ASSUME NEW w \in Workers, Succeeds(w) \/ Fails(w) PROVE ClaimExclusive'
  <2>1. pc[w] \in Owning /\ pc'[w] \notin Owning /\ OtherJobsKept(held[w].id) /\ OthersKept(w)
    BY <1>6 DEF Succeeds, Fails, Owning
  <2>2. \A v \in Workers : pc'[v] \in Owning =>
          v # w /\ pc[v] \in Owning /\ held'[v] = held[v] /\ job'[held[v].id] = job[held[v].id]
    <3> SUFFICES ASSUME NEW v \in Workers, pc'[v] \in Owning
                 PROVE  /\ v # w /\ pc[v] \in Owning /\ held'[v] = held[v]
                        /\ job'[held[v].id] = job[held[v].id]
      OBVIOUS
    <3>1. v # w /\ pc[v] \in Owning /\ held'[v] = held[v]
      BY <2>1
    <3>2. held[v].id \in Jobs
      BY <3>1, <1>0 DEF TypeOK, Owning
    <3>3. held[v].id # held[w].id
      BY <2>1, <3>1, <1>0 DEF ClaimExclusive
    <3>4. QED
      BY <2>1, <3>1, <3>2, <3>3
  <2>3. QED
    BY <2>1, <2>2, <1>0 DEF ClaimExclusive
<1>7. ASSUME NEW w \in Workers, MarksMessage(w) \/ Drops(w) PROVE ClaimExclusive'
  <2>1. job' = job /\ pc'[w] \notin Owning /\ OthersKept(w)
    BY <1>7 DEF MarksMessage, Drops, Owning
  <2>2. QED
    BY <2>1, <1>0 DEF ClaimExclusive
<1>8. QED
  BY <1>0, <1>1, <1>2, <1>3, <1>4, <1>5, <1>6, <1>7, StepKinds DEF StepKind

\* A snapshot that is still accurate is not one of a settled or missing row.
LEMMA ClaimedRow ==
  ASSUME IInv, NEW w \in Workers, NEW s \in batch[w], Claims(w, s)
  PROVE  job[s.id].status \in {"pending", "processing"}
BY DEF IInv, SnapshotInv, Claims, Unchanged

\* Whoever owns a job owns one that is being processed.
LEMMA OwnedRow ==
  ASSUME IInv, NEW w \in Workers, pc[w] \in Owning
  PROVE  held[w].id \in Jobs /\ job[held[w].id].status = "processing"
BY DEF IInv, TypeOK, ClaimExclusive, Owning

\* A settled row is not written, and neither is a row whose owner works on.
LEMMA RowKept ==
  ASSUME IInv, [Next]_vars, Undisputed
  PROVE  /\ \A j \in Jobs : job[j].status \in Settled => job'[j] = job[j]
         /\ \A v \in Workers : pc[v] \in Owning /\ pc'[v] \in Owning =>
              job'[held[v].id] = job[held[v].id]
<1> USE DEF OthersKept, OtherJobsKept, Settled
<1>0. TypeOK /\ ClaimExclusive /\ ClaimExclusive'
  BY ClaimExclusiveStep DEF IInv
<1>1. CASE UNCHANGED job
  BY <1>1
<1>2. ASSUME NEW j \in Jobs, AddsJob(j)
      PROVE  /\ \A i \in Jobs : job[i].status \in Settled => job'[i] = job[i]
             /\ \A v \in Workers : pc[v] \in Owning => job'[held[v].id] = job[held[v].id]
  BY <1>0, <1>2, OwnedRow DEF AddsJob
<1>3. ASSUME NEW w \in Workers, NEW s \in batch[w], Claims(w, s)
      PROVE  /\ \A j \in Jobs : job[j].status \in Settled => job'[j] = job[j]
             /\ \A v \in Workers : pc[v] \in Owning => job'[held[v].id] = job[held[v].id]
  <2>1. s.id \in Jobs /\ \A j \in Jobs \ {s.id} : job'[j] = job[j]
    BY <1>3 DEF Claims
  <2>2. ASSUME NEW v \in Workers, pc[v] \in Owning PROVE held[v].id # s.id
    <3>1. v # w /\ pc'[v] = pc[v] /\ held'[v] = held[v] /\ Owns(w, s.id)'
      BY <1>3, <2>2 DEF Claims, Owns, Owning
    <3>2. ~Owns(v, s.id)'
      BY <1>0, <3>1 DEF ClaimExclusive, Owns
    <3>3. QED
      BY <2>2, <3>1, <3>2 DEF Owns
  <2>3. QED
    BY <1>3, <2>1, <2>2, ClaimedRow, OwnedRow
<1>4. ASSUME NEW w \in Workers, Succeeds(w) \/ Fails(w)
      PROVE  /\ \A j \in Jobs : job[j].status \in Settled => job'[j] = job[j]
             /\ \A v \in Workers : pc[v] \in Owning /\ pc'[v] \in Owning =>
                  job'[held[v].id] = job[held[v].id]
  <2>1. /\ pc[w] \in Owning /\ pc'[w] \notin Owning
        /\ \A j \in Jobs \ {held[w].id} : job'[j] = job[j]
    BY <1>4 DEF Succeeds, Fails, Owning
  <2>2. ASSUME NEW v \in Workers, pc[v] \in Owning, v # w PROVE held[v].id # held[w].id
    BY <1>0, <2>1, <2>2 DEF ClaimExclusive, Owns
  <2>3. QED
    BY <2>1, <2>2, OwnedRow
<1>5. QED
  BY <1>1, <1>2, <1>3, <1>4, StepKinds, <1>0 DEF StepKind, Waits, AddsMessage, Moves,
     MarksMessage, Drops

LEMMA HeldInvStep ==
  ASSUME IInv, [Next]_vars, Undisputed
  PROVE  HeldInv'
<1> USE DEF OthersKept, NoWa
<1>0. TypeOK /\ HeldInv /\ TypeOK' /\ DoneIffDelivered
  BY TypeStep DEF IInv
<1> SUFFICES ASSUME NEW v \in Workers
             PROVE  /\ pc'[v] \in Owning \ {"reload"} =>
                         held'[v].attempts = job'[held'[v].id].attempts
                    /\ held'[v].wa_read = NoWa
                    /\ pc'[v] = "mark_success" => held'[v].wa_sent \in 1..accepted'[held'[v].id]
                    /\ pc'[v] = "fail_message" /\ Terminal(v)' =>
                         job'[held'[v].id].status = "failed"
  BY DEF HeldInv
<1>1. ASSUME pc'[v] = pc[v], held'[v] = held[v],
             \A j \in Jobs : accepted'[j] \in Nat /\ accepted'[j] >= accepted[j]
      PROVE  /\ pc'[v] \in Owning \ {"reload"} =>
                  held'[v].attempts = job'[held'[v].id].attempts
             /\ held'[v].wa_read = NoWa
             /\ pc'[v] = "mark_success" => held'[v].wa_sent \in 1..accepted'[held'[v].id]
             /\ pc'[v] = "fail_message" /\ Terminal(v)' => job'[held'[v].id].status = "failed"
  <2>1. pc[v] \in Owning => held[v].id \in Jobs /\ job'[held[v].id] = job[held[v].id]
    BY <1>1, RowKept, OwnedRow
  <2>2. pc[v] = "fail_message" /\ Terminal(v) => job'[held[v].id].status = "failed"
    BY <1>0, RowKept DEF HeldInv, Settled, TypeOK
  <2>3. Terminal(v)' <=> Terminal(v)
    BY <1>1 DEF Terminal, Attempts
  <2>4. pc[v] = "mark_success" => held[v].wa_sent \in 1..accepted'[held[v].id]
    <3> SUFFICES ASSUME pc[v] = "mark_success"
                 PROVE  held[v].wa_sent \in 1..accepted'[held[v].id]
      OBVIOUS
    <3>1. held[v].id \in Jobs
      BY <2>1 DEF Owning
    <3>2. accepted[held[v].id] \in Nat /\ accepted'[held[v].id] \in Nat
          /\ accepted'[held[v].id] >= accepted[held[v].id]
      BY <1>0, <1>1, <3>1 DEF TypeOK
    <3>3. held[v].wa_sent \in 1..accepted[held[v].id]
      BY <1>0 DEF HeldInv
    <3>4. QED
      BY <3>2, <3>3
  <2>5. QED
    BY <1>0, <1>1, <2>1, <2>2, <2>3, <2>4 DEF HeldInv
<1>2. ASSUME UNCHANGED accepted PROVE \A j \in Jobs : accepted'[j] \in Nat /\ accepted'[j] >= accepted[j]
  BY <1>0, <1>2 DEF TypeOK
<1>3. CASE Waits
  BY <1>1, <1>2, <1>3 DEF Waits
<1>4. ASSUME NEW j \in Jobs, AddsMessage(j) \/ AddsJob(j)
      PROVE  UNCHANGED <<pc, held, accepted>>
  BY <1>4 DEF AddsMessage, AddsJob
<1>5. ASSUME NEW w \in Workers, NEW s \in batch[w], Claims(w, s)
      PROVE  /\ UNCHANGED accepted
             /\ v # w => pc'[v] = pc[v] /\ held'[v] = held[v]
             /\ v = w => pc'[v] = "reload" /\ held'[v].wa_read = NoWa
  BY <1>5 DEF Claims
<1>6. ASSUME NEW w \in Workers, Succeeds(w) \/ MarksMessage(w) \/ Drops(w)
      PROVE  /\ UNCHANGED accepted
             /\ v # w => pc'[v] = pc[v] /\ held'[v] = held[v]
             /\ v = w => pc'[v] = "ready" /\ held'[v].wa_read = NoWa
  BY <1>6 DEF Succeeds, MarksMessage, Drops
<1>7. ASSUME NEW w \in Workers, Fails(w)
      PROVE  /\ UNCHANGED accepted
             /\ v # w => pc'[v] = pc[v] /\ held'[v] = held[v]
             /\ v = w =>
                  /\ pc'[v] \in {"ready", "fail_message"} /\ held'[v].wa_read = NoWa
                  /\ pc'[v] = "fail_message" /\ Terminal(v)' => job'[held'[v].id].status = "failed"
  BY <1>0, <1>7 DEF Fails, Terminal, Attempts, HeldInv
<1>8. ASSUME NEW w \in Workers, Moves(w)
      PROVE  /\ \A j \in Jobs : accepted'[j] \in Nat /\ accepted'[j] >= accepted[j]
             /\ v # w => pc'[v] = pc[v] /\ held'[v] = held[v]
             /\ v = w =>
                  /\ held'[v].attempts = job'[held'[v].id].attempts
                  /\ held'[v].wa_read = NoWa
                  /\ pc'[v] = "mark_success" => held'[v].wa_sent \in 1..accepted'[held'[v].id]
                  /\ pc'[v] \in Owning
  <2> DEFINE j == held[w].id
  <2>1. /\ j \in Jobs /\ held'[w].id = j /\ job' = job /\ pc'[w] \in Owning
        /\ job[j].status = "processing" /\ accepted[j] \in Nat
    BY <1>0, <1>8, OwnedRow DEF Moves, TypeOK
  <2>2. \A i \in Jobs : accepted'[i] \in Nat /\ accepted'[i] >= accepted[i]
    BY <1>0, <1>8 DEF Moves, TypeOK
  <2>3. msg[j].wa_message_id = NoWa
    BY <1>0, <2>1 DEF DoneIffDelivered
  <2>4. held'[w].wa_read = NoWa
    BY <1>0, <1>8, <2>3 DEF Moves, HeldInv
  <2>5. held'[w].attempts = job'[j].attempts
    BY <1>0, <1>8, <2>1 DEF Moves, HeldInv
  <2>6. pc'[w] = "mark_success" => held'[w].wa_sent \in 1..accepted'[j]
    BY <1>8, <2>1 DEF Moves
  <2>7. v # w => pc'[v] = pc[v] /\ held'[v] = held[v]
    BY <1>8 DEF Moves
  <2>8. QED
    BY <2>1, <2>2, <2>4, <2>5, <2>6, <2>7
<1>9. "reload" \in Owning /\ "ready" \notin Owning /\ "fail_message" \notin Owning
      /\ "mark_success" \in Owning
  BY DEF Owning
<1>10. QED
  BY <1>0, <1>1, <1>2, <1>3, <1>4, <1>5, <1>6, <1>7, <1>8, <1>9, StepKinds DEF StepKind

LEMMA RowInvStep ==
  ASSUME IInv, [Next]_vars, Undisputed
  PROVE  RowInv'
<1> USE DEF OtherJobsKept, OtherMsgsKept
<1>0. TypeOK /\ RowInv /\ HeldInv /\ TypeOK'
  BY TypeStep DEF IInv
<1>1. CASE Waits
  BY <1>0, <1>1 DEF Waits, RowInv
<1>2. ASSUME NEW j \in Jobs, AddsMessage(j) PROVE RowInv'
  BY <1>0, <1>2 DEF AddsMessage, RowInv
<1>3. ASSUME NEW j \in Jobs, AddsJob(j) PROVE RowInv'
  BY <1>0, <1>3 DEF AddsJob, RowInv
<1>4. ASSUME NEW w \in Workers, NEW s \in batch[w], Claims(w, s) PROVE RowInv'
  BY <1>0, <1>4, ClaimedRow DEF Claims, RowInv
<1>5. ASSUME NEW w \in Workers, Moves(w) PROVE RowInv'
  <2>1. held[w].id \in Jobs /\ job[held[w].id].status = "processing"
    BY <1>5, OwnedRow DEF Moves
  <2>2. \A i \in Jobs \ {held[w].id} : accepted'[i] = accepted[i]
    BY <1>5 DEF Moves
  <2>3. QED
    BY <1>0, <1>5, <2>1, <2>2 DEF Moves, RowInv
<1>6. ASSUME NEW w \in Workers, Succeeds(w) PROVE RowInv'
  <2>1. held[w].id \in Jobs /\ job[held[w].id].status = "processing"
    BY <1>6, OwnedRow DEF Succeeds, Owning
  <2>2. QED
    BY <1>0, <1>6, <2>1 DEF Succeeds, RowInv
<1>7. ASSUME NEW w \in Workers, Fails(w) PROVE RowInv'
  <2> DEFINE j == held[w].id
  <2>1. j \in Jobs /\ job[j].status = "processing"
    BY <1>7, OwnedRow DEF Fails, Owning
  <2>2. held[w].attempts = job[j].attempts
    BY <1>0, <1>7 DEF Fails, HeldInv, Owning
  <2>3. job[j].attempts \in Nat /\ job[j].attempts < MaxAttempts
    <3>1. job[j].attempts \in Nat
      BY <1>0, <2>1 DEF TypeOK, JobRow
    <3>2. job[j].attempts <= MaxAttempts /\ job[j].attempts # MaxAttempts
      BY <1>0, <2>1 DEF RowInv
    <3>3. QED
      BY <3>1, <3>2
  <2>4. Terminal(w) <=> job[j].attempts + 1 = MaxAttempts
    BY <2>2, <2>3 DEF Terminal, Attempts
  <2>5. /\ job'[j].attempts = job[j].attempts + 1
        /\ job'[j].status = IF Terminal(w) THEN "failed" ELSE "pending"
        /\ \A i \in Jobs \ {j} : job'[i] = job[i]
        /\ msg' = msg /\ accepted' = accepted
    BY <1>7, <2>2 DEF Fails
  <2>6. msg[j].status # "none"
    BY <1>0, <2>1 DEF RowInv
  <2>7. QED
    <3>1. ASSUME NEW i \in Jobs, i # j
          PROVE  job'[i] = job[i] /\ msg'[i] = msg[i] /\ accepted'[i] = accepted[i]
      BY <2>5, <3>1
    <3>2. /\ job'[j].attempts <= MaxAttempts
          /\ job'[j].status = "failed" <=> job'[j].attempts = MaxAttempts
          /\ job'[j].status # "none" /\ msg'[j].status # "none"
      BY <2>3, <2>4, <2>5, <2>6
    <3>3. QED
      BY <1>0, <3>1, <3>2 DEF RowInv
<1>8. ASSUME NEW w \in Workers, MarksMessage(w) PROVE RowInv'
  BY <1>0, <1>8 DEF MarksMessage, MessageStatusAfter, RowInv
<1>9. ASSUME NEW w \in Workers, Drops(w) PROVE RowInv'
  BY <1>0, <1>9 DEF Drops, RowInv
<1>10. QED
  BY <1>1, <1>2, <1>3, <1>4, <1>5, <1>6, <1>7, <1>8, <1>9, <1>0, StepKinds DEF StepKind

LEMMA DoneIffDeliveredStep ==
  ASSUME IInv, [Next]_vars, Undisputed
  PROVE  DoneIffDelivered'
<1> USE DEF OtherJobsKept, OtherMsgsKept, NoWa
<1>0. TypeOK /\ RowInv /\ HeldInv /\ DoneIffDelivered /\ TypeOK'
  BY TypeStep DEF IInv
<1>1. CASE Waits
  BY <1>0, <1>1 DEF Waits, DoneIffDelivered
<1>2. ASSUME NEW j \in Jobs, AddsMessage(j) PROVE DoneIffDelivered'
  BY <1>0, <1>2 DEF AddsMessage, DoneIffDelivered, RowInv, TypeOK
<1>3. ASSUME NEW j \in Jobs, AddsJob(j) PROVE DoneIffDelivered'
  BY <1>0, <1>3 DEF AddsJob, DoneIffDelivered
<1>4. ASSUME NEW w \in Workers, NEW s \in batch[w], Claims(w, s) PROVE DoneIffDelivered'
  BY <1>0, <1>4, ClaimedRow DEF Claims, DoneIffDelivered
<1>5. ASSUME NEW w \in Workers, Moves(w) PROVE DoneIffDelivered'
  <2>1. \A i \in Jobs : accepted[i] \in Nat /\ accepted'[i] \in Nat /\ accepted'[i] >= accepted[i]
    BY <1>0, <1>5 DEF Moves, TypeOK
  <2>2. \A i \in Jobs : msg[i].wa_message_id \in Nat
    BY <1>0 DEF TypeOK, MessageRow
  <2>3. job' = job /\ msg' = msg
    BY <1>5 DEF Moves
  <2>4. \A i \in Jobs : msg[i].wa_message_id <= accepted[i]
    BY <1>0 DEF DoneIffDelivered
  <2>5. \A i \in Jobs : msg[i].wa_message_id <= accepted'[i]
    BY <2>1, <2>2, <2>4
  <2>6. QED
    BY <1>0, <2>3, <2>5 DEF DoneIffDelivered
<1>6. ASSUME NEW w \in Workers, Succeeds(w) PROVE DoneIffDelivered'
  <2>1. held[w].id \in Jobs /\ held[w].wa_sent \in 1..accepted[held[w].id]
    BY <1>0, <1>6 DEF Succeeds, HeldInv
  <2>2. accepted[held[w].id] \in Nat
    BY <1>0, <2>1 DEF TypeOK
  <2>3. QED
    BY <1>0, <1>6, <2>1, <2>2 DEF Succeeds, DoneIffDelivered
<1>7. ASSUME NEW w \in Workers, Fails(w) PROVE DoneIffDelivered'
  <2>1. held[w].id \in Jobs /\ job[held[w].id].status = "processing"
    BY <1>7, OwnedRow DEF Fails, Owning
  <2>2. QED
    BY <1>0, <1>7, <2>1 DEF Fails, DoneIffDelivered
<1>8. ASSUME NEW w \in Workers, MarksMessage(w) \/ Drops(w) PROVE DoneIffDelivered'
  BY <1>0, <1>8 DEF MarksMessage, Drops, DoneIffDelivered
<1>9. QED
  BY <1>1, <1>2, <1>3, <1>4, <1>5, <1>6, <1>7, <1>8, <1>0, StepKinds DEF StepKind

LEMMA WaNeverFailedStep ==
  ASSUME IInv, [Next]_vars, Undisputed
  PROVE  WaNeverFailed'
<1> USE DEF OtherMsgsKept
<1>0. TypeOK /\ RowInv /\ HeldInv /\ DoneIffDelivered /\ WaNeverFailed
  BY DEF IInv
<1>1. CASE UNCHANGED msg
  BY <1>0, <1>1 DEF WaNeverFailed
<1>2. ASSUME NEW j \in Jobs, AddsMessage(j) PROVE WaNeverFailed'
  BY <1>0, <1>2 DEF AddsMessage, WaNeverFailed
<1>3. ASSUME NEW w \in Workers, Succeeds(w) PROVE WaNeverFailed'
  BY <1>0, <1>3 DEF Succeeds, WaNeverFailed
<1>4. ASSUME NEW w \in Workers, MarksMessage(w) PROVE WaNeverFailed'
  <2>1. held[w].id \in Jobs /\ (Terminal(w) => msg[held[w].id].wa_message_id = NoWa)
    BY <1>0, <1>4 DEF MarksMessage, HeldInv, DoneIffDelivered
  <2>2. QED
    BY <1>0, <1>4, <2>1 DEF MarksMessage, MessageStatusAfter, WaNeverFailed
<1>5. QED
  BY <1>0, <1>1, <1>2, <1>3, <1>4, StepKinds
     DEF StepKind, Waits, AddsJob, Claims, Moves, Fails, Drops

\* The one place where amounts matter: every accepted send stays paid for.
LEMMA SendsInvStep ==
  ASSUME IInv, [Next]_vars, Undisputed
  PROVE  SendsInv'
<1> USE DEF OthersKept, OtherJobsKept
<1>0. TypeOK /\ RowInv /\ HeldInv /\ SendsInv /\ ClaimExclusive /\ TypeOK'
  BY TypeStep DEF IInv
<1> SUFFICES ASSUME NEW j \in Jobs
             PROVE  accepted'[j] <= job'[j].attempts + unrecorded'[j] + Extra(j)'
  BY DEF SendsInv
<1>1. /\ accepted[j] <= job[j].attempts + unrecorded[j] + Extra(j)
      /\ accepted[j] \in Nat /\ accepted'[j] \in Nat
      /\ unrecorded[j] \in Nat /\ unrecorded'[j] \in Nat
      /\ job[j].attempts \in Nat /\ job'[j].attempts \in Nat
      /\ Extra(j) \in {0, 1} /\ Extra(j)' \in {0, 1}
  <2>1. Extra(j) \in {0, 1} /\ Extra(j)' \in {0, 1}
    BY DEF Extra
  <2>2. QED
    BY <1>0, <2>1 DEF SendsInv, TypeOK, JobRow
<1>2. ASSUME accepted'[j] = accepted[j], unrecorded'[j] = unrecorded[j],
             job'[j].attempts = job[j].attempts,
             job[j].status = "done" => job'[j].status = "done",
             Answered(j) => Answered(j)'
      PROVE  accepted'[j] <= job'[j].attempts + unrecorded'[j] + Extra(j)'
  <2>1. Extra(j) = 1 => Extra(j)' = 1
    BY <1>2 DEF Extra
  <2>2. QED
    BY <1>1, <1>2, <2>1
<1>3. ASSUME UNCHANGED <<job, pc, held, accepted, unrecorded>>
      PROVE  accepted'[j] <= job'[j].attempts + unrecorded'[j] + Extra(j)'
  <2>1. Answered(j) => Answered(j)'
    BY <1>3 DEF Answered
  <2>2. QED
    BY <1>2, <1>3, <2>1
<1>4. ASSUME Waits \/ (\E i \in Jobs : AddsMessage(i))
      PROVE  UNCHANGED <<job, pc, held, accepted, unrecorded>>
  BY <1>4 DEF Waits, AddsMessage
<1>5. ASSUME NEW i \in Jobs, AddsJob(i)
      PROVE  accepted'[j] <= job'[j].attempts + unrecorded'[j] + Extra(j)'
  <2>1. CASE j = i
    <3>1. accepted[j] = 0 /\ accepted' = accepted
      BY <1>0, <1>5, <2>1 DEF AddsJob, RowInv
    <3>2. QED
      BY <1>1, <3>1
  <2>2. CASE j # i
    <3>1. job'[j] = job[j] /\ UNCHANGED <<accepted, unrecorded, pc, held>>
      BY <1>5, <2>2 DEF AddsJob
    <3>2. Answered(j) => Answered(j)'
      BY <3>1 DEF Answered
    <3>3. QED
      BY <1>2, <3>1, <3>2
  <2>3. QED
    BY <2>1, <2>2
<1>6. ASSUME NEW w \in Workers, NEW s \in batch[w], Claims(w, s)
      PROVE  accepted'[j] <= job'[j].attempts + unrecorded'[j] + Extra(j)'
  <2>1. \A v \in Workers : pc[v] \in {"mark_success", "fail_job"} =>
          pc'[v] = pc[v] /\ held'[v] = held[v]
    BY <1>6 DEF Claims
  <2>2. Answered(j) => Answered(j)'
    BY <2>1 DEF Answered
  <2>3. job[j].status = "done" => job'[j].status = "done"
    BY <1>6, ClaimedRow DEF Claims
  <2>4. job'[j].attempts = job[j].attempts /\ accepted' = accepted /\ unrecorded' = unrecorded
    BY <1>6 DEF Claims
  <2>5. QED
    BY <1>2, <2>2, <2>3, <2>4
<1>7. ASSUME NEW w \in Workers, Moves(w)
      PROVE  accepted'[j] <= job'[j].attempts + unrecorded'[j] + Extra(j)'
  <2>1. \A v \in Workers : pc[v] \in {"mark_success", "fail_job"} =>
          pc'[v] = pc[v] /\ held'[v] = held[v]
    BY <1>7 DEF Moves
  <2>2. Answered(j) => Answered(j)'
    BY <2>1 DEF Answered
  <2>3. job' = job /\ unrecorded' = unrecorded
    BY <1>7 DEF Moves
  <2>4. CASE accepted'[j] = accepted[j]
    BY <1>2, <2>2, <2>3, <2>4
  <2>5. CASE accepted'[j] # accepted[j]
    <3>1. /\ j = held[w].id /\ accepted'[j] = accepted[j] + 1
          /\ pc'[w] \in {"mark_success", "fail_job"} /\ held'[w].id = j
      BY <1>7, <2>5 DEF Moves
    <3>2. Answered(j)'
      BY <3>1 DEF Answered
    <3>3. job[j].status = "processing" /\ pc[w] \in Owning
      BY <1>7, <3>1, OwnedRow DEF Moves
    <3>4. ~Answered(j)
      <4>1. \A v \in Workers \ {w} : pc[v] \in {"mark_success", "fail_job"} => held[v].id # j
        BY <1>0, <3>1, <3>3 DEF ClaimExclusive, Owns, Owning
      <4>2. pc[w] \notin {"mark_success", "fail_job"}
        BY <1>7 DEF Moves
      <4>3. QED
        BY <4>1, <4>2 DEF Answered
    <3>5. Extra(j) = 0 /\ Extra(j)' = 1
      BY <3>2, <3>3, <3>4 DEF Extra
    <3>6. QED
      BY <1>1, <2>3, <3>1, <3>5
  <2>6. QED
    BY <2>4, <2>5
<1>8. ASSUME NEW w \in Workers, Succeeds(w)
      PROVE  accepted'[j] <= job'[j].attempts + unrecorded'[j] + Extra(j)'
  <2>1. /\ accepted' = accepted /\ unrecorded' = unrecorded
        /\ job'[held[w].id].attempts = job[held[w].id].attempts
        /\ job'[held[w].id].status = "done"
        /\ \A i \in Jobs \ {held[w].id} : job'[i] = job[i]
        /\ \A v \in Workers \ {w} : pc'[v] = pc[v] /\ held'[v] = held[v]
    BY <1>8 DEF Succeeds
  <2>2. CASE j = held[w].id
    <3>1. Extra(j)' = 1
      BY <2>1, <2>2 DEF Extra
    <3>2. QED
      BY <1>1, <2>1, <2>2, <3>1
  <2>3. CASE j # held[w].id
    <3>1. Answered(j) => Answered(j)'
      BY <2>1, <2>3 DEF Answered
    <3>2. QED
      BY <1>2, <2>1, <2>3, <3>1
  <2>4. QED
    BY <2>2, <2>3
<1>9. ASSUME NEW w \in Workers, Fails(w)
      PROVE  accepted'[j] <= job'[j].attempts + unrecorded'[j] + Extra(j)'
  <2>1. accepted' = accepted /\ unrecorded' = unrecorded
    BY <1>9 DEF Fails
  <2>2. CASE j = held[w].id
    <3>1. job'[j].attempts = job[j].attempts + 1
      BY <1>0, <1>9, <2>2 DEF Fails, HeldInv, Owning
    <3>2. QED
      BY <1>1, <2>1, <3>1
  <2>3. CASE j # held[w].id
    <3>1. \A v \in Workers \ {w} : pc'[v] = pc[v] /\ held'[v] = held[v]
      BY <1>9 DEF Fails
    <3>2. Answered(j) => Answered(j)'
      BY <2>3, <3>1 DEF Answered
    <3>3. job'[j] = job[j]
      BY <1>9, <2>3 DEF Fails
    <3>4. QED
      BY <1>2, <2>1, <3>2, <3>3
  <2>4. QED
    BY <2>2, <2>3
<1>10. ASSUME NEW w \in Workers, MarksMessage(w)
       PROVE  accepted'[j] <= job'[j].attempts + unrecorded'[j] + Extra(j)'
  <2>1. \A v \in Workers : pc[v] \in {"mark_success", "fail_job"} =>
          pc'[v] = pc[v] /\ held'[v] = held[v]
    BY <1>10 DEF MarksMessage
  <2>2. job' = job /\ accepted' = accepted /\ unrecorded' = unrecorded
    BY <1>10 DEF MarksMessage
  <2>3. Answered(j) => Answered(j)'
    BY <2>1 DEF Answered
  <2>4. QED
    BY <1>2, <2>2, <2>3
<1>11. ASSUME NEW w \in Workers, Drops(w)
       PROVE  accepted'[j] <= job'[j].attempts + unrecorded'[j] + Extra(j)'
  <2>1. accepted' = accepted /\ job' = job
    BY <1>11 DEF Drops
  <2>2. CASE pc[w] \in Owning /\ held[w].id = j
    <3>1. unrecorded'[j] = unrecorded[j] + 1
      BY <1>11, <2>2 DEF Drops
    <3>2. QED
      BY <1>1, <2>1, <3>1
  <2>3. CASE ~(pc[w] \in Owning /\ held[w].id = j)
    <3>1. unrecorded'[j] = unrecorded[j]
      BY <1>11, <2>3 DEF Drops
    <3>2. \A v \in Workers : pc[v] \in {"mark_success", "fail_job"} /\ held[v].id = j =>
            pc'[v] = pc[v] /\ held'[v] = held[v]
      BY <1>11, <2>3 DEF Drops, Owning
    <3>3. Answered(j) => Answered(j)'
      BY <3>2 DEF Answered
    <3>4. QED
      BY <1>2, <2>1, <3>1, <3>3
  <2>4. QED
    BY <2>2, <2>3
<1>12. QED
  BY <1>3, <1>4, <1>5, <1>6, <1>7, <1>8, <1>9, <1>10, <1>11, <1>0, StepKinds
     DEF StepKind

-----------------------------------------------------------------------------
(***************************************************************************)
(* The results.                                                            *)
(***************************************************************************)
LEMMA InitIInv == Init => IInv
<1> SUFFICES ASSUME Init PROVE IInv
  OBVIOUS
<1> USE DEF Init
<1>1. TypeOK
  BY DEF TypeOK, JobRow, MessageRow, JobStatus, MessageStatus, Claimed, Snapshot, Location,
         Owning, NoClaim, NoJob, NoWa
<1>2. ClaimExclusive /\ ClockInv /\ SnapshotInv
  BY DEF ClaimExclusive, ClockInv, SnapshotInv, Owning
<1>3. HeldInv
  BY DEF HeldInv, Owning, NoClaim
<1>4. RowInv
  BY DEF RowInv
<1>5. DoneIffDelivered /\ WaNeverFailed
  BY DEF DoneIffDelivered, WaNeverFailed, NoWa
<1>6. SendsInv
  BY DEF SendsInv, Extra, Answered
<1>7. QED
  BY <1>1, <1>2, <1>3, <1>4, <1>5, <1>6 DEF IInv

LEMMA IInvStep == Undisputed /\ IInv /\ [Next]_vars => IInv'
<1> SUFFICES ASSUME Undisputed, IInv, [Next]_vars PROVE IInv'
  OBVIOUS
<1>1. TypeOK' /\ SnapshotInv'
  BY TypeStep, SnapshotStep DEF IInv
<1>2. QED
  BY <1>1, ClockInvStep, ClaimExclusiveStep, HeldInvStep, RowInvStep, DoneIffDeliveredStep,
     WaNeverFailedStep, SendsInvStep DEF IInv

\* When no worker outlives its claim, or there is only one worker, the
\* invariant holds in every reachable state.
THEOREM Inductive == Undisputed => (Spec => []IInv)
<1>1. SUFFICES ASSUME Undisputed PROVE Spec => []IInv
  OBVIOUS
<1>2. IInv /\ [Next]_vars => IInv'
  BY <1>1, IInvStep
<1>3. QED
  BY InitIInv, <1>2, PTL DEF Spec

\* mark_processing is a lock.
THEOREM ClaimIsExclusive == Undisputed => (Spec => []ClaimExclusive)
<1>1. IInv => ClaimExclusive
  BY DEF IInv
<1>2. QED
  BY <1>1, Inductive, PTL

\* No message is shown as failed under the id of an accepted send.
THEOREM NeverFailedWithWa == Undisputed => (Spec => []WaNeverFailed)
<1>1. IInv => WaNeverFailed
  BY DEF IInv
<1>2. QED
  BY <1>1, Inductive, PTL

\* A job is done exactly when its message carries an id Meta gave out for it.
THEOREM DoneExactlyWhenDelivered == Undisputed => (Spec => []DoneIffDelivered)
<1>1. IInv => DoneIffDelivered
  BY DEF IInv
<1>2. QED
  BY <1>1, Inductive, PTL

\* Attempts bound the copies a recipient gets.  At the limit the job has
\* failed, so that neither a success nor an answer can come on top.
THEOREM SendsAreBounded == Undisputed => (Spec => []SendsBounded)
<1>1. ASSUME IInv, NEW j \in Jobs PROVE accepted[j] <= MaxAttempts + unrecorded[j]
  <2>1. /\ accepted[j] \in Nat /\ unrecorded[j] \in Nat /\ job[j].attempts \in Nat
        /\ job[j].attempts <= MaxAttempts
        /\ accepted[j] <= job[j].attempts + unrecorded[j] + Extra(j)
    BY <1>1 DEF IInv, TypeOK, JobRow, RowInv, SendsInv
  <2>2. Extra(j) \in {0, 1}
    BY DEF Extra
  <2>3. CASE job[j].attempts = MaxAttempts
    <3>1. job[j].status = "failed"
      BY <1>1, <2>3 DEF IInv, RowInv
    <3>2. ~Answered(j)
      BY <1>1, <3>1, OwnedRow DEF Answered, Owning
    <3>3. Extra(j) = 0
      BY <3>1, <3>2 DEF Extra
    <3>4. QED
      BY <2>1, <3>3
  <2>4. CASE job[j].attempts # MaxAttempts
    BY <2>1, <2>2, <2>4
  <2>5. QED
    BY <2>3, <2>4
<1>2. IInv => SendsBounded
  BY <1>1 DEF SendsBounded
<1>3. QED
  BY <1>2, Inductive, PTL

\* A job is given up at the MaxAttempts-th failure, and only then.
THEOREM GivenUpExactlyAtLimit == Undisputed => (Spec => []GivenUpAtLimit)
<1>1. IInv => GivenUpAtLimit
  BY DEF IInv, RowInv, GivenUpAtLimit
<1>2. QED
  BY <1>1, Inductive, PTL

\* No step writes the row of a settled job.
THEOREM SettledStaysSettled == Undisputed => (Spec => SettledIsFinal)
<1>1. SUFFICES ASSUME Undisputed PROVE Spec => SettledIsFinal
  OBVIOUS
<1>2. IInv /\ [Next]_vars => \A j \in Jobs : job[j].status \in Settled => job'[j] = job[j]
  BY <1>1, RowKept
<1>3. Spec => []IInv
  BY <1>1, Inductive
<1>4. QED
  BY <1>2, <1>3, PTL DEF Spec, SettledIsFinal

\* Attempts count the failures written, one for each claim that ends in one.
THEOREM AttemptsAreCounted == Undisputed => (Spec => AttemptsCounted)
<1>1. SUFFICES ASSUME Undisputed PROVE Spec => AttemptsCounted
  OBVIOUS
<1> DEFINE Counted(j) ==
      job'[j].attempts = job[j].attempts +
        (IF job[j].status = "processing" /\ job'[j].status \in {"pending", "failed"}
         THEN 1 ELSE 0)
<1> USE DEF OtherJobsKept
<1>2. ASSUME IInv, [Next]_vars, NEW j \in Jobs, job[j].status # "none" PROVE Counted(j)
  <2>1. job[j].attempts \in Nat
    BY <1>2 DEF IInv, TypeOK, JobRow
  <2>2. ASSUME job'[j] = job[j] PROVE Counted(j)
    BY <2>1, <2>2
  <2>3. ASSUME NEW i \in Jobs, AddsJob(i) PROVE job'[j] = job[j]
    BY <1>2, <2>3 DEF AddsJob
  <2>4. ASSUME NEW w \in Workers, NEW s \in batch[w], Claims(w, s) PROVE Counted(j)
    <3>1. CASE j = s.id
      BY <2>1, <2>4, <3>1 DEF Claims
    <3>2. CASE j # s.id
      BY <2>2, <2>4, <3>2 DEF Claims
    <3>3. QED
      BY <3>1, <3>2
  <2>5. ASSUME NEW w \in Workers, Succeeds(w) PROVE Counted(j)
    <3>1. CASE j = held[w].id
      BY <2>1, <2>5, <3>1 DEF Succeeds
    <3>2. CASE j # held[w].id
      BY <2>2, <2>5, <3>2 DEF Succeeds
    <3>3. QED
      BY <3>1, <3>2
  <2>6. ASSUME NEW w \in Workers, Fails(w) PROVE Counted(j)
    <3>1. CASE j = held[w].id
      <4>1. job[j].status = "processing" /\ held[w].attempts = job[j].attempts
        BY <1>2, <2>6, <3>1, OwnedRow DEF Fails, Owning, IInv, HeldInv
      <4>2. job'[j].status \in {"pending", "failed"} /\ job'[j].attempts = job[j].attempts + 1
        BY <2>6, <3>1, <4>1 DEF Fails
      <4>3. QED
        BY <4>1, <4>2
    <3>2. CASE j # held[w].id
      BY <2>2, <2>6, <3>2 DEF Fails
    <3>3. QED
      BY <3>1, <3>2
  <2>7. QED
    BY <1>2, <2>2, <2>3, <2>4, <2>5, <2>6, StepKinds
       DEF IInv, StepKind, Waits, AddsMessage, Moves, MarksMessage, Drops
<1>3. IInv /\ [Next]_vars =>
        \A j \in Jobs : job[j].status # "none" =>
          job'[j].attempts = job[j].attempts +
            (IF job[j].status = "processing" /\ job'[j].status \in {"pending", "failed"}
             THEN 1 ELSE 0)
  BY <1>2
<1>4. Spec => []IInv
  BY <1>1, Inductive
<1>5. QED
  BY <1>3, <1>4, PTL DEF Spec, AttemptsCounted

-----------------------------------------------------------------------------
(***************************************************************************)
(* The outbox implements Delivery.                                         *)
(***************************************************************************)
\* Every step hands over, transmits, confirms or fails one message, or is
\* not visible at all.
LEMMA DeliveryStep ==
  ASSUME IInv, [Next]_vars, Undisputed
  PROVE  D!DNext \/ UNCHANGED D!dvars
<1> USE DEF OtherJobsKept
<1>0. TypeOK /\ TypeOK' /\ HeldInv /\ RowInv
  BY TypeStep DEF IInv
<1>1. ASSUME \A j \in Jobs : /\ PhaseOf(job'[j].status) = PhaseOf(job[j].status)
                             /\ job'[j].attempts = job[j].attempts,
             accepted' = accepted
      PROVE  UNCHANGED D!dvars
  BY <1>1 DEF D!dvars
<1>2. ASSUME NEW j \in Jobs, AddsJob(j) PROVE D!HandOver(j)
  BY <1>0, <1>2 DEF AddsJob, D!HandOver, PhaseOf, RowInv
<1>3. ASSUME NEW w \in Workers, NEW s \in batch[w], Claims(w, s) PROVE UNCHANGED D!dvars
  BY <1>1, <1>3, ClaimedRow DEF Claims, PhaseOf
<1>4. ASSUME NEW w \in Workers, Moves(w) PROVE D!Transmit(held[w].id) \/ UNCHANGED D!dvars
  <2>1. job' = job /\ held[w].id \in Jobs /\ job[held[w].id].status = "processing"
    BY <1>4, OwnedRow DEF Moves
  <2>2. CASE accepted' = accepted
    BY <1>1, <2>1, <2>2
  <2>3. CASE accepted' # accepted
    <3>1. accepted' = [accepted EXCEPT ![held[w].id] = @ + 1]
      BY <1>0, <1>4, <2>1, <2>3 DEF Moves, TypeOK
    <3>2. QED
      BY <2>1, <3>1 DEF D!Transmit, PhaseOf
  <2>4. QED
    BY <2>2, <2>3
<1>5. ASSUME NEW w \in Workers, Succeeds(w) PROVE D!Confirm(held[w].id)
  <2>1. /\ held[w].id \in Jobs /\ job[held[w].id].status = "processing"
        /\ held[w].wa_sent \in 1..accepted[held[w].id]
    BY <1>0, <1>5, OwnedRow DEF Succeeds, Owning, HeldInv
  <2>2. accepted[held[w].id] > 0
    <3>1. accepted[held[w].id] \in Nat
      BY <1>0, <2>1 DEF TypeOK
    <3>2. QED
      BY <2>1, <3>1
  <2>3. QED
    BY <1>5, <2>1, <2>2 DEF Succeeds, D!Confirm, PhaseOf
<1>6. ASSUME NEW w \in Workers, Fails(w), NEW m \in Jobs, m = held[w].id PROVE D!Fail(m)
  <2>1. job[m].status = "processing" /\ held[w].attempts = job[m].attempts
    BY <1>0, <1>6, OwnedRow DEF Fails, Owning, HeldInv
  <2>2. job[m].attempts \in Nat /\ job[m].attempts < MaxAttempts
    <3>1. job[m].attempts \in Nat
      BY <1>0, <2>1 DEF TypeOK, JobRow
    <3>2. job[m].attempts <= MaxAttempts /\ job[m].attempts # MaxAttempts
      BY <1>0, <2>1 DEF RowInv
    <3>3. QED
      BY <3>1, <3>2
  <2>3. Terminal(w) <=> job[m].attempts + 1 = MaxAttempts
    BY <2>1, <2>2 DEF Terminal, Attempts
  <2>4. /\ job'[m].attempts = job[m].attempts + 1
        /\ PhaseOf(job'[m].status) =
             IF job[m].attempts + 1 = MaxAttempts THEN "failed" ELSE "waiting"
        /\ \A i \in Jobs \ {m} : job'[i] = job[i]
        /\ accepted' = accepted
    BY <1>6, <2>1, <2>3 DEF Fails, PhaseOf
  <2>5. PhaseOf(job[m].status) = "waiting"
    BY <2>1 DEF PhaseOf
  <2>6. QED
    BY <2>1, <2>4, <2>5 DEF D!Fail
<1>7. ASSUME Waits \/ (\E j \in Jobs : AddsMessage(j))
             \/ (\E w \in Workers : MarksMessage(w) \/ Drops(w))
      PROVE  UNCHANGED D!dvars
  BY <1>1, <1>7 DEF Waits, AddsMessage, MarksMessage, Drops
<1>8. ASSUME NEW w \in Workers, Moves(w) \/ Succeeds(w) \/ Fails(w) PROVE held[w].id \in Jobs
  BY <1>8 DEF Moves, Succeeds, Fails
<1>9. ASSUME NEW j \in Jobs, AddsJob(j) PROVE D!DNext
  <2>1. D!HandOver(j)
    BY <1>2, <1>9
  <2>2. QED
    BY <2>1 DEF D!DNext
<1>10. ASSUME NEW w \in Workers, Moves(w) PROVE D!DNext \/ UNCHANGED D!dvars
  <2>1. D!Transmit(held[w].id) \/ UNCHANGED D!dvars
    BY <1>4, <1>10
  <2>2. held[w].id \in Jobs
    BY <1>8, <1>10
  <2>3. QED
    BY <2>1, <2>2 DEF D!DNext
<1>11. ASSUME NEW w \in Workers, Succeeds(w) \/ Fails(w) PROVE D!DNext
  <2>1. held[w].id \in Jobs
    BY <1>8, <1>11
  <2>2. CASE Succeeds(w)
    <3>1. D!Confirm(held[w].id)
      BY <1>5, <2>2
    <3>2. QED
      BY <2>1, <3>1 DEF D!DNext
  <2>3. CASE Fails(w)
    <3>1. PICK m \in Jobs : m = held[w].id
      BY <2>1
    <3>2. D!Fail(m)
      BY <1>6, <2>3, <3>1
    <3>3. QED
      BY <3>2 DEF D!DNext
  <2>4. QED
    BY <1>11, <2>2, <2>3
<1>12. StepKind
  BY <1>0, StepKinds
<1>13. QED
  BY <1>3, <1>7, <1>9, <1>10, <1>11, <1>12 DEF StepKind

\* The workers keep the outbox's promise.
THEOREM OutboxImplementsDelivery == Undisputed => (Spec => ImplementsDelivery)
<1>1. SUFFICES ASSUME Undisputed PROVE Spec => ImplementsDelivery
  OBVIOUS
<1>2. Init => D!DInit
  BY DEF Init, D!DInit, PhaseOf
<1>3. IInv /\ [Next]_vars => [D!DNext]_(D!dvars)
  BY <1>1, DeliveryStep
<1>4. Spec => []IInv
  BY <1>1, Inductive
<1>5. QED
  BY <1>2, <1>3, <1>4, PTL DEF Spec, ImplementsDelivery, D!DSpec

-----------------------------------------------------------------------------
(***************************************************************************)
(* A single worker, which is what docker-compose.yml deploys.  Only then   *)
(* is nobody between the two statements of mark_failure while another      *)
(* attempt goes on.                                                        *)
(***************************************************************************)
LEMMA OneWorkerUndisputed == OneWorker => Undisputed
BY DEF Undisputed

LEMMA FailMessageInvStep ==
  ASSUME IInv, FailMessageInv, [Next]_vars, OneWorker
  PROVE  FailMessageInv'
<1>0. TypeOK /\ RowInv /\ FailMessageInv /\ \A v, w \in Workers : v = w
  BY DEF IInv, OneWorker
<1> SUFFICES ASSUME NEW v \in Workers, pc'[v] = "fail_message"
             PROVE  job'[held'[v].id].status = IF Terminal(v)' THEN "failed" ELSE "pending"
  BY DEF FailMessageInv
<1>1. ASSUME UNCHANGED <<pc, held>>, held[v].id \in Jobs => job'[held[v].id] = job[held[v].id]
      PROVE  job'[held'[v].id].status = IF Terminal(v)' THEN "failed" ELSE "pending"
  <2>1. pc[v] = "fail_message" /\ held[v].id \in Jobs /\ held'[v] = held[v]
    BY <1>0, <1>1 DEF TypeOK
  <2>2. Terminal(v)' <=> Terminal(v)
    BY <2>1 DEF Terminal, Attempts
  <2>3. QED
    BY <1>0, <1>1, <2>1, <2>2 DEF FailMessageInv
<1>2. CASE Waits \/ \E j \in Jobs : AddsMessage(j)
  BY <1>1, <1>2 DEF Waits, AddsMessage
<1>3. ASSUME NEW j \in Jobs, AddsJob(j)
      PROVE  job'[held'[v].id].status = IF Terminal(v)' THEN "failed" ELSE "pending"
  <2>1. UNCHANGED <<pc, held>> /\ \A i \in Jobs \ {j} : job'[i] = job[i]
    BY <1>3 DEF AddsJob, OtherJobsKept
  <2>2. held[v].id # j
    BY <1>0, <1>3, <2>1 DEF AddsJob, FailMessageInv
  <2>3. QED
    BY <1>1, <2>1, <2>2
<1>4. ASSUME NEW w \in Workers, Fails(w)
      PROVE  job'[held'[v].id].status = IF Terminal(v)' THEN "failed" ELSE "pending"
  <2>1. v = w
    BY <1>0
  <2>2. held'[w] = held[w] /\ job'[held[w].id].status = IF Terminal(w) THEN "failed" ELSE "pending"
    BY <1>4, <2>1 DEF Fails
  <2>3. Terminal(w)' <=> Terminal(w)
    BY <2>2 DEF Terminal, Attempts
  <2>4. QED
    BY <2>1, <2>2, <2>3
<1>5. ASSUME NEW w \in Workers,
             (\E s \in batch[w] : Claims(w, s)) \/ Moves(w) \/ Succeeds(w)
               \/ MarksMessage(w) \/ Drops(w)
      PROVE  FALSE
  <2>1. v = w
    BY <1>0
  <2>2. pc'[w] # "fail_message"
    BY <1>5 DEF Claims, Moves, Succeeds, MarksMessage, Drops, Owning
  <2>3. QED
    BY <2>1, <2>2
<1>6. StepKind
  BY <1>0, StepKinds
<1>7. QED
  BY <1>2, <1>3, <1>4, <1>5, <1>6 DEF StepKind

LEMMA DoneMeansSentStep ==
  ASSUME IInv1, [Next]_vars, OneWorker
  PROVE  DoneMeansSent'
<1> USE DEF OtherJobsKept, OtherMsgsKept
<1>0. TypeOK /\ RowInv /\ FailMessageInv /\ DoneMeansSent /\ IInv
  BY DEF IInv1, IInv
<1>1. CASE Waits \/ \E w \in Workers : Moves(w) \/ Drops(w)
  BY <1>0, <1>1 DEF Waits, Moves, Drops, DoneMeansSent
<1>2. ASSUME NEW j \in Jobs, AddsMessage(j) \/ AddsJob(j) PROVE DoneMeansSent'
  BY <1>0, <1>2 DEF AddsMessage, AddsJob, DoneMeansSent, RowInv
<1>3. ASSUME NEW w \in Workers, \E s \in batch[w] : Claims(w, s) PROVE DoneMeansSent'
  BY <1>0, <1>3 DEF Claims, DoneMeansSent
<1>4. ASSUME NEW w \in Workers, Succeeds(w) PROVE DoneMeansSent'
  BY <1>0, <1>4 DEF Succeeds, DoneMeansSent, SentStatus
<1>5. ASSUME NEW w \in Workers, Fails(w) PROVE DoneMeansSent'
  BY <1>0, <1>5 DEF Fails, DoneMeansSent
<1>6. ASSUME NEW w \in Workers, MarksMessage(w) PROVE DoneMeansSent'
  <2>1. held[w].id \in Jobs /\ job[held[w].id].status # "done"
    BY <1>0, <1>6 DEF MarksMessage, FailMessageInv
  <2>2. QED
    BY <1>0, <1>6, <2>1 DEF MarksMessage, DoneMeansSent
<1>7. StepKind
  BY <1>0, StepKinds
<1>8. QED
  BY <1>1, <1>2, <1>3, <1>4, <1>5, <1>6, <1>7 DEF StepKind

LEMMA FailureShownStep ==
  ASSUME IInv, FailMessageInv, FailureShown, [Next]_vars, OneWorker
  PROVE  FailureShown'
<1> USE DEF OtherJobsKept, OtherMsgsKept
<1>0. /\ TypeOK /\ RowInv /\ HeldInv /\ FailMessageInv /\ FailureShown /\ IInv
      /\ \A v, w \in Workers : v = w
  BY DEF IInv, OneWorker
<1> SUFFICES ASSUME NEW j \in Jobs, job'[j].status = "failed"
             PROVE  \/ msg'[j].status = "failed"
                    \/ j \in torn'
                    \/ \E w \in Workers : pc'[w] = "fail_message" /\ held'[w].id = j
  BY DEF FailureShown
<1>1. ASSUME job[j].status = "failed", msg'[j] = msg[j], torn \subseteq torn',
             \A w \in Workers : pc[w] = "fail_message" /\ held[w].id = j =>
               pc'[w] = pc[w] /\ held'[w] = held[w]
      PROVE  \/ msg'[j].status = "failed"
             \/ j \in torn'
             \/ \E w \in Workers : pc'[w] = "fail_message" /\ held'[w].id = j
  <2>1. \/ msg[j].status = "failed"
        \/ j \in torn
        \/ \E w \in Workers : pc[w] = "fail_message" /\ held[w].id = j
    BY <1>0, <1>1 DEF FailureShown
  <2>2. CASE \E w \in Workers : pc[w] = "fail_message" /\ held[w].id = j
    <3>1. PICK w \in Workers : pc[w] = "fail_message" /\ held[w].id = j
      BY <2>2
    <3>2. pc'[w] = pc[w] /\ held'[w] = held[w]
      BY <1>1, <3>1
    <3>3. QED
      BY <3>1, <3>2
  <2>3. CASE msg[j].status = "failed" \/ j \in torn
    BY <1>1, <2>3
  <2>4. QED
    BY <2>1, <2>2, <2>3
<1>2. ASSUME NEW i \in Jobs, AddsMessage(i) PROVE job[j].status = "failed" /\ msg'[j] = msg[j]
  BY <1>0, <1>2 DEF AddsMessage, RowInv
<1>3. ASSUME NEW i \in Jobs, AddsJob(i) PROVE job[j].status = "failed"
  BY <1>0, <1>3 DEF AddsJob
<1>4. ASSUME NEW w \in Workers, \E s \in batch[w] : Claims(w, s) PROVE job[j].status = "failed"
  BY <1>0, <1>4 DEF Claims
<1>5. ASSUME NEW w \in Workers, Succeeds(w)
      PROVE  job[j].status = "failed" /\ msg'[j] = msg[j]
  BY <1>0, <1>5 DEF Succeeds
<1>6. ASSUME NEW w \in Workers, Fails(w)
      PROVE  \/ msg'[j].status = "failed"
             \/ j \in torn'
             \/ \E v \in Workers : pc'[v] = "fail_message" /\ held'[v].id = j
  <2>1. CASE j = held[w].id
    <3>1. Terminal(w) /\ held[w].wa_read = NoWa
      BY <1>0, <1>6, <2>1 DEF Fails, HeldInv
    <3>2. QED
      BY <1>6, <2>1, <3>1 DEF Fails
  <2>2. CASE j # held[w].id
    <3>1. job[j].status = "failed" /\ msg' = msg /\ torn \subseteq torn'
      BY <1>6, <2>2 DEF Fails
    <3>2. \A v \in Workers : pc[v] # "fail_message"
      BY <1>0, <1>6 DEF Fails
    <3>3. QED
      BY <1>1, <3>1, <3>2
  <2>3. QED
    BY <2>1, <2>2
<1>7. ASSUME NEW w \in Workers, MarksMessage(w)
      PROVE  \/ msg'[j].status = "failed"
             \/ j \in torn'
             \/ \E v \in Workers : pc'[v] = "fail_message" /\ held'[v].id = j
  <2>1. job' = job /\ torn' = torn /\ pc[w] = "fail_message"
    BY <1>7 DEF MarksMessage
  <2>2. CASE j = held[w].id
    <3>1. Terminal(w)
      BY <1>0, <2>1, <2>2 DEF FailMessageInv
    <3>2. QED
      BY <1>7, <2>2, <3>1 DEF MarksMessage, MessageStatusAfter
  <2>3. CASE j # held[w].id
    <3>1. msg'[j] = msg[j] /\ \A v \in Workers : held[v].id # j
      BY <1>0, <1>7, <2>3 DEF MarksMessage
    <3>2. QED
      BY <1>1, <2>1, <3>1
  <2>4. QED
    BY <2>2, <2>3
<1>8. ASSUME NEW w \in Workers, Drops(w)
      PROVE  \/ msg'[j].status = "failed"
             \/ j \in torn'
             \/ \E v \in Workers : pc'[v] = "fail_message" /\ held'[v].id = j
  <2>1. job' = job /\ msg' = msg /\ torn \subseteq torn'
    BY <1>8 DEF Drops
  <2>2. CASE pc[w] = "fail_message" /\ held[w].id = j
    <3>1. Terminal(w)
      BY <1>0, <2>1, <2>2 DEF FailMessageInv
    <3>2. QED
      BY <1>8, <2>2, <3>1 DEF Drops
  <2>3. CASE ~(pc[w] = "fail_message" /\ held[w].id = j)
    BY <1>0, <1>1, <2>1, <2>3
  <2>4. QED
    BY <2>2, <2>3
<1>9. StepKind
  BY <1>0, StepKinds
<1>10. QED
  <2>1. CASE Waits
    BY <1>1, <2>1 DEF Waits
  <2>2. CASE \E i \in Jobs : AddsMessage(i) \/ AddsJob(i)
    BY <1>1, <1>2, <1>3, <2>2 DEF AddsMessage, AddsJob
  <2>3. CASE \E w \in Workers : \E s \in batch[w] : Claims(w, s)
    BY <1>0, <1>1, <1>4, <2>3 DEF Claims
  <2>4. CASE \E w \in Workers : Moves(w)
    BY <1>0, <1>1, <2>4 DEF Moves, Owning
  <2>5. CASE \E w \in Workers : Succeeds(w)
    BY <1>0, <1>1, <1>5, <2>5 DEF Succeeds
  <2>6. QED
    BY <1>6, <1>7, <1>8, <1>9, <2>1, <2>2, <2>3, <2>4, <2>5 DEF StepKind

\* With one worker the stronger invariant holds, however slow that worker is.
THEOREM InductiveOneWorker == OneWorker => (Spec => []IInv1)
<1>1. SUFFICES ASSUME OneWorker PROVE Spec => []IInv1
  OBVIOUS
<1>2. Init => IInv1
  BY InitIInv DEF Init, IInv1, FailMessageInv, DoneMeansSent, FailureShown
<1>3. IInv1 /\ [Next]_vars => IInv1'
  <2> SUFFICES ASSUME IInv1, [Next]_vars PROVE IInv1'
    OBVIOUS
  <2>1. IInv'
    BY <1>1, OneWorkerUndisputed, IInvStep DEF IInv1
  <2>2. QED
    BY <1>1, <2>1, FailMessageInvStep, DoneMeansSentStep, FailureShownStep DEF IInv1
<1>4. QED
  BY <1>2, <1>3, PTL DEF Spec

\* With one worker a delivered message is shown as sent.
THEOREM DoneIsShownAsSent == OneWorker => (Spec => []DoneMeansSent)
<1>1. IInv1 => DoneMeansSent
  BY DEF IInv1
<1>2. QED
  BY <1>1, InductiveOneWorker, PTL

\* With one worker a message given up is shown as failed, faults apart.
THEOREM FailureIsShown == OneWorker => (Spec => []FailureShown)
<1>1. IInv1 => FailureShown
  BY DEF IInv1
<1>2. QED
  BY <1>1, InductiveOneWorker, PTL

-----------------------------------------------------------------------------
(***************************************************************************)
(* A single worker again: nobody else moves the rows of its batch, so that *)
(* what a poll has seen is still so when the row is claimed.               *)
(***************************************************************************)
BatchFresh ==
  \A w \in Workers : \A s \in batch[w] :
    /\ Due(s.id) \/ Stale(s.id)
    /\ \A r \in batch[w] : r.id = s.id => r = s
    /\ pc[w] # "ready" => held[w].id # s.id

\* A row that was due or stale stays so while it is not written.
LEMMA ReadyKept ==
  ASSUME TypeOK, [Next]_vars, NEW j \in Jobs, Due(j) \/ Stale(j), job'[j] = job[j]
  PROVE  (Due(j) \/ Stale(j))'
<1>1. now \in Nat /\ now' \in Nat /\ now' >= now
  BY ClockStep DEF TypeOK
<1>2. job[j].next_attempt_at \in Nat /\ job[j].updated_at \in Nat
  BY DEF TypeOK, JobRow
<1>3. QED
  BY <1>1, <1>2 DEF Due, Stale

LEMMA BatchFreshStep ==
  ASSUME TypeOK, BatchFresh, [Next]_vars, OneWorker
  PROVE  BatchFresh'
<1> SUFFICES ASSUME NEW v \in Workers, NEW s, s \in batch'[v]
             PROVE  /\ (Due(s.id) \/ Stale(s.id))'
                    /\ \A r \in batch'[v] : r.id = s.id => r = s
                    /\ pc'[v] # "ready" => held'[v].id # s.id
  BY DEF BatchFresh
<1>1. \A w \in Workers : w = v
  BY DEF OneWorker
<1>2. CASE /\ UNCHANGED <<now, job, pc, held>> /\ pc[v] = "ready"
           /\ batch'[v] \subseteq {SnapshotOf(j) : j \in Ready}
  <2>1. PICK j \in Ready : s = SnapshotOf(j)
    BY <1>2
  <2>2. s.id = j
    BY <2>1 DEF SnapshotOf
  <2>3. \A r \in batch'[v] : r = SnapshotOf(r.id)
    BY <1>2 DEF SnapshotOf
  <2>4. (Due(j) \/ Stale(j))'
    BY <1>2, <2>1 DEF Ready, Due, Stale
  <2>5. QED
    BY <1>2, <2>1, <2>2, <2>3, <2>4
<1>3. CASE batch'[v] \subseteq batch[v]
  <2>1. /\ s \in batch[v] /\ s.id \in Jobs
        /\ (Due(s.id) \/ Stale(s.id))
        /\ \A r \in batch[v] : r.id = s.id => r = s
        /\ pc[v] # "ready" => held[v].id # s.id
    BY <1>3 DEF BatchFresh, TypeOK, Snapshot
  <2>2. SUFFICES /\ job'[s.id] = job[s.id]
                 /\ pc'[v] # "ready" => held'[v].id # s.id
    BY <1>3, <2>1, ReadyKept
  <2>3. ASSUME NEW j \in Jobs, AddsJob(j) PROVE job'[s.id] = job[s.id]
    BY <2>1, <2>3 DEF AddsJob, OtherJobsKept, Due, Stale
  <2>4. ASSUME NEW w \in Workers, NEW r \in batch[w], Claims(w, r)
        PROVE  job'[s.id] = job[s.id] /\ held'[v].id # s.id
    <3>1. w = v
      BY <1>1
    <3>2. s # r
      BY <2>4, <3>1 DEF Claims
    <3>3. s.id # r.id
      BY <2>1, <3>1, <3>2
    <3>4. QED
      BY <2>1, <2>4, <3>1, <3>3 DEF Claims, OtherJobsKept
  <2>5. ASSUME NEW w \in Workers,
               Moves(w) \/ Succeeds(w) \/ Fails(w) \/ MarksMessage(w) \/ Drops(w)
        PROVE  job'[s.id] = job[s.id] /\ (pc'[v] # "ready" => held'[v].id # s.id)
    <3>1. w = v
      BY <1>1
    <3>2. QED
      BY <2>1, <2>5, <3>1 DEF Moves, Succeeds, Fails, MarksMessage, Drops, OtherJobsKept, Owning
  <2>6. QED
    BY <2>1, <2>3, <2>4, <2>5, StepKinds DEF StepKind, Waits, AddsMessage, AddsJob
<1>4. QED
  BY <1>2, <1>3, BatchKinds

\* So a claim takes a row that is due or stale.
LEMMA ClaimStep ==
  ASSUME TypeOK, BatchFresh, [Next]_vars, NEW j \in Jobs,
         job'[j].status = "processing", job'[j] # job[j]
  PROVE  Due(j) \/ Stale(j)
<1>1. ASSUME NEW w \in Workers, NEW s \in batch[w], Claims(w, s) PROVE Due(j) \/ Stale(j)
  BY <1>1 DEF Claims, OtherJobsKept, BatchFresh
<1>2. ASSUME NEW w \in Workers,
             Moves(w) \/ Succeeds(w) \/ Fails(w) \/ MarksMessage(w) \/ Drops(w)
      PROVE  FALSE
  BY <1>2 DEF Moves, Succeeds, Fails, MarksMessage, Drops, OtherJobsKept
<1>3. ASSUME NEW i \in Jobs, AddsMessage(i) \/ AddsJob(i) PROVE FALSE
  BY <1>3 DEF AddsMessage, AddsJob, OtherJobsKept
<1>4. QED
  BY <1>1, <1>2, <1>3, StepKinds DEF StepKind, Waits

=============================================================================
