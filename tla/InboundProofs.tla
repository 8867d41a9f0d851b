---------------------------- MODULE InboundProofs ----------------------------
(***************************************************************************)
(* Proofs about inbound messages: for every set of phones, messages and    *)
(* payloads, and any number of concurrent tasks.                           *)
(***************************************************************************)
EXTENDS Inbound, TLAPS

USE FromAssumption, KindsAssumption, PayloadsAssumption, NullsAssumption, InboundBounds

-----------------------------------------------------------------------------
(***************************************************************************)
(* Type correctness.                                                       *)
(***************************************************************************)
\* The part of TypeOK about tasks, which every step but Rename touches.
HandlerOK ==
  /\ handler \in [Handlers -> Task]
  /\ \A h \in Handlers : handler[h].at \notin NoPhoneYet => handler[h].phone \in Phones

LEMMA IdleType == Idle \in Task
BY DEF Idle, Task, Points, AfterRow

\* A task that moves on keeps its type if it has the phone that the point needs.
LEMMA GotoType ==
  ASSUME TypeOK, NEW h \in Handlers, NEW p \in Points, Goto(h, p),
         p \notin NoPhoneYet => Phone(h) \in Phones
  PROVE  HandlerOK'
<1>1. handler' = [handler EXCEPT ![h].at = p]
  BY DEF Goto
<1>2. handler' \in [Handlers -> Task]
  BY <1>1 DEF TypeOK, Task
<1>3. \A g \in Handlers : handler'[g] = IF g = h THEN [handler[g] EXCEPT !.at = p] ELSE handler[g]
  BY <1>1 DEF TypeOK
<1>4. QED
  BY <1>2, <1>3 DEF HandlerOK, TypeOK, Phone, Task

\* A task that is replaced keeps its type if the new one has it.
LEMMA ReplaceType ==
  ASSUME TypeOK, NEW h \in Handlers, NEW t \in Task, handler' = [handler EXCEPT ![h] = t],
         t.at \notin NoPhoneYet => t.phone \in Phones
  PROVE  HandlerOK'
BY DEF TypeOK, HandlerOK

LEMMA ReturnType ==
  ASSUME TypeOK, NEW h \in Handlers, Return(h)
  PROVE  HandlerOK'
<1> DEFINE t == IF FromWebhook(h)
                THEN [handler[h] EXCEPT !.at = "next", !.m = NoMessage, !.phone = NoPhone,
                                        !.known = FALSE]
                ELSE Idle
<1>1. handler' = [handler EXCEPT ![h] = t]
  BY DEF Return, TypeOK
<1>2. t \in Task /\ t.at \in NoPhoneYet
  BY IdleType DEF TypeOK, Task, Points, NoPhoneYet, Idle
<1> HIDE DEF t
<1>3. QED
  BY <1>1, <1>2, ReplaceType

\* Whatever a fault adds to the history are messages in hand.
LEMMA GhostTypes ==
  ASSUME TypeOK, NEW h \in Handlers
  PROVE  /\ Tear(h) /\ LocalInv(h) => torn' \in SUBSET Messages
         /\ Drop(h) /\ (handler[h].at \notin NoPhoneYet) /\ LocalInv(h) => dropped' \in SUBSET Messages
<1>1. ASSUME Tear(h), LocalInv(h) PROVE torn' \in SUBSET Messages
  <2>1. handler[h].at \in AfterRow => handler[h].m \in Messages
    BY <1>1 DEF LocalInv, AfterRow, NoPhoneYet
  <2>2. QED
    BY <1>1, <2>1 DEF Tear, TypeOK
<1>2. ASSUME Drop(h), handler[h].at \notin NoPhoneYet, LocalInv(h)
      PROVE  dropped' \in SUBSET Messages
  BY <1>2 DEF Drop, TypeOK, LocalInv
<1>3. QED
  BY <1>1, <1>2

LEMMA TypeStep ==
  ASSUME TypeOK, TaskInv, [Next]_vars
  PROVE  TypeOK'
<1> USE DEF rows, meta, counts, ghosts
<1>0. \A h \in Handlers : LocalInv(h)
  BY DEF TaskInv
<1>1. ASSUME NEW h \in Handlers, NEW p \in Payloads, Deliver(h, p) PROVE TypeOK'
  <2> DEFINE t == [Idle EXCEPT !.at = "resolve", !.payload = p, !.todo = p]
  <2>1. t \in Task /\ t.at \in NoPhoneYet
    BY <1>1 DEF Idle, Task, Points, NoPhoneYet
  <2>2. handler' = [handler EXCEPT ![h] = t]
    BY <1>1 DEF Deliver
  <2> HIDE DEF t
  <2>3. HandlerOK'
    BY <2>1, <2>2, ReplaceType
  <2>4. deliveries' \in [Payloads -> Nat]
    BY <1>1 DEF Deliver, TypeOK
  <2>5. QED
    BY <1>1, <2>3, <2>4 DEF Deliver, TypeOK, HandlerOK
<1>2. ASSUME NEW h \in Handlers, NEW q \in Phones, Send(h, q) PROVE TypeOK'
  <2> DEFINE t == [Idle EXCEPT !.at = "find_contact", !.phone = q,
                               !.known = HasContact(q) /\ HasConv(q)]
  <2>1. t \in Task /\ t.phone \in Phones
    BY DEF Idle, Task, Points, HasContact, HasConv
  <2>2. handler' = [handler EXCEPT ![h] = t]
    BY <1>2 DEF Send
  <2> HIDE DEF t
  <2>3. HandlerOK'
    BY <2>1, <2>2, ReplaceType
  <2>4. QED
    BY <1>2, <2>3 DEF Send, TypeOK, HandlerOK
<1>3. ASSUME NEW q \in Phones, Rename(q) PROVE TypeOK'
  BY <1>3 DEF Rename, TypeOK, ContactRow
<1>4. ASSUME NEW h \in Handlers, TakeMessage(h) PROVE TypeOK'
  <2>1. PICK m \in handler[h].todo :
          handler' = [handler EXCEPT ![h].at = "find_contact", ![h].todo = @ \ {m}, ![h].m = m,
                        ![h].phone = From[m],
                        ![h].known = HasContact(From[m]) /\ HasConv(From[m])]
    BY <1>4 DEF TakeMessage
  <2>2. m \in Messages
    BY <2>1 DEF TypeOK, Task
  <2>3. HandlerOK'
    BY <2>1, <2>2 DEF TypeOK, HandlerOK, Task, Points, HasContact, HasConv
  <2>4. QED
    BY <1>4, <2>3 DEF TakeMessage, TypeOK, HandlerOK
<1>5. ASSUME NEW h \in Handlers, Resolve(h) \/ MessagesDone(h) \/ Answer(h) PROVE TypeOK'
  <2>1. HandlerOK'
    <3>1. CASE Answer(h)
      <4>1. handler' = [handler EXCEPT ![h] = Idle]
        BY <3>1 DEF Answer
      <4>2. QED
        BY <4>1, IdleType, ReplaceType DEF Idle, NoPhoneYet
    <3>2. CASE Resolve(h) \/ MessagesDone(h)
      BY <3>2, GotoType DEF Resolve, MessagesDone, Points, NoPhoneYet
    <3>3. QED
      BY <1>5, <3>1, <3>2
  <2>2. answered' \in SUBSET Payloads
    <3>1. Answer(h) => handler[h].payload \in Payloads
      BY <1>0 DEF Answer, At, LocalInv, FromWebhook, TypeOK, Task
    <3>2. QED
      BY <1>5, <3>1 DEF Resolve, MessagesDone, Answer, TypeOK
  <2>3. QED
    BY <1>5, <2>1, <2>2 DEF Resolve, MessagesDone, Answer, TypeOK, HandlerOK
<1>6. ASSUME NEW h \in Handlers, FindContact(h) \/ FindConversation(h) \/ StoreMediaFailed(h)
      PROVE  TypeOK'
  <2>1. Phone(h) \in Phones
    BY <1>6 DEF FindContact, FindConversation, StoreMediaFailed, TypeOK, At, NoPhoneYet, Phone
  <2>2. HandlerOK'
    BY <1>6, <2>1, GotoType DEF FindContact, FindConversation, StoreMediaFailed,
       AfterConversation, Points, AfterRow
  <2>3. QED
    BY <1>6, <2>2 DEF FindContact, FindConversation, StoreMediaFailed, TypeOK, HandlerOK
<1>7. ASSUME NEW h \in Handlers, NameContact(h) \/ InsertContact(h) PROVE TypeOK'
  <2>1. Phone(h) \in Phones
    BY <1>7 DEF NameContact, InsertContact, TypeOK, At, NoPhoneYet, Phone
  <2>2. HandlerOK'
    BY <1>7, <2>1, GotoType DEF NameContact, InsertContact, Points
  <2>3. contact' \in [Phones -> ContactRow]
    BY <1>7, <2>1 DEF NameContact, InsertContact, TypeOK, ContactRow
  <2>4. QED
    BY <1>7, <2>2, <2>3 DEF NameContact, InsertContact, TypeOK, HandlerOK
<1>8. ASSUME NEW h \in Handlers, InsertConversation(h) \/ UpdateConversation(h) PROVE TypeOK'
  <2>1. Phone(h) \in Phones
    BY <1>8 DEF InsertConversation, UpdateConversation, TypeOK, At, NoPhoneYet, Phone
  <2>2. HandlerOK'
    BY <1>8, <2>1, GotoType
       DEF InsertConversation, UpdateConversation, AfterConversation, Points, AfterRow
  <2>3. UpdateConversation(h) => handler[h].m \in Messages
    BY <1>0 DEF UpdateConversation, At, LocalInv, AfterRow, NoPhoneYet
  <2>4. conv' \in [Phones -> ConvRow]
    BY <1>8, <2>1, <2>3 DEF InsertConversation, UpdateConversation, TypeOK, ConvRow
  <2>5. QED
    BY <1>8, <2>2, <2>4 DEF InsertConversation, UpdateConversation, TypeOK, HandlerOK
<1>9. ASSUME NEW h \in Handlers, QueueMessage(h) \/ Notify(h) PROVE TypeOK'
  <2>1. HandlerOK'
    BY <1>9, ReturnType DEF QueueMessage, Notify
  <2>2. conv' \in [Phones -> ConvRow] /\ announced' \in [Messages -> Nat]
    BY <1>9 DEF QueueMessage, Notify, TypeOK, ConvRow
  <2>3. QED
    BY <1>9, <2>1, <2>2 DEF QueueMessage, Notify, TypeOK, HandlerOK
<1>10. ASSUME NEW h \in Handlers, InsertMessage(h) \/ StoreMedia(h) PROVE TypeOK'
  <2>1. Phone(h) \in Phones
    BY <1>10 DEF InsertMessage, StoreMedia, TypeOK, At, NoPhoneYet, Phone
  <2>2. HandlerOK'
    BY <1>10, <2>1, GotoType DEF InsertMessage, StoreMedia, AfterInsert, Points, AfterRow
  <2>3. stored' \in [Messages -> MessageRow]
    BY <1>10 DEF InsertMessage, StoreMedia, TypeOK, MessageRow
  <2>4. QED
    BY <1>10, <2>2, <2>3 DEF InsertMessage, StoreMedia, TypeOK, HandlerOK
<1>11. ASSUME NEW h \in Handlers,
              \/ InsertContactConflict(h) \/ InsertConversationConflict(h)
              \/ InsertMessageRefused(h)
       PROVE  TypeOK'
  <2>1. Fail(h) /\ handler[h].at \notin NoPhoneYet
    BY <1>11 DEF InsertContactConflict, InsertConversationConflict, InsertMessageRefused, At,
       NoPhoneYet
  <2>2. HandlerOK' /\ dropped' \in SUBSET Messages
    BY <1>0, <2>1, ReturnType, GhostTypes DEF Fail
  <2>3. QED
    BY <1>11, <2>2 DEF InsertContactConflict, InsertConversationConflict, InsertMessageRefused,
       TypeOK, HandlerOK
<1>12. ASSUME NEW h \in Handlers, DbError(h) PROVE TypeOK'
  <2>1. Fail(h) /\ Tear(h) /\ handler[h].at \notin NoPhoneYet /\ faults' \in Nat
    BY <1>12 DEF DbError, NoPhoneYet, TakeFault, TypeOK
  <2>2. HandlerOK' /\ dropped' \in SUBSET Messages /\ torn' \in SUBSET Messages
    BY <1>0, <2>1, ReturnType, GhostTypes DEF Fail
  <2>3. QED
    BY <1>12, <2>1, <2>2 DEF DbError, TypeOK, HandlerOK
<1>13. ASSUME NEW h \in Handlers, ResolveFailed(h) PROVE TypeOK'
  <2>1. HandlerOK'
    BY <1>13, GotoType DEF ResolveFailed, Points, NoPhoneYet
  <2>2. dropped' \in SUBSET Messages /\ faults' \in Nat
    BY <1>13 DEF ResolveFailed, TypeOK, Task, TakeFault
  <2>3. QED
    BY <1>13, <2>1, <2>2 DEF ResolveFailed, TypeOK, HandlerOK
<1>14. ASSUME NEW h \in Handlers, Abort(h) PROVE TypeOK'
  <2>1. HandlerOK'
    BY <1>14, IdleType, ReplaceType DEF Abort, Idle, NoPhoneYet
  <2>2. torn' \in SUBSET Messages /\ faults' \in Nat
    BY <1>0, <1>14, GhostTypes DEF Abort, TakeFault, TypeOK
  <2>3. QED
    BY <1>14, <2>1, <2>2 DEF Abort, TypeOK, HandlerOK
<1>15. CASE UNCHANGED vars
  BY <1>15 DEF vars, TypeOK
<1>16. QED
  BY <1>1, <1>2, <1>3, <1>4, <1>5, <1>6, <1>7, <1>8, <1>9, <1>10, <1>11, <1>12, <1>13, <1>14,
     <1>15 DEF Next, Step, Fault

-----------------------------------------------------------------------------
(***************************************************************************)
(* What a task has seen stays true: rows appear and get dated, and never   *)
(* the other way round.                                                    *)
(***************************************************************************)
RowsGrow ==
  /\ \A q \in Phones : /\ HasContact(q) => contact'[q] # "none"
                       /\ HasConv(q) => conv'[q] # "none"
                       /\ Dated(q) => conv'[q] \notin {"none", "undated"}
  /\ \A m \in Messages : stored[m] # "none" => stored'[m] # "none"

OthersKept(h) == \A g \in Handlers \ {h} : handler'[g] = handler[g]

LEMMA StepGrowsRows ==
  ASSUME TypeOK, TaskInv, [Next]_vars
  PROVE  RowsGrow
<1> USE DEF rows, meta, counts, ghosts, HasContact, HasConv, Dated, RowsGrow
<1>1. ASSUME NEW h \in Handlers, NameContact(h) \/ InsertContact(h) PROVE RowsGrow
  BY <1>1 DEF NameContact, InsertContact, TypeOK
<1>2. ASSUME NEW h \in Handlers, InsertConversation(h) \/ QueueMessage(h) PROVE RowsGrow
  BY <1>2 DEF InsertConversation, QueueMessage, TypeOK
<1>3. ASSUME NEW h \in Handlers, UpdateConversation(h) PROVE RowsGrow
  <2>1. handler[h].m \in Messages
    BY <1>3 DEF UpdateConversation, TaskInv, LocalInv, At, AfterRow, NoPhoneYet
  <2>2. handler[h].m \notin {"none", "undated"}
    BY <2>1, DatesAssumption
  <2>3. QED
    BY <1>3, <2>2 DEF UpdateConversation, TypeOK
<1>4. ASSUME NEW h \in Handlers, InsertMessage(h) \/ StoreMedia(h) PROVE RowsGrow
  BY <1>4 DEF InsertMessage, StoreMedia, TypeOK
<1>5. ASSUME NEW q \in Phones, Rename(q) PROVE RowsGrow
  BY <1>5 DEF Rename, TypeOK
<1>6. CASE UNCHANGED rows
  BY <1>6
<1>7. QED
  BY <1>1, <1>2, <1>3, <1>4, <1>5, <1>6
     DEF Next, Step, Fault, vars, Resolve, TakeMessage, MessagesDone, Answer, FindContact,
     InsertContactConflict, FindConversation, InsertConversationConflict, InsertMessageRefused,
     StoreMediaFailed, Notify, DbError, ResolveFailed, Abort, Deliver, Send

\* What holds at the point of another task goes on holding.
LEMMA LocalStable ==
  ASSUME TypeOK, RowsGrow, NEW g \in Handlers, LocalInv(g), handler'[g] = handler[g]
  PROVE  LocalInv(g)'
<1>1. handler[g].at \notin NoPhoneYet => Phone(g) \in Phones
  BY DEF TypeOK, Phone
<1>2. handler[g].at \in AfterRow => handler[g].m \in Messages
  BY DEF LocalInv, AfterRow, NoPhoneYet
<1>3. QED
  BY <1>1, <1>2 DEF LocalInv, RowsGrow, HasContact, HasConv, Dated, Phone, At, FromWebhook,
     ContactFound, ConvFound, AfterRow, NoPhoneYet

\* A task through with its message, or with its request, relies on nothing.
LEMMA ReturnLocal ==
  ASSUME TypeOK, NEW h \in Handlers, Return(h)
  PROVE  LocalInv(h)' /\ OthersKept(h)
<1>1. OthersKept(h) /\ handler'[h].at \in {"next", "idle"} /\ ~handler'[h].known
  BY DEF Return, OthersKept, TypeOK, Task, Idle
<1>2. handler'[h].at = "next" => FromWebhook(h)'
  BY DEF Return, FromWebhook, TypeOK, Task, Idle
<1>3. QED
  BY <1>1, <1>2 DEF LocalInv, ContactFound, ConvFound, AfterRow, NoPhoneYet, At

LEMMA TaskInvStep ==
  ASSUME TypeOK, TaskInv, [Next]_vars
  PROVE  TaskInv'
<1> USE DEF ContactFound, ConvFound, AfterRow, NoPhoneYet
<1>0. RowsGrow /\ \A h \in Handlers : LocalInv(h)
  BY StepGrowsRows DEF TaskInv
<1>1. ASSUME NEW h \in Handlers, LocalInv(h)', OthersKept(h) PROVE TaskInv'
  BY <1>0, <1>1, LocalStable DEF TaskInv, OthersKept
<1>2. ASSUME NEW h \in Handlers, NEW p \in Payloads, Deliver(h, p) PROVE TaskInv'
  <2>1. OthersKept(h) /\ LocalInv(h)'
    BY <1>2 DEF Deliver, OthersKept, TypeOK, Idle, LocalInv, At, FromWebhook
  <2>2. QED
    BY <1>1, <2>1
<1>3. ASSUME NEW h \in Handlers, NEW q \in Phones, Send(h, q) PROVE TaskInv'
  <2>1. OthersKept(h) /\ LocalInv(h)'
    BY <1>3 DEF Send, rows, OthersKept, TypeOK, Idle, LocalInv, At, FromWebhook, Phone,
       HasContact, HasConv
  <2>2. QED
    BY <1>1, <2>1
<1>4. ASSUME NEW h \in Handlers, TakeMessage(h) PROVE TaskInv'
  <2>1. OthersKept(h) /\ LocalInv(h)'
    BY <1>4 DEF TakeMessage, rows, OthersKept, TypeOK, Task, LocalInv, At, FromWebhook, Phone,
       HasContact, HasConv
  <2>2. QED
    BY <1>1, <2>1
<1>5. ASSUME NEW h \in Handlers, Resolve(h) \/ MessagesDone(h) \/ Answer(h) \/ ResolveFailed(h)
      PROVE  TaskInv'
  <2>1. OthersKept(h) /\ LocalInv(h)'
    BY <1>0, <1>5 DEF Resolve, MessagesDone, Answer, ResolveFailed, Goto, OthersKept, TypeOK,
       Task, LocalInv, At, FromWebhook, Idle
  <2>2. QED
    BY <1>1, <2>1
<1>6. ASSUME NEW h \in Handlers,
             FindContact(h) \/ FindConversation(h) \/ NameContact(h) \/ InsertContact(h)
               \/ InsertConversation(h)
      PROVE  TaskInv'
  <2>1. OthersKept(h)
    BY <1>6 DEF FindContact, FindConversation, NameContact, InsertContact, InsertConversation,
       Goto, OthersKept, TypeOK
  <2>2. Phone(h) \in Phones
    BY <1>6 DEF FindContact, FindConversation, NameContact, InsertContact, InsertConversation,
       TypeOK, At, Phone
  <2>3. /\ handler'[h].phone = handler[h].phone /\ handler'[h].m = handler[h].m
        /\ handler'[h].payload = handler[h].payload /\ handler'[h].known = handler[h].known
    BY <1>6 DEF FindContact, FindConversation, NameContact, InsertContact, InsertConversation,
       Goto, TypeOK, Task
  <2>4. \/ handler'[h].at = "name_contact" /\ HasContact(Phone(h)) /\ FromWebhook(h)
        \/ handler'[h].at = "find_conversation" /\ (HasContact(Phone(h)) \/ contact'[Phone(h)] # "none")
        \/ handler'[h].at = "insert_contact" /\ ~HasContact(Phone(h))
        \/ handler'[h].at = "insert_conversation" /\ HasContact(Phone(h)) /\ ~HasConv(Phone(h))
        \/ /\ handler'[h].at = AfterConversation(h) /\ HasContact(Phone(h))
           /\ HasConv(Phone(h)) \/ conv'[Phone(h)] # "none"
    BY <1>0, <1>6, <2>2 DEF FindContact, FindConversation, NameContact, InsertContact,
       InsertConversation, Goto, TypeOK, Task, At, LocalInv, HasContact
  <2>5. LocalInv(h)'
    BY <1>0, <1>6, <2>2, <2>3, <2>4 DEF LocalInv, RowsGrow, HasContact, HasConv, Dated, Phone,
       At, FromWebhook, AfterConversation, FindContact, FindConversation, NameContact,
       InsertContact, InsertConversation
  <2>6. QED
    BY <1>1, <2>1, <2>5
<1>7. ASSUME NEW h \in Handlers,
             \/ InsertMessage(h) \/ StoreMedia(h) \/ StoreMediaFailed(h) \/ UpdateConversation(h)
      PROVE  TaskInv'
  <2>1. OthersKept(h) /\ Phone(h) \in Phones /\ handler[h].m \in Messages
    BY <1>0, <1>7 DEF InsertMessage, StoreMedia, StoreMediaFailed, UpdateConversation, Goto,
       OthersKept, TypeOK, At, Phone, LocalInv
  <2>2. /\ handler'[h].phone = handler[h].phone /\ handler'[h].m = handler[h].m
        /\ handler'[h].payload = handler[h].payload /\ handler'[h].known = handler[h].known
        /\ handler'[h].at \in AfterRow
    BY <1>7 DEF InsertMessage, StoreMedia, StoreMediaFailed, UpdateConversation, Goto, TypeOK,
       Task, AfterInsert
  <2>3. stored'[handler[h].m] # "none"
    BY <1>0, <1>7, <2>1 DEF InsertMessage, StoreMedia, StoreMediaFailed, UpdateConversation,
       TypeOK, LocalInv, At, rows
  <2>4. handler'[h].at = "notify" => conv'[Phone(h)] \notin {"none", "undated"}
    <3>1. CASE UpdateConversation(h)
      <4>1. conv'[Phone(h)] = handler[h].m
        BY <2>1, <3>1 DEF UpdateConversation, TypeOK
      <4>2. QED
        BY <2>1, <4>1, DatesAssumption
    <3>2. CASE InsertMessage(h) \/ StoreMedia(h) \/ StoreMediaFailed(h)
      BY <3>2 DEF InsertMessage, StoreMedia, StoreMediaFailed, Goto, TypeOK, Task, AfterInsert
    <3>3. QED
      BY <1>7, <3>1, <3>2
  <2>5. LocalInv(h)'
    BY <1>0, <1>7, <2>1, <2>2, <2>3, <2>4 DEF LocalInv, RowsGrow, HasContact, HasConv, Dated,
       Phone, At, FromWebhook, InsertMessage, StoreMedia, StoreMediaFailed, UpdateConversation
  <2>6. QED
    BY <1>1, <2>1, <2>5
<1>8. ASSUME NEW h \in Handlers, Return(h) PROVE TaskInv'
  BY <1>1, <1>8, ReturnLocal
<1>9. ASSUME NEW h \in Handlers, Abort(h) PROVE TaskInv'
  <2>1. OthersKept(h) /\ LocalInv(h)'
    BY <1>9 DEF Abort, OthersKept, TypeOK, Idle, LocalInv, At, FromWebhook
  <2>2. QED
    BY <1>1, <2>1
<1>10. ASSUME NEW q \in Phones, Rename(q) PROVE TaskInv'
  BY <1>0, <1>10, LocalStable DEF Rename, TaskInv
<1>11. CASE UNCHANGED vars
  BY <1>0, <1>11, LocalStable DEF vars, TaskInv
<1>12. QED
  BY <1>2, <1>3, <1>4, <1>5, <1>6, <1>7, <1>8, <1>9, <1>10, <1>11
     DEF Next, Step, Fault, QueueMessage, InsertContactConflict, InsertConversationConflict,
     InsertMessageRefused, Notify, DbError, Fail

-----------------------------------------------------------------------------
(***************************************************************************)
(* Which task has which message in hand, and how that changes.             *)
(***************************************************************************)
Holds(g, m) == handler[g].at \in AfterRow /\ handler[g].m = m

HeldAsBefore(h) == \A g \in Handlers \ {h}, m \in Messages : Holds(g, m)' <=> Holds(g, m)

HoldsNothing(h) == handler[h].at \notin AfterRow

SameRows == \A m \in Messages : stored'[m] = "none" <=> stored[m] = "none"

\* No message changes hands.
HandsKept ==
  /\ announced' = announced /\ SameRows /\ torn \subseteq torn'
  /\ \A g \in Handlers, m \in Messages : Holds(g, m)' <=> Holds(g, m)

\* A row is inserted: its task has it in hand.
Begins(h, m) ==
  /\ stored[m] = "none" /\ stored'[m] # "none"
  /\ \A n \in Messages \ {m} : stored'[n] = stored[n]
  /\ HoldsNothing(h) /\ Holds(h, m)' /\ HeldAsBefore(h)
  /\ announced' = announced /\ torn' = torn

\* A task announces the message or is torn from it.
Ends(h, m) ==
  /\ Holds(h, m) /\ HoldsNothing(h)' /\ HeldAsBefore(h)
  /\ SameRows /\ torn \subseteq torn'
  /\ \A n \in Messages \ {m} : announced'[n] = announced[n]
  /\ \/ announced'[m] = announced[m] /\ m \in torn'
     \/ announced'[m] = announced[m] + 1

HandsChange ==
  \/ HandsKept
  \/ \E h \in Handlers, m \in Messages : Begins(h, m) \/ Ends(h, m)

\* A task outside these points that stays outside changes nobody's hands.
LEMMA OutsideHands ==
  ASSUME TypeOK, NEW h \in Handlers, OthersKept(h), HoldsNothing(h), HoldsNothing(h)',
         announced' = announced, stored' = stored, torn \subseteq torn'
  PROVE  HandsKept
BY DEF HandsKept, OthersKept, HoldsNothing, Holds, SameRows

LEMMA HandsStep ==
  ASSUME TypeOK, TaskInv, [Next]_vars
  PROVE  HandsChange
<1> USE DEF rows, meta, counts, ghosts
<1>0. \A h \in Handlers : LocalInv(h)
  BY DEF TaskInv
<1>1. ASSUME NEW h \in Handlers, NEW p \in Payloads, Deliver(h, p) PROVE HandsKept
  BY <1>1, OutsideHands DEF Deliver, OthersKept, HoldsNothing, AfterRow, TypeOK, Idle, At
<1>2. ASSUME NEW h \in Handlers, NEW q \in Phones, Send(h, q) PROVE HandsKept
  BY <1>2, OutsideHands DEF Send, OthersKept, HoldsNothing, AfterRow, TypeOK, Idle, At
<1>3. ASSUME NEW h \in Handlers, TakeMessage(h) PROVE HandsKept
  BY <1>3, OutsideHands DEF TakeMessage, OthersKept, HoldsNothing, AfterRow, TypeOK, Task, At
<1>4. ASSUME NEW h \in Handlers, Resolve(h) \/ MessagesDone(h) \/ Answer(h) \/ ResolveFailed(h)
      PROVE  HandsKept
  BY <1>4, OutsideHands DEF Resolve, MessagesDone, Answer, ResolveFailed, Goto, OthersKept,
     HoldsNothing, AfterRow, TypeOK, Task, At, Idle
<1>5. ASSUME NEW h \in Handlers,
             FindContact(h) \/ FindConversation(h) \/ NameContact(h) \/ InsertContact(h)
               \/ InsertConversation(h)
      PROVE  HandsKept
  <2>1. /\ UNCHANGED <<announced, stored, torn>> /\ HoldsNothing(h)
        /\ \E point \in Points \ AfterRow : Goto(h, point)
    BY <1>5 DEF FindContact, FindConversation, NameContact, InsertContact, InsertConversation,
       AfterConversation, HoldsNothing, AfterRow, Points, At
  <2>2. PICK point \in Points \ AfterRow : handler' = [handler EXCEPT ![h].at = point]
    BY <2>1 DEF Goto
  <2>3. OthersKept(h) /\ HoldsNothing(h)'
    BY <2>2 DEF OthersKept, HoldsNothing, TypeOK
  <2>4. QED
    BY <2>1, <2>3, OutsideHands
<1>6. ASSUME NEW h \in Handlers, Return(h) PROVE OthersKept(h) /\ HoldsNothing(h)'
  BY <1>6 DEF Return, OthersKept, HoldsNothing, TypeOK, Task, Idle, AfterRow
<1>7. ASSUME NEW h \in Handlers,
             QueueMessage(h) \/ InsertContactConflict(h) \/ InsertConversationConflict(h)
               \/ InsertMessageRefused(h)
      PROVE  HandsKept
  <2>1. Return(h) /\ HoldsNothing(h) /\ UNCHANGED <<announced, stored, torn>>
    BY <1>7 DEF QueueMessage, InsertContactConflict, InsertConversationConflict,
       InsertMessageRefused, Fail, HoldsNothing, At, AfterRow
  <2>2. QED
    BY <1>6, <2>1, OutsideHands
<1>8. ASSUME NEW h \in Handlers, InsertMessage(h) PROVE Begins(h, handler[h].m)
  <2>1. handler[h].m \in Messages
    BY <1>0, <1>8 DEF InsertMessage, LocalInv, At, AfterRow, NoPhoneYet
  <2>2. handler' = [handler EXCEPT ![h].at = AfterInsert(handler[h].m)]
    BY <1>8 DEF InsertMessage, Goto
  <2>3. QED
    BY <1>8, <2>1, <2>2 DEF InsertMessage, AfterInsert, Begins, HoldsNothing, HeldAsBefore,
       Holds, AfterRow, TypeOK, Task, At
<1>9. ASSUME NEW h \in Handlers, StoreMedia(h) \/ StoreMediaFailed(h) \/ UpdateConversation(h)
      PROVE  HandsKept
  <2>1. /\ \A g \in Handlers, m \in Messages : Holds(g, m)' <=> Holds(g, m)
    BY <1>9 DEF StoreMedia, StoreMediaFailed, UpdateConversation, Goto, Holds, AfterRow,
       TypeOK, Task, At
  <2>2. SameRows
    BY <1>0, <1>9 DEF StoreMedia, StoreMediaFailed, UpdateConversation, SameRows, TypeOK,
       LocalInv, At, AfterRow
  <2>3. QED
    BY <1>9, <2>1, <2>2 DEF StoreMedia, StoreMediaFailed, UpdateConversation, HandsKept
<1>10. ASSUME NEW h \in Handlers, OthersKept(h) PROVE HeldAsBefore(h)
  BY <1>10 DEF OthersKept, HeldAsBefore, Holds
<1>11. ASSUME NEW h \in Handlers, Notify(h) PROVE Ends(h, handler[h].m) /\ handler[h].m \in Messages
  <2>1. handler[h].m \in Messages
    BY <1>0, <1>11 DEF Notify, LocalInv, At, AfterRow, NoPhoneYet
  <2>2. HoldsNothing(h)' /\ HeldAsBefore(h)
    BY <1>6, <1>10, <1>11 DEF Notify
  <2>3. QED
    BY <1>11, <2>1, <2>2 DEF Notify, Ends, Holds, At, AfterRow, SameRows, TypeOK
<1>12. ASSUME NEW h \in Handlers, DbError(h) \/ Abort(h)
       PROVE  HandsKept \/ (handler[h].m \in Messages /\ Ends(h, handler[h].m))
  <2>1. OthersKept(h) /\ HoldsNothing(h)'
    <3>1. CASE DbError(h)
      BY <1>6, <3>1 DEF DbError, Fail
    <3>2. CASE Abort(h)
      BY <3>2 DEF Abort, OthersKept, HoldsNothing, TypeOK, Idle, AfterRow
    <3>3. QED
      BY <1>12, <3>1, <3>2
  <2>2. UNCHANGED <<announced, stored>> /\ Tear(h)
    BY <1>12 DEF DbError, Abort
  <2>3. torn \subseteq torn'
    BY <2>2 DEF Tear
  <2>4. CASE HoldsNothing(h)
    BY <2>1, <2>2, <2>3, <2>4, OutsideHands
  <2>5. CASE ~HoldsNothing(h)
    <3>1. handler[h].m \in Messages
      BY <1>0, <2>5 DEF HoldsNothing, LocalInv, AfterRow, NoPhoneYet
    <3>2. handler[h].m \in torn'
      BY <2>2, <2>5 DEF Tear, HoldsNothing
    <3>3. QED
      BY <1>10, <2>1, <2>2, <2>3, <2>5, <3>1, <3>2 DEF Ends, Holds, HoldsNothing, SameRows
  <2>6. QED
    BY <2>4, <2>5
<1>13. ASSUME NEW q \in Phones, Rename(q) PROVE HandsKept
  BY <1>13 DEF Rename, HandsKept, Holds, SameRows
<1>14. CASE UNCHANGED vars
  BY <1>14 DEF vars, HandsChange, HandsKept, Holds, SameRows
<1>15. ASSUME NEW h \in Handlers, InsertMessage(h) PROVE handler[h].m \in Messages
  BY <1>0, <1>15 DEF InsertMessage, LocalInv, At, AfterRow, NoPhoneYet
<1>16. ASSUME NEW h \in Handlers, Step(h) \/ Fault(h) PROVE HandsChange
  <2>1. CASE InsertMessage(h)
    BY <1>8, <1>15, <2>1 DEF HandsChange
  <2>2. CASE Notify(h)
    BY <1>11, <2>2 DEF HandsChange
  <2>3. CASE DbError(h) \/ Abort(h)
    BY <1>12, <2>3 DEF HandsChange
  <2>4. CASE TakeMessage(h) \/ StoreMedia(h) \/ StoreMediaFailed(h) \/ UpdateConversation(h)
    BY <1>3, <1>9, <2>4 DEF HandsChange
  <2>5. CASE Resolve(h) \/ MessagesDone(h) \/ Answer(h) \/ ResolveFailed(h)
    BY <1>4, <2>5 DEF HandsChange
  <2>6. CASE \/ FindContact(h) \/ FindConversation(h) \/ NameContact(h) \/ InsertContact(h)
             \/ InsertConversation(h)
    BY <1>5, <2>6 DEF HandsChange
  <2>7. CASE \/ QueueMessage(h) \/ InsertContactConflict(h) \/ InsertConversationConflict(h)
             \/ InsertMessageRefused(h)
    BY <1>7, <2>7 DEF HandsChange
  <2>8. QED
    BY <1>16, <2>1, <2>2, <2>3, <2>4, <2>5, <2>6, <2>7 DEF Step, Fault
<1>17. QED
  BY <1>1, <1>2, <1>13, <1>14, <1>16 DEF Next, HandsChange

-----------------------------------------------------------------------------
(***************************************************************************)
(* The broadcast of a message, restated message by message.                *)
(***************************************************************************)
OneHolder(m) == \A g, h \in Handlers : Holds(g, m) /\ Holds(h, m) => g = h
Held(m)      == \E h \in Handlers : Holds(h, m)
Once(m)      == announced[m] <= 1 /\ (Held(m) => announced[m] = 0) /\ OneHolder(m)
Covered(m)   == stored[m] # "none" => announced[m] = 1 \/ Held(m) \/ m \in torn

LEMMA PerMessage ==
  /\ AnnouncedOnce <=> \A m \in Messages : Once(m)
  /\ StoredIsAnnounced <=> \A m \in Messages : Covered(m)
BY DEF AnnouncedOnce, StoredIsAnnounced, InHand, Once, Covered, Held, OneHolder, Holds

LEMMA PerMessageNext ==
  /\ AnnouncedOnce' <=> \A m \in Messages : Once(m)'
  /\ StoredIsAnnounced' <=> \A m \in Messages : Covered(m)'
BY DEF AnnouncedOnce, StoredIsAnnounced, InHand, Once, Covered, Held, OneHolder, Holds

\* Messages that change neither hands nor rows.
LEMMA Untouched ==
  ASSUME NEW n \in Messages, Once(n), Covered(n),
         \A g \in Handlers : Holds(g, n)' <=> Holds(g, n),
         announced'[n] = announced[n], stored'[n] = "none" <=> stored[n] = "none",
         torn \subseteq torn'
  PROVE  Once(n)' /\ Covered(n)'
<1>1. Held(n)' <=> Held(n)
  BY DEF Held
<1>2. OneHolder(n)'
  BY DEF Once, OneHolder
<1>3. QED
  BY <1>1, <1>2 DEF Once, Covered

LEMMA BroadcastStep ==
  ASSUME TypeOK, TaskInv, AnnouncedIsThere, AnnouncedOnce, StoredIsAnnounced, HandsChange
  PROVE  AnnouncedOnce' /\ StoredIsAnnounced'
<1>0. \A m \in Messages : Once(m) /\ Covered(m) /\ announced[m] \in Nat
  BY PerMessage DEF TypeOK
<1>1. CASE HandsKept
  <2>1. ASSUME NEW n \in Messages PROVE Once(n)' /\ Covered(n)'
    <3>1. /\ announced'[n] = announced[n] /\ torn \subseteq torn'
          /\ stored'[n] = "none" <=> stored[n] = "none"
          /\ \A g \in Handlers : Holds(g, n)' <=> Holds(g, n)
      BY <1>1 DEF HandsKept, SameRows
    <3>2. QED
      BY <1>0, <3>1, Untouched
  <2>2. QED
    BY <2>1, PerMessageNext
<1>2. ASSUME NEW h \in Handlers, NEW m \in Messages, Begins(h, m)
      PROVE  AnnouncedOnce' /\ StoredIsAnnounced'
  <2>1. ~Held(m) /\ announced[m] = 0
    <3>1. \A g \in Handlers : ~Holds(g, m)
      BY <1>2 DEF Begins, TaskInv, LocalInv, Holds
    <3>2. announced[m] = 0
      BY <1>0, <1>2 DEF Begins, AnnouncedIsThere
    <3>3. QED
      BY <3>1, <3>2 DEF Held
  <2>2. Once(m)' /\ Covered(m)'
    <3>1. announced'[m] = 0 /\ Holds(h, m)'
      BY <1>2, <2>1 DEF Begins
    <3>2. \A g \in Handlers : Holds(g, m)' => g = h
      BY <1>2, <2>1 DEF Begins, HeldAsBefore, Held
    <3>3. OneHolder(m)' /\ Held(m)'
      BY <3>1, <3>2 DEF OneHolder, Held
    <3>4. QED
      BY <3>1, <3>3 DEF Once, Covered
  <2>3. ASSUME NEW n \in Messages, n # m PROVE Once(n)' /\ Covered(n)'
    <3>1. \A g \in Handlers : Holds(g, n)' <=> Holds(g, n)
      BY <1>2, <2>3 DEF Begins, HeldAsBefore, HoldsNothing, Holds
    <3>2. announced'[n] = announced[n] /\ stored'[n] = stored[n] /\ torn' = torn
      BY <1>2, <2>3 DEF Begins
    <3>3. QED
      BY <1>0, <3>1, <3>2, Untouched
  <2>4. QED
    BY <2>2, <2>3, PerMessageNext
<1>3. ASSUME NEW h \in Handlers, NEW m \in Messages, Ends(h, m)
      PROVE  AnnouncedOnce' /\ StoredIsAnnounced'
  <2>1. announced[m] = 0 /\ \A g \in Handlers : Holds(g, m) => g = h
    BY <1>0, <1>3 DEF Ends, Once, Held, OneHolder
  <2>2. Once(m)' /\ Covered(m)'
    <3>1. ~Held(m)'
      BY <1>3, <2>1 DEF Ends, HeldAsBefore, HoldsNothing, Holds, Held
    <3>2. OneHolder(m)'
      BY <3>1 DEF OneHolder, Held
    <3>3. announced'[m] = 1 \/ (announced'[m] = 0 /\ m \in torn')
      BY <1>3, <2>1 DEF Ends
    <3>4. QED
      BY <3>1, <3>2, <3>3 DEF Once, Covered
  <2>3. ASSUME NEW n \in Messages, n # m PROVE Once(n)' /\ Covered(n)'
    <3>1. \A g \in Handlers : Holds(g, n)' <=> Holds(g, n)
      BY <1>3, <2>3 DEF Ends, HeldAsBefore, HoldsNothing, Holds
    <3>2. /\ announced'[n] = announced[n] /\ torn \subseteq torn'
          /\ stored'[n] = "none" <=> stored[n] = "none"
      BY <1>3, <2>3 DEF Ends, SameRows
    <3>3. QED
      BY <1>0, <3>1, <3>2, Untouched
  <2>4. QED
    BY <2>2, <2>3, PerMessageNext
<1>4. QED
  BY <1>1, <1>2, <1>3 DEF HandsChange

-----------------------------------------------------------------------------
(***************************************************************************)
(* Broadcasts and conversations refer to rows that are there.              *)
(***************************************************************************)
LEMMA ThereStep ==
  ASSUME TypeOK, TaskInv, AnnouncedIsThere, [Next]_vars
  PROVE  AnnouncedIsThere'
<1>0. RowsGrow
  BY StepGrowsRows
<1>1. CASE announced' = announced
  BY <1>0, <1>1, FromAssumption DEF AnnouncedIsThere, RowsGrow, HasContact, Dated
<1>2. ASSUME NEW h \in Handlers, Notify(h) PROVE AnnouncedIsThere'
  <2>1. /\ handler[h].m \in Messages /\ stored[handler[h].m] # "none"
        /\ HasContact(From[handler[h].m]) /\ Dated(From[handler[h].m])
    BY <1>2 DEF Notify, At, TaskInv, LocalInv, AfterRow, NoPhoneYet, ConvFound
  <2>2. \A m \in Messages \ {handler[h].m} : announced'[m] = announced[m]
    BY <1>2 DEF Notify, TypeOK
  <2>3. UNCHANGED rows
    BY <1>2 DEF Notify
  <2>4. QED
    BY <2>1, <2>2, <2>3 DEF rows, AnnouncedIsThere, HasContact, Dated
<1>3. QED
  BY <1>1, <1>2
     DEF Next, Step, Fault, vars, Resolve, TakeMessage, MessagesDone, Answer, FindContact,
     NameContact, InsertContact, InsertContactConflict, FindConversation, InsertConversation,
     InsertConversationConflict, InsertMessage, InsertMessageRefused, StoreMedia,
     StoreMediaFailed, UpdateConversation, QueueMessage, DbError, ResolveFailed, Abort,
     Deliver, Send, Rename

LEMMA ConversationStep ==
  ASSUME TypeOK, TaskInv, ConversationHasContact, [Next]_vars
  PROVE  ConversationHasContact'
<1>0. RowsGrow
  BY StepGrowsRows
<1>1. CASE conv' = conv
  BY <1>0, <1>1 DEF ConversationHasContact, RowsGrow, HasContact, HasConv
<1>2. ASSUME NEW h \in Handlers, Phone(h) \in Phones, HasContact(Phone(h)),
             NEW v, conv' = [conv EXCEPT ![Phone(h)] = v],
             v \in Messages => stored[v] # "none" /\ From[v] = Phone(h)
      PROVE  ConversationHasContact'
  BY <1>0, <1>2 DEF ConversationHasContact, RowsGrow, HasContact, HasConv, TypeOK
<1>3. ASSUME NEW h \in Handlers, InsertConversation(h) PROVE ConversationHasContact'
  <2>1. Phone(h) \in Phones /\ HasContact(Phone(h)) /\ "undated" \notin Messages
    BY <1>3, DatesAssumption DEF InsertConversation, At, TaskInv, LocalInv, ContactFound, TypeOK,
       Phone, NoPhoneYet
  <2>2. QED
    BY <1>2, <1>3, <2>1 DEF InsertConversation
<1>4. ASSUME NEW h \in Handlers, QueueMessage(h) PROVE ConversationHasContact'
  <2>1. Phone(h) \in Phones /\ HasContact(Phone(h)) /\ "outbound" \notin Messages
    BY <1>4, DatesAssumption DEF QueueMessage, At, TaskInv, LocalInv, ConvFound, TypeOK, Phone,
       NoPhoneYet
  <2>2. QED
    BY <1>2, <1>4, <2>1 DEF QueueMessage
<1>5. ASSUME NEW h \in Handlers, UpdateConversation(h) PROVE ConversationHasContact'
  <2>1. /\ Phone(h) \in Phones /\ HasContact(Phone(h))
        /\ stored[handler[h].m] # "none" /\ From[handler[h].m] = Phone(h)
    BY <1>5 DEF UpdateConversation, At, TaskInv, LocalInv, ConvFound, AfterRow, TypeOK, Phone,
       NoPhoneYet
  <2>2. QED
    BY <1>2, <1>5, <2>1 DEF UpdateConversation
<1>6. QED
  BY <1>1, <1>3, <1>4, <1>5
     DEF rows, Next, Step, Fault, vars, Resolve, TakeMessage, MessagesDone, Answer, FindContact,
     NameContact, InsertContact, InsertContactConflict, FindConversation,
     InsertConversationConflict, InsertMessage, InsertMessageRefused, StoreMedia,
     StoreMediaFailed, Notify, DbError, ResolveFailed, Abort, Deliver, Send, Rename

-----------------------------------------------------------------------------
(***************************************************************************)
(* The theorems.                                                           *)
(***************************************************************************)
LEMMA InboundInit == Init => InboundInv
<1> SUFFICES ASSUME Init PROVE InboundInv
  OBVIOUS
<1>1. TypeOK
  BY IdleType DEF Init, TypeOK, ContactRow, ConvRow, MessageRow, Idle, NoPhoneYet
<1>2. TaskInv
  BY DEF Init, Idle, TaskInv, LocalInv, ContactFound, ConvFound, AfterRow, At, FromWebhook
<1>3. AnnouncedOnce /\ AnnouncedIsThere /\ StoredIsAnnounced
  BY DEF Init, Idle, AnnouncedOnce, AnnouncedIsThere, StoredIsAnnounced, InHand, AfterRow
<1>4. ConversationHasContact
  BY DatesAssumption DEF Init, ConversationHasContact, HasConv
<1>5. QED
  BY <1>1, <1>2, <1>3, <1>4 DEF InboundInv

LEMMA InboundStep == InboundInv /\ [Next]_vars => InboundInv'
<1> SUFFICES ASSUME InboundInv, [Next]_vars PROVE InboundInv'
  OBVIOUS
<1>1. TypeOK' /\ TaskInv'
  BY TypeStep, TaskInvStep DEF InboundInv
<1>2. AnnouncedOnce' /\ StoredIsAnnounced'
  BY HandsStep, BroadcastStep DEF InboundInv
<1>3. AnnouncedIsThere' /\ ConversationHasContact'
  BY ThereStep, ConversationStep DEF InboundInv
<1>4. QED
  BY <1>1, <1>2, <1>3 DEF InboundInv

\* What every task relies on at each of its points goes on holding, with the
\* properties below: the statements of the handlers need no transaction for them.
THEOREM InboundInductive == Spec => []InboundInv
BY InboundInit, InboundStep, PTL DEF Spec

\* The rows, the counters and the tasks keep their types.
THEOREM InboundTypeCorrect == Spec => []TypeOK
<1>1. InboundInv => TypeOK
  BY DEF InboundInv
<1>2. QED
  BY <1>1, InboundInductive, PTL

\* However often and however concurrently Meta delivers a message, the tasks
\* broadcast it at most once: the unique key of wa_message_id decides.
THEOREM AnnouncedAtMostOnce == Spec => []AnnouncedOnce
<1>1. InboundInv => AnnouncedOnce
  BY DEF InboundInv
<1>2. QED
  BY <1>1, InboundInductive, PTL

\* A broadcast is never ahead of the rows that its readers will ask for.
THEOREM AnnouncedAfterRows == Spec => []AnnouncedIsThere
<1>1. InboundInv => AnnouncedIsThere
  BY DEF InboundInv
<1>2. QED
  BY <1>1, InboundInductive, PTL

\* A stored message is announced, in the hands of a task, or torn from one by a fault.
THEOREM StoredGetsAnnounced == Spec => []StoredIsAnnounced
<1>1. InboundInv => StoredIsAnnounced
  BY DEF InboundInv
<1>2. QED
  BY <1>1, InboundInductive, PTL

\* A conversation has its contact, and its date comes from a message that is there.
THEOREM ConversationsAreWhole == Spec => []ConversationHasContact
<1>1. InboundInv => ConversationHasContact
  BY DEF InboundInv
<1>2. QED
  BY <1>1, InboundInductive, PTL

\* Without a fault, no step of a task drops a message it took up when the
\* contact and the conversation were there.
LEMMA KnownStep ==
  ASSUME InboundInv, [Next]_vars, NEW h \in Handlers, handler[h].known,
         handler[h].m \in dropped' \ dropped
  PROVE  handler'[h] = handler[h] \/ faults' # faults \/ handler[h].m \in Unsupported
<1> USE DEF rows, meta, counts, ghosts, At
<1>0. TypeOK /\ \A g \in Handlers : LocalInv(g)
  BY DEF InboundInv, TaskInv
<1>1. handler[h].at \notin {"insert_contact", "insert_conversation"}
  BY <1>0 DEF LocalInv, NoPhoneYet
<1>2. ASSUME NEW g \in Handlers, InsertContactConflict(g) \/ InsertConversationConflict(g)
      PROVE  handler'[h] = handler[h]
  <2>1. g # h
    BY <1>1, <1>2 DEF InsertContactConflict, InsertConversationConflict
  <2>2. QED
    BY <1>0, <1>2, <2>1 DEF InsertContactConflict, InsertConversationConflict, Fail, Return,
       TypeOK
<1>3. ASSUME NEW g \in Handlers, InsertMessageRefused(g)
      PROVE  handler'[h] = handler[h] \/ handler[h].m \in Unsupported
  <2>1. CASE g = h
    BY <1>3, <2>1 DEF InsertMessageRefused, Fail, Drop
  <2>2. CASE g # h
    BY <1>0, <1>3, <2>2 DEF InsertMessageRefused, Fail, Return, TypeOK
  <2>3. QED
    BY <2>1, <2>2
<1>4. ASSUME NEW g \in Handlers, Fault(g) PROVE faults' # faults
  BY <1>0, <1>4 DEF Fault, DbError, ResolveFailed, Abort, TakeFault, TypeOK
<1>5. dropped' # dropped
  OBVIOUS
<1>6. QED
  BY <1>2, <1>3, <1>4, <1>5
     DEF Next, Step, vars, Resolve, TakeMessage, MessagesDone, Answer, FindContact, NameContact,
     InsertContact, FindConversation, InsertConversation, InsertMessage, StoreMedia,
     StoreMediaFailed, UpdateConversation, QueueMessage, Notify, Deliver, Send, Rename

\* Only a first contact can lose a message to the unique keys of contacts and
\* conversations: once both rows are there, a message is stored.
THEOREM KnownAlwaysStored == Spec => KnownIsStored
<1>1. InboundInv /\ [Next]_vars =>
        [\A h \in Handlers :
           handler[h].known /\ handler[h].m \in dropped' \ dropped
             => \/ handler'[h] = handler[h]
                \/ faults' # faults
                \/ handler[h].m \in Unsupported]_vars
  BY KnownStep
<1>2. QED
  BY <1>1, InboundInductive, PTL DEF Spec, KnownIsStored

\* A task comes to write a profile name only by seeing a contact without a name.
LEMMA OnlyBlankIsNamed ==
  ASSUME InboundInv, [Next]_vars, NEW g \in Handlers, handler'[g].at = "name_contact"
  PROVE  \/ handler'[g] = handler[g]
         \/ contact[Phone(g)] = "blank" /\ handler'[g].phone = Phone(g) /\ contact' = contact
<1> USE DEF rows, meta, counts, ghosts, At
<1>0. TypeOK
  BY DEF InboundInv
<1>1. ASSUME NEW h \in Handlers, FindContact(h)
      PROVE  \/ handler'[g] = handler[g]
             \/ contact[Phone(g)] = "blank" /\ handler'[g].phone = Phone(g) /\ contact' = contact
  BY <1>0, <1>1 DEF FindContact, Goto, TypeOK, Task, Blank, Phone
<1>2. ASSUME NEW h \in Handlers, NEW p \in Points \ {"name_contact"}, Goto(h, p)
      PROVE  handler'[g] = handler[g]
  BY <1>0, <1>2 DEF Goto, TypeOK, Task
<1>3. ASSUME NEW h \in Handlers, Return(h) PROVE handler'[g] = handler[g]
  BY <1>0, <1>3 DEF Return, TypeOK, Task, Idle
<1>4. ASSUME NEW h \in Handlers, Answer(h) \/ Abort(h) PROVE handler'[g] = handler[g]
  BY <1>0, <1>4 DEF Answer, Abort, TypeOK, Idle
<1>5. ASSUME NEW h \in Handlers, TakeMessage(h) PROVE handler'[g] = handler[g]
  BY <1>0, <1>5 DEF TakeMessage, TypeOK, Task
<1>6. ASSUME NEW h \in Handlers, NEW p \in Payloads, Deliver(h, p) PROVE handler'[g] = handler[g]
  BY <1>0, <1>6 DEF Deliver, TypeOK, Idle
<1>7. ASSUME NEW h \in Handlers, NEW q \in Phones, Send(h, q) PROVE handler'[g] = handler[g]
  BY <1>0, <1>7 DEF Send, TypeOK, Idle
<1>8. ASSUME NEW h \in Handlers,
             \/ Resolve(h) \/ MessagesDone(h) \/ ResolveFailed(h) \/ NameContact(h)
             \/ InsertContact(h) \/ FindConversation(h) \/ InsertConversation(h)
             \/ InsertMessage(h) \/ StoreMedia(h) \/ StoreMediaFailed(h) \/ UpdateConversation(h)
      PROVE  handler'[g] = handler[g]
  <2>1. \E p \in Points \ {"name_contact"} : Goto(h, p)
    BY <1>8 DEF Resolve, MessagesDone, ResolveFailed, NameContact, InsertContact,
       FindConversation, InsertConversation, AfterConversation, InsertMessage, AfterInsert,
       StoreMedia, StoreMediaFailed, UpdateConversation, Points, AfterRow
  <2>2. QED
    BY <1>2, <2>1
<1>9. ASSUME NEW h \in Handlers,
             \/ QueueMessage(h) \/ Notify(h) \/ DbError(h) \/ InsertContactConflict(h)
             \/ InsertConversationConflict(h) \/ InsertMessageRefused(h)
      PROVE  handler'[g] = handler[g]
  BY <1>3, <1>9 DEF QueueMessage, Notify, DbError, InsertContactConflict,
     InsertConversationConflict, InsertMessageRefused, Fail
<1>10. ASSUME UNCHANGED handler PROVE handler'[g] = handler[g]
  BY <1>10
<1>11. QED
  BY <1>1, <1>4, <1>8, <1>9, <1>10, <1>5, <1>6, <1>7 DEF Next, Step, Fault, Rename, vars

\* The name of a user's own choice is only overwritten by a step of naming.
LEMMA NamesStep ==
  ASSUME InboundInv, [Next]_vars, NEW q \in Phones, contact[q] = "user",
         ~(\E h \in Handlers : At(h, "name_contact") /\ Phone(h) = q)
  PROVE  contact'[q] = "user" /\ ~(\E h \in Handlers : At(h, "name_contact") /\ Phone(h) = q)'
<1>0. TypeOK
  BY DEF InboundInv
<1>1. contact'[q] = "user"
  <2>1. ASSUME NEW h \in Handlers, NameContact(h) PROVE contact'[q] = "user"
    BY <1>0, <2>1 DEF NameContact, TypeOK
  <2>2. ASSUME NEW h \in Handlers, InsertContact(h) PROVE contact'[q] = "user"
    BY <1>0, <2>2 DEF InsertContact, HasContact, TypeOK
  <2>3. ASSUME NEW p \in Phones, Rename(p) PROVE contact'[q] = "user"
    BY <1>0, <2>3 DEF Rename, TypeOK
  <2>4. CASE contact' = contact
    BY <2>4
  <2>5. QED
    BY <2>1, <2>2, <2>3, <2>4
       DEF rows, Next, Step, Fault, vars, Resolve, TakeMessage, MessagesDone, Answer,
       FindContact, InsertContactConflict, FindConversation, InsertConversation,
       InsertConversationConflict, InsertMessage, InsertMessageRefused, StoreMedia,
       StoreMediaFailed, UpdateConversation, QueueMessage, Notify, DbError, ResolveFailed,
       Abort, Deliver, Send
<1>2. ASSUME NEW h \in Handlers, At(h, "name_contact")', Phone(h)' = q PROVE FALSE
  BY <1>2, OnlyBlankIsNamed DEF At, Phone
<1>3. QED
  BY <1>1, <1>2

\* A user's name for a contact outlives every later message of the contact: only
\* a task that saw the contact nameless before can overwrite it.
THEOREM NamesAreKept == Spec => UserNameKept
<1>1. InboundInv /\ [Next]_vars =>
        [\A q \in Phones :
           contact[q] = "user" /\ ~(\E h \in Handlers : At(h, "name_contact") /\ Phone(h) = q)
             => contact'[q] = "user"
                /\ ~(\E h \in Handlers : At(h, "name_contact") /\ Phone(h) = q)']_vars
  BY NamesStep
<1>2. QED
  BY <1>1, InboundInductive, PTL DEF Spec, UserNameKept

=============================================================================
