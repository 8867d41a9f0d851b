------------------------------- MODULE Inbound -------------------------------
(***************************************************************************)
(* What the API writes when a customer writes first: the webhook that Meta *)
(* calls with inbound messages (handle_inbound_message and its helpers),   *)
(* the requests of the CRM's own users that create the same rows           *)
(* (ensure_contact_conversation, for queue_send and send_upload), and the  *)
(* user who renames a contact meanwhile.                                   *)
(*                                                                         *)
(* Each request is a task of the API.  One step is one statement of the    *)
(* database: there is no transaction, and the only protection is the       *)
(* unique keys of contacts, conversations and messages.wa_message_id.      *)
(* A task may be dropped at any await (the process dies, the connection is *)
(* closed).  Meta delivers again what it has no answer for.                *)
(*                                                                         *)
(* A phone stands for a phone number as one tenant knows it: every query   *)
(* is filtered by the tenant, and both unique keys start with it.          *)
(***************************************************************************)
EXTENDS Naturals, FiniteSets

CONSTANTS
  Phones,
  Messages,       \* inbound messages, known by their WhatsApp ids
  From,           \* the phone that sent each message
  MediaMessages,  \* those with an image, document, audio or video
  Unsupported,    \* those of a type that the column msg_type does not have
  Payloads,       \* the messages Meta puts into one webhook call
  Handlers,       \* tasks of the API
  NoMessage, NoPhone,
  MaxDeliveries,  \* bound on the calls Meta makes for one payload
  MaxSends,       \* bound on the requests to send
  MaxFaults       \* bound on dropped tasks, database errors and lost answers

ASSUME FromAssumption     == From \in [Messages -> Phones]
ASSUME KindsAssumption    == MediaMessages \subseteq Messages /\ Unsupported \subseteq Messages
ASSUME PayloadsAssumption == Payloads \subseteq SUBSET Messages /\ {} \notin Payloads
ASSUME NullsAssumption    == NoMessage \notin Messages /\ NoPhone \notin Phones
ASSUME DatesAssumption    == \A m \in Messages : m \notin {"none", "undated", "outbound"}
ASSUME InboundBounds ==
  MaxDeliveries \in Nat /\ MaxSends \in Nat /\ MaxFaults \in Nat

VARIABLES
  contact,     \* contacts: no row, or where the name of the row comes from
  conv,        \* conversations: no row, or what last_message_at was set by
  stored,      \* messages with a wa_message_id: no row, a row, a row with its media
  announced,   \* how often each message was sent to the chat hub
  handler,     \* where each task is, and its locals
  answered,    \* payloads that Meta has a 200 for
  deliveries,  \* calls made for each payload
  sends,       \* requests to send so far
  faults,
  dropped,     \* history: messages passed over with an error, without a row
  torn         \* history: messages whose task stopped between row and broadcast

meta     == <<answered, deliveries>>
counts   == <<sends, faults>>
ghosts   == <<dropped, torn>>
rows     == <<contact, conv, stored>>
vars     == <<contact, conv, stored, announced, handler, answered, deliveries,
              sends, faults, dropped, torn>>

ContactRow == {"none", "blank", "profile", "user"}
ConvRow    == Messages \cup {"none", "undated", "outbound"}
MessageRow == {"none", "row", "media"}

\* The points at which a task waits for the database or the storage.
AfterRow == {"store_media", "update_conversation", "notify"}
Points   == {"idle", "resolve", "next", "find_contact", "name_contact", "insert_contact",
             "find_conversation", "insert_conversation", "insert_message",
             "queue_message", "answer"} \cup AfterRow

NoPhoneYet == {"idle", "resolve", "next", "answer"}

Task == [at : Points, payload : Payloads \cup {{}}, todo : SUBSET Messages,
         m : Messages \cup {NoMessage}, phone : Phones \cup {NoPhone}, known : BOOLEAN]

Idle == [at |-> "idle", payload |-> {}, todo |-> {}, m |-> NoMessage,
         phone |-> NoPhone, known |-> FALSE]

TypeOK ==
  /\ contact \in [Phones -> ContactRow]
  /\ conv \in [Phones -> ConvRow]
  /\ stored \in [Messages -> MessageRow]
  /\ announced \in [Messages -> Nat]
  /\ handler \in [Handlers -> Task]
  /\ \A h \in Handlers : handler[h].at \notin NoPhoneYet => handler[h].phone \in Phones
  /\ answered \in SUBSET Payloads
  /\ deliveries \in [Payloads -> Nat]
  /\ sends \in Nat /\ faults \in Nat
  /\ dropped \in SUBSET Messages /\ torn \in SUBSET Messages

Init ==
  /\ contact = [q \in Phones |-> "none"]
  /\ conv = [q \in Phones |-> "none"]
  /\ stored = [m \in Messages |-> "none"]
  /\ announced = [m \in Messages |-> 0]
  /\ handler = [h \in Handlers |-> Idle]
  /\ answered = {}
  /\ deliveries = [p \in Payloads |-> 0]
  /\ sends = 0 /\ faults = 0
  /\ dropped = {} /\ torn = {}

At(h, point)    == handler[h].at = point
Goto(h, point)  == handler' = [handler EXCEPT ![h].at = point]
Phone(h)        == handler[h].phone
FromWebhook(h)  == handler[h].payload # {}
HasContact(q)   == contact[q] # "none"
HasConv(q)      == conv[q] # "none"
Dated(q)        == conv[q] \notin {"none", "undated"}

(***************************************************************************)
(* A webhook call: the messages of the payload one after the other, and an *)
(* answer of 200 whatever became of them.                                  *)
(***************************************************************************)
\* Meta calls, for the first time or again; the earlier call may still run.
Deliver(h, p) ==
  /\ At(h, "idle")
  /\ p \notin answered
  /\ deliveries[p] < MaxDeliveries
  /\ deliveries' = [deliveries EXCEPT ![p] = @ + 1]
  /\ handler' = [handler EXCEPT ![h] = [Idle EXCEPT !.at = "resolve", !.payload = p, !.todo = p]]
  /\ UNCHANGED <<rows, announced, answered, counts, ghosts>>

\* Tenant and account are active, belong together and could be read.
Resolve(h) ==
  /\ At(h, "resolve")
  /\ Goto(h, "next")
  /\ UNCHANGED <<rows, announced, meta, counts, ghosts>>

TakeMessage(h) ==
  /\ At(h, "next")
  /\ \E m \in handler[h].todo :
       handler' = [handler EXCEPT ![h].at = "find_contact", ![h].todo = @ \ {m}, ![h].m = m,
                     ![h].phone = From[m],
                     ![h].known = HasContact(From[m]) /\ HasConv(From[m])]
  /\ UNCHANGED <<rows, announced, meta, counts, ghosts>>

MessagesDone(h) ==
  /\ At(h, "next")
  /\ handler[h].todo = {}
  /\ Goto(h, "answer")
  /\ UNCHANGED <<rows, announced, meta, counts, ghosts>>

Answer(h) ==
  /\ At(h, "answer")
  /\ answered' = answered \cup {handler[h].payload}
  /\ handler' = [handler EXCEPT ![h] = Idle]
  /\ UNCHANGED <<rows, announced, deliveries, counts, ghosts>>

\* What a task does when it is through with a message, or with its request.
Return(h) ==
  handler' = [handler EXCEPT ![h] =
    IF FromWebhook(h) THEN [@ EXCEPT !.at = "next", !.m = NoMessage, !.phone = NoPhone,
                                     !.known = FALSE]
    ELSE Idle]

\* A message passed over without a row, now that m's handling has ended.
Drop(h) ==
  dropped' = IF FromWebhook(h) /\ stored[handler[h].m] = "none"
             THEN dropped \cup {handler[h].m} ELSE dropped

\* Mutant: the first error ends the whole call.
FailCall(h) ==
  /\ Drop(h)
  /\ handler' = [handler EXCEPT ![h] =
       IF FromWebhook(h) THEN [@ EXCEPT !.at = "answer", !.m = NoMessage, !.phone = NoPhone,
                                        !.known = FALSE]
       ELSE Idle]

\* An error returned by handle_inbound_message or by ensure_contact_conversation:
\* the webhook logs it and goes on; the user gets an error and may try again.
Fail(h) == Drop(h) /\ Return(h)

(***************************************************************************)
(* The CRM's user: a request to send creates the same two rows.            *)
(***************************************************************************)
Send(h, q) ==
  /\ At(h, "idle")
  /\ sends < MaxSends
  /\ sends' = sends + 1
  /\ handler' = [handler EXCEPT ![h] = [Idle EXCEPT !.at = "find_contact", !.phone = q,
                                          !.known = HasContact(q) /\ HasConv(q)]]
  /\ UNCHANGED <<rows, announced, meta, faults, ghosts>>

\* create_queued_message: the message, then last_message_at of its conversation
\* (an error of the latter is ignored, as after a fault here).
QueueMessage(h) ==
  /\ At(h, "queue_message")
  /\ conv' = [conv EXCEPT ![Phone(h)] = "outbound"]
  /\ Return(h)
  /\ UNCHANGED <<contact, stored, announced, meta, counts, ghosts>>

\* update_contact writes the columns the user changed, here the name.
Rename(q) ==
  /\ HasContact(q)
  /\ contact' = [contact EXCEPT ![q] = "user"]
  /\ UNCHANGED <<conv, stored, announced, handler, meta, counts, ghosts>>

(***************************************************************************)
(* upsert_contact and the first half of ensure_contact_conversation.       *)
(***************************************************************************)
Blank(q) == contact[q] = "blank"

\* Mutant: the name of the profile always wins.
FindContactRenaming(h) ==
  /\ At(h, "find_contact")
  /\ \/ HasContact(Phone(h)) /\ FromWebhook(h) /\ Goto(h, "name_contact")
     \/ HasContact(Phone(h)) /\ Goto(h, "find_conversation")
     \/ ~HasContact(Phone(h)) /\ Goto(h, "insert_contact")
  /\ UNCHANGED <<rows, announced, meta, counts, ghosts>>

\* The webhook names a contact without a name, if the call carries a profile.
FindContact(h) ==
  /\ At(h, "find_contact")
  /\ \/ HasContact(Phone(h)) /\ Blank(Phone(h)) /\ FromWebhook(h) /\ Goto(h, "name_contact")
     \/ HasContact(Phone(h)) /\ Goto(h, "find_conversation")
     \/ ~HasContact(Phone(h)) /\ Goto(h, "insert_contact")
  /\ UNCHANGED <<rows, announced, meta, counts, ghosts>>

\* UPDATE by id: the name may be the user's by now.
NameContact(h) ==
  /\ At(h, "name_contact")
  /\ contact' = [contact EXCEPT ![Phone(h)] = "profile"]
  /\ Goto(h, "find_conversation")
  /\ UNCHANGED <<conv, stored, announced, meta, counts, ghosts>>

InsertContact(h) ==
  /\ At(h, "insert_contact")
  /\ ~HasContact(Phone(h))
  /\ \E name \in IF FromWebhook(h) THEN {"blank", "profile"} ELSE {"blank"} :
       contact' = [contact EXCEPT ![Phone(h)] = name]
  /\ Goto(h, "find_conversation")
  /\ UNCHANGED <<conv, stored, announced, meta, counts, ghosts>>

\* uq_contacts_tenant_phone: another task inserted it since the look-up.
InsertContactConflict(h) ==
  /\ At(h, "insert_contact")
  /\ HasContact(Phone(h))
  /\ Fail(h)
  /\ UNCHANGED <<rows, announced, meta, counts, torn>>

(***************************************************************************)
(* find_or_create_conversation and the second half of                      *)
(* ensure_contact_conversation.                                            *)
(***************************************************************************)
\* Mutant: both paths end in the same code.
AfterConversationShared(h) ==
  IF FromWebhook(h) THEN "insert_message" ELSE "update_conversation"

AfterConversation(h) == IF FromWebhook(h) THEN "insert_message" ELSE "queue_message"

\* Mutant: every message opens a conversation.
FindConversationNever(h) ==
  /\ At(h, "find_conversation")
  /\ Goto(h, "insert_conversation")
  /\ UNCHANGED <<rows, announced, meta, counts, ghosts>>

FindConversation(h) ==
  /\ At(h, "find_conversation")
  /\ Goto(h, IF HasConv(Phone(h)) THEN AfterConversation(h) ELSE "insert_conversation")
  /\ UNCHANGED <<rows, announced, meta, counts, ghosts>>

\* Mutant: the conversation is dated when it is made, before its message is.
InsertConversationDated(h) ==
  /\ At(h, "insert_conversation")
  /\ ~HasConv(Phone(h))
  /\ conv' = [conv EXCEPT ![Phone(h)] = IF FromWebhook(h) THEN handler[h].m ELSE "outbound"]
  /\ Goto(h, AfterConversation(h))
  /\ UNCHANGED <<contact, stored, announced, meta, counts, ghosts>>

InsertConversation(h) ==
  /\ At(h, "insert_conversation")
  /\ ~HasConv(Phone(h))
  /\ conv' = [conv EXCEPT ![Phone(h)] = "undated"]
  /\ Goto(h, AfterConversation(h))
  /\ UNCHANGED <<contact, stored, announced, meta, counts, ghosts>>

\* uq_conversations_tenant_contact or uq_conversations_tenant_phone.
InsertConversationConflict(h) ==
  /\ At(h, "insert_conversation")
  /\ HasConv(Phone(h))
  /\ Fail(h)
  /\ UNCHANGED <<rows, announced, meta, counts, torn>>

(***************************************************************************)
(* handle_inbound_message from the insert on.                              *)
(***************************************************************************)
AfterInsert(m) == IF m \in MediaMessages THEN "store_media" ELSE "update_conversation"

\* Mutant: a duplicate is found instead of refused.
InsertMessageOrFind(h) == LET m == handler[h].m IN
  /\ At(h, "insert_message")
  /\ m \notin Unsupported
  /\ stored' = [stored EXCEPT ![m] = IF @ = "none" THEN "row" ELSE @]
  /\ Goto(h, AfterInsert(m))
  /\ UNCHANGED <<contact, conv, announced, meta, counts, ghosts>>

InsertMessage(h) == LET m == handler[h].m IN
  /\ At(h, "insert_message")
  /\ stored[m] = "none"
  /\ m \notin Unsupported
  /\ stored' = [stored EXCEPT ![m] = "row"]
  /\ Goto(h, AfterInsert(m))
  /\ UNCHANGED <<contact, conv, announced, meta, counts, ghosts>>

\* The unique key of wa_message_id, or the ENUM of msg_type, refuses the row.
InsertMessageRefused(h) ==
  /\ At(h, "insert_message")
  /\ stored[handler[h].m] # "none" \/ handler[h].m \in Unsupported
  /\ Fail(h)
  /\ UNCHANGED <<rows, announced, meta, counts, torn>>

\* Downloaded from Meta, put into the storage, and the row updated.
StoreMedia(h) ==
  /\ At(h, "store_media")
  /\ stored' = [stored EXCEPT ![handler[h].m] = "media"]
  /\ Goto(h, "update_conversation")
  /\ UNCHANGED <<contact, conv, announced, meta, counts, ghosts>>

\* Any of the three fails: the message is kept without its media.
StoreMediaFailed(h) ==
  /\ At(h, "store_media")
  /\ Goto(h, "update_conversation")
  /\ UNCHANGED <<rows, announced, meta, counts, ghosts>>

\* Mutants: the date is not written; the broadcast comes only with the first
\* message of a conversation.
UpdateConversationUndated(h) ==
  /\ At(h, "update_conversation")
  /\ Goto(h, "notify")
  /\ UNCHANGED <<rows, announced, meta, counts, ghosts>>

UpdateConversationQuietly(h) ==
  /\ At(h, "update_conversation")
  /\ conv' = [conv EXCEPT ![Phone(h)] = handler[h].m]
  /\ IF conv[Phone(h)] = "undated" THEN Goto(h, "notify") ELSE Return(h)
  /\ UNCHANGED <<contact, stored, announced, meta, counts, ghosts>>

UpdateConversation(h) ==
  /\ At(h, "update_conversation")
  /\ conv' = [conv EXCEPT ![Phone(h)] = handler[h].m]
  /\ Goto(h, "notify")
  /\ UNCHANGED <<contact, stored, announced, meta, counts, ghosts>>

Notify(h) ==
  /\ At(h, "notify")
  /\ announced' = [announced EXCEPT ![handler[h].m] = @ + 1]
  /\ Return(h)
  /\ UNCHANGED <<rows, meta, counts, ghosts>>

(***************************************************************************)
(* Faults.                                                                 *)
(***************************************************************************)
TakeFault == faults < MaxFaults /\ faults' = faults + 1

\* A message whose row is there will not be announced by anyone after this.
Tear(h) == torn' = IF handler[h].at \in AfterRow THEN torn \cup {handler[h].m} ELSE torn

\* The statement a task waits for fails.  (storage and download: StoreMediaFailed)
DbError(h) ==
  /\ handler[h].at \in Points \ {"idle", "resolve", "next", "answer", "store_media", "notify"}
  /\ TakeFault
  /\ Tear(h)
  /\ Fail(h)
  /\ UNCHANGED <<rows, announced, meta, sends>>

\* The tenant or its account is inactive or cannot be read: the payload is
\* skipped and answered all the same.
ResolveFailed(h) ==
  /\ At(h, "resolve")
  /\ TakeFault
  /\ dropped' = dropped \cup {m \in handler[h].todo : stored[m] = "none"}
  /\ Goto(h, "answer")
  /\ UNCHANGED <<rows, announced, meta, sends, torn>>

\* The task is dropped: the process dies or the connection is closed.
Abort(h) ==
  /\ ~At(h, "idle")
  /\ TakeFault
  /\ Tear(h)
  /\ handler' = [handler EXCEPT ![h] = Idle]
  /\ UNCHANGED <<rows, announced, meta, sends, dropped>>

Step(h) ==
  \/ Resolve(h) \/ TakeMessage(h) \/ MessagesDone(h) \/ Answer(h) \/ QueueMessage(h)
  \/ FindContact(h) \/ NameContact(h) \/ InsertContact(h) \/ InsertContactConflict(h)
  \/ FindConversation(h) \/ InsertConversation(h) \/ InsertConversationConflict(h)
  \/ InsertMessage(h) \/ InsertMessageRefused(h) \/ StoreMedia(h) \/ StoreMediaFailed(h)
  \/ UpdateConversation(h) \/ Notify(h)

Fault(h) == DbError(h) \/ ResolveFailed(h) \/ Abort(h)

Next ==
  \/ \E h \in Handlers : Step(h) \/ Fault(h)
  \/ \E h \in Handlers, p \in Payloads : Deliver(h, p)
  \/ \E h \in Handlers, q \in Phones : Send(h, q)
  \/ \E q \in Phones : Rename(q)

Spec == Init /\ [][Next]_vars

\* Every task runs on, and Meta calls again for what it has no answer for.
LiveSpec ==
  /\ Spec
  /\ \A h \in Handlers : WF_vars(Step(h))
  /\ \A p \in Payloads : WF_vars(\E h \in Handlers : Deliver(h, p))

-----------------------------------------------------------------------------
(***************************************************************************)
(* Properties.                                                             *)
(***************************************************************************)
\* Some task holds m between the insert of its row and its broadcast.
InHand(m) == \E h \in Handlers : handler[h].at \in AfterRow /\ handler[h].m = m

\* Only the task that inserted the row goes on with the message: no two tasks
\* have it in hand, and a message announced is in nobody's hands any more.
\* Redelivered and concurrent calls therefore announce it at most once.
AnnouncedOnce ==
  \A m \in Messages :
    /\ announced[m] <= 1
    /\ InHand(m) => announced[m] = 0
    /\ \A g, h \in Handlers :
         handler[g].at \in AfterRow /\ handler[h].at \in AfterRow
           /\ handler[g].m = m /\ handler[h].m = m => g = h

\* Whoever reacts to a broadcast finds the message, its contact and a dated
\* conversation in the database.
AnnouncedIsThere ==
  \A m \in Messages : announced[m] > 0 =>
    /\ stored[m] # "none"
    /\ HasContact(From[m])
    /\ Dated(From[m])

\* A message in the database is announced, sooner or later, unless its task
\* stopped in between: then no redelivery makes up for it.
StoredIsAnnounced ==
  \A m \in Messages : stored[m] # "none" => announced[m] = 1 \/ InHand(m) \/ m \in torn

\* A conversation always has its contact, and is dated by a message in the database.
ConversationHasContact ==
  \A q \in Phones :
    /\ HasConv(q) => HasContact(q)
    /\ conv[q] \in Messages => stored[conv[q]] # "none" /\ From[conv[q]] = q

\* Only a first contact can lose a message to the unique keys: a message from a
\* phone whose contact and conversation were there when its handling began is
\* stored, whatever the other tasks do, unless a fault or its type prevents it.
KnownIsStored ==
  [][\A h \in Handlers :
       handler[h].known /\ handler[h].m \in dropped' \ dropped
         => \/ handler'[h] = handler[h]
            \/ faults' # faults
            \/ handler[h].m \in Unsupported]_vars

\* A name given by a user is safe from the webhook, except from a task that saw
\* the contact without a name before and has yet to write.
UserNameKept ==
  [][\A q \in Phones :
       contact[q] = "user" /\ ~(\E h \in Handlers : At(h, "name_contact") /\ Phone(h) = q)
         => contact'[q] = "user" /\ ~(\E h \in Handlers : At(h, "name_contact") /\ Phone(h) = q)']_vars

\* Every call Meta makes is answered in the end, and then each of its messages
\* is stored or was passed over with an error in the log: a task that dies
\* loses none, because Meta calls again.
EventuallyHandled ==
  \A p \in Payloads : deliveries[p] > 0 ~>
    p \in answered /\ \A m \in p : stored[m] # "none" \/ m \in dropped

-----------------------------------------------------------------------------
(***************************************************************************)
(* The inductive invariant: what a task may rely on at each point, though  *)
(* it holds no lock.  Rows only grow, so that what it has seen stays true. *)
(***************************************************************************)
ContactFound == {"name_contact", "find_conversation", "insert_conversation"}
ConvFound    == {"insert_message", "queue_message"} \cup AfterRow

LocalInv(h) ==
  /\ handler[h].at \in ContactFound \cup ConvFound => HasContact(Phone(h))
  /\ handler[h].at \in ConvFound => HasConv(Phone(h))
  /\ At(h, "notify") => Dated(Phone(h))
  /\ handler[h].at \in AfterRow => stored[handler[h].m] # "none"
  /\ handler[h].at \in AfterRow \cup {"insert_message", "name_contact", "resolve", "next", "answer"}
       => FromWebhook(h)
  /\ FromWebhook(h) /\ handler[h].at \notin NoPhoneYet =>
       handler[h].m \in Messages /\ Phone(h) = From[handler[h].m]
  /\ handler[h].known =>
       /\ handler[h].at \notin NoPhoneYet \cup {"insert_contact", "insert_conversation"}
       /\ HasContact(Phone(h)) /\ HasConv(Phone(h))

TaskInv == \A h \in Handlers : LocalInv(h)

InboundInv ==
  /\ TypeOK
  /\ TaskInv
  /\ AnnouncedOnce
  /\ AnnouncedIsThere
  /\ StoredIsAnnounced
  /\ ConversationHasContact

=============================================================================
