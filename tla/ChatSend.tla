------------------------------ MODULE ChatSend -------------------------------
(***************************************************************************)
(* Requests to send, up to the job in the outbox, and the settings of the  *)
(* tenant that they read.                                                  *)
(*                                                                         *)
(*   src/api/routes/chat.rs                   send_upload, queue_send      *)
(*   src/application/messaging/chat_use_cases.rs                           *)
(*   src/application/tenants/settings_use_cases.rs, api/routes/settings.rs *)
(*   src/infrastructure/storage/object_storage.rs                          *)
(*                                                                         *)
(* "plain" is a text, a template or a media with a link of the client's;   *)
(* an "upload" brings its file.  The file's key holds the ids of tenant,   *)
(* contact and message, so that a file is known by its store and message,  *)
(* and its URL by a base and its message.  ensure_contact_conversation is  *)
(* in module Inbound; here it is one of the things that may fail before    *)
(* the message is inserted.  What the worker does is in OutboxWorker.      *)
(***************************************************************************)
EXTENDS Naturals, FiniteSets

CONSTANTS
  STasks,           \* tasks of the API server
  STenants,         \* tenants
  AccountIds,       \* ids of WhatsApp accounts, 1 .. n
  Numbers,          \* phone_number_id
  Buckets, Bases,   \* buckets of tenants; public_base_url, or the lack of one
  Global,           \* the storage of the configuration file: [bucket, base]
  MessageIds,       \* ids of messages, 1 .. n
  NoRow, Gone,      \* no row yet; deleted
  MaxSends, MaxChanges, MaxSendFaults     \* bounds

Config     == [bucket : Buckets, base : Bases]
Places     == {Global} \cup Config
Url        == Bases \cup {Global.base, NoRow}
AccountRow == [tenant : STenants, number : Numbers, active : BOOLEAN]
StorageRow == [place : Config, active : BOOLEAN]
MessageRow == [tenant : STenants, kind : {"plain", "upload"}, base : Url]
JobRow     == [tenant : STenants, account : AccountIds, base : Url]

ASSUME SendAssumption ==
  /\ AccountIds \in SUBSET (Nat \ {0}) /\ MessageIds \in SUBSET (Nat \ {0})
  /\ DOMAIN Global = {"bucket", "base"} /\ Global.bucket \notin Buckets
  /\ NoRow # Gone
  /\ {NoRow, Gone} \cap (AccountRow \cup StorageRow \cup MessageRow \cup JobRow) = {}

VARIABLES
  accounts,         \* tenant_whatsapp_accounts
  storage,          \* tenant_storage_configs: at most one row for a tenant
  smessage,         \* messages
  job,              \* job[m]: the row of outbox_messages for message m
  files,            \* pairs of a bucket and the message a file is of
  send,             \* the locals of a request to send
  sends, changes, sendFaults,
  answer,           \* history: answer[m], what the client was told
  leftover,         \* history: messages left by a fault
  lost,             \* history: messages whose job's insert had no answer
  inForce           \* history: inForce[t], the storages t has used

settings == <<accounts, storage, inForce>>
sendTables == <<smessage, job, files>>
sendMemory == <<answer, leftover, lost>>
svars == <<settings, sendTables, send, sends, changes, sendFaults, sendMemory>>

IdleSend == [at |-> "idle", t |-> NoRow, kind |-> "plain", place |-> Global,
             account |-> 0, m |-> 0]

SInit ==
  /\ accounts = [a \in AccountIds |-> NoRow]
  /\ storage = [t \in STenants |-> NoRow]
  /\ smessage = [m \in MessageIds |-> NoRow]
  /\ job = [m \in MessageIds |-> NoRow]
  /\ files = {}
  /\ send = [k \in STasks |-> IdleSend]
  /\ sends = 0 /\ changes = 0 /\ sendFaults = 0
  /\ answer = [m \in MessageIds |-> "none"] /\ leftover = {} /\ lost = {}
  /\ inForce = [t \in STenants |-> {}]

-----------------------------------------------------------------------------
(* The settings of a tenant.  Of what is loaded, only the columns that are *)
(* given are written, by id; rows are never deleted.                       *)

Change == changes < MaxChanges /\ changes' = changes + 1

UnchangedByAccounts ==
  UNCHANGED <<storage, inForce, sendTables, send, sends, sendFaults, sendMemory>>

\* phone_number_id is unique among all tenants.
FreeNumber(n, a) ==
  \A b \in AccountIds \ {a} : accounts[b] # NoRow => accounts[b].number # n

\* The row of the next id.
InsertAccount(t, n, active) ==
  \E a \in AccountIds :
    /\ accounts[a] = NoRow /\ \A b \in AccountIds : b < a => accounts[b] # NoRow
    /\ FreeNumber(n, a)
    /\ accounts' = [accounts EXCEPT ![a] = [tenant |-> t, number |-> n, active |-> active]]

CreateAccount ==
  /\ Change
  /\ \E t \in STenants, n \in Numbers, active \in BOOLEAN : InsertAccount(t, n, active)
  /\ UnchangedByAccounts

PatchAccount(a, n, active) ==
  /\ accounts[a] # NoRow /\ FreeNumber(n, a)
  /\ accounts' = [accounts EXCEPT ![a].number = n, ![a].active = active]

\* Only of the tenant's own; the tenant of an account never changes.
UpdateAccount ==
  /\ Change
  /\ \E a \in AccountIds, n \in Numbers, active \in BOOLEAN : PatchAccount(a, n, active)
  /\ UnchangedByAccounts

WriteStorage(t, c, active) ==
  /\ storage' = [storage EXCEPT ![t] = [place |-> c, active |-> active]]
  /\ inForce' = [inForce EXCEPT ![t] = IF active THEN @ \cup {c} ELSE @]
  /\ UNCHANGED <<accounts, sendTables, send, sends, sendFaults, sendMemory>>

\* A second configuration of a tenant is refused.
InsertStorage(t, c, active) == storage[t] = NoRow /\ WriteStorage(t, c, active)

CreateStorage ==
  /\ Change
  /\ \E t \in STenants, c \in Config, active \in BOOLEAN : InsertStorage(t, c, active)

\* Bucket, base, whether active: each if given.
PatchStorage(t, c, active) == storage[t] # NoRow /\ WriteStorage(t, c, active)

UpdateStorage ==
  /\ Change
  /\ \E t \in STenants, c \in Config, active \in BOOLEAN : PatchStorage(t, c, active)

-----------------------------------------------------------------------------
(* A request to send.                                                      *)

SAt(k, place) == send[k].at = place
SBecomes(k, record) == send' = [send EXCEPT ![k] = record]
SDone(k) == SBecomes(k, IdleSend)
Told(k, what) == answer' = [answer EXCEPT ![send[k].m] = what]
SendFault == sendFaults < MaxSendFaults /\ sendFaults' = sendFaults + 1

Exists(m) == smessage[m] \notin {NoRow, Gone}
HasJob(m) == job[m] # NoRow

\* By a user of the tenant who may send.
Begin(k, kind, place) ==
  /\ SAt(k, "idle") /\ sends < MaxSends
  /\ sends' = sends + 1
  /\ \E t \in STenants :
       SBecomes(k, [IdleSend EXCEPT !.at = place, !.t = t, !.kind = kind])
  /\ UNCHANGED <<settings, sendTables, changes, sendFaults, sendMemory>>

BeginPlain(k)  == Begin(k, "plain", "account")
BeginUpload(k) == Begin(k, "upload", "resolve")

\* resolve_for_tenant.
Resolved(t) == IF storage[t] # NoRow /\ storage[t].active THEN storage[t].place ELSE Global

ResolveStorage(k) ==
  /\ SAt(k, "resolve")
  /\ SBecomes(k, [send[k] EXCEPT !.at = "account", !.place = Resolved(send[k].t)])
  /\ UNCHANGED <<settings, sendTables, sends, changes, sendFaults, sendMemory>>

\* An error is only logged: the global storage serves.
ResolveFailed(k) ==
  /\ SAt(k, "resolve") /\ SendFault
  /\ SBecomes(k, [send[k] EXCEPT !.at = "account"])
  /\ UNCHANGED <<settings, sendTables, sends, changes, sendMemory>>

\* active_whatsapp_account_id: any one that is active.
FindAccount(k) ==
  /\ SAt(k, "account")
  /\ \E a \in AccountIds :
       /\ accounts[a] # NoRow /\ accounts[a].tenant = send[k].t /\ accounts[a].active
       /\ SBecomes(k, [send[k] EXCEPT !.at = "insert_message", !.account = a])
  /\ UNCHANGED <<settings, sendTables, sends, changes, sendFaults, sendMemory>>

\* Refused: no account, a bad multipart body, or an error before there is a
\* message.
Refuse(k) ==
  /\ SAt(k, "account") \/ SAt(k, "insert_message")
  /\ SDone(k)
  /\ UNCHANGED <<settings, sendTables, sends, changes, sendFaults, sendMemory>>

\* create_queued_message's row, of the next id.
NewMessage(k, m) ==
  /\ SAt(k, "insert_message")
  /\ smessage[m] = NoRow /\ \A i \in MessageIds : i < m => smessage[i] # NoRow
  /\ smessage' = [smessage EXCEPT ![m] =
       [tenant |-> send[k].t, kind |-> send[k].kind, base |-> NoRow]]

InsertMessage(k) ==
  /\ \E m \in MessageIds :
       /\ NewMessage(k, m)
       /\ SBecomes(k, [send[k] EXCEPT !.m = m,
            !.at = IF send[k].kind = "upload" THEN "put" ELSE "insert_job"])
  /\ UNCHANGED <<settings, job, files, sends, changes, sendFaults, sendMemory>>

\* The row is there, but no answer comes.
InsertMessageLost(k) ==
  /\ SendFault
  /\ \E m \in MessageIds : NewMessage(k, m) /\ leftover' = leftover \cup {m}
  /\ SDone(k)
  /\ UNCHANGED <<settings, job, files, sends, changes, answer, lost>>

\* send_upload after an error: the message is cleaned up.  Mutant: it is not.
FailUploadOnly(k) == Told(k, "error") /\ SDone(k)
FailUpload(k) == UNCHANGED answer /\ SBecomes(k, [send[k] EXCEPT !.at = "cleanup"])

\* put: the file goes to the storage that was resolved.
Put(k) ==
  /\ SAt(k, "put")
  /\ files' = files \cup {<<send[k].place.bucket, send[k].m>>}
  /\ SBecomes(k, [send[k] EXCEPT !.at = "update_message"])
  /\ UNCHANGED <<settings, smessage, job, sends, changes, sendFaults, sendMemory>>

\* ... or an error comes back, whether or not it was stored.
PutFailed(k) ==
  /\ SAt(k, "put") /\ SendFault
  /\ FailUpload(k)
  /\ files' \in {files, files \cup {<<send[k].place.bucket, send[k].m>>}}
  /\ UNCHANGED <<settings, smessage, job, sends, changes, leftover, lost>>

\* get_url.  Mutant: of the tenant's storage as it is now.
UrlNow(k)  == Resolved(send[k].t).base
UrlBase(k) == send[k].place.base

UpdateMessage(k) ==
  /\ SAt(k, "update_message")
  /\ smessage' = [smessage EXCEPT ![send[k].m].base = UrlBase(k)]
  /\ SBecomes(k, [send[k] EXCEPT !.at = "insert_job"])
  /\ UNCHANGED <<settings, job, files, sends, changes, sendFaults, sendMemory>>

UpdateFailed(k) ==
  /\ SAt(k, "update_message") /\ SendFault
  /\ FailUpload(k)
  /\ smessage' \in {smessage, [smessage EXCEPT ![send[k].m].base = UrlBase(k)]}
  /\ UNCHANGED <<settings, job, files, sends, changes, leftover, lost>>

\* create_outbox's row: the URL is the message's.
NewJob(k) == LET m == send[k].m IN
  job' = [job EXCEPT ![m] = [tenant |-> send[k].t, account |-> send[k].account,
                             base |-> smessage[m].base]]

InsertJob(k) ==
  /\ SAt(k, "insert_job")
  /\ NewJob(k)
  /\ Told(k, "ok")
  /\ SDone(k)
  /\ UNCHANGED <<settings, smessage, files, sends, changes, sendFaults, leftover, lost>>

\* An error: executed or not, an upload cleans up, a plain send does not.
InsertJobFailed(k) ==
  /\ SAt(k, "insert_job") /\ SendFault
  /\ \/ NewJob(k) /\ lost' = lost \cup {send[k].m}
     \/ UNCHANGED <<job, lost>>
  /\ \/ send[k].kind = "upload" /\ FailUpload(k)
     \/ send[k].kind = "plain" /\ Told(k, "error") /\ SDone(k)
  /\ UNCHANGED <<settings, smessage, files, sends, changes, leftover>>

\* cleanup_message: the foreign key keeps a message that has a job; errors
\* are ignored.
Cleanup(k) == LET m == send[k].m IN
  /\ SAt(k, "cleanup")
  /\ smessage' = IF HasJob(m) THEN smessage ELSE [smessage EXCEPT ![m] = Gone]
  /\ Told(k, "error")
  /\ SDone(k)
  /\ UNCHANGED <<settings, job, files, sends, changes, sendFaults, leftover, lost>>

CleanupFailed(k) ==
  /\ SAt(k, "cleanup") /\ SendFault
  /\ leftover' = leftover \cup {send[k].m}
  /\ Told(k, "error")
  /\ SDone(k)
  /\ UNCHANGED <<settings, sendTables, sends, changes, lost>>

\* The task is dropped: the client is told nothing.
SDrop(k) ==
  /\ ~SAt(k, "idle") /\ SendFault
  /\ leftover' = IF send[k].m = 0 THEN leftover ELSE leftover \cup {send[k].m}
  /\ SDone(k)
  /\ UNCHANGED <<settings, sendTables, sends, changes, answer, lost>>

SendStep(k) ==
  \/ BeginPlain(k) \/ BeginUpload(k) \/ ResolveStorage(k) \/ ResolveFailed(k) \/ FindAccount(k) \/ Refuse(k)
  \/ InsertMessage(k) \/ InsertMessageLost(k) \/ Put(k) \/ PutFailed(k)
  \/ UpdateMessage(k) \/ UpdateFailed(k) \/ InsertJob(k) \/ InsertJobFailed(k)
  \/ Cleanup(k) \/ CleanupFailed(k) \/ SDrop(k)

SNext ==
  \/ CreateAccount \/ UpdateAccount \/ CreateStorage \/ UpdateStorage
  \/ \E k \in STasks : SendStep(k)

SSpec == SInit /\ [][SNext]_svars

-----------------------------------------------------------------------------
(* Properties                                                              *)

\* Rows and locals have their types, numbers are used once, and a request
\* holds a message that exists and that no other request holds.
STypeOK ==
  /\ accounts \in [AccountIds -> AccountRow \cup {NoRow}]
  /\ \A a, b \in AccountIds :
       (accounts[a] # NoRow /\ accounts[b] # NoRow /\ accounts[a].number = accounts[b].number)
          => a = b
  /\ storage \in [STenants -> StorageRow \cup {NoRow}]
  /\ smessage \in [MessageIds -> MessageRow \cup {NoRow, Gone}]
  /\ job \in [MessageIds -> JobRow \cup {NoRow}]
  /\ \A k \in STasks :
       /\ send[k].place \in Places
       /\ SAt(k, "put") \/ SAt(k, "update_message") \/ SAt(k, "insert_job") \/ SAt(k, "cleanup")
            => Exists(send[k].m)
       /\ \A j \in STasks : send[k].m = send[j].m /\ send[k].m # 0 => k = j

\* A job has its message, an account of its own tenant, and, of an upload, the
\* URL of its file: file and URL come from one storage that the tenant has
\* used, or the global one, although the settings change while a request runs;
\* and no clean-up takes away the message of a job.
JobIsWhole ==
  \A m \in MessageIds : HasJob(m) =>
    /\ Exists(m) /\ smessage[m].tenant = job[m].tenant
    /\ accounts[job[m].account].tenant = job[m].tenant
    /\ smessage[m].kind = "upload" =>
         /\ job[m].base = smessage[m].base
         /\ \E place \in inForce[job[m].tenant] \cup {Global} :
              place.base = job[m].base /\ <<place.bucket, m>> \in files

InHand(m) == \E k \in STasks : send[k].m = m

\* A client is told "queued" of what has a job, and an error only of what has
\* none, unless the job's insert was never answered; of an upload that failed,
\* no message is left either; and a message without a job has a request that
\* still works on it, is a plain send's that failed, or was torn by a fault.
AnswersTrue ==
  \A m \in MessageIds :
    /\ answer[m] = "ok" => HasJob(m)
    /\ answer[m] = "error" => ~HasJob(m) \/ m \in lost
    /\ Exists(m) /\ ~HasJob(m) =>
         \/ InHand(m) \/ m \in leftover
         \/ answer[m] = "error" /\ smessage[m].kind = "plain"

=============================================================================
