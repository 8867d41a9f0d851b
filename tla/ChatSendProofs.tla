--------------------------- MODULE ChatSendProofs ----------------------------
(***************************************************************************)
(* Theorems about ChatSend: types, and the two promises of a send, that    *)
(* its job is whole and that its answer is true.                           *)
(*                                                                         *)
(* No lock protects a request from the others or from the settings.  What  *)
(* it has read stays true because accounts keep their tenants, storages    *)
(* that were used stay used and files stay (Grown), and what it writes is  *)
(* its own: a message is in the hands of one request (HandsInv), and the   *)
(* others touch other messages (Only).                                     *)
(***************************************************************************)
EXTENDS ChatSend, TLAPS

Live == {"put", "update_message", "insert_job", "cleanup"}

SendRow ==
  [at : {"idle", "resolve", "account", "insert_message"} \cup Live,
   t : STenants \cup {NoRow}, kind : {"plain", "upload"}, place : Places,
   account : AccountIds \cup {0}, m : MessageIds \cup {0}]

SettingsInv ==
  /\ accounts \in [AccountIds -> AccountRow \cup {NoRow}]
  /\ storage \in [STenants -> StorageRow \cup {NoRow}]
  /\ inForce \in [STenants -> SUBSET Config]
  /\ \A a, b \in AccountIds :
       (accounts[a] # NoRow /\ accounts[b] # NoRow /\ accounts[a].number = accounts[b].number)
          => a = b
  /\ \A t \in STenants : (storage[t] # NoRow /\ storage[t].active) =>
       storage[t].place \in inForce[t]

TablesInv ==
  /\ smessage \in [MessageIds -> MessageRow \cup {NoRow, Gone}]
  /\ job \in [MessageIds -> JobRow \cup {NoRow}]
  /\ answer \in [MessageIds -> {"none", "ok", "error"}]

OwnAccount(a, t) == a \in AccountIds /\ accounts[a] # NoRow /\ accounts[a].tenant = t

\* What a request knows of the rows.
SendOK(k) ==
  /\ send[k].at \notin Live => send[k].m = 0
  /\ send[k].at \in Live =>
       /\ send[k].m \in MessageIds /\ Exists(send[k].m)
       /\ smessage[send[k].m].tenant = send[k].t /\ smessage[send[k].m].kind = send[k].kind
       /\ answer[send[k].m] = "none"
  /\ send[k].at # "idle" =>
       send[k].t \in STenants /\ send[k].place \in inForce[send[k].t] \cup {Global}
  /\ send[k].at \in {"insert_message"} \cup Live => OwnAccount(send[k].account, send[k].t)
  /\ send[k].at \in {"put", "update_message", "cleanup"} => send[k].kind = "upload"
  /\ send[k].at \in {"put", "update_message", "insert_job"} => ~HasJob(send[k].m)
  /\ (send[k].at \in {"update_message", "insert_job"} /\ send[k].kind = "upload") =>
       <<send[k].place.bucket, send[k].m>> \in files
  /\ (send[k].at = "insert_job" /\ send[k].kind = "upload") =>
       smessage[send[k].m].base = send[k].place.base
  /\ (send[k].at = "cleanup" /\ HasJob(send[k].m)) => send[k].m \in lost

HandsInv == \A j, k \in STasks : (send[j].m = send[k].m /\ send[j].m # 0) => j = k

SendsInv == send \in [STasks -> SendRow] /\ HandsInv /\ \A k \in STasks : SendOK(k)

WholeJob(m) ==
  /\ Exists(m) /\ smessage[m].tenant = job[m].tenant
  /\ OwnAccount(job[m].account, job[m].tenant)
  /\ smessage[m].kind = "upload" =>
       /\ job[m].base = smessage[m].base
       /\ \E place \in inForce[job[m].tenant] \cup {Global} :
            place.base = job[m].base /\ <<place.bucket, m>> \in files

Accounted(m) ==
  \/ InHand(m) \/ m \in leftover
  \/ answer[m] = "error" /\ smessage[m].kind = "plain"

MessageOK(m) ==
  /\ HasJob(m) => WholeJob(m)
  /\ answer[m] = "ok" => HasJob(m)
  /\ (answer[m] = "error" /\ HasJob(m)) => m \in lost
  /\ (Exists(m) /\ ~HasJob(m)) => Accounted(m)
  /\ smessage[m] = NoRow => (answer[m] = "none" /\ ~HasJob(m))

MessagesInv == \A m \in MessageIds : MessageOK(m)

SInv == SettingsInv /\ TablesInv /\ SendsInv /\ MessagesInv

-----------------------------------------------------------------------------
USE SendAssumption

LEMMA RowsAreNoMarks ==
  \A r \in AccountRow \cup StorageRow \cup MessageRow \cup JobRow : r # NoRow /\ r # Gone
OBVIOUS

LEMMA IdleSendType == IdleSend \in SendRow /\ IdleSend.at = "idle" /\ IdleSend.m = 0
BY DEF IdleSend, SendRow, Places

LEMMA PlaceBase == \A place \in Places : place.base \in Url
BY DEF Places, Config, Url

\* What no step takes back.
Grown ==
  /\ \A a \in AccountIds : accounts[a] # NoRow =>
       accounts'[a] # NoRow /\ accounts'[a].tenant = accounts[a].tenant
  /\ \A t \in STenants : inForce[t] \subseteq inForce'[t]
  /\ files \subseteq files' /\ lost \subseteq lost' /\ leftover \subseteq leftover'

SameRows(m) == smessage'[m] = smessage[m] /\ job'[m] = job[m] /\ answer'[m] = answer[m]

\* A request that nobody touches keeps what it knows.
LEMMA SendKept ==
  ASSUME NEW k \in STasks, SendOK(k), Grown, send'[k] = send[k],
         send[k].m \in MessageIds => SameRows(send[k].m)
  PROVE  SendOK(k)'
<1>1. send[k].at \notin Live => SendOK(k)'
  <2>1. OwnAccount(send[k].account, send[k].t) => OwnAccount(send[k].account, send[k].t)'
    BY DEF OwnAccount, Grown
  <2>2. QED
    BY <2>1 DEF SendOK, Grown, Live
<1>2. CASE send[k].at \in Live
  <2>1. send[k].m \in MessageIds /\ SameRows(send[k].m)
    BY <1>2 DEF SendOK
  <2>2. OwnAccount(send[k].account, send[k].t) => OwnAccount(send[k].account, send[k].t)'
    BY DEF OwnAccount, Grown
  <2>3. Exists(send[k].m)' = Exists(send[k].m) /\ HasJob(send[k].m)' = HasJob(send[k].m)
    BY <2>1 DEF SameRows, Exists, HasJob
  <2>4. QED
    BY <1>2, <2>1, <2>2, <2>3 DEF SendOK, Grown, Live, SameRows
<1>3. QED
  BY <1>1, <1>2

\* A job that is whole stays so when its row and its message stay.
LEMMA WholeJobKept ==
  ASSUME TablesInv, NEW m \in MessageIds, HasJob(m), WholeJob(m), Grown,
         smessage'[m] = smessage[m], job'[m] = job[m]
  PROVE  WholeJob(m)'
<1>1. job[m] \in JobRow
  BY DEF HasJob, TablesInv
<1>2. job[m].tenant \in STenants
  BY <1>1 DEF JobRow
<1>3. OwnAccount(job[m].account, job[m].tenant)'
  BY DEF WholeJob, OwnAccount, Grown
<1>4. inForce[job[m].tenant] \subseteq inForce'[job[m].tenant]
  BY <1>2 DEF Grown
<1>5. QED
  BY <1>3, <1>4 DEF WholeJob, Exists, Grown

\* A message that nobody touches stays good as long as it stays in a hand.
LEMMA MessageKept ==
  ASSUME TablesInv, NEW m \in MessageIds, MessageOK(m), Grown, SameRows(m),
         InHand(m) => InHand(m)'
  PROVE  MessageOK(m)'
<1>1. HasJob(m) = HasJob(m)' /\ Exists(m) = Exists(m)'
  BY DEF HasJob, Exists, SameRows
<1>2. HasJob(m) => WholeJob(m)'
  BY WholeJobKept DEF MessageOK, SameRows
<1>3. Accounted(m) => Accounted(m)'
  BY DEF Accounted, SameRows, Grown
<1>4. QED
  BY <1>1, <1>2, <1>3 DEF MessageOK, SameRows, Grown

-----------------------------------------------------------------------------
(* The settings.                                                           *)

\* They leave requests, messages and jobs alone.
LEMMA SettingsKeep ==
  ASSUME SInv, SettingsInv', Grown, UNCHANGED <<sendTables, send, answer>>
  PROVE  SInv'
<1>1. TablesInv'
  BY DEF SInv, TablesInv, sendTables
<1>2. \A m \in MessageIds : SameRows(m)
  BY DEF SameRows, sendTables
<1>3. SendsInv'
  <2>1. \A k \in STasks : SendOK(k)'
    BY <1>2, SendKept DEF SInv, SendsInv
  <2>2. QED
    BY <2>1 DEF SInv, SendsInv, HandsInv
<1>4. \A m \in MessageIds : InHand(m) => InHand(m)'
  BY DEF InHand
<1>5. MessagesInv'
  BY <1>2, <1>4, MessageKept DEF SInv, MessagesInv
<1>6. QED
  BY <1>1, <1>3, <1>5 DEF SInv

\* The row of an account is written with a number nobody has.
LEMMA WriteAccount ==
  ASSUME SInv, NEW a \in AccountIds, NEW r \in AccountRow, FreeNumber(r.number, a),
         accounts' = [accounts EXCEPT ![a] = r],
         accounts[a] # NoRow => r.tenant = accounts[a].tenant,
         UnchangedByAccounts
  PROVE  SInv'
<1>1. accounts \in [AccountIds -> AccountRow \cup {NoRow}]
  BY DEF SInv, SettingsInv
<1>2. accounts'[a] = r /\ r # NoRow /\ \A b \in AccountIds \ {a} : accounts'[b] = accounts[b]
  BY <1>1, RowsAreNoMarks
<1>3. accounts' \in [AccountIds -> AccountRow \cup {NoRow}]
  BY <1>1
<1>4. ASSUME NEW b \in AccountIds, NEW c \in AccountIds, accounts'[b] # NoRow,
             accounts'[c] # NoRow, accounts'[b].number = accounts'[c].number
      PROVE  b = c
  <2>1. CASE b = a \/ c = a
    BY <1>2, <1>4, <2>1 DEF FreeNumber
  <2>2. CASE b # a /\ c # a
    BY <1>2, <1>4, <2>2 DEF SInv, SettingsInv
  <2>3. QED
    BY <2>1, <2>2
<1>5. SettingsInv'
  BY <1>3, <1>4 DEF SInv, SettingsInv, UnchangedByAccounts
<1>6. Grown
  BY <1>2 DEF Grown, UnchangedByAccounts, sendTables, sendMemory
<1>7. QED
  BY <1>5, <1>6, SettingsKeep DEF UnchangedByAccounts, sendMemory

LEMMA StorageKeeps ==
  ASSUME SInv, NEW t \in STenants, NEW c \in Config, NEW active \in BOOLEAN,
         WriteStorage(t, c, active)
  PROVE  SInv'
<1>1. [place |-> c, active |-> active] \in StorageRow
  BY DEF StorageRow
<1>2. storage' \in [STenants -> StorageRow \cup {NoRow}]
  BY <1>1 DEF WriteStorage, SInv, SettingsInv
<1>3. inForce \in [STenants -> SUBSET Config]
  BY DEF SInv, SettingsInv
<1>4. inForce' = [inForce EXCEPT ![t] = IF active THEN inForce[t] \cup {c} ELSE inForce[t]]
  BY DEF WriteStorage
<1>5. inForce' \in [STenants -> SUBSET Config]
  BY <1>3, <1>4
<1>6. \A u \in STenants : inForce[u] \subseteq inForce'[u]
  BY <1>3, <1>4
<1>7. ASSUME NEW u \in STenants, storage'[u] # NoRow, storage'[u].active
      PROVE  storage'[u].place \in inForce'[u]
  <2>1. storage \in [STenants -> StorageRow \cup {NoRow}]
    BY DEF SInv, SettingsInv
  <2>2. CASE u = t
    <3>1. storage'[u] = [place |-> c, active |-> active]
      BY <2>1, <2>2 DEF WriteStorage
    <3>2. active = TRUE
      BY <1>7, <3>1
    <3>3. QED
      BY <1>3, <1>4, <2>2, <3>1, <3>2
  <2>3. CASE u # t
    <3>1. storage'[u] = storage[u]
      BY <2>1, <2>3 DEF WriteStorage
    <3>2. QED
      BY <1>6, <1>7, <3>1 DEF SInv, SettingsInv
  <2>4. QED
    BY <2>2, <2>3
<1>8. SettingsInv'
  BY <1>2, <1>5, <1>7 DEF SInv, SettingsInv, WriteStorage
<1>9. Grown
  BY <1>6 DEF Grown, WriteStorage, sendTables, sendMemory
<1>10. QED
  BY <1>8, <1>9, SettingsKeep DEF WriteStorage, sendMemory

LEMMA SettingsSteps ==
  ASSUME SInv, CreateAccount \/ UpdateAccount \/ CreateStorage \/ UpdateStorage
  PROVE  SInv'
<1>1. CASE CreateAccount
  <2>1. PICK t \in STenants, n \in Numbers, active \in BOOLEAN : InsertAccount(t, n, active)
    BY <1>1 DEF CreateAccount
  <2>2. PICK a \in AccountIds :
          /\ accounts[a] = NoRow /\ FreeNumber(n, a)
          /\ accounts' = [accounts EXCEPT ![a] = [tenant |-> t, number |-> n, active |-> active]]
    BY <2>1 DEF InsertAccount
  <2>3. [tenant |-> t, number |-> n, active |-> active] \in AccountRow
    BY DEF AccountRow
  <2>4. UnchangedByAccounts
    BY <1>1 DEF CreateAccount
  <2>5. QED
    BY <2>2, <2>3, <2>4, WriteAccount
<1>2. CASE UpdateAccount
  <2>1. PICK a \in AccountIds, n \in Numbers, active \in BOOLEAN : PatchAccount(a, n, active)
    BY <1>2 DEF UpdateAccount
  <2>2. accounts[a] \in AccountRow
    BY <2>1 DEF PatchAccount, SInv, SettingsInv
  <2> DEFINE r == [accounts[a] EXCEPT !.number = n, !.active = active]
  <2>3. r \in AccountRow /\ r.number = n /\ r.tenant = accounts[a].tenant
    BY <2>2 DEF AccountRow
  <2>4. accounts' = [accounts EXCEPT ![a] = r]
    BY <2>1, <2>2 DEF PatchAccount, SInv, SettingsInv
  <2>5. FreeNumber(n, a)
    BY <2>1 DEF PatchAccount
  <2>6. UnchangedByAccounts
    BY <1>2 DEF UpdateAccount
  <2> HIDE DEF r
  <2>7. QED
    BY <2>3, <2>4, <2>5, <2>6, WriteAccount
<1>3. CASE CreateStorage
  BY <1>3, StorageKeeps DEF CreateStorage, InsertStorage
<1>4. CASE UpdateStorage
  BY <1>4, StorageKeeps DEF UpdateStorage, PatchStorage
<1>5. QED
  BY <1>1, <1>2, <1>3, <1>4

-----------------------------------------------------------------------------
(* Requests.  A step of k replaces its locals by r and touches one message *)
(* x at most: the one in its hand or, when it has none, a new one.         *)

Touches(k, x) ==
  IF send[k].m = 0 THEN x = 0 \/ (x \in MessageIds /\ smessage[x] = NoRow)
  ELSE x = send[k].m

Only(x) == \A m \in MessageIds : m # x => SameRows(m)

LEMMA NewSend ==
  ASSUME SInv, NEW k \in STasks, NEW r \in SendRow, send' = [send EXCEPT ![k] = r]
  PROVE  /\ send' \in [STasks -> SendRow] /\ send'[k] = r
         /\ \A j \in STasks : j # k => send'[j] = send[j]
BY DEF SInv, SendsInv

\* No other request has the message that k touches.
LEMMA OthersElsewhere ==
  ASSUME SInv, NEW k \in STasks, NEW j \in STasks, j # k,
         NEW x \in MessageIds, Touches(k, x)
  PROVE  send[j].m # x
<1>1. CASE send[k].m = 0
  <2>1. smessage[x] = NoRow /\ x # 0
    BY <1>1 DEF Touches
  <2>2. SendOK(j)
    BY DEF SInv, SendsInv
  <2>3. QED
    BY <2>1, <2>2 DEF SendOK, Exists
<1>2. CASE send[k].m # 0
  BY <1>2 DEF Touches, SInv, SendsInv, HandsInv
<1>3. QED
  BY <1>1, <1>2

LEMMA SendingKeeps ==
  ASSUME SInv, NEW k \in STasks, NEW r \in SendRow, NEW x \in MessageIds \cup {0},
         send' = [send EXCEPT ![k] = r], r.m \in {0, x}, Touches(k, x), Only(x),
         UNCHANGED settings, Grown, TablesInv', SendOK(k)',
         x \in MessageIds => MessageOK(x)'
  PROVE  SInv'
<1>1. SettingsInv'
  BY DEF SInv, SettingsInv, settings
<1>2. /\ send' \in [STasks -> SendRow] /\ send'[k] = r
      /\ \A j \in STasks : j # k => send'[j] = send[j]
  BY NewSend
<1>3. \A j \in STasks : j # k => (send[j].m # x \/ x = 0)
  BY OthersElsewhere
<1>4. ASSUME NEW j \in STasks, j # k PROVE SendOK(j)'
  <2>1. SendOK(j) /\ send'[j] = send[j]
    BY <1>2, <1>4 DEF SInv, SendsInv
  <2>2. send[j].m \in MessageIds => SameRows(send[j].m)
    BY <1>3, <1>4 DEF Only
  <2>3. QED
    BY <2>1, <2>2, SendKept
<1>5. HandsInv'
  <2>1. ASSUME NEW j \in STasks, NEW i \in STasks, send'[j].m = send'[i].m, send'[j].m # 0
        PROVE  j = i
    <3>1. CASE j = k \/ i = k
      BY <1>2, <1>3, <2>1, <3>1
    <3>2. CASE j # k /\ i # k
      BY <1>2, <2>1, <3>2 DEF SInv, SendsInv, HandsInv
    <3>3. QED
      BY <3>1, <3>2
  <2>2. QED
    BY <2>1 DEF HandsInv
<1>6. SendsInv'
  BY <1>2, <1>4, <1>5 DEF SendsInv
<1>7. ASSUME NEW m \in MessageIds, m # x PROVE MessageOK(m)'
  <2>1. ASSUME InHand(m) PROVE InHand(m)'
    <3>1. PICK j \in STasks : send[j].m = m
      BY <2>1 DEF InHand
    <3>2. j # k
      BY <1>7, <3>1 DEF Touches
    <3>3. QED
      BY <1>2, <3>1, <3>2 DEF InHand
  <2>2. MessageOK(m) /\ SameRows(m)
    BY <1>7 DEF SInv, MessagesInv, Only
  <2>3. TablesInv
    BY DEF SInv
  <2>4. QED
    BY <2>1, <2>2, <2>3, MessageKept
<1>8. MessagesInv'
  BY <1>7 DEF MessagesInv
<1>9. QED
  BY <1>1, <1>6, <1>8 DEF SInv

\* A step that only moves on, before there is a message.
LEMMA MoveKeeps ==
  ASSUME SInv, NEW k \in STasks, NEW r \in SendRow, send[k].m = 0, r.m = 0,
         send' = [send EXCEPT ![k] = r], SendOK(k)',
         UNCHANGED <<settings, sendTables, sendMemory>>
  PROVE  SInv'
<1>1. TablesInv'
  BY DEF SInv, TablesInv, sendTables, sendMemory
<1>2. Grown /\ Only(0) /\ Touches(k, 0)
  BY DEF Grown, Only, SameRows, Touches, sendTables, sendMemory, settings
<1>3. 0 \notin MessageIds
  OBVIOUS
<1>4. QED
  BY <1>1, <1>2, <1>3, SendingKeeps

LEMMA IdleIsOK ==
  ASSUME NEW k \in STasks, send'[k] = IdleSend
  PROVE  SendOK(k)'
BY IdleSendType DEF SendOK, Live

LEMMA BeforeMessage ==
  ASSUME SInv, NEW k \in STasks,
         \/ BeginPlain(k) \/ BeginUpload(k) \/ ResolveStorage(k) \/ ResolveFailed(k)
         \/ FindAccount(k) \/ Refuse(k)
  PROVE  SInv'
<1>1. SendOK(k) /\ send[k] \in SendRow /\ send \in [STasks -> SendRow]
  BY DEF SInv, SendsInv
<1>2. ASSUME NEW kind \in {"plain", "upload"}, NEW place \in {"account", "resolve"},
             Begin(k, kind, place)
      PROVE  SInv'
  <2>1. PICK t \in STenants :
          SBecomes(k, [IdleSend EXCEPT !.at = place, !.t = t, !.kind = kind])
    BY <1>2 DEF Begin
  <2> DEFINE r == [IdleSend EXCEPT !.at = place, !.t = t, !.kind = kind]
  <2>2. r \in SendRow /\ r.at = place /\ r.t = t /\ r.place = Global /\ r.m = 0
    BY DEF IdleSend, SendRow, Places
  <2>3. send' = [send EXCEPT ![k] = r]
    BY <2>1 DEF SBecomes
  <2> HIDE DEF r
  <2>4. send'[k] = r /\ send[k].m = 0
    BY <1>1, <1>2, <2>3 DEF Begin, SAt, SendOK, Live
  <2>5. SendOK(k)'
    BY <2>2, <2>4 DEF SendOK, Live
  <2>6. UNCHANGED <<settings, sendTables, sendMemory>>
    BY <1>2 DEF Begin
  <2>7. QED
    BY <2>2, <2>3, <2>4, <2>5, <2>6, MoveKeeps
<1>3. CASE BeginPlain(k) \/ BeginUpload(k)
  BY <1>2, <1>3 DEF BeginPlain, BeginUpload
<1>4. CASE ResolveStorage(k)
  <2> DEFINE r == [send[k] EXCEPT !.at = "account", !.place = Resolved(send[k].t)]
  <2>1. send[k].at = "resolve" /\ send[k].m = 0 /\ send[k].t \in STenants
    BY <1>1, <1>4 DEF ResolveStorage, SAt, SendOK, Live
  <2>2. Resolved(send[k].t) \in inForce[send[k].t] \cup {Global}
    BY <2>1 DEF Resolved, SInv, SettingsInv
  <2>3. inForce[send[k].t] \subseteq Config
    BY <2>1 DEF SInv, SettingsInv
  <2>4. Resolved(send[k].t) \in Places
    BY <2>2, <2>3 DEF Places
  <2>5. r \in SendRow
    BY <1>1, <2>4 DEF SendRow
  <2>6. r.at = "account" /\ r.t = send[k].t /\ r.m = 0 /\ r.place = Resolved(send[k].t)
    BY <1>1, <2>1 DEF SendRow
  <2>7. send' = [send EXCEPT ![k] = r] /\ UNCHANGED <<settings, sendTables, sendMemory>>
    BY <1>4 DEF ResolveStorage, SBecomes
  <2> HIDE DEF r
  <2>8. send'[k] = r
    BY <1>1, <2>7
  <2>9. SendOK(k)'
    BY <2>1, <2>2, <2>6, <2>7, <2>8 DEF SendOK, Live, settings
  <2>10. QED
    BY <2>1, <2>5, <2>6, <2>7, <2>9, MoveKeeps
<1>5. CASE ResolveFailed(k)
  <2> DEFINE r == [send[k] EXCEPT !.at = "account"]
  <2>1. /\ send[k].at = "resolve" /\ send[k].m = 0 /\ send[k].t \in STenants
        /\ send[k].place \in inForce[send[k].t] \cup {Global}
    BY <1>1, <1>5 DEF ResolveFailed, SAt, SendOK, Live
  <2>2. r \in SendRow
    BY <1>1 DEF SendRow
  <2>3. r.at = "account" /\ r.t = send[k].t /\ r.m = 0 /\ r.place = send[k].place
    BY <1>1, <2>1 DEF SendRow
  <2>4. send' = [send EXCEPT ![k] = r] /\ UNCHANGED <<settings, sendTables, sendMemory>>
    BY <1>5 DEF ResolveFailed, SBecomes
  <2> HIDE DEF r
  <2>5. send'[k] = r
    BY <1>1, <2>4
  <2>6. SendOK(k)'
    BY <2>1, <2>3, <2>4, <2>5 DEF SendOK, Live, settings
  <2>7. QED
    BY <2>1, <2>2, <2>3, <2>4, <2>6, MoveKeeps
<1>6. CASE FindAccount(k)
  <2>1. /\ send[k].at = "account" /\ send[k].m = 0 /\ send[k].t \in STenants
        /\ send[k].place \in inForce[send[k].t] \cup {Global}
    BY <1>1, <1>6 DEF FindAccount, SAt, SendOK, Live
  <2>2. PICK a \in AccountIds :
          /\ accounts[a] # NoRow /\ accounts[a].tenant = send[k].t
          /\ SBecomes(k, [send[k] EXCEPT !.at = "insert_message", !.account = a])
    BY <1>6 DEF FindAccount
  <2> DEFINE r == [send[k] EXCEPT !.at = "insert_message", !.account = a]
  <2>3. r \in SendRow
    BY <1>1 DEF SendRow
  <2>4. /\ r.at = "insert_message" /\ r.t = send[k].t /\ r.m = 0
        /\ r.place = send[k].place /\ r.account = a
    BY <1>1, <2>1 DEF SendRow
  <2>5. send' = [send EXCEPT ![k] = r] /\ UNCHANGED <<settings, sendTables, sendMemory>>
    BY <1>6, <2>2 DEF FindAccount, SBecomes
  <2> HIDE DEF r
  <2>6. send'[k] = r
    BY <1>1, <2>5
  <2>7. OwnAccount(a, send[k].t) /\ accounts' = accounts /\ inForce' = inForce
    BY <2>2, <2>5 DEF OwnAccount, settings
  <2>8. SendOK(k)'
    BY <2>1, <2>4, <2>6, <2>7 DEF SendOK, Live, OwnAccount
  <2>9. QED
    BY <2>1, <2>3, <2>4, <2>5, <2>8, MoveKeeps
<1>7. CASE Refuse(k)
  <2>1. send[k].m = 0
    BY <1>1, <1>7 DEF Refuse, SAt, SendOK, Live
  <2>2. send' = [send EXCEPT ![k] = IdleSend] /\ UNCHANGED <<settings, sendTables, sendMemory>>
    BY <1>7 DEF Refuse, SDone, SBecomes
  <2>3. send'[k] = IdleSend
    BY <1>1, <2>2
  <2>4. QED
    BY <2>1, <2>2, <2>3, IdleIsOK, IdleSendType, MoveKeeps
<1>8. QED
  BY <1>3, <1>4, <1>5, <1>6, <1>7

-----------------------------------------------------------------------------
(* The message of a request.                                               *)

\* The new row.
LEMMA NewRow ==
  ASSUME SInv, NEW k \in STasks, NEW m \in MessageIds, NewMessage(k, m)
  PROVE  /\ Touches(k, m) /\ smessage' \in [MessageIds -> MessageRow \cup {NoRow, Gone}]
         /\ smessage'[m] \in MessageRow
         /\ smessage'[m].tenant = send[k].t /\ smessage'[m].kind = send[k].kind
         /\ \A i \in MessageIds : i # m => smessage'[i] = smessage[i]
         /\ ~HasJob(m) /\ answer[m] = "none"
<1>1. SendOK(k) /\ send[k] \in SendRow
  BY DEF SInv, SendsInv
<1>2. send[k].at = "insert_message" /\ smessage[m] = NoRow
  BY DEF NewMessage, SAt
<1>3. send[k].m = 0 /\ send[k].t \in STenants
  BY <1>1, <1>2 DEF SendOK, Live
<1>4. MessageOK(m)
  BY DEF SInv, MessagesInv
<1> DEFINE row == [tenant |-> send[k].t, kind |-> send[k].kind, base |-> NoRow]
<1>5. row \in MessageRow /\ row.tenant = send[k].t /\ row.kind = send[k].kind
  BY <1>1, <1>3 DEF SendRow, MessageRow, Url
<1>6. smessage' = [smessage EXCEPT ![m] = row]
  BY DEF NewMessage
<1> HIDE DEF row
<1>7. smessage \in [MessageIds -> MessageRow \cup {NoRow, Gone}]
  BY DEF SInv, TablesInv
<1>8. Touches(k, m)
  BY <1>2, <1>3 DEF Touches
<1>9. ~HasJob(m) /\ answer[m] = "none"
  BY <1>2, <1>4 DEF MessageOK
<1>10. QED
  BY <1>5, <1>6, <1>7, <1>8, <1>9

\* The message in hand.
LEMMA InMyHand ==
  ASSUME SInv, NEW k \in STasks, send[k].at \in Live
  PROVE  /\ send[k].m \in MessageIds /\ send[k].m # 0 /\ Touches(k, send[k].m)
         /\ smessage[send[k].m] \in MessageRow /\ Exists(send[k].m)
         /\ answer[send[k].m] = "none" /\ MessageOK(send[k].m)
         /\ send[k] \in SendRow /\ send[k].t \in STenants
<1>1. SendOK(k) /\ send[k] \in SendRow
  BY DEF SInv, SendsInv
<1>2. /\ send[k].m \in MessageIds /\ Exists(send[k].m) /\ answer[send[k].m] = "none"
      /\ send[k].t \in STenants
  BY <1>1 DEF SendOK, Live
<1>3. send[k].m # 0
  BY <1>2
<1>4. smessage[send[k].m] \in MessageRow /\ MessageOK(send[k].m)
  BY <1>2 DEF SInv, TablesInv, Exists, MessagesInv
<1>5. QED
  BY <1>1, <1>2, <1>3, <1>4 DEF Touches

LEMMA InsertSteps ==
  ASSUME SInv, NEW k \in STasks, InsertMessage(k) \/ InsertMessageLost(k)
  PROVE  SInv'
<1>1. SendOK(k) /\ send[k] \in SendRow /\ send \in [STasks -> SendRow]
  BY DEF SInv, SendsInv
<1>2. CASE InsertMessage(k)
  <2>1. PICK m \in MessageIds :
          /\ NewMessage(k, m)
          /\ SBecomes(k, [send[k] EXCEPT !.m = m,
               !.at = IF send[k].kind = "upload" THEN "put" ELSE "insert_job"])
    BY <1>2 DEF InsertMessage
  <2> DEFINE at == IF send[k].kind = "upload" THEN "put" ELSE "insert_job"
  <2> DEFINE r == [send[k] EXCEPT !.m = m, !.at = at]
  <2>2. \/ (at = "put" /\ send[k].kind = "upload")
        \/ (at = "insert_job" /\ send[k].kind = "plain")
    BY <1>1 DEF SendRow
  <2>3. send' = [send EXCEPT ![k] = r]
    BY <2>1 DEF SBecomes
  <2> HIDE DEF at
  <2>4. r \in SendRow
    BY <1>1, <2>2 DEF SendRow, Live
  <2>5. /\ r.at = at /\ r.m = m /\ r.t = send[k].t /\ r.kind = send[k].kind
        /\ r.place = send[k].place /\ r.account = send[k].account
    BY <1>1 DEF SendRow
  <2> HIDE DEF r
  <2>6. send'[k] = r
    BY <1>1, <2>3
  <2>7. /\ send[k].t \in STenants /\ send[k].place \in inForce[send[k].t] \cup {Global}
        /\ OwnAccount(send[k].account, send[k].t)
    BY <1>1, <2>1 DEF SendOK, NewMessage, SAt
  <2>8. UNCHANGED <<settings, job, files, answer, leftover, lost>>
    BY <1>2 DEF InsertMessage, sendMemory
  <2>9. /\ Touches(k, m) /\ smessage' \in [MessageIds -> MessageRow \cup {NoRow, Gone}]
        /\ smessage'[m] \in MessageRow
        /\ smessage'[m].tenant = send[k].t /\ smessage'[m].kind = send[k].kind
        /\ \A i \in MessageIds : i # m => smessage'[i] = smessage[i]
        /\ ~HasJob(m) /\ answer[m] = "none"
    BY <2>1, NewRow
  <2>10. Exists(m)' /\ ~HasJob(m)' /\ answer'[m] = "none"
    BY <2>8, <2>9, RowsAreNoMarks DEF Exists, HasJob
  <2>11. SendOK(k)'
    <3>1. inForce' = inForce /\ accounts' = accounts
      BY <2>8 DEF settings
    <3>2. QED
      BY <2>2, <2>5, <2>6, <2>7, <2>9, <2>10, <3>1 DEF SendOK, Live, OwnAccount
  <2>12. InHand(m)'
    BY <2>5, <2>6 DEF InHand
  <2>13. MessageOK(m)'
    BY <2>9, <2>10, <2>12, RowsAreNoMarks DEF MessageOK, Accounted
  <2>14. TablesInv'
    BY <2>8, <2>9 DEF TablesInv, SInv
  <2>15. Only(m) /\ Grown
    BY <2>8, <2>9 DEF Only, SameRows, Grown, settings
  <2>16. UNCHANGED settings
    BY <2>8
  <2>17. r.m \in {0, m}
    BY <2>5
  <2>18. QED
    BY <2>3, <2>4, <2>9, <2>11, <2>13, <2>14, <2>15, <2>16, <2>17, SendingKeeps
<1>3. CASE InsertMessageLost(k)
  <2>1. PICK m \in MessageIds : NewMessage(k, m) /\ leftover' = leftover \cup {m}
    BY <1>3 DEF InsertMessageLost
  <2>2. send' = [send EXCEPT ![k] = IdleSend]
    BY <1>3 DEF InsertMessageLost, SDone, SBecomes
  <2>3. send'[k] = IdleSend
    BY <1>1, <2>2
  <2>4. UNCHANGED <<settings, job, files, answer, lost>>
    BY <1>3 DEF InsertMessageLost
  <2>5. /\ Touches(k, m) /\ smessage' \in [MessageIds -> MessageRow \cup {NoRow, Gone}]
        /\ smessage'[m] \in MessageRow
        /\ \A i \in MessageIds : i # m => smessage'[i] = smessage[i]
        /\ ~HasJob(m) /\ answer[m] = "none"
    BY <2>1, NewRow
  <2>6. ~HasJob(m)' /\ answer'[m] = "none" /\ m \in leftover'
    BY <2>1, <2>4, <2>5 DEF HasJob
  <2>7. MessageOK(m)'
    BY <2>5, <2>6, RowsAreNoMarks DEF MessageOK, Accounted
  <2>8. TablesInv'
    BY <2>4, <2>5 DEF TablesInv, SInv
  <2>9. Only(m) /\ Grown
    BY <2>1, <2>4, <2>5 DEF Only, SameRows, Grown, settings
  <2>10. UNCHANGED settings
    BY <2>4
  <2>11. QED
    BY <2>2, <2>3, <2>5, <2>7, <2>8, <2>9, <2>10, IdleIsOK, IdleSendType, SendingKeeps
<1>4. QED
  BY <1>2, <1>3

\* A step of k that leaves the message in its hand, without a job, and has it
\* go on at another place.
LEMMA StillInHand ==
  ASSUME SInv, NEW k \in STasks, send[k].at \in Live, NEW place \in Live,
         NEW x \in MessageIds, x = send[k].m,
         SBecomes(k, [send[k] EXCEPT !.at = place]),
         smessage' \in [MessageIds -> MessageRow \cup {NoRow, Gone}],
         smessage'[x] \in MessageRow, smessage'[x].tenant = smessage[x].tenant,
         smessage'[x].kind = smessage[x].kind,
         \A i \in MessageIds : i # x => smessage'[i] = smessage[i],
         ~HasJob(x), files \subseteq files',
         UNCHANGED <<settings, job, answer, leftover, lost>>,
         place \in {"put", "update_message", "cleanup"} => send[k].kind = "upload",
         (place \in {"update_message", "insert_job"} /\ send[k].kind = "upload") =>
            <<send[k].place.bucket, x>> \in files',
         (place = "insert_job" /\ send[k].kind = "upload") =>
            smessage'[x].base = send[k].place.base
  PROVE  SInv'
<1> DEFINE r == [send[k] EXCEPT !.at = place]
<1>1. /\ x # 0 /\ Touches(k, x)
      /\ answer[x] = "none" /\ send[k] \in SendRow /\ send[k].t \in STenants
  BY InMyHand
<1>2. SendOK(k) /\ send \in [STasks -> SendRow]
  BY DEF SInv, SendsInv
<1>3. r \in SendRow /\ send' = [send EXCEPT ![k] = r]
  BY <1>1 DEF SendRow, Live, SBecomes
<1>4. /\ r.at = place /\ r.m = x /\ r.t = send[k].t /\ r.kind = send[k].kind
      /\ r.place = send[k].place /\ r.account = send[k].account
  BY <1>1 DEF SendRow
<1> HIDE DEF r
<1>5. send'[k] = r
  BY <1>2, <1>3
<1>6. /\ Exists(x)' /\ ~HasJob(x)' /\ answer'[x] = "none" /\ smessage'[x] # NoRow
      /\ inForce' = inForce /\ accounts' = accounts
  BY <1>1, RowsAreNoMarks DEF Exists, HasJob, settings
<1>7. SendOK(k)'
  <2>1. /\ send[k].place \in inForce[send[k].t] \cup {Global}
        /\ OwnAccount(send[k].account, send[k].t)
        /\ smessage[x].tenant = send[k].t /\ smessage[x].kind = send[k].kind
    BY <1>2 DEF SendOK, Live
  <2>2. OwnAccount(send[k].account, send[k].t)'
    <3>1. send'[k].account = send[k].account /\ send'[k].t = send[k].t
      BY <1>4, <1>5
    <3>2. QED
      BY <1>6, <2>1, <3>1 DEF OwnAccount
  <2>3. QED
    BY <1>1, <1>4, <1>5, <1>6, <2>1, <2>2 DEF SendOK, Live, OwnAccount
<1>8. MessageOK(x)'
  BY <1>4, <1>5, <1>6 DEF MessageOK, Accounted, InHand
<1>9. TablesInv'
  BY DEF TablesInv, SInv
<1>10. Only(x) /\ Grown
  BY DEF Only, SameRows, Grown, settings
<1>11. UNCHANGED settings
  OBVIOUS
<1>12. QED
  BY <1>1, <1>3, <1>4, <1>7, <1>8, <1>9, <1>10, <1>11, SendingKeeps

\* A step of k that ends the request and tells the client or leaves a trace.
LEMMA LetGo ==
  ASSUME SInv, NEW k \in STasks, send[k].at \in Live, NEW x \in MessageIds, x = send[k].m,
         SDone(k), TablesInv', Only(x), UNCHANGED settings, Grown, MessageOK(x)'
  PROVE  SInv'
<1>1. Touches(k, x) /\ send' = [send EXCEPT ![k] = IdleSend]
  BY InMyHand DEF SDone, SBecomes
<1>2. send'[k] = IdleSend
  BY <1>1 DEF SInv, SendsInv
<1>3. SendOK(k)'
  BY <1>2, IdleIsOK
<1>4. QED
  BY <1>1, <1>3, IdleSendType, SendingKeeps

\* The message is given its URL, or another row that differs in it only.
LEMMA RowUpdated ==
  ASSUME SInv, NEW k \in STasks, send[k].at = "update_message",
         NEW x \in MessageIds, x = send[k].m,
         smessage' \in {smessage, [smessage EXCEPT ![x].base = UrlBase(k)]}
  PROVE  /\ smessage' \in [MessageIds -> MessageRow \cup {NoRow, Gone}]
         /\ smessage'[x] \in MessageRow /\ smessage'[x].tenant = smessage[x].tenant
         /\ smessage'[x].kind = smessage[x].kind
         /\ \A i \in MessageIds : i # x => smessage'[i] = smessage[i]
         /\ smessage' # smessage => smessage'[x].base = UrlBase(k)
<1>1. smessage[x] \in MessageRow /\ send[k] \in SendRow
  BY InMyHand DEF Live
<1>2. UrlBase(k) \in Url
  BY <1>1, PlaceBase DEF UrlBase, SendRow
<1>3. smessage \in [MessageIds -> MessageRow \cup {NoRow, Gone}]
  BY DEF SInv, TablesInv
<1> DEFINE row == [smessage[x] EXCEPT !.base = UrlBase(k)]
<1>4. /\ row \in MessageRow /\ row.tenant = smessage[x].tenant
      /\ row.kind = smessage[x].kind /\ row.base = UrlBase(k)
  BY <1>1, <1>2 DEF MessageRow
<1>5. smessage' = smessage \/ smessage' = [smessage EXCEPT ![x] = row]
  OBVIOUS
<1> HIDE DEF row
<1>6. QED
  BY <1>1, <1>3, <1>4, <1>5

LEMMA UploadSteps ==
  ASSUME SInv, NEW k \in STasks,
         Put(k) \/ PutFailed(k) \/ UpdateMessage(k) \/ UpdateFailed(k)
  PROVE  SInv'
<1>1. send[k].at \in {"put", "update_message"} /\ send[k].at \in Live
  BY DEF Put, PutFailed, UpdateMessage, UpdateFailed, SAt, Live
<1>2. PICK y \in MessageIds : y = send[k].m
  BY <1>1, InMyHand
<1>3. send[k].kind = "upload" /\ ~HasJob(y)
  BY <1>1, <1>2 DEF SInv, SendsInv, SendOK
<1>4. smessage[y] \in MessageRow
  BY <1>1, <1>2, InMyHand
<1>5. smessage \in [MessageIds -> MessageRow \cup {NoRow, Gone}]
  BY DEF SInv, TablesInv
<1>6. {"put", "update_message", "insert_job", "cleanup"} = Live
  BY DEF Live
<1>7. CASE Put(k)
  <2>1. /\ SBecomes(k, [send[k] EXCEPT !.at = "update_message"])
        /\ files' = files \cup {<<send[k].place.bucket, y>>}
        /\ UNCHANGED <<settings, smessage, job, answer, leftover, lost>>
    BY <1>2, <1>7 DEF Put, sendMemory
  <2>2. smessage' = smessage
    BY <2>1
  <2>3. QED
    BY <1>1, <1>2, <1>3, <1>4, <1>5, <1>6, <2>1, <2>2, StillInHand
<1>8. CASE PutFailed(k)
  <2>1. /\ SBecomes(k, [send[k] EXCEPT !.at = "cleanup"])
        /\ files' \in {files, files \cup {<<send[k].place.bucket, y>>}}
        /\ UNCHANGED <<settings, smessage, job, answer, leftover, lost>>
    BY <1>2, <1>8 DEF PutFailed, FailUpload
  <2>2. smessage' = smessage /\ files \subseteq files'
    BY <2>1
  <2>3. QED
    BY <1>1, <1>2, <1>3, <1>4, <1>5, <1>6, <2>1, <2>2, StillInHand
<1>9. CASE UpdateMessage(k)
  <2>1. /\ SBecomes(k, [send[k] EXCEPT !.at = "insert_job"])
        /\ smessage' = [smessage EXCEPT ![y].base = UrlBase(k)]
        /\ UNCHANGED <<settings, job, files, answer, leftover, lost>>
    BY <1>2, <1>9 DEF UpdateMessage, sendMemory
  <2>2. send[k].at = "update_message"
    BY <1>9 DEF UpdateMessage, SAt
  <2>3. <<send[k].place.bucket, y>> \in files /\ files' = files
    BY <1>2, <1>3, <2>1, <2>2 DEF SInv, SendsInv, SendOK
  <2>4. smessage'[y].base = send[k].place.base
    BY <1>4, <1>5, <2>1 DEF UrlBase, MessageRow
  <2>5. /\ smessage' \in [MessageIds -> MessageRow \cup {NoRow, Gone}]
        /\ smessage'[y] \in MessageRow /\ smessage'[y].tenant = smessage[y].tenant
        /\ smessage'[y].kind = smessage[y].kind
        /\ \A i \in MessageIds : i # y => smessage'[i] = smessage[i]
    BY <1>2, <2>1, <2>2, RowUpdated
  <2>6. QED
    BY <1>1, <1>2, <1>3, <1>6, <2>1, <2>3, <2>4, <2>5, StillInHand
<1>10. CASE UpdateFailed(k)
  <2>1. /\ SBecomes(k, [send[k] EXCEPT !.at = "cleanup"])
        /\ smessage' \in {smessage, [smessage EXCEPT ![y].base = UrlBase(k)]}
        /\ UNCHANGED <<settings, job, files, answer, leftover, lost>>
    BY <1>2, <1>10 DEF UpdateFailed, FailUpload
  <2>2. send[k].at = "update_message" /\ files \subseteq files'
    BY <1>10, <2>1 DEF UpdateFailed, SAt
  <2>3. /\ smessage' \in [MessageIds -> MessageRow \cup {NoRow, Gone}]
        /\ smessage'[y] \in MessageRow /\ smessage'[y].tenant = smessage[y].tenant
        /\ smessage'[y].kind = smessage[y].kind
        /\ \A i \in MessageIds : i # y => smessage'[i] = smessage[i]
    BY <1>2, <2>1, <2>2, RowUpdated
  <2>4. QED
    BY <1>1, <1>2, <1>3, <1>6, <2>1, <2>2, <2>3, StillInHand
<1>11. QED
  BY <1>7, <1>8, <1>9, <1>10

\* The job that is written is whole.
LEMMA JobWritten ==
  ASSUME SInv, NEW k \in STasks, send[k].at = "insert_job", NEW x \in MessageIds,
         x = send[k].m, NewJob(k), UNCHANGED <<settings, smessage, files>>
  PROVE  /\ job' \in [MessageIds -> JobRow \cup {NoRow}]
         /\ \A i \in MessageIds : i # x => job'[i] = job[i]
         /\ HasJob(x)' /\ WholeJob(x)'
<1>1. /\ Exists(x) /\ smessage[x] \in MessageRow /\ send[k] \in SendRow
      /\ send[k].t \in STenants
  BY InMyHand DEF Live
<1>2. SendOK(k)
  BY DEF SInv, SendsInv
<1>3. /\ OwnAccount(send[k].account, send[k].t)
      /\ smessage[x].tenant = send[k].t /\ smessage[x].kind = send[k].kind
      /\ send[k].place \in inForce[send[k].t] \cup {Global}
  BY <1>2 DEF SendOK, Live
<1>4. send[k].kind = "upload" =>
        <<send[k].place.bucket, x>> \in files /\ smessage[x].base = send[k].place.base
  BY <1>2 DEF SendOK
<1> DEFINE row == [tenant |-> send[k].t, account |-> send[k].account, base |-> smessage[x].base]
<1>5. /\ row \in JobRow /\ row.tenant = send[k].t /\ row.account = send[k].account
      /\ row.base = smessage[x].base
  BY <1>1, <1>3 DEF OwnAccount, JobRow, MessageRow
<1>6. job' = [job EXCEPT ![x] = row]
  BY DEF NewJob
<1> HIDE DEF row
<1>7. job \in [MessageIds -> JobRow \cup {NoRow}]
  BY DEF SInv, TablesInv
<1>8. job'[x] = row /\ row # NoRow
  BY <1>5, <1>6, <1>7, RowsAreNoMarks
<1>9. WholeJob(x)'
  <2>1. accounts' = accounts /\ inForce' = inForce /\ smessage' = smessage /\ files' = files
    BY DEF settings
  <2>2. smessage[x].kind = "upload" =>
          \E place \in inForce[send[k].t] \cup {Global} :
            place.base = smessage[x].base /\ <<place.bucket, x>> \in files
    BY <1>3, <1>4
  <2>3. QED
    BY <1>1, <1>3, <1>5, <1>8, <2>1, <2>2 DEF WholeJob, OwnAccount, Exists
<1>10. QED
  BY <1>5, <1>6, <1>7, <1>8, <1>9 DEF HasJob

\* The client is told of the message in hand.
LEMMA AnswerWritten ==
  ASSUME SInv, NEW k \in STasks, NEW x \in MessageIds, x = send[k].m,
         NEW what \in {"ok", "error"}, Told(k, what)
  PROVE  /\ answer' \in [MessageIds -> {"none", "ok", "error"}] /\ answer'[x] = what
         /\ \A i \in MessageIds : i # x => answer'[i] = answer[i]
BY DEF Told, SInv, TablesInv

LEMMA InsertJobSteps ==
  ASSUME SInv, NEW k \in STasks, InsertJob(k) \/ InsertJobFailed(k)
  PROVE  SInv'
<1>1. send[k].at = "insert_job" /\ send[k].at \in Live
  BY DEF InsertJob, InsertJobFailed, SAt, Live
<1>2. PICK x \in MessageIds : x = send[k].m
  BY <1>1, InMyHand
<1>3. /\ Exists(x) /\ answer[x] = "none" /\ smessage[x] # NoRow
      /\ smessage[x].kind = send[k].kind /\ ~HasJob(x)
  BY <1>1, <1>2, InMyHand DEF SInv, SendsInv, SendOK, Exists
<1>4. TablesInv
  BY DEF SInv
<1>5. CASE InsertJob(k)
  <2>1. /\ NewJob(k) /\ Told(k, "ok") /\ SDone(k)
        /\ UNCHANGED <<settings, smessage, files, leftover, lost>>
    BY <1>5 DEF InsertJob
  <2>2. /\ job' \in [MessageIds -> JobRow \cup {NoRow}]
        /\ \A i \in MessageIds : i # x => job'[i] = job[i]
        /\ HasJob(x)' /\ WholeJob(x)'
    BY <1>1, <1>2, <2>1, JobWritten
  <2>3. /\ answer' \in [MessageIds -> {"none", "ok", "error"}] /\ answer'[x] = "ok"
        /\ \A i \in MessageIds : i # x => answer'[i] = answer[i]
    BY <1>2, <2>1, AnswerWritten
  <2>4. MessageOK(x)'
    BY <1>3, <2>1, <2>2, <2>3 DEF MessageOK
  <2>5. TablesInv'
    BY <1>4, <2>1, <2>2, <2>3 DEF TablesInv
  <2>6. Only(x) /\ Grown
    BY <2>1, <2>2, <2>3 DEF Only, SameRows, Grown, settings
  <2>7. UNCHANGED settings
    BY <2>1
  <2>8. QED
    BY <1>1, <1>2, <2>1, <2>4, <2>5, <2>6, <2>7, LetGo
<1>6. CASE InsertJobFailed(k)
  <2>1. /\ UNCHANGED <<settings, smessage, files, leftover>>
        /\ (NewJob(k) /\ lost' = lost \cup {x}) \/ UNCHANGED <<job, lost>>
        /\ \/ (send[k].kind = "upload" /\ FailUpload(k))
           \/ (send[k].kind = "plain" /\ Told(k, "error") /\ SDone(k))
    BY <1>2, <1>6 DEF InsertJobFailed
  <2>2. /\ job' \in [MessageIds -> JobRow \cup {NoRow}]
        /\ \A i \in MessageIds : i # x => job'[i] = job[i]
        /\ HasJob(x)' => (WholeJob(x)' /\ x \in lost')
        /\ lost \subseteq lost'
    <3>1. CASE NewJob(k) /\ lost' = lost \cup {x}
      BY <1>1, <1>2, <2>1, <3>1, JobWritten
    <3>2. CASE UNCHANGED <<job, lost>>
      BY <1>3, <1>4, <3>2 DEF TablesInv, HasJob
    <3>3. QED
      BY <2>1, <3>1, <3>2
  <2>3. UNCHANGED settings /\ inForce' = inForce /\ accounts' = accounts /\ smessage' = smessage
    BY <2>1 DEF settings
  <2>4. CASE send[k].kind = "upload" /\ FailUpload(k)
    <3> DEFINE r == [send[k] EXCEPT !.at = "cleanup"]
    <3>1. send[k] \in SendRow /\ send[k].t \in STenants /\ Touches(k, x) /\ x # 0
      BY <1>1, <1>2, InMyHand
    <3>2. SendOK(k) /\ send \in [STasks -> SendRow]
      BY DEF SInv, SendsInv
    <3>3. r \in SendRow /\ send' = [send EXCEPT ![k] = r] /\ answer' = answer
      BY <2>4, <3>1 DEF SendRow, Live, FailUpload, SBecomes
    <3>4. /\ r.at = "cleanup" /\ r.m = x /\ r.t = send[k].t /\ r.kind = send[k].kind
          /\ r.place = send[k].place /\ r.account = send[k].account
      BY <1>2, <3>1 DEF SendRow
    <3> HIDE DEF r
    <3>5. send'[k] = r
      BY <3>2, <3>3
    <3>6. Exists(x)' /\ answer'[x] = "none"
      BY <1>3, <2>3, <3>3 DEF Exists
    <3>7. SendOK(k)'
      <4>1. /\ send[k].place \in inForce[send[k].t] \cup {Global}
            /\ OwnAccount(send[k].account, send[k].t)
            /\ smessage[x].tenant = send[k].t
        BY <1>1, <1>2, <3>2 DEF SendOK, Live
      <4>2. OwnAccount(send[k].account, send[k].t)'
        <5>1. send'[k].account = send[k].account /\ send'[k].t = send[k].t
          BY <3>4, <3>5
        <5>2. QED
          BY <2>3, <4>1, <5>1 DEF OwnAccount
      <4>3. QED
        BY <1>3, <2>2, <2>3, <2>4, <3>1, <3>4, <3>5, <3>6, <4>1, <4>2
           DEF SendOK, Live, OwnAccount
    <3>8. MessageOK(x)'
      BY <1>3, <2>2, <2>3, <3>4, <3>5, <3>6 DEF MessageOK, Accounted, InHand
    <3>9. TablesInv'
      BY <1>4, <2>2, <2>3, <3>3 DEF TablesInv
    <3>10. Only(x) /\ Grown
      BY <2>1, <2>2, <2>3, <3>3 DEF Only, SameRows, Grown
    <3>11. QED
      BY <2>3, <3>1, <3>3, <3>4, <3>7, <3>8, <3>9, <3>10, SendingKeeps
  <2>5. CASE send[k].kind = "plain" /\ Told(k, "error") /\ SDone(k)
    <3>1. /\ answer' \in [MessageIds -> {"none", "ok", "error"}] /\ answer'[x] = "error"
          /\ \A i \in MessageIds : i # x => answer'[i] = answer[i]
      BY <1>2, <2>5, AnswerWritten
    <3>2. MessageOK(x)'
      BY <1>3, <2>2, <2>3, <2>5, <3>1 DEF MessageOK, Accounted
    <3>3. TablesInv'
      BY <1>4, <2>2, <2>3, <3>1 DEF TablesInv
    <3>4. Only(x) /\ Grown
      BY <2>1, <2>2, <2>3, <3>1 DEF Only, SameRows, Grown
    <3>5. QED
      BY <1>1, <1>2, <2>3, <2>5, <3>2, <3>3, <3>4, LetGo
  <2>6. QED
    BY <2>1, <2>4, <2>5
<1>7. QED
  BY <1>5, <1>6

\* The clean-up, done or failed, and a dropped request.
LEMMA LastSteps ==
  ASSUME SInv, NEW k \in STasks, Cleanup(k) \/ CleanupFailed(k) \/ SDrop(k)
  PROVE  SInv'
<1>1. SendOK(k) /\ send[k] \in SendRow /\ send \in [STasks -> SendRow] /\ TablesInv
  BY DEF SInv, SendsInv
<1>2. CASE send[k].at \notin Live
  <2>1. send[k].m = 0 /\ SDrop(k)
    BY <1>1, <1>2 DEF SendOK, Cleanup, CleanupFailed, SAt, Live
  <2>2. /\ send' = [send EXCEPT ![k] = IdleSend]
        /\ UNCHANGED <<settings, sendTables, sendMemory>>
    BY <2>1 DEF SDrop, SDone, SBecomes, sendMemory
  <2>3. send'[k] = IdleSend
    BY <1>1, <2>2
  <2>4. QED
    BY <2>1, <2>2, <2>3, IdleIsOK, IdleSendType, MoveKeeps
<1>3. CASE send[k].at \in Live
  <2>1. PICK x \in MessageIds : x = send[k].m
    BY <1>3, InMyHand
  <2>2. /\ Exists(x) /\ answer[x] = "none" /\ smessage[x] # NoRow /\ x # 0
        /\ HasJob(x) => WholeJob(x)
    BY <1>3, <2>1, InMyHand DEF Exists, MessageOK
  <2>3. CASE Cleanup(k)
    <3>1. /\ smessage' = IF HasJob(x) THEN smessage ELSE [smessage EXCEPT ![x] = Gone]
          /\ Told(k, "error") /\ SDone(k) /\ UNCHANGED <<settings, job, files, leftover, lost>>
      BY <2>1, <2>3 DEF Cleanup
    <3>2. HasJob(x) => x \in lost
      BY <1>1, <2>1, <2>3 DEF Cleanup, SAt, SendOK
    <3>3. /\ answer' \in [MessageIds -> {"none", "ok", "error"}] /\ answer'[x] = "error"
          /\ \A i \in MessageIds : i # x => answer'[i] = answer[i]
      BY <2>1, <3>1, AnswerWritten
    <3>4. Grown
      BY <3>1 DEF Grown, settings
    <3>5. TablesInv'
      BY <1>1, <3>1, <3>3 DEF TablesInv
    <3>6. Only(x)
      BY <1>1, <3>1, <3>3 DEF Only, SameRows, TablesInv
    <3>7. MessageOK(x)'
      <4>1. CASE HasJob(x)
        <5>1. smessage' = smessage /\ HasJob(x)'
          BY <3>1, <4>1 DEF HasJob
        <5>2. WholeJob(x)'
          BY <1>1, <2>2, <3>1, <3>4, <4>1, <5>1, WholeJobKept
        <5>3. QED
          BY <2>2, <3>1, <3>2, <3>3, <4>1, <5>1, <5>2 DEF MessageOK
      <4>2. CASE ~HasJob(x)
        <5>1. smessage'[x] = Gone /\ ~HasJob(x)'
          BY <1>1, <3>1, <4>2 DEF HasJob, TablesInv
        <5>2. QED
          BY <3>3, <5>1 DEF MessageOK, Exists
      <4>3. QED
        BY <4>1, <4>2
    <3>8. QED
      BY <1>3, <2>1, <3>1, <3>4, <3>5, <3>6, <3>7, LetGo
  <2>4. CASE CleanupFailed(k)
    <3>1. /\ leftover' = leftover \cup {x} /\ Told(k, "error") /\ SDone(k)
          /\ UNCHANGED <<settings, smessage, job, files, lost>>
      BY <2>1, <2>4 DEF CleanupFailed, sendTables
    <3>2. HasJob(x) => x \in lost
      BY <1>1, <2>1, <2>4 DEF CleanupFailed, SAt, SendOK
    <3>3. /\ answer' \in [MessageIds -> {"none", "ok", "error"}] /\ answer'[x] = "error"
          /\ \A i \in MessageIds : i # x => answer'[i] = answer[i]
      BY <2>1, <3>1, AnswerWritten
    <3>4. Grown
      BY <3>1 DEF Grown, settings
    <3>5. TablesInv'
      BY <1>1, <3>1, <3>3 DEF TablesInv
    <3>6. Only(x)
      BY <3>1, <3>3 DEF Only, SameRows
    <3>7. HasJob(x) => WholeJob(x)'
      BY <1>1, <2>2, <3>1, <3>4, WholeJobKept
    <3>8. MessageOK(x)'
      BY <2>2, <3>1, <3>2, <3>3, <3>7 DEF MessageOK, Accounted, HasJob
    <3>9. QED
      BY <1>3, <2>1, <3>1, <3>4, <3>5, <3>6, <3>8, LetGo
  <2>5. CASE SDrop(k)
    <3>1. /\ leftover' = leftover \cup {x} /\ SDone(k)
          /\ UNCHANGED <<settings, smessage, job, files, answer, lost>>
      BY <2>1, <2>2, <2>5 DEF SDrop, sendTables
    <3>2. Grown
      BY <3>1 DEF Grown, settings
    <3>3. TablesInv'
      BY <1>1, <3>1 DEF TablesInv
    <3>4. Only(x)
      BY <3>1 DEF Only, SameRows
    <3>5. HasJob(x) => WholeJob(x)'
      BY <1>1, <2>2, <3>1, <3>2, WholeJobKept
    <3>6. MessageOK(x)'
      BY <2>2, <3>1, <3>5 DEF MessageOK, Accounted, HasJob
    <3>7. QED
      BY <1>3, <2>1, <3>1, <3>2, <3>3, <3>4, <3>6, LetGo
  <2>6. QED
    BY <2>3, <2>4, <2>5
<1>4. QED
  BY <1>2, <1>3

-----------------------------------------------------------------------------
LEMMA SInitOK == SInit => SInv
<1> SUFFICES ASSUME SInit PROVE SInv
  OBVIOUS
<1>1. SettingsInv /\ TablesInv
  BY DEF SInit, SettingsInv, TablesInv
<1>2. \A k \in STasks : send[k] = IdleSend
  BY DEF SInit
<1>3. SendsInv
  <2>1. send \in [STasks -> SendRow]
    BY IdleSendType DEF SInit
  <2>2. HandsInv
    BY <1>2, IdleSendType DEF HandsInv
  <2>3. \A k \in STasks : SendOK(k)
    BY <1>2, IdleSendType DEF SendOK, Live
  <2>4. QED
    BY <2>1, <2>2, <2>3 DEF SendsInv
<1>4. MessagesInv
  BY DEF SInit, MessagesInv, MessageOK, HasJob, Exists
<1>5. QED
  BY <1>1, <1>3, <1>4 DEF SInv

LEMMA SendStutterKeeps == ASSUME SInv, UNCHANGED svars PROVE SInv'
<1>1. SettingsInv'
  BY DEF SInv, SettingsInv, svars, settings
<1>2. Grown /\ UNCHANGED <<sendTables, send, answer>>
  BY DEF Grown, svars, settings, sendTables, sendMemory
<1>3. QED
  BY <1>1, <1>2, SettingsKeep

LEMMA StepKeepsSInv == ASSUME SInv, [SNext]_svars PROVE SInv'
<1>1. CASE CreateAccount \/ UpdateAccount \/ CreateStorage \/ UpdateStorage
  BY <1>1, SettingsSteps
<1>2. ASSUME NEW k \in STasks, SendStep(k) PROVE SInv'
  BY <1>2, BeforeMessage, InsertSteps, UploadSteps, InsertJobSteps, LastSteps DEF SendStep
<1>3. CASE UNCHANGED svars
  BY <1>3, SendStutterKeeps
<1>4. QED
  BY <1>1, <1>2, <1>3 DEF SNext

-----------------------------------------------------------------------------
\* What requests know of their rows, and what the rows say together, holds in
\* every state of sending, whatever the settings do meanwhile.
THEOREM SendInductive == SSpec => []SInv
<1>1. SInv /\ [SNext]_svars => SInv'
  BY StepKeepsSInv
<1>2. QED
  BY SInitOK, <1>1, PTL DEF SSpec

\* Rows have the types of their columns, phone numbers are used once, and a
\* request alone holds its message.
THEOREM SendTypesCorrect == SSpec => []STypeOK
<1>1. SInv => STypeOK
  <2> SUFFICES ASSUME SInv PROVE STypeOK
    OBVIOUS
  <2>1. ASSUME NEW k \in STasks
        PROVE  /\ send[k].place \in Places
               /\ (SAt(k, "put") \/ SAt(k, "update_message") \/ SAt(k, "insert_job")
                     \/ SAt(k, "cleanup")) => Exists(send[k].m)
               /\ \A j \in STasks : (send[k].m = send[j].m /\ send[k].m # 0) => k = j
    <3>1. SendOK(k) /\ send[k] \in SendRow /\ HandsInv
      BY DEF SInv, SendsInv
    <3>2. QED
      BY <3>1 DEF SendRow, SendOK, Live, SAt, HandsInv
  <2>2. QED
    BY <2>1 DEF STypeOK, SInv, SettingsInv, TablesInv
<1>2. QED
  BY SendInductive, <1>1, PTL

\* A job has its message, an account of its tenant and a file where its URL
\* says, for any number of requests and changes of the settings.
THEOREM JobsAreWhole == SSpec => []JobIsWhole
<1>1. SInv => JobIsWhole
  BY DEF SInv, MessagesInv, MessageOK, WholeJob, OwnAccount, JobIsWhole
<1>2. QED
  BY SendInductive, <1>1, PTL

\* A client is told the truth about its message, and no message without a job
\* is left behind but by a fault or a failed plain send.
THEOREM AnswersAreTrue == SSpec => []AnswersTrue
<1>1. SInv => AnswersTrue
  BY DEF SInv, MessagesInv, MessageOK, Accounted, AnswersTrue
<1>2. QED
  BY SendInductive, <1>1, PTL

=============================================================================
