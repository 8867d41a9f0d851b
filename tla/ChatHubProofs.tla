---------------------------- MODULE ChatHubProofs ----------------------------
(***************************************************************************)
(* Proofs about the WebSocket hub: types, what the tables hold of a        *)
(* stopped session, no message lost to a running one, and the refinement   *)
(* of Broadcast.  They hold for any sessions, tenants and conversations    *)
(* and any number of messages.                                             *)
(*                                                                         *)
(* The argument.  The mailbox of the hub is one queue, so that where the   *)
(* Connect of a session stands in it divides the messages in two: those    *)
(* before it the session does not get, those behind it are all forwarded,  *)
(* because no Disconnect of the session is ahead of them while it runs.    *)
(* A message leaves the hub's mailbox in the order of the log, so that     *)
(* what was written to a client, what waits in its mailbox and what waits  *)
(* in the hub's are three successive stretches of the log.                 *)
(***************************************************************************)
EXTENDS ChatHub, TLAPS

-----------------------------------------------------------------------------
(* The inductive invariant                                                 *)

Chat   == [kind : {"chat"}, id : Places]
Notice == [kind : {"connect", "disconnect"}, id : Nat, tenant : Tenants,
           conversation : Subjects, addr : Sessions]

SessionRecord == [state : States, id : Nat, tenant : Tenants,
                  conversation : Subjects, age : 0 .. 2, silent : BOOLEAN]

HubTypes ==
  /\ hub \in Seq(Chat \cup Notice)
  /\ DOMAIN globalSessions = Tenants
  /\ DOMAIN conversationSessions = Tenants
  /\ \A t \in Tenants : DOMAIN conversationSessions[t] = Conversations
  /\ nextId \in Nat
  /\ session \in [Sessions -> SessionRecord]
  /\ mail \in [Sessions -> Seq(Places)]
  /\ wrote \in [Sessions -> Seq(Places)]
  /\ log \in Seq(Message) /\ Len(log) <= MaxMessages
  /\ from \in [Sessions -> 0 .. MaxMessages]

\* What waits in the hub's mailbox.
Chats       == {i \in DOMAIN hub : hub[i].kind = "chat"}
Pending     == {hub[i].id : i \in Chats}
Connects(s) == {i \in DOMAIN hub : hub[i].kind = "connect" /\ hub[i].addr = s}
Leaves(s)   == {i \in DOMAIN hub : hub[i].kind = "disconnect" /\ hub[i].addr = s}

\* An id is used once.
IdsInv ==
  /\ \A s \in Sessions : session[s].state # "none" => session[s].id < nextId
  /\ \A s, r \in Sessions :
       session[s].state # "none" /\ session[r].state # "none" /\ session[s].id = session[r].id
         => s = r

\* A Connect or a Disconnect says of its sender what still is so.
NoticesInv ==
  \A i \in DOMAIN hub : hub[i].kind # "chat" =>
    Joined(hub[i].addr) /\ hub[i] = Envelope(hub[i].kind, hub[i].addr)

TablesInv ==
  \A t \in Tenants, c \in Subjects : \A i \in DOMAIN Table(t, c) :
    LET s == Table(t, c)[i] IN
      /\ s \in Sessions /\ Joined(s)
      /\ session[s].id = i /\ session[s].tenant = t /\ session[s].conversation = c

\* Is s in the table it belongs to?
Listed(s) ==
  LET table == Table(session[s].tenant, session[s].conversation) IN
    session[s].id \in DOMAIN table /\ table[session[s].id] = s

FromInv == \A s \in Sessions : from[s] <= Len(log)

\* The hub has the last messages of the log to forward, in the order of it.
PendingInv ==
  /\ \A i \in Chats : hub[i].id \in 1 .. Len(log)
  /\ \A i, j \in Chats : i < j => hub[i].id < hub[j].id
  /\ \A i \in Chats : \A n \in hub[i].id .. Len(log) : n \in Pending

OutsideInv ==
  \A s \in Sessions : ~Joined(s) => mail[s] = << >> /\ wrote[s] = << >>

\* A Connect that waits divides the messages by when it was sent; what its
\* sender sends later is behind it.
ConnectInv ==
  \A s \in Sessions : \A i \in Connects(s) :
    /\ Connects(s) = {i}
    /\ \A j \in Leaves(s) : i < j
    /\ ~Listed(s) /\ mail[s] = << >> /\ wrote[s] = << >>
    /\ \A j \in Chats : IF j < i THEN hub[j].id <= from[s] ELSE from[s] < hub[j].id

\* Once it is handled, all that is left is for the session.
ConnectedInv ==
  \A s \in Sessions : Joined(s) /\ Connects(s) = {} => \A n \in Pending : from[s] < n

\* A running session is in its table or about to be; one that has stopped
\* and is in its table, or about to be, is about to leave it.
OpenInv ==
  \A s \in Sessions : session[s].state = "open" =>
    Leaves(s) = {} /\ (Connects(s) # {} \/ Listed(s))
GoneInv ==
  \A s \in Sessions : session[s].state = "stopped" =>
    (Connects(s) # {} \/ Listed(s) => Leaves(s) # {})

\* Handled, since the session sent its Connect.
Handled(s) == {n \in 1 .. Len(log) : from[s] < n} \ Pending
Wanted(s)  == Subject(session[s].tenant, session[s].conversation)

Increasing(seq) == \A j, k \in DOMAIN seq : j < k => seq[j] < seq[k]

\* What was written to a session and what waits for it follow each other.
Successive(s) ==
  /\ Increasing(wrote[s]) /\ Increasing(mail[s])
  /\ \A j \in DOMAIN wrote[s] : wrote[s][j] \in Handled(s)
  /\ \A j \in DOMAIN mail[s] : mail[s][j] \in Handled(s) /\ log[mail[s][j]] \in Wanted(s)
  /\ \A j \in DOMAIN wrote[s], k \in DOMAIN mail[s] : wrote[s][j] < mail[s][k]

MailInv == \A s \in Sessions : session[s].state = "open" => Successive(s)

HubInv ==
  /\ HubTypes /\ IdsInv /\ NoticesInv /\ TablesInv
  /\ FromInv /\ PendingInv /\ OutsideInv
  /\ ConnectInv /\ ConnectedInv /\ OpenInv /\ GoneInv /\ MailInv /\ NothingMissed

-----------------------------------------------------------------------------
(* Types                                                                   *)

LEMMA ChatOrNotice ==
  ASSUME HubTypes, NEW i \in DOMAIN hub
  PROVE  /\ hub[i].kind = "chat" => hub[i] \in Chat
         /\ hub[i].kind # "chat" => hub[i] \in Notice
         /\ hub[i].kind \in {"chat", "connect", "disconnect"}
<1>1. hub[i] \in Chat \cup Notice
  BY DEF HubTypes
<1>2. QED
  BY <1>1 DEF Chat, Notice

LEMMA SessionTyped ==
  ASSUME HubTypes, NEW s \in Sessions
  PROVE  /\ session[s] \in SessionRecord
         /\ session[s].state \in States /\ session[s].id \in Nat
         /\ session[s].tenant \in Tenants /\ session[s].conversation \in Subjects
         /\ mail[s] \in Seq(Places) /\ wrote[s] \in Seq(Places)
         /\ from[s] \in 0 .. MaxMessages
  BY DEF HubTypes, SessionRecord

LEMMA EnvelopeTyped ==
  ASSUME HubTypes, NEW s \in Sessions, NEW kind \in {"connect", "disconnect"}
  PROVE  Envelope(kind, s) \in Notice
  BY SessionTyped DEF Envelope, Notice

LEMMA HubTypesInit == HInit => HubTypes
<1> SUFFICES ASSUME HInit PROVE HubTypes
  OBVIOUS
<1>1. Unborn \in SessionRecord
  BY HubAssumption DEF Unborn, SessionRecord, States, Subjects
<1>2. MaxMessages \in Nat
  BY HubAssumption
<1>3. QED
  BY <1>1, <1>2 DEF HInit, HubTypes

\* The oldest message of the hub, and what is left.
LEMMA HeadOfHub ==
  ASSUME HubTypes, NEW kind, Mail(kind)
  PROVE  /\ 1 \in DOMAIN hub /\ Head(hub) = hub[1] /\ hub[1].kind = kind
         /\ hub' \in Seq(Chat \cup Notice)
         /\ Len(hub) \in Nat /\ DOMAIN hub = 1 .. Len(hub)
         /\ DOMAIN hub' = 1 .. Len(hub) - 1
         /\ \A i \in DOMAIN hub' : i + 1 \in DOMAIN hub /\ hub'[i] = hub[i + 1]
         /\ \A i \in DOMAIN hub : i # 1 => i - 1 \in DOMAIN hub' /\ hub'[i - 1] = hub[i]
  BY DEF HubTypes, Mail

LEMMA RecordUpdates ==
  ASSUME NEW r \in SessionRecord
  PROVE  /\ Stopped(r) \in SessionRecord
         /\ r.age < 2 => [r EXCEPT !.age = @ + 1] \in SessionRecord
         /\ [r EXCEPT !.age = 0] \in SessionRecord
         /\ [r EXCEPT !.silent = TRUE] \in SessionRecord
         /\ [r EXCEPT !.state = "open"] \in SessionRecord
         /\ [r EXCEPT !.state = "stopped"] \in SessionRecord
<1>1. 0 \in 0 .. 2 /\ (r.age \in 0 .. 2 /\ r.age < 2 => r.age + 1 \in 0 .. 2)
  OBVIOUS
<1>2. QED
  BY <1>1, Zenon DEF SessionRecord, States, Stopped

LEMMA HubTypesStep ==
  ASSUME HubTypes, [HNext]_vars
  PROVE  HubTypes'
<1> USE DEF HubTypes
<1>1. ASSUME NEW s \in Sessions, Accept(s) PROVE HubTypes'
  <2>1. PICK r \in Requests[s] : session' = [session EXCEPT ![s] =
            [state |-> "new", id |-> nextId, tenant |-> r[1],
             conversation |-> r[2], age |-> 0, silent |-> FALSE]]
    BY <1>1 DEF Accept
  <2>2. r[1] \in Tenants /\ r[2] \in Subjects
    BY HubAssumption DEF Subjects
  <2>3. [state |-> "new", id |-> nextId, tenant |-> r[1],
         conversation |-> r[2], age |-> 0, silent |-> FALSE] \in SessionRecord
    BY <2>2 DEF SessionRecord, States
  <2>4. session' \in [Sessions -> SessionRecord]
    BY <2>1, <2>3
  <2>5. QED
    BY <1>1, <2>4 DEF Accept, tables, history
<1>2. ASSUME NEW s \in Sessions, Started(s) PROVE HubTypes'
  <2>1. Envelope("connect", s) \in Notice
    BY EnvelopeTyped
  <2>2. [session[s] EXCEPT !.state = "open"] \in SessionRecord
    BY RecordUpdates
  <2>3. session' \in [Sessions -> SessionRecord]
    BY <1>2, <2>2 DEF Started
  <2>4. Len(log) \in 0 .. MaxMessages
    BY HubAssumption
  <2>5. QED
    BY <1>2, <2>1, <2>3, <2>4 DEF Started, tables
<1>3. ASSUME NEW s \in Sessions PROVE Stopped(session[s]) \in SessionRecord
  BY RecordUpdates
<1>4. ASSUME NEW s \in Sessions, HeartbeatTimeout(s) PROVE HubTypes'
  BY <1>3, <1>4, EnvelopeTyped DEF HeartbeatTimeout, tables, history
<1>5. ASSUME NEW s \in Sessions, ClientCloses(s) PROVE HubTypes'
  BY <1>3, <1>5 DEF ClientCloses, tables, history
<1>6. ASSUME NEW s \in Sessions, HeartbeatPing(s) PROVE HubTypes'
  <2>1. [session[s] EXCEPT !.age = @ + 1] \in SessionRecord
    BY <1>6, RecordUpdates DEF HeartbeatPing, Answering
  <2>2. QED
    BY <1>6, <2>1 DEF HeartbeatPing, tables, history
<1>7. ASSUME NEW s \in Sessions, SignOfLife(s) PROVE HubTypes'
  <2>1. [session[s] EXCEPT !.age = 0] \in SessionRecord
    BY RecordUpdates
  <2>2. QED
    BY <1>7, <2>1 DEF SignOfLife, tables, history
<1>8. ASSUME NEW s \in Sessions, GoesSilent(s) PROVE HubTypes'
  <2>1. [session[s] EXCEPT !.silent = TRUE] \in SessionRecord
    BY RecordUpdates
  <2>2. QED
    BY <1>8, <2>1 DEF GoesSilent, tables, history
<1>9. ASSUME NEW s \in Sessions, Stopping(s) PROVE HubTypes'
  <2>1. [session[s] EXCEPT !.state = "stopped"] \in SessionRecord
    BY RecordUpdates
  <2>2. QED
    BY <1>9, <2>1, EnvelopeTyped DEF Stopping, tables, history
<1>10. ASSUME NEW s \in Sessions, Deliver(s) PROVE HubTypes'
  <2>1. Head(mail[s]) \in Places /\ Tail(mail[s]) \in Seq(Places)
    BY <1>10 DEF Deliver
  <2>2. Append(wrote[s], Head(mail[s])) \in Seq(Places)
    BY <2>1
  <2>3. QED
    BY <1>10, <2>1, <2>2 DEF Deliver, tables, history
<1>11. ASSUME HandleConnect \/ HandleDisconnect PROVE HubTypes'
  <2>1. hub' \in Seq(Chat \cup Notice)
    BY <1>11, HeadOfHub DEF HandleConnect, HandleDisconnect
  <2>2. /\ DOMAIN globalSessions' = Tenants
        /\ DOMAIN conversationSessions' = Tenants
        /\ \A t \in Tenants : DOMAIN conversationSessions'[t] = Conversations
    BY <1>11 DEF HandleConnect, HandleDisconnect
  <2>3. QED
    BY <1>11, <2>1, <2>2 DEF HandleConnect, HandleDisconnect, history
<1>12. ASSUME HandleChat PROVE HubTypes'
  <2>1. hub' \in Seq(Chat \cup Notice) /\ hub[1] \in Chat /\ Head(hub) = hub[1]
    BY <1>12, HeadOfHub, ChatOrNotice DEF HandleChat
  <2>2. Head(hub).id \in Places
    BY <2>1 DEF Chat
  <2>3. \A s \in Sessions : Append(mail[s], Head(hub).id) \in Seq(Places)
    BY <2>2
  <2>4. mail' \in [Sessions -> Seq(Places)]
    BY <1>12, <2>3 DEF HandleChat
  <2>5. QED
    BY <1>12, <2>1, <2>4 DEF HandleChat, tables, history
<1>13. ASSUME Publish PROVE HubTypes'
  <2>1. PICK c \in Conversations :
          log' = Append(log, [tenant |-> TenantOf[c], conversation |-> c])
    BY <1>13 DEF Publish
  <2>2. [tenant |-> TenantOf[c], conversation |-> c] \in Message
    BY HubAssumption DEF Message
  <2>3. [kind |-> "chat", id |-> Len(log) + 1] \in Chat
    BY <1>13, HubAssumption DEF Publish, Chat, Places
  <2>4. log' \in Seq(Message) /\ Len(log') <= MaxMessages
    BY <1>13, <2>1, <2>2, HubAssumption DEF Publish
  <2>5. hub' \in Seq(Chat \cup Notice)
    BY <1>13, <2>3 DEF Publish
  <2>6. QED
    BY <1>13, <2>4, <2>5 DEF Publish, tables
<1>14. ASSUME UNCHANGED vars PROVE HubTypes'
  BY <1>14 DEF vars, tables, history
<1>15. QED
  BY <1>1, <1>2, <1>4, <1>5, <1>6, <1>7, <1>8, <1>9, <1>10, <1>11, <1>12, <1>13, <1>14
     DEF HNext, HandleMail, SessionStep

-----------------------------------------------------------------------------
(***************************************************************************)
(* The steps by what they change.  Who a session is (its id, tenant and    *)
(* conversation) is settled when it is accepted.                           *)
(***************************************************************************)
Same(s) ==
  /\ session'[s].id = session[s].id
  /\ session'[s].tenant = session[s].tenant
  /\ session'[s].conversation = session[s].conversation
OnlyIn(s) == \A r \in Sessions \ {s} : Same(r) /\ session'[r].state = session[r].state

Quiet ==
  /\ UNCHANGED <<hub, tables, nextId, mail, wrote, history>>
  /\ \A s \in Sessions : Same(s) /\ session'[s].state = session[s].state

Accepts(s) ==
  /\ UNCHANGED <<hub, tables, mail, wrote, history>>
  /\ session[s].state = "none" /\ session'[s].state = "new"
  /\ session'[s].id = nextId /\ nextId' = nextId + 1
  /\ OnlyIn(s)

Starts(s) ==
  /\ UNCHANGED <<tables, nextId, mail, wrote, log>>
  /\ session[s].state = "new" /\ session'[s].state = "open"
  /\ Same(s) /\ OnlyIn(s)
  /\ hub' = Append(hub, Envelope("connect", s))
  /\ from' = [from EXCEPT ![s] = Len(log)]

\* Told or not.
Ends(s) ==
  /\ UNCHANGED <<tables, nextId, mail, wrote, history>>
  /\ session[s].state = "open" /\ session'[s].state = "stopping"
  /\ Same(s) /\ OnlyIn(s)
  /\ hub' = hub \/ hub' = Append(hub, Envelope("disconnect", s))

Stops(s) ==
  /\ UNCHANGED <<tables, nextId, wrote, history>>
  /\ session[s].state = "stopping" /\ session'[s].state = "stopped"
  /\ Same(s) /\ OnlyIn(s)
  /\ hub' = Append(hub, Envelope("disconnect", s))
  /\ mail' = [mail EXCEPT ![s] = << >>]

StepKind ==
  \/ Quiet
  \/ \E s \in Sessions : Accepts(s) \/ Starts(s) \/ Ends(s) \/ Stops(s) \/ Deliver(s)
  \/ HandleConnect \/ HandleDisconnect \/ HandleChat \/ Publish

LEMMA StepKinds ==
  ASSUME HubTypes, [HNext]_vars
  PROVE  StepKind
<1>1. session \in [Sessions -> SessionRecord]
  BY DEF HubTypes
<1>2. ASSUME NEW s \in Sessions, Accept(s) PROVE Accepts(s)
  <2>1. PICK r \in Requests[s] : session' = [session EXCEPT ![s] =
            [state |-> "new", id |-> nextId, tenant |-> r[1],
             conversation |-> r[2], age |-> 0, silent |-> FALSE]]
    BY <1>2 DEF Accept
  <2>2. session'[s] = [state |-> "new", id |-> nextId, tenant |-> r[1],
             conversation |-> r[2], age |-> 0, silent |-> FALSE]
        /\ \A q \in Sessions \ {s} : session'[q] = session[q]
    BY <1>1, <2>1
  <2>3. QED
    BY <1>2, <2>2 DEF Accept, Accepts, OnlyIn, Same
<1>3. ASSUME NEW s \in Sessions, Started(s) PROVE Starts(s)
  BY <1>1, <1>3 DEF Started, Starts, OnlyIn, Same, SessionRecord
<1>4. ASSUME NEW s \in Sessions, session' = [session EXCEPT ![s] = Stopped(@)]
      PROVE  session'[s].state = "stopping" /\ Same(s) /\ OnlyIn(s)
  BY <1>1, <1>4 DEF Stopped, OnlyIn, Same, SessionRecord
<1>5. ASSUME NEW s \in Sessions, HeartbeatTimeout(s) \/ ClientCloses(s) PROVE Ends(s)
  BY <1>4, <1>5 DEF HeartbeatTimeout, ClientCloses, Ends
<1>6. ASSUME NEW s \in Sessions, HeartbeatPing(s) \/ SignOfLife(s) \/ GoesSilent(s)
      PROVE  Quiet
  <2>1. \A r \in Sessions : Same(r) /\ session'[r].state = session[r].state
    BY <1>1, <1>6 DEF HeartbeatPing, SignOfLife, GoesSilent, Same, SessionRecord
  <2>2. QED
    BY <1>6, <2>1 DEF HeartbeatPing, SignOfLife, GoesSilent, Quiet
<1>7. ASSUME NEW s \in Sessions, Stopping(s) PROVE Stops(s)
  BY <1>1, <1>7 DEF Stopping, Stops, OnlyIn, Same, SessionRecord
<1>8. ASSUME UNCHANGED vars PROVE Quiet
  BY <1>8 DEF vars, Quiet, Same
<1>9. QED
  BY <1>2, <1>3, <1>5, <1>6, <1>7, <1>8 DEF HNext, HandleMail, SessionStep, StepKind

-----------------------------------------------------------------------------
(***************************************************************************)
(* The hub's mailbox.  A message sent is added at the end; the one handled *)
(* is removed at the front, and the others move up by one.                 *)
(***************************************************************************)
Ahead(S) == {i - 1 : i \in S \ {1}}

LEMMA NoticeSent ==
  ASSUME HubTypes, NEW s \in Sessions, NEW kind \in {"connect", "disconnect"},
         hub' = Append(hub, Envelope(kind, s))
  PROVE  /\ Len(hub) \in Nat /\ DOMAIN hub = 1 .. Len(hub)
         /\ DOMAIN hub' = 1 .. Len(hub) + 1
         /\ \A i \in DOMAIN hub : hub'[i] = hub[i]
         /\ hub'[Len(hub) + 1] = Envelope(kind, s)
         /\ Chats' = Chats /\ Pending' = Pending
         /\ \A r \in Sessions :
              /\ Connects(r)' = IF r = s /\ kind = "connect" THEN Connects(r) \cup {Len(hub) + 1}
                                                             ELSE Connects(r)
              /\ Leaves(r)' = IF r = s /\ kind = "disconnect" THEN Leaves(r) \cup {Len(hub) + 1}
                                                              ELSE Leaves(r)
<1>1. /\ Len(hub) \in Nat /\ DOMAIN hub = 1 .. Len(hub)
      /\ DOMAIN hub' = 1 .. Len(hub) + 1
      /\ \A i \in DOMAIN hub : hub'[i] = hub[i]
      /\ hub'[Len(hub) + 1] = Envelope(kind, s)
  BY EnvelopeTyped DEF HubTypes
<1>2. DOMAIN hub' = DOMAIN hub \cup {Len(hub) + 1} /\ Len(hub) + 1 \notin DOMAIN hub
  BY <1>1
<1>3. Envelope(kind, s).kind = kind /\ Envelope(kind, s).addr = s
  BY DEF Envelope
<1>4. Chats' = Chats
  BY <1>1, <1>2, <1>3 DEF Chats
<1>5. Pending' = Pending
  BY <1>1, <1>4 DEF Pending, Chats
<1>6. ASSUME NEW r \in Sessions
      PROVE  /\ Connects(r)' = IF r = s /\ kind = "connect" THEN Connects(r) \cup {Len(hub) + 1}
                                                            ELSE Connects(r)
             /\ Leaves(r)' = IF r = s /\ kind = "disconnect" THEN Leaves(r) \cup {Len(hub) + 1}
                                                             ELSE Leaves(r)
  BY <1>1, <1>2, <1>3 DEF Connects, Leaves
<1>7. QED
  BY <1>1, <1>4, <1>5, <1>6

LEMMA ChatSent ==
  ASSUME HubTypes, Publish
  PROVE  /\ Len(hub) \in Nat /\ DOMAIN hub = 1 .. Len(hub)
         /\ DOMAIN hub' = 1 .. Len(hub) + 1
         /\ \A i \in DOMAIN hub : hub'[i] = hub[i]
         /\ hub'[Len(hub) + 1].kind = "chat" /\ hub'[Len(hub) + 1].id = Len(log) + 1
         /\ Chats' = Chats \cup {Len(hub) + 1} /\ Pending' = Pending \cup {Len(log) + 1}
         /\ \A s \in Sessions : Connects(s)' = Connects(s) /\ Leaves(s)' = Leaves(s)
         /\ Len(log) \in Nat /\ Len(log') = Len(log) + 1
         /\ \A n \in 1 .. Len(log) : log'[n] = log[n]
<1>1. [kind |-> "chat", id |-> Len(log) + 1] \in Chat
  BY HubAssumption DEF HubTypes, Publish, Chat, Places
<1>2. /\ Len(hub) \in Nat /\ DOMAIN hub = 1 .. Len(hub)
      /\ DOMAIN hub' = 1 .. Len(hub) + 1
      /\ \A i \in DOMAIN hub : hub'[i] = hub[i]
      /\ hub'[Len(hub) + 1].kind = "chat" /\ hub'[Len(hub) + 1].id = Len(log) + 1
  BY <1>1 DEF HubTypes, Publish
<1>3. DOMAIN hub' = DOMAIN hub \cup {Len(hub) + 1} /\ Len(hub) + 1 \notin DOMAIN hub
  BY <1>2
<1>4. Chats' = Chats \cup {Len(hub) + 1}
  BY <1>2, <1>3 DEF Chats
<1>5. Pending' = Pending \cup {Len(log) + 1}
  BY <1>2, <1>3, <1>4 DEF Pending, Chats
<1>6. ASSUME NEW s \in Sessions PROVE Connects(s)' = Connects(s) /\ Leaves(s)' = Leaves(s)
  BY <1>2, <1>3 DEF Connects, Leaves
<1>7. PICK c \in Conversations :
        log' = Append(log, [tenant |-> TenantOf[c], conversation |-> c])
  BY DEF Publish
<1>8. [tenant |-> TenantOf[c], conversation |-> c] \in Message
  BY HubAssumption DEF Message
<1>9. /\ Len(log) \in Nat /\ Len(log') = Len(log) + 1
      /\ \A n \in 1 .. Len(log) : log'[n] = log[n]
  BY <1>7, <1>8 DEF HubTypes
<1>10. QED
  BY <1>2, <1>4, <1>5, <1>6, <1>9

LEMMA MailHandled ==
  ASSUME HubTypes, NEW kind, Mail(kind)
  PROVE  /\ Chats' = Ahead(Chats)
         /\ \A s \in Sessions :
              Connects(s)' = Ahead(Connects(s)) /\ Leaves(s)' = Ahead(Leaves(s))
         /\ \A i \in DOMAIN hub : i \in Nat /\ i >= 1
         /\ \A i \in Chats' : i + 1 \in Chats /\ hub'[i] = hub[i + 1]
         /\ kind # "chat" => Pending' = Pending
         /\ (kind = "chat" /\ PendingInv) => Pending' = Pending \ {hub[1].id}
<1>1. /\ 1 \in DOMAIN hub /\ hub[1].kind = kind
      /\ Len(hub) \in Nat /\ DOMAIN hub = 1 .. Len(hub)
      /\ DOMAIN hub' = 1 .. Len(hub) - 1
      /\ \A i \in DOMAIN hub' : i + 1 \in DOMAIN hub /\ hub'[i] = hub[i + 1]
      /\ \A i \in DOMAIN hub : i # 1 => i - 1 \in DOMAIN hub' /\ hub'[i - 1] = hub[i]
  BY HeadOfHub
<1>2. \A i \in DOMAIN hub' : i \in Nat /\ i >= 1 /\ (i + 1) - 1 = i /\ i + 1 # 1
  BY <1>1
<1>3. \A i \in DOMAIN hub : i \in Nat /\ i >= 1 /\ (i - 1) + 1 = i
  BY <1>1
<1>4. Chats' = Ahead(Chats)
  BY <1>1, <1>2, <1>3 DEF Chats, Ahead
<1>5. ASSUME NEW s \in Sessions
      PROVE  Connects(s)' = Ahead(Connects(s)) /\ Leaves(s)' = Ahead(Leaves(s))
  BY <1>1, <1>2, <1>3 DEF Connects, Leaves, Ahead
<1>6. \A i \in Chats' : i + 1 \in Chats /\ hub'[i] = hub[i + 1] /\ i + 1 # 1
  BY <1>1, <1>2 DEF Chats
<1>7. \A i \in Chats : i # 1 => i - 1 \in Chats' /\ hub'[i - 1] = hub[i]
  BY <1>1, <1>3 DEF Chats
<1>8. Pending' = {hub[i].id : i \in Chats \ {1}}
  BY <1>6, <1>7 DEF Pending
<1>9. ASSUME kind # "chat" PROVE Pending' = Pending
  BY <1>1, <1>8, <1>9 DEF Pending, Chats
<1>10. ASSUME kind = "chat", PendingInv PROVE Pending' = Pending \ {hub[1].id}
  <2>1. 1 \in Chats /\ \A i \in Chats \ {1} : 1 < i
    BY <1>1, <1>3, <1>10 DEF Chats
  <2>2. \A i \in Chats \ {1} : hub[i].id # hub[1].id
    BY <1>10, <2>1 DEF PendingInv
  <2>3. QED
    BY <1>8, <2>1, <2>2 DEF Pending
<1>11. QED
  BY <1>3, <1>4, <1>5, <1>6, <1>9, <1>10

-----------------------------------------------------------------------------
(* Sessions, notices and tables                                            *)

LEMMA KeepsIdentity ==
  ASSUME HubTypes, [HNext]_vars, NEW s \in Sessions
  PROVE  /\ session[s].state # "none" => Same(s) /\ session'[s].state # "none"
         /\ Joined(s) => Joined(s)'
<1>1. StepKind
  BY StepKinds
<1>2. session[s].state # "none" => Same(s) /\ session'[s].state # "none"
  BY <1>1 DEF StepKind, Quiet, Accepts, Starts, Ends, Stops, OnlyIn, Same, Deliver,
              HandleConnect, HandleDisconnect, HandleChat, Publish
<1>3. Joined(s) => Joined(s)'
  BY <1>1 DEF StepKind, Quiet, Accepts, Starts, Ends, Stops, OnlyIn, Deliver, Joined,
              HandleConnect, HandleDisconnect, HandleChat, Publish
<1>4. QED
  BY <1>2, <1>3

LEMMA IdsStep ==
  ASSUME HubTypes, IdsInv, [HNext]_vars
  PROVE  IdsInv'
<1>1. StepKind /\ nextId \in Nat
  BY StepKinds DEF HubTypes
<1>2. ASSUME NEW s \in Sessions, Accepts(s) PROVE IdsInv'
  <2>1. \A r \in Sessions : session[r].id \in Nat
    BY SessionTyped
  <2>2. QED
    BY <1>1, <1>2, <2>1 DEF Accepts, OnlyIn, Same, IdsInv
<1>3. CASE Quiet
  BY <1>3 DEF Quiet, Same, IdsInv
<1>4. ASSUME NEW s \in Sessions, Starts(s) \/ Ends(s) \/ Stops(s) PROVE IdsInv'
  BY <1>4 DEF Starts, Ends, Stops, OnlyIn, Same, IdsInv
<1>5. CASE UNCHANGED <<session, nextId>>
  BY <1>5 DEF IdsInv
<1>6. QED
  BY <1>1, <1>2, <1>3, <1>4, <1>5
     DEF StepKind, Deliver, HandleConnect, HandleDisconnect, HandleChat, Publish

LEMMA NoticesStep ==
  ASSUME HubTypes, NoticesInv, [HNext]_vars
  PROVE  NoticesInv'
<1> SUFFICES ASSUME NEW i \in DOMAIN hub', NEW k, NEW r,
                    k = hub'[i].kind, r = hub'[i].addr, k # "chat"
             PROVE  Joined(r)' /\ hub'[i] = Envelope(k, r)'
  BY DEF NoticesInv, Joined, Envelope
<1>1. StepKind
  BY StepKinds
<1>2. ASSUME NEW j \in DOMAIN hub, hub'[i] = hub[j]
      PROVE  Joined(r)' /\ hub'[i] = Envelope(k, r)'
  <2>1. hub[j].addr \in Sessions
    BY <1>2, ChatOrNotice DEF Notice
  <2>2. Joined(hub[j].addr) /\ hub[j] = Envelope(hub[j].kind, hub[j].addr)
    BY <1>2 DEF NoticesInv
  <2>3. Same(hub[j].addr) /\ session'[hub[j].addr].state \in {"open", "stopping", "stopped"}
    BY <2>1, <2>2, KeepsIdentity DEF Joined
  <2>4. QED
    BY <1>2, <2>2, <2>3 DEF Same, Envelope, Joined
<1>3. ASSUME NEW s \in Sessions, NEW kind \in {"connect", "disconnect"}, Same(s),
             session'[s].state \in {"open", "stopping", "stopped"},
             hub' = Append(hub, Envelope(kind, s))
      PROVE  Joined(r)' /\ hub'[i] = Envelope(k, r)'
  <2>1. i \in DOMAIN hub \/ hub'[i] = Envelope(kind, s)
    BY <1>3, NoticeSent
  <2>2. i \in DOMAIN hub => hub'[i] = hub[i]
    BY <1>3, NoticeSent
  <2>3. CASE hub'[i] = Envelope(kind, s)
    BY <1>3, <2>3 DEF Envelope, Same, Joined
  <2>4. QED
    BY <1>2, <2>1, <2>2, <2>3
<1>4. CASE hub' = hub
  BY <1>2, <1>4
<1>5. ASSUME NEW s \in Sessions, Starts(s) \/ Ends(s) \/ Stops(s)
      PROVE  Joined(r)' /\ hub'[i] = Envelope(k, r)'
  BY <1>3, <1>4, <1>5 DEF Starts, Ends, Stops
<1>6. CASE Publish
  BY <1>2, <1>6, ChatSent
<1>7. ASSUME NEW kind, Mail(kind)
      PROVE  Joined(r)' /\ hub'[i] = Envelope(k, r)'
  BY <1>2, <1>7, HeadOfHub
<1>8. QED
  BY <1>1, <1>4, <1>5, <1>6, <1>7
     DEF StepKind, Quiet, Accepts, Deliver, HandleConnect, HandleDisconnect, HandleChat

\* The notice the hub handles, and what it does to the tables.
LEMMA NoticeHandled ==
  ASSUME HubTypes, NoticesInv, HandleConnect \/ HandleDisconnect
  PROVE  LET s == Head(hub).addr IN
         /\ s \in Sessions /\ Joined(s) /\ Head(hub) = hub[1]
         /\ Head(hub).id = session[s].id /\ Head(hub).tenant = session[s].tenant
         /\ Head(hub).conversation = session[s].conversation
<1>1. 1 \in DOMAIN hub /\ Head(hub) = hub[1] /\ hub[1].kind # "chat"
  BY HeadOfHub DEF HandleConnect, HandleDisconnect
<1>2. hub[1] = Envelope(hub[1].kind, hub[1].addr) /\ Joined(hub[1].addr)
  BY <1>1 DEF NoticesInv
<1>3. hub[1].addr \in Sessions
  BY <1>1, ChatOrNotice DEF Notice
<1>4. QED
  BY <1>1, <1>2, <1>3 DEF Envelope

LEMMA TableConnected ==
  ASSUME HubTypes, HandleConnect, NEW t \in Tenants, NEW c \in Subjects,
         Head(hub).tenant \in Tenants, Head(hub).conversation \in Subjects
  PROVE  Table(t, c)' = IF t = Head(hub).tenant /\ c = Head(hub).conversation
                          THEN Inserted(Table(t, c), Head(hub).id, Head(hub).addr)
                          ELSE Table(t, c)
  BY DEF HubTypes, HandleConnect, Table, Subjects

LEMMA TableDisconnected ==
  ASSUME HubTypes, HandleDisconnect, NEW t \in Tenants, NEW c \in Subjects,
         Head(hub).tenant \in Tenants, Head(hub).conversation \in Subjects
  PROVE  Table(t, c)' = IF t = Head(hub).tenant /\ c = Head(hub).conversation
                          THEN Removed(Table(t, c), Head(hub).id)
                          ELSE Table(t, c)
  BY DEF HubTypes, HandleDisconnect, Table, Subjects

LEMMA TablesStep ==
  ASSUME HubTypes, NoticesInv, TablesInv, [HNext]_vars
  PROVE  TablesInv'
<1> SUFFICES ASSUME NEW t \in Tenants, NEW c \in Subjects, NEW i \in DOMAIN Table(t, c)',
                    NEW s, s = Table(t, c)'[i]
             PROVE  /\ s \in Sessions /\ Joined(s)'
                    /\ session'[s].id = i /\ session'[s].tenant = t
                    /\ session'[s].conversation = c
  BY DEF TablesInv, Joined
<1>1. SUFFICES /\ s \in Sessions /\ Joined(s)
               /\ session[s].id = i /\ session[s].tenant = t /\ session[s].conversation = c
  BY KeepsIdentity DEF Joined, Same
<1>2. CASE Table(t, c)' = Table(t, c)
  BY <1>2 DEF TablesInv
<1>3. CASE HandleConnect
  <2>1. /\ Head(hub).addr \in Sessions /\ Joined(Head(hub).addr)
        /\ Head(hub).id = session[Head(hub).addr].id
        /\ Head(hub).tenant = session[Head(hub).addr].tenant
        /\ Head(hub).conversation = session[Head(hub).addr].conversation
    BY <1>3, NoticeHandled
  <2>2. Head(hub).tenant \in Tenants /\ Head(hub).conversation \in Subjects
    BY <2>1, SessionTyped
  <2>3. Table(t, c)' = IF t = Head(hub).tenant /\ c = Head(hub).conversation
                         THEN Inserted(Table(t, c), Head(hub).id, Head(hub).addr)
                         ELSE Table(t, c)
    BY <1>3, <2>2, TableConnected
  <2>4. CASE t = Head(hub).tenant /\ c = Head(hub).conversation
    <3>1. (i \in DOMAIN Table(t, c) /\ s = Table(t, c)[i]) \/ (i = Head(hub).id /\ s = Head(hub).addr)
      BY <2>3, <2>4 DEF Inserted
    <3>2. QED
      BY <2>1, <2>4, <3>1 DEF TablesInv
  <2>5. QED
    BY <1>2, <2>3, <2>4
<1>4. CASE HandleDisconnect
  <2>1. Head(hub).tenant \in Tenants /\ Head(hub).conversation \in Subjects
    BY <1>4, NoticeHandled, SessionTyped
  <2>2. Table(t, c)' = Removed(Table(t, c), Head(hub).id) \/ Table(t, c)' = Table(t, c)
    BY <1>4, <2>1, TableDisconnected
  <2>3. i \in DOMAIN Table(t, c) /\ s = Table(t, c)[i]
    BY <2>2 DEF Removed, Restrict
  <2>4. QED
    BY <2>3 DEF TablesInv
<1>5. CASE UNCHANGED tables
  BY <1>2, <1>5 DEF tables, Table
<1>6. QED
  BY <1>3, <1>4, <1>5, StepKinds
     DEF StepKind, Quiet, Accepts, Starts, Ends, Stops, Deliver, HandleChat, Publish

-----------------------------------------------------------------------------
(* Who is in the tables                                                    *)

LEMMA ListedJoined ==
  ASSUME HubTypes, TablesInv, NEW s \in Sessions, Listed(s)
  PROVE  Joined(s)
  BY SessionTyped DEF Listed, TablesInv

LEMMA ConnectLists ==
  ASSUME HubTypes, IdsInv, NoticesInv, TablesInv, HandleConnect, NEW r \in Sessions
  PROVE  Listed(r)' <=> (Listed(r) \/ r = Head(hub).addr)
<1> DEFINE a == Head(hub).addr
           t == session[r].tenant
           c == session[r].conversation
<1>1. /\ a \in Sessions /\ Joined(a)
      /\ Head(hub).id = session[a].id /\ Head(hub).tenant = session[a].tenant
      /\ Head(hub).conversation = session[a].conversation
  BY NoticeHandled
<1>2. t \in Tenants /\ c \in Subjects
      /\ Head(hub).tenant \in Tenants /\ Head(hub).conversation \in Subjects
  BY <1>1, SessionTyped
<1>3. session' = session
  BY DEF HandleConnect
<1>4. Table(t, c)' = IF t = Head(hub).tenant /\ c = Head(hub).conversation
                       THEN Inserted(Table(t, c), Head(hub).id, Head(hub).addr)
                       ELSE Table(t, c)
  BY <1>2, <1>3, TableConnected
<1>5. Listed(r)' <=> session[r].id \in DOMAIN Table(t, c)' /\ Table(t, c)'[session[r].id] = r
  BY <1>3 DEF Listed, Table
<1>6. CASE r = a
  BY <1>1, <1>4, <1>5, <1>6 DEF Inserted
<1>7. CASE r # a
  <2>1. Listed(r) => session[r].id # Head(hub).id
    BY <1>1, <1>7, ListedJoined DEF IdsInv, Joined
  <2>2. QED
    BY <1>4, <1>5, <1>7, <2>1 DEF Inserted, Listed
<1>8. QED
  BY <1>6, <1>7

LEMMA DisconnectDelists ==
  ASSUME HubTypes, IdsInv, NoticesInv, TablesInv, HandleDisconnect, NEW r \in Sessions
  PROVE  Listed(r)' <=> (Listed(r) /\ r # Head(hub).addr)
<1> DEFINE a == Head(hub).addr
           t == session[r].tenant
           c == session[r].conversation
<1>1. /\ a \in Sessions /\ Joined(a)
      /\ Head(hub).id = session[a].id /\ Head(hub).tenant = session[a].tenant
      /\ Head(hub).conversation = session[a].conversation
  BY NoticeHandled
<1>2. t \in Tenants /\ c \in Subjects
      /\ Head(hub).tenant \in Tenants /\ Head(hub).conversation \in Subjects
  BY <1>1, SessionTyped
<1>3. session' = session
  BY DEF HandleDisconnect
<1>4. Table(t, c)' = IF t = Head(hub).tenant /\ c = Head(hub).conversation
                       THEN Removed(Table(t, c), Head(hub).id)
                       ELSE Table(t, c)
  BY <1>2, <1>3, TableDisconnected
<1>5. Listed(r)' <=> session[r].id \in DOMAIN Table(t, c)' /\ Table(t, c)'[session[r].id] = r
  BY <1>3 DEF Listed, Table
<1>6. CASE r = a
  BY <1>1, <1>4, <1>5, <1>6 DEF Removed, Restrict
<1>7. CASE r # a
  <2>1. Listed(r) => session[r].id # Head(hub).id
    BY <1>1, <1>7, ListedJoined DEF IdsInv, Joined
  <2>2. QED
    BY <1>4, <1>5, <1>7, <2>1 DEF Removed, Restrict, Listed
<1>8. QED
  BY <1>6, <1>7

LEMMA OthersListNobody ==
  ASSUME HubTypes, [HNext]_vars, UNCHANGED tables, NEW s \in Sessions, session[s].state # "none"
  PROVE  Listed(s)' <=> Listed(s)
  BY KeepsIdentity DEF Listed, Same, Table, tables

LEMMA KnownIsListed ==
  ASSUME HubTypes, TablesInv, NEW s \in Sessions
  PROVE  Known(s) <=> Listed(s)
<1>1. ASSUME Known(s) PROVE Listed(s)
  <2>1. PICK table \in Tables : s \in Range(table)
    BY <1>1 DEF Known
  <2>2. PICK t \in Tenants, c \in Subjects : table = Table(t, c)
    <3>1. CASE \E t \in Tenants : table = globalSessions[t]
      BY <3>1 DEF Table, Subjects
    <3>2. CASE \E t \in Tenants : \E c \in Conversations : table = conversationSessions[t][c]
      BY <3>2, HubAssumption DEF Table, Subjects
    <3>3. QED
      BY <2>1, <3>1, <3>2 DEF Tables
  <2>3. PICK i \in DOMAIN table : s = table[i]
    BY <2>1 DEF Range
  <2>4. QED
    BY <2>2, <2>3 DEF TablesInv, Listed
<1>2. ASSUME Listed(s) PROVE Known(s)
  <2>1. session[s].tenant \in Tenants /\ session[s].conversation \in Subjects
    BY SessionTyped
  <2>2. Table(session[s].tenant, session[s].conversation) \in Tables
    BY <2>1 DEF Table, Tables, Subjects
  <2>3. QED
    BY <1>2, <2>2 DEF Listed, Known, Range
<1>3. QED
  BY <1>1, <1>2

\* A message goes to the sessions in the tables whose subject it is.
LEMMA ListenersAreListed ==
  ASSUME HubTypes, TablesInv, NEW m \in Message, NEW s \in Sessions
  PROVE  s \in Listeners(m) <=> (Listed(s) /\ m \in Wanted(s))
<1>1. m.tenant \in Tenants /\ m.conversation \in Conversations /\ m.conversation # NoConversation
  BY HubAssumption DEF Message
<1>2. session[s].tenant \in Tenants /\ session[s].conversation \in Subjects
  BY SessionTyped
<1>3. /\ globalSessions[m.tenant] = Table(m.tenant, NoConversation)
      /\ conversationSessions[m.tenant][m.conversation] = Table(m.tenant, m.conversation)
      /\ NoConversation \in Subjects /\ m.conversation \in Subjects
  BY <1>1 DEF Table, Subjects
<1>4. ASSUME s \in Listeners(m) PROVE Listed(s) /\ m \in Wanted(s)
  <2>1. PICK c \in {NoConversation, m.conversation} : s \in Range(Table(m.tenant, c))
    BY <1>3, <1>4 DEF Listeners
  <2>2. PICK i \in DOMAIN Table(m.tenant, c) : s = Table(m.tenant, c)[i]
    BY <2>1 DEF Range
  <2>3. session[s].id = i /\ session[s].tenant = m.tenant /\ session[s].conversation = c
    BY <1>1, <1>3, <2>2 DEF TablesInv
  <2>4. QED
    BY <1>1, <2>2, <2>3 DEF Listed, Wanted, Subject
<1>5. ASSUME Listed(s), m \in Wanted(s) PROVE s \in Listeners(m)
  <2>1. /\ session[s].tenant = m.tenant
        /\ session[s].conversation \in {NoConversation, m.conversation}
    BY <1>5 DEF Wanted, Subject
  <2>2. s \in Range(Table(m.tenant, session[s].conversation))
    BY <1>5, <2>1 DEF Listed, Range
  <2>3. QED
    BY <1>3, <2>1, <2>2 DEF Listeners
<1>6. QED
  BY <1>4, <1>5

-----------------------------------------------------------------------------
(* What waits in the hub's mailbox                                         *)

LEMMA AheadOf ==
  ASSUME NEW S, NEW i, i \in Ahead(S), S \subseteq Nat
  PROVE  i + 1 \in S /\ i + 1 # 1 /\ i \in Int
<1>1. PICK k \in S \ {1} : i = k - 1
  BY DEF Ahead
<1>2. QED
  BY <1>1

LEMMA PendingStep ==
  ASSUME HubTypes, PendingInv, [HNext]_vars
  PROVE  PendingInv'
<1>1. StepKind
  BY StepKinds
<1>2. CASE UNCHANGED <<hub, log>>
  BY <1>2 DEF PendingInv, Chats, Pending
<1>3. ASSUME NEW s \in Sessions, NEW kind \in {"connect", "disconnect"},
             hub' = Append(hub, Envelope(kind, s)), log' = log
      PROVE  PendingInv'
  <2>1. /\ Chats' = Chats /\ Pending' = Pending
        /\ \A i \in Chats : hub'[i] = hub[i]
    BY <1>3, NoticeSent DEF Chats
  <2>2. QED
    BY <1>3, <2>1 DEF PendingInv
<1>4. ASSUME NEW s \in Sessions, Starts(s) \/ Ends(s) \/ Stops(s) PROVE PendingInv'
  BY <1>2, <1>3, <1>4 DEF Starts, Ends, Stops, history
<1>5. CASE Publish
  <2>1. /\ Len(hub) \in Nat /\ DOMAIN hub = 1 .. Len(hub)
        /\ Len(log) \in Nat /\ Len(log') = Len(log) + 1
        /\ \A i \in Chats : hub'[i] = hub[i] /\ i \in 1 .. Len(hub)
        /\ hub'[Len(hub) + 1].id = Len(log) + 1
        /\ Chats' = Chats \cup {Len(hub) + 1} /\ Pending' = Pending \cup {Len(log) + 1}
    BY <1>5, ChatSent DEF Chats
  <2>2. QED
    BY <2>1 DEF PendingInv
<1>6. ASSUME NEW kind, Mail(kind), log' = log PROVE PendingInv'
  <2>1. Chats \subseteq Nat
    BY <1>6, MailHandled DEF Chats
  <2>2. \A i \in Chats' : i + 1 \in Chats /\ i \in Int /\ i + 1 # 1 /\ hub'[i] = hub[i + 1]
    BY <1>6, <2>1, MailHandled, AheadOf
  <2>3. \A i, j \in Chats' : i < j => i + 1 < j + 1
    BY <2>2
  <2>4. kind = "chat" => /\ Pending' = Pending \ {hub[1].id} /\ 1 \in Chats
                         /\ \A i \in Chats' : 1 < i + 1
    BY <1>6, <2>1, <2>2, MailHandled, HeadOfHub DEF Chats
  <2>5. kind # "chat" => Pending' = Pending
    BY <1>6, MailHandled
  <2>6. \A i \in Chats' : hub'[i].id \in 1 .. Len(log)
    BY <2>2 DEF PendingInv
  <2>7. \A i, j \in Chats' : i < j => hub'[i].id < hub'[j].id
    BY <2>2, <2>3 DEF PendingInv
  <2>8. ASSUME NEW i \in Chats', NEW n \in hub'[i].id .. Len(log) PROVE n \in Pending'
    <3>1. n \in Pending
      BY <2>2 DEF PendingInv
    <3>2. CASE kind = "chat"
      <4>1. hub[1].id < hub'[i].id
        BY <2>2, <2>4, <3>2 DEF PendingInv
      <4>2. hub[1].id \in Nat /\ hub'[i].id \in Nat
        BY <2>2, <2>4, <3>2 DEF PendingInv
      <4>3. QED
        BY <2>4, <3>1, <3>2, <4>1, <4>2
    <3>3. QED
      BY <2>5, <3>1, <3>2
  <2>9. QED
    BY <1>6, <2>6, <2>7, <2>8 DEF PendingInv
<1>7. QED
  BY <1>1, <1>2, <1>4, <1>5, <1>6
     DEF StepKind, Quiet, Accepts, Deliver, HandleConnect, HandleDisconnect, HandleChat, history

LEMMA ChatForwarded ==
  ASSUME HubTypes, TablesInv, PendingInv, HandleChat, NEW s \in Sessions
  PROVE  /\ 1 \in Chats /\ hub[1].id \in 1 .. Len(log) /\ log[hub[1].id] \in Message
         /\ mail'[s] = IF Listed(s) /\ log[hub[1].id] \in Wanted(s) /\ session[s].state # "stopped"
                         THEN Append(mail[s], hub[1].id) ELSE mail[s]
<1>1. 1 \in Chats /\ Head(hub) = hub[1]
  BY HeadOfHub DEF HandleChat, Chats
<1>2. hub[1].id \in 1 .. Len(log)
  BY <1>1 DEF PendingInv
<1>3. log[hub[1].id] \in Message
  BY <1>2 DEF HubTypes
<1>4. s \in Listeners(log[hub[1].id]) <=> (Listed(s) /\ log[hub[1].id] \in Wanted(s))
  BY <1>3, ListenersAreListed
<1>5. QED
  BY <1>1, <1>2, <1>3, <1>4 DEF HandleChat

LEMMA OutsideStep ==
  ASSUME HubTypes, TablesInv, PendingInv, OutsideInv, [HNext]_vars
  PROVE  OutsideInv'
<1> SUFFICES ASSUME NEW s \in Sessions, ~Joined(s)'
             PROVE  mail'[s] = << >> /\ wrote'[s] = << >>
  BY DEF OutsideInv
<1>1. ~Joined(s) /\ mail[s] = << >> /\ wrote[s] = << >>
  BY KeepsIdentity DEF OutsideInv
<1>2. CASE HandleChat
  <2>1. ~Listed(s)
    BY <1>1, ListedJoined
  <2>2. mail'[s] = mail[s]
    BY <1>2, <2>1, ChatForwarded
  <2>3. QED
    BY <1>1, <1>2, <2>2 DEF HandleChat
<1>3. ASSUME NEW r \in Sessions, Deliver(r) PROVE mail'[s] = << >> /\ wrote'[s] = << >>
  BY <1>1, <1>3 DEF Deliver, Joined, HubTypes
<1>4. ASSUME NEW r \in Sessions, Stops(r) PROVE mail'[s] = << >> /\ wrote'[s] = << >>
  BY <1>1, <1>4 DEF Stops, HubTypes
<1>5. QED
  BY <1>1, <1>2, <1>3, <1>4, StepKinds
     DEF StepKind, Quiet, Accepts, Starts, Ends, HandleConnect, HandleDisconnect, Publish

LEMMA FromStep ==
  ASSUME HubTypes, FromInv, [HNext]_vars
  PROVE  FromInv'
<1>1. Len(log) \in Nat /\ from \in [Sessions -> 0 .. MaxMessages] /\ MaxMessages \in Nat
  BY HubAssumption DEF HubTypes
<1>2. CASE Publish
  BY <1>1, <1>2, ChatSent DEF FromInv, Publish
<1>3. ASSUME NEW s \in Sessions, Starts(s) PROVE FromInv'
  BY <1>1, <1>3 DEF FromInv, Starts
<1>4. CASE UNCHANGED <<from, log>>
  BY <1>4 DEF FromInv
<1>5. QED
  BY <1>2, <1>3, <1>4, StepKinds
     DEF StepKind, Quiet, Accepts, Ends, Stops, Deliver, HandleConnect, HandleDisconnect,
         HandleChat, history

-----------------------------------------------------------------------------
(***************************************************************************)
(* A session and its notices.                                              *)
(***************************************************************************)

\* Nobody has sent a notice before its Connect.
LEMMA OutsideSilent ==
  ASSUME HubTypes, NoticesInv, NEW s \in Sessions, ~Joined(s)
  PROVE  Connects(s) = {} /\ Leaves(s) = {}
  BY DEF NoticesInv, Connects, Leaves

\* A step that sends no notice and handles none.
NoNotice ==
  /\ \A s \in Sessions : Connects(s)' = Connects(s) /\ Leaves(s)' = Leaves(s)
  /\ UNCHANGED tables
  /\ \A s \in Sessions : session'[s].state = "open" => session[s].state = "open"
  /\ \A s \in Sessions : session'[s].state = "stopped" => session[s].state = "stopped"

LEMMA NoNoticeKinds ==
  ASSUME HubTypes, [HNext]_vars
  PROVE  \/ NoNotice /\ UNCHANGED <<hub, from, log>>
            /\ \A s \in Sessions : mail'[s] # mail[s] \/ wrote'[s] # wrote[s] => mail[s] # << >>
         \/ Publish /\ NoNotice
         \/ \E s \in Sessions : Starts(s)
         \/ \E s \in Sessions : Ends(s) /\ hub' = Append(hub, Envelope("disconnect", s))
         \/ \E s \in Sessions : Stops(s)
         \/ HandleConnect \/ HandleDisconnect \/ HandleChat
<1>1. ASSUME hub' = hub PROVE \A s \in Sessions : Connects(s)' = Connects(s) /\ Leaves(s)' = Leaves(s)
  BY <1>1 DEF Connects, Leaves
<1>2. CASE Quiet
  BY <1>1, <1>2 DEF Quiet, NoNotice, history
<1>3. ASSUME NEW s \in Sessions, Accepts(s) PROVE NoNotice
  <2>1. \A r \in Sessions : session'[r].state = session[r].state \/ session'[r].state = "new"
    BY <1>3 DEF Accepts, OnlyIn
  <2>2. QED
    BY <1>1, <1>3, <2>1 DEF Accepts, NoNotice, history
<1>4. ASSUME NEW s \in Sessions, Ends(s), hub' = hub PROVE NoNotice
  <2>1. \A r \in Sessions : session'[r].state = session[r].state \/ session'[r].state = "stopping"
    BY <1>4 DEF Ends, OnlyIn
  <2>2. QED
    BY <1>1, <1>4, <2>1 DEF Ends, NoNotice, history
<1>5. ASSUME NEW s \in Sessions, Deliver(s)
      PROVE  /\ NoNotice /\ UNCHANGED <<hub, from, log>>
             /\ \A r \in Sessions : mail'[r] # mail[r] \/ wrote'[r] # wrote[r] => mail[r] # << >>
  BY <1>1, <1>5 DEF Deliver, NoNotice, history, HubTypes
<1>6. CASE Publish
  BY <1>6, ChatSent DEF Publish, NoNotice
<1>7. QED
  BY <1>2, <1>3, <1>4, <1>5, <1>6, StepKinds DEF StepKind, Accepts, Ends, Quiet, history

\* What is ahead of a notice, when the oldest message is handled.
LEMMA PlacesInHub ==
  ASSUME HubTypes
  PROVE  /\ Len(hub) \in Nat
         /\ \A i \in Chats : i \in Nat /\ 1 <= i /\ i <= Len(hub)
         /\ \A s : \A i \in Connects(s) : i \in Nat /\ 1 <= i /\ i <= Len(hub)
         /\ \A s : \A i \in Leaves(s) : i \in Nat /\ 1 <= i /\ i <= Len(hub)
  BY DEF HubTypes, Chats, Connects, Leaves

LEMMA MovesUp ==
  ASSUME HubTypes, NEW kind, Mail(kind), NEW s \in Sessions
  PROVE  /\ \A i \in Connects(s)' : i + 1 \in Connects(s) /\ i + 1 # 1 /\ i \in Int
         /\ \A i \in Leaves(s)' : i + 1 \in Leaves(s) /\ i + 1 # 1 /\ i \in Int
         /\ \A i \in Chats' : i + 1 \in Chats /\ i + 1 # 1 /\ i \in Int /\ hub'[i] = hub[i + 1]
         /\ Connects(s) # {} /\ 1 \notin Connects(s) => Connects(s)' # {}
         /\ Leaves(s) # {} /\ 1 \notin Leaves(s) => Leaves(s)' # {}
         /\ 1 \in Connects(s) <=> (kind = "connect" /\ hub[1].addr = s)
         /\ 1 \in Leaves(s) <=> (kind = "disconnect" /\ hub[1].addr = s)
         /\ Connects(s) = {} => Connects(s)' = {}
         /\ Leaves(s) = {} => Leaves(s)' = {}
<1>1. Connects(s) \subseteq Nat /\ Leaves(s) \subseteq Nat /\ Chats \subseteq Nat
  BY PlacesInHub
<1>2. Connects(s)' = Ahead(Connects(s)) /\ Leaves(s)' = Ahead(Leaves(s)) /\ Chats' = Ahead(Chats)
      /\ \A i \in Chats' : hub'[i] = hub[i + 1]
  BY MailHandled
<1>3. \A i \in Connects(s)' : i + 1 \in Connects(s) /\ i + 1 # 1 /\ i \in Int
  BY <1>1, <1>2, AheadOf
<1>4. \A i \in Leaves(s)' : i + 1 \in Leaves(s) /\ i + 1 # 1 /\ i \in Int
  BY <1>1, <1>2, AheadOf
<1>5. \A i \in Chats' : i + 1 \in Chats /\ i + 1 # 1 /\ i \in Int
  BY <1>1, <1>2, AheadOf
<1>6. 1 \in DOMAIN hub /\ hub[1].kind = kind
  BY HeadOfHub
<1>7. \A S : S # {} /\ 1 \notin S => Ahead(S) # {}
  BY DEF Ahead
<1>8. QED
  BY <1>2, <1>3, <1>4, <1>5, <1>6, <1>7 DEF Connects, Leaves

LEMMA ConnectStep ==
  ASSUME HubTypes, IdsInv, NoticesInv, TablesInv, FromInv, PendingInv, OutsideInv,
         ConnectInv, [HNext]_vars
  PROVE  ConnectInv'
<1> SUFFICES ASSUME NEW s \in Sessions, NEW i \in Connects(s)'
             PROVE  /\ Connects(s)' = {i}
                    /\ \A j \in Leaves(s)' : i < j
                    /\ ~Listed(s)' /\ mail'[s] = << >> /\ wrote'[s] = << >>
                    /\ \A j \in Chats' : IF j < i THEN hub'[j].id <= from'[s]
                                                  ELSE from'[s] < hub'[j].id
  BY DEF ConnectInv
<1> DEFINE Goal == /\ Connects(s)' = {i}
                   /\ \A j \in Leaves(s)' : i < j
                   /\ ~Listed(s)' /\ mail'[s] = << >> /\ wrote'[s] = << >>
                   /\ \A j \in Chats' : IF j < i THEN hub'[j].id <= from'[s]
                                                 ELSE from'[s] < hub'[j].id
<1>0. /\ Len(hub) \in Nat /\ Len(log) \in Nat /\ from[s] \in Nat /\ from[s] <= Len(log)
      /\ \A j \in Chats : j \in Nat /\ j <= Len(hub) /\ hub[j].id \in 1 .. Len(log)
  BY PlacesInHub, SessionTyped DEF HubTypes, FromInv, PendingInv
<1>1. \A j \in Connects(s) :
        /\ j \in Nat /\ j <= Len(hub)
        /\ Connects(s) = {j}
        /\ \A k \in Leaves(s) : k \in Nat /\ j < k
        /\ Joined(s) /\ ~Listed(s) /\ mail[s] = << >> /\ wrote[s] = << >>
        /\ \A k \in Chats : IF k < j THEN hub[k].id <= from[s] ELSE from[s] < hub[k].id
  <2>1. \A j \in Connects(s) : Joined(s)
    BY OutsideSilent
  <2>2. QED
    BY <2>1, PlacesInHub DEF ConnectInv
<1>2. ASSUME i \in Connects(s), UNCHANGED tables PROVE ~Listed(s)'
  BY <1>1, <1>2, OthersListNobody DEF Joined
<1>3. CASE /\ NoNotice /\ UNCHANGED <<hub, from, log>>
           /\ mail'[s] # mail[s] \/ wrote'[s] # wrote[s] => mail[s] # << >>
  <2>1. i \in Connects(s) /\ Connects(s)' = Connects(s) /\ Leaves(s)' = Leaves(s)
    BY <1>3 DEF NoNotice
  <2>2. Chats' = Chats
    BY <1>3 DEF Chats
  <2>3. ~Listed(s)'
    BY <1>2, <1>3, <2>1 DEF NoNotice
  <2>4. QED
    BY <1>1, <1>3, <2>1, <2>2, <2>3
<1>4. CASE Publish /\ NoNotice
  <2>1. i \in Connects(s) /\ Connects(s)' = Connects(s) /\ Leaves(s)' = Leaves(s)
    BY <1>4 DEF NoNotice
  <2>2. ~Listed(s)'
    BY <1>2, <1>4, <2>1 DEF Publish
  <2>3. /\ Chats' = Chats \cup {Len(hub) + 1}
        /\ \A j \in Chats : hub'[j] = hub[j]
        /\ hub'[Len(hub) + 1].id = Len(log) + 1
    BY <1>4, ChatSent DEF Chats
  <2>4. mail' = mail /\ wrote' = wrote /\ from' = from
    BY <1>4 DEF Publish
  <2>5. \A j \in Chats' : IF j < i THEN hub'[j].id <= from[s] ELSE from[s] < hub'[j].id
    BY <1>0, <1>1, <2>1, <2>3
  <2>6. QED
    BY <1>1, <2>1, <2>2, <2>4, <2>5
<1>5. ASSUME NEW r \in Sessions, Starts(r) PROVE Goal
  <2>1. /\ Chats' = Chats /\ \A j \in Chats : hub'[j] = hub[j]
        /\ Connects(s)' = IF s = r THEN Connects(s) \cup {Len(hub) + 1} ELSE Connects(s)
        /\ Leaves(s)' = Leaves(s)
    BY <1>5, NoticeSent DEF Starts, Chats
  <2>2. mail' = mail /\ wrote' = wrote /\ UNCHANGED tables
        /\ from'[s] = IF s = r THEN Len(log) ELSE from[s]
    BY <1>5 DEF Starts, HubTypes
  <2>3. CASE s = r
    <3>1. ~Joined(s) /\ session[s].state # "none"
      BY <1>5, <2>3 DEF Starts, Joined
    <3>2. Connects(s) = {} /\ Leaves(s) = {} /\ mail[s] = << >> /\ wrote[s] = << >>
      BY <3>1, OutsideSilent DEF OutsideInv
    <3>3. ~Listed(s)'
      BY <2>2, <3>1, ListedJoined, OthersListNobody
    <3>4. i = Len(hub) + 1
      BY <2>1, <2>3, <3>2
    <3>5. \A j \in Chats' : IF j < i THEN hub'[j].id <= from'[s] ELSE from'[s] < hub'[j].id
      BY <1>0, <2>1, <2>2, <2>3, <3>4
    <3>6. QED
      BY <2>1, <2>2, <2>3, <3>2, <3>3, <3>4, <3>5
  <2>4. CASE s # r
    BY <1>1, <1>2, <2>1, <2>2, <2>4
  <2>5. QED
    BY <2>3, <2>4
<1>6. ASSUME NEW r \in Sessions, hub' = Append(hub, Envelope("disconnect", r)),
             UNCHANGED <<tables, wrote, from>>,
             mail' = mail \/ mail' = [mail EXCEPT ![r] = << >>]
      PROVE  Goal
  <2>1. /\ Chats' = Chats /\ \A j \in Chats : hub'[j] = hub[j]
        /\ Connects(s)' = Connects(s)
        /\ \A j \in Leaves(s)' : j \in Leaves(s) \/ j = Len(hub) + 1
    BY <1>6, NoticeSent DEF Chats
  <2>2. mail'[s] = mail[s] \/ mail'[s] = << >>
    BY <1>6 DEF HubTypes
  <2>3. \A j \in Leaves(s)' : i < j
    BY <1>0, <1>1, <2>1
  <2>4. QED
    BY <1>1, <1>2, <1>6, <2>1, <2>2, <2>3
<1>7. ASSUME NEW kind, Mail(kind), UNCHANGED <<wrote, from>>
      PROVE  /\ i + 1 \in Connects(s) /\ 1 \notin Connects(s)
             /\ Connects(s)' = {i}
             /\ \A j \in Leaves(s)' : i < j
             /\ wrote'[s] = << >>
             /\ \A j \in Chats' : IF j < i THEN hub'[j].id <= from'[s]
                                           ELSE from'[s] < hub'[j].id
  <2>1. i + 1 \in Connects(s) /\ i + 1 # 1 /\ i \in Int
    BY <1>7, MovesUp
  <2>2. 1 \notin Connects(s)
    BY <1>1, <2>1
  <2>3. \A j \in Connects(s)' : j + 1 = i + 1 /\ j \in Int
    BY <1>1, <1>7, <2>1, MovesUp
  <2>4. \A j \in Connects(s)' : j = i
    BY <2>1, <2>3
  <2>5. \A j \in Leaves(s)' : i + 1 < j + 1 /\ j \in Int
    BY <1>1, <1>7, <2>1, MovesUp
  <2>6. \A j \in Leaves(s)' : i < j
    BY <2>1, <2>5
  <2>7. \A j \in Chats' : /\ j \in Int /\ hub'[j] = hub[j + 1]
                         /\ IF j + 1 < i + 1 THEN hub[j + 1].id <= from[s]
                                             ELSE from[s] < hub[j + 1].id
    BY <1>1, <1>7, <2>1, MovesUp
  <2>8. \A j \in Chats' : IF j < i THEN hub'[j].id <= from'[s] ELSE from'[s] < hub'[j].id
    BY <1>7, <2>1, <2>7
  <2>9. Connects(s)' = {i}
    BY <2>4
  <2>10. wrote'[s] = << >>
    BY <1>1, <1>7, <2>1
  <2>11. QED
    BY <2>1, <2>2, <2>6, <2>8, <2>9, <2>10
<1>8. CASE HandleConnect
  <2>1. Mail("connect") /\ UNCHANGED <<mail, wrote, from>> /\ Head(hub) = hub[1]
    BY <1>8, HeadOfHub DEF HandleConnect, history
  <2>2. hub[1].addr # s
    BY <1>7, <2>1, MovesUp
  <2>3. ~Listed(s)' /\ mail'[s] = << >>
    BY <1>1, <1>7, <1>8, <2>1, <2>2, ConnectLists
  <2>4. QED
    BY <1>7, <2>1, <2>3
<1>9. CASE HandleDisconnect
  <2>1. Mail("disconnect") /\ UNCHANGED <<mail, wrote, from>>
    BY <1>9 DEF HandleDisconnect, history
  <2>2. ~Listed(s)' /\ mail'[s] = << >>
    BY <1>1, <1>7, <1>9, <2>1, DisconnectDelists
  <2>3. QED
    BY <1>7, <2>1, <2>2
<1>10. CASE HandleChat
  <2>1. Mail("chat") /\ UNCHANGED <<tables, wrote, from>>
    BY <1>10 DEF HandleChat, history
  <2>2. Joined(s) /\ ~Listed(s) /\ mail[s] = << >>
    BY <1>1, <1>7, <2>1
  <2>3. ~Listed(s)' /\ mail'[s] = << >>
    BY <1>10, <2>1, <2>2, OthersListNobody, ChatForwarded DEF Joined
  <2>4. QED
    BY <1>7, <2>1, <2>3
<1>11. QED
  BY <1>3, <1>4, <1>5, <1>6, <1>8, <1>9, <1>10, NoNoticeKinds DEF Ends, Stops, history

LEMMA ConnectedStep ==
  ASSUME HubTypes, NoticesInv, FromInv, PendingInv, ConnectInv, ConnectedInv, [HNext]_vars
  PROVE  ConnectedInv'
<1> SUFFICES ASSUME NEW s \in Sessions, Joined(s)', Connects(s)' = {}, NEW n \in Pending'
             PROVE  from'[s] < n
  BY DEF ConnectedInv
<1>0. Len(log) \in Nat /\ from[s] \in Nat /\ from[s] <= Len(log)
  BY SessionTyped DEF HubTypes, FromInv
<1>1. ASSUME UNCHANGED <<from, session>>, Connects(s) = {}, n \in Pending PROVE from'[s] < n
  BY <1>1 DEF ConnectedInv, Joined
<1>2. ASSUME ~Joined(s) PROVE \E r \in Sessions : Starts(r) /\ r = s
  <2>1. session'[s].state # session[s].state /\ session'[s].state # "new"
    BY <1>2 DEF Joined
  <2>2. QED
    BY <1>2, <2>1, StepKinds
       DEF StepKind, Quiet, Accepts, Starts, Ends, Stops, OnlyIn, Deliver, Joined,
           HandleConnect, HandleDisconnect, HandleChat, Publish
<1>3. ASSUME NEW r \in Sessions, Starts(r) PROVE r # s /\ Connects(s) = {} /\ n \in Pending
                                                  /\ from'[s] = from[s]
  <2>1. Connects(s)' = (IF s = r THEN Connects(s) \cup {Len(hub) + 1} ELSE Connects(s))
        /\ Pending' = Pending
    BY <1>3, NoticeSent DEF Starts
  <2>2. QED
    BY <1>3, <2>1 DEF Starts
<1>4. Joined(s)
  BY <1>2, <1>3
<1>5. ASSUME from'[s] = from[s], Connects(s) = {}, n \in Pending PROVE from'[s] < n
  BY <1>4, <1>5 DEF ConnectedInv
<1>6. ASSUME NEW r \in Sessions, hub' = Append(hub, Envelope("disconnect", r)), UNCHANGED from
      PROVE  from'[s] < n
  BY <1>5, <1>6, NoticeSent
<1>7. CASE NoNotice /\ UNCHANGED <<hub, from, log>>
  BY <1>5, <1>7 DEF NoNotice, Pending, Chats
<1>8. CASE Publish /\ NoNotice
  <2>1. Connects(s) = {} /\ from'[s] = from[s] /\ (n \in Pending \/ n = Len(log) + 1)
    BY <1>8, ChatSent DEF NoNotice, Publish
  <2>2. QED
    BY <1>0, <1>5, <2>1
<1>9. CASE HandleConnect
  <2>1. Mail("connect") /\ from'[s] = from[s] /\ Pending' = Pending
    BY <1>9, MailHandled DEF HandleConnect, history
  <2>2. CASE Connects(s) # {}
    <3>1. 1 \in Connects(s)
      BY <2>1, <2>2, MovesUp
    <3>2. PICK j \in Chats : n = hub[j].id
      BY <2>1 DEF Pending
    <3>3. j \in Nat /\ 1 <= j
      BY PlacesInHub
    <3>4. QED
      BY <2>1, <3>1, <3>2, <3>3 DEF ConnectInv
  <2>3. QED
    BY <1>5, <2>1, <2>2
<1>10. CASE HandleDisconnect
  <2>1. Mail("disconnect") /\ from'[s] = from[s] /\ Pending' = Pending
    BY <1>10, MailHandled DEF HandleDisconnect, history
  <2>2. 1 \notin Connects(s)
    BY <2>1, MovesUp
  <2>3. Connects(s) = {}
    BY <2>1, <2>2, MovesUp
  <2>4. QED
    BY <1>5, <2>1, <2>3
<1>11. CASE HandleChat
  <2>1. Mail("chat") /\ from'[s] = from[s]
    BY <1>11 DEF HandleChat, history
  <2>2. n \in Pending
    BY <2>1, MailHandled
  <2>3. 1 \notin Connects(s)
    BY <2>1, MovesUp
  <2>4. Connects(s) = {}
    BY <2>1, <2>3, MovesUp
  <2>5. QED
    BY <1>5, <2>1, <2>2, <2>4
<1>12. QED
  BY <1>3, <1>5, <1>6, <1>7, <1>8, <1>9, <1>10, <1>11, NoNoticeKinds DEF Ends, Stops, history

LEMMA OpenStep ==
  ASSUME HubTypes, IdsInv, NoticesInv, TablesInv, OpenInv, [HNext]_vars
  PROVE  OpenInv'
<1> SUFFICES ASSUME NEW s \in Sessions, session'[s].state = "open"
             PROVE  Leaves(s)' = {} /\ (Connects(s)' # {} \/ Listed(s)')
  BY DEF OpenInv
<1>1. ASSUME session[s].state = "open"
      PROVE  Leaves(s) = {} /\ (Connects(s) # {} \/ Listed(s)) /\ session[s].state # "none"
  BY <1>1 DEF OpenInv
<1>2. CASE NoNotice
  BY <1>1, <1>2, OthersListNobody DEF NoNotice
<1>3. ASSUME NEW r \in Sessions, Starts(r)
      PROVE  Leaves(s)' = {} /\ (Connects(s)' # {} \/ Listed(s)')
  <2>1. /\ Connects(s)' = IF s = r THEN Connects(s) \cup {Len(hub) + 1} ELSE Connects(s)
        /\ Leaves(s)' = Leaves(s)
    BY <1>3, NoticeSent DEF Starts
  <2>2. CASE s = r
    <3>1. Leaves(s) = {}
      BY <1>3, <2>2, OutsideSilent DEF Starts, Joined
    <3>2. QED
      BY <2>1, <2>2, <3>1
  <2>3. CASE s # r
    <3>1. session[s].state = "open" /\ UNCHANGED tables
      BY <1>3, <2>3 DEF Starts, OnlyIn
    <3>2. QED
      BY <1>1, <2>1, <2>3, <3>1, OthersListNobody
  <2>4. QED
    BY <2>2, <2>3
<1>4. ASSUME NEW r \in Sessions, Ends(r) \/ Stops(r),
             hub' = Append(hub, Envelope("disconnect", r))
      PROVE  Leaves(s)' = {} /\ (Connects(s)' # {} \/ Listed(s)')
  <2>1. r # s /\ session[s].state = "open" /\ UNCHANGED tables
    BY <1>4 DEF Ends, Stops, OnlyIn
  <2>2. Connects(s)' = Connects(s) /\ Leaves(s)' = Leaves(s)
    BY <1>4, <2>1, NoticeSent
  <2>3. QED
    BY <1>1, <2>1, <2>2, OthersListNobody
<1>5. ASSUME NEW kind, Mail(kind), session' = session
      PROVE  /\ Leaves(s) = {} /\ Leaves(s)' = {}
             /\ Listed(s) \/ 1 \in Connects(s) \/ Connects(s)' # {}
             /\ session[s].state # "none"
  BY <1>1, <1>5, MovesUp
<1>6. CASE HandleConnect
  <2>1. Mail("connect") /\ session' = session /\ Head(hub) = hub[1]
    BY <1>6, HeadOfHub DEF HandleConnect
  <2>2. 1 \in Connects(s) => hub[1].addr = s
    BY DEF Connects
  <2>3. QED
    BY <1>5, <1>6, <2>1, <2>2, ConnectLists
<1>7. CASE HandleDisconnect
  <2>1. Mail("disconnect") /\ session' = session /\ Head(hub) = hub[1]
    BY <1>7, HeadOfHub DEF HandleDisconnect
  <2>2. hub[1].addr # s /\ 1 \notin Connects(s)
    BY <1>5, <2>1, MovesUp
  <2>3. QED
    BY <1>5, <1>7, <2>1, <2>2, DisconnectDelists
<1>8. CASE HandleChat
  <2>1. Mail("chat") /\ session' = session /\ UNCHANGED tables
    BY <1>8 DEF HandleChat
  <2>2. 1 \notin Connects(s)
    BY <2>1, MovesUp
  <2>3. QED
    BY <1>5, <2>1, <2>2, OthersListNobody
<1>9. QED
  BY <1>2, <1>3, <1>4, <1>6, <1>7, <1>8, NoNoticeKinds DEF Stops

LEMMA GoneStep ==
  ASSUME HubTypes, IdsInv, NoticesInv, TablesInv, ConnectInv, GoneInv, [HNext]_vars
  PROVE  GoneInv'
<1> SUFFICES ASSUME NEW s \in Sessions, session'[s].state = "stopped",
                    Connects(s)' # {} \/ Listed(s)'
             PROVE  Leaves(s)' # {}
  BY DEF GoneInv
<1>1. ASSUME session[s].state = "stopped", Connects(s) # {} \/ Listed(s)
      PROVE  Leaves(s) # {}
  BY <1>1 DEF GoneInv
<1>2. CASE NoNotice
  BY <1>1, <1>2, OthersListNobody DEF NoNotice
<1>3. ASSUME NEW r \in Sessions, NEW kind \in {"connect", "disconnect"},
             hub' = Append(hub, Envelope(kind, r)), OnlyIn(r), UNCHANGED tables,
             kind = "connect" => r # s
      PROVE  Leaves(s)' # {}
  <2>1. /\ r # s => Connects(s)' = Connects(s)
        /\ Leaves(s)' = IF s = r /\ kind = "disconnect" THEN Leaves(s) \cup {Len(hub) + 1}
                                                         ELSE Leaves(s)
    BY <1>3, NoticeSent
  <2>2. CASE s # r
    <3>1. session[s].state = "stopped"
      BY <1>3, <2>2 DEF OnlyIn
    <3>2. QED
      BY <1>1, <1>3, <2>1, <2>2, <3>1, OthersListNobody
  <2>3. QED
    BY <1>3, <2>1, <2>2
<1>4. ASSUME NEW r \in Sessions, Starts(r) PROVE Leaves(s)' # {}
  BY <1>3, <1>4 DEF Starts
<1>5. ASSUME NEW r \in Sessions, Ends(r) \/ Stops(r),
             hub' = Append(hub, Envelope("disconnect", r))
      PROVE  Leaves(s)' # {}
  BY <1>3, <1>5 DEF Ends, Stops
<1>6. CASE HandleConnect
  <2>1. Mail("connect") /\ session' = session /\ Head(hub) = hub[1]
    BY <1>6, HeadOfHub DEF HandleConnect
  <2>2. Connects(s) # {} \/ Listed(s)
    BY <1>6, <2>1, MovesUp, ConnectLists
  <2>3. Leaves(s) # {} /\ 1 \notin Leaves(s)
    BY <1>1, <2>1, <2>2, MovesUp
  <2>4. QED
    BY <2>1, <2>3, MovesUp
<1>7. CASE HandleDisconnect
  <2>1. Mail("disconnect") /\ session' = session /\ Head(hub) = hub[1]
    BY <1>7, HeadOfHub DEF HandleDisconnect
  <2>2. Connects(s) # {} \/ Listed(s)
    BY <1>7, <2>1, MovesUp, DisconnectDelists
  <2>3. CASE hub[1].addr = s
    <3>1. 1 \in Leaves(s)
      BY <2>1, <2>3, MovesUp
    <3>2. Connects(s) = {}
      BY <3>1, PlacesInHub DEF ConnectInv
    <3>3. Connects(s)' = {} /\ ~Listed(s)'
      BY <1>7, <2>1, <2>3, <3>2, MovesUp, DisconnectDelists
    <3>4. QED
      BY <3>3
  <2>4. CASE hub[1].addr # s
    <3>1. Leaves(s) # {} /\ 1 \notin Leaves(s)
      BY <1>1, <2>1, <2>2, <2>4, MovesUp
    <3>2. QED
      BY <2>1, <3>1, MovesUp
  <2>5. QED
    BY <2>3, <2>4
<1>8. CASE HandleChat
  <2>1. Mail("chat") /\ session' = session /\ UNCHANGED tables
    BY <1>8 DEF HandleChat
  <2>2. Connects(s) # {} \/ Listed(s)
    BY <2>1, MovesUp, OthersListNobody
  <2>3. Leaves(s) # {} /\ 1 \notin Leaves(s)
    BY <1>1, <2>1, <2>2, MovesUp
  <2>4. QED
    BY <2>1, <2>3, MovesUp
<1>9. QED
  BY <1>2, <1>4, <1>5, <1>6, <1>7, <1>8, NoNoticeKinds DEF Stops

-----------------------------------------------------------------------------
(* What a session is written                                               *)

LEMMA MailTyped ==
  ASSUME HubTypes, NEW s \in Sessions
  PROVE  /\ Len(log) \in Nat /\ from[s] \in Nat
         /\ Len(mail[s]) \in Nat /\ DOMAIN mail[s] = 1 .. Len(mail[s])
         /\ Len(wrote[s]) \in Nat /\ DOMAIN wrote[s] = 1 .. Len(wrote[s])
         /\ \A j \in DOMAIN mail[s] : mail[s][j] \in Nat
         /\ \A j \in DOMAIN wrote[s] : wrote[s][j] \in Nat
  BY SessionTyped, HubAssumption DEF HubTypes, Places

\* Nothing of s changes but what the hub has handled.
LEMMA SuccessiveKept ==
  ASSUME HubTypes, NEW s \in Sessions, Successive(s),
         mail'[s] = mail[s], wrote'[s] = wrote[s], Same(s),
         \A n \in Handled(s) : n \in Handled(s)' /\ log'[n] = log[n]
  PROVE  Successive(s)'
<1>1. Wanted(s)' = Wanted(s)
  BY DEF Wanted, Same, Subject
<1>2. QED
  BY <1>1 DEF Successive, Increasing

LEMMA HandledGrows ==
  ASSUME HubTypes, [HNext]_vars, PendingInv, NEW s \in Sessions, session[s].state = "open"
  PROVE  /\ from'[s] = from[s]
         /\ \A n \in Handled(s) : n \in Handled(s)' /\ log'[n] = log[n]
<1>0. Len(log) \in Nat
  BY MailTyped
<1>1. CASE UNCHANGED <<hub, from, log>>
  BY <1>1 DEF Handled, Pending, Chats
<1>2. ASSUME NEW r \in Sessions, NEW kind \in {"connect", "disconnect"},
             hub' = Append(hub, Envelope(kind, r)), UNCHANGED log, from'[s] = from[s]
      PROVE  \A n \in Handled(s) : n \in Handled(s)' /\ log'[n] = log[n]
  BY <1>2, NoticeSent DEF Handled
<1>3. ASSUME NEW r \in Sessions, Starts(r)
      PROVE  /\ from'[s] = from[s]
             /\ \A n \in Handled(s) : n \in Handled(s)' /\ log'[n] = log[n]
  <2>1. from'[s] = from[s]
    BY <1>3 DEF Starts, HubTypes
  <2>2. QED
    BY <1>2, <1>3, <2>1 DEF Starts
<1>4. ASSUME NEW r \in Sessions, hub' = Append(hub, Envelope("disconnect", r)),
             UNCHANGED history
      PROVE  /\ from'[s] = from[s]
             /\ \A n \in Handled(s) : n \in Handled(s)' /\ log'[n] = log[n]
  BY <1>2, <1>4 DEF history
<1>5. CASE Publish
  <2>1. /\ Pending' = Pending \cup {Len(log) + 1} /\ Len(log') = Len(log) + 1
        /\ \A n \in 1 .. Len(log) : log'[n] = log[n]
        /\ from' = from
    BY <1>5, ChatSent DEF Publish
  <2>2. \A n \in 1 .. Len(log) : n # Len(log) + 1 /\ n \in 1 .. Len(log')
    BY <1>0, <2>1
  <2>3. QED
    BY <2>1, <2>2 DEF Handled
<1>6. ASSUME NEW kind, Mail(kind), UNCHANGED <<log, from>>
      PROVE  \A n \in Handled(s) : n \in Handled(s)' /\ log'[n] = log[n]
  <2>1. \A n \in Pending' : n \in Pending
    BY <1>6, MailHandled
  <2>2. QED
    BY <1>6, <2>1 DEF Handled
<1>7. QED
  BY <1>1, <1>3, <1>4, <1>5, <1>6, StepKinds
     DEF StepKind, Quiet, Accepts, Ends, Stops, Deliver, HandleConnect, HandleDisconnect,
         HandleChat, history

\* A message the hub handles is one that s, in its table, was not sent before.
LEMMA NextForListed ==
  ASSUME HubTypes, TablesInv, PendingInv, ConnectInv, ConnectedInv, HandleChat,
         NEW s \in Sessions, Listed(s)
  PROVE  /\ hub[1].id \in Handled(s)'
         /\ \A n \in Handled(s) : n < hub[1].id
<1>1. Connects(s) = {} /\ Joined(s)
  BY ListedJoined DEF ConnectInv
<1>2. 1 \in Chats /\ hub[1].id \in 1 .. Len(log)
  BY ChatForwarded
<1>3. from[s] < hub[1].id
  BY <1>1, <1>2 DEF ConnectedInv, Pending
<1>4. Pending' = Pending \ {hub[1].id} /\ log' = log /\ from' = from
  BY MailHandled DEF HandleChat, history
<1>5. hub[1].id \in Handled(s)'
  BY <1>2, <1>3, <1>4 DEF Handled
<1>6. ASSUME NEW n \in Handled(s) PROVE n < hub[1].id
  <2>1. n \in 1 .. Len(log) /\ n \notin Pending
    BY DEF Handled
  <2>2. n \notin hub[1].id .. Len(log)
    BY <1>2, <2>1 DEF PendingInv
  <2>3. QED
    BY <1>2, <2>1, <2>2, MailTyped
<1>7. QED
  BY <1>5, <1>6

LEMMA MailStep ==
  ASSUME HubTypes, TablesInv, NoticesInv, PendingInv, OutsideInv, ConnectInv, ConnectedInv,
         MailInv, [HNext]_vars
  PROVE  MailInv'
<1> SUFFICES ASSUME NEW s \in Sessions, session'[s].state = "open"
             PROVE  Successive(s)'
  BY DEF MailInv
<1>0. /\ Len(log) \in Nat
      /\ mail[s] \in Seq(Places) /\ wrote[s] \in Seq(Places)
      /\ Len(mail[s]) \in Nat /\ DOMAIN mail[s] = 1 .. Len(mail[s])
      /\ Len(wrote[s]) \in Nat /\ DOMAIN wrote[s] = 1 .. Len(wrote[s])
      /\ \A j \in DOMAIN mail[s] : mail[s][j] \in Nat
      /\ \A j \in DOMAIN wrote[s] : wrote[s][j] \in Nat
  BY MailTyped, SessionTyped
<1>1. ASSUME session[s].state # "open" PROVE Successive(s)'
  <2>1. Starts(s)
    BY <1>1, StepKinds
       DEF StepKind, Quiet, Accepts, Starts, Ends, Stops, OnlyIn, Deliver,
           HandleConnect, HandleDisconnect, HandleChat, Publish
  <2>2. mail'[s] = << >> /\ wrote'[s] = << >>
    BY <2>1 DEF Starts, OutsideInv, Joined
  <2>3. QED
    BY <2>2 DEF Successive, Increasing
<1>2. ASSUME session[s].state = "open", mail'[s] = mail[s], wrote'[s] = wrote[s]
      PROVE  Successive(s)'
  BY <1>2, SuccessiveKept, HandledGrows, KeepsIdentity DEF MailInv
<1>3. ASSUME NEW r \in Sessions, Stops(r) PROVE mail'[s] = mail[s] /\ wrote'[s] = wrote[s]
  BY <1>3 DEF Stops, HubTypes
<1>4. ASSUME session[s].state = "open", Deliver(s) PROVE Successive(s)'
  <2>1. Successive(s) /\ mail[s] # << >>
    BY <1>4 DEF MailInv, Deliver
  <2>2. /\ 1 \in DOMAIN mail[s] /\ Head(mail[s]) = mail[s][1]
        /\ mail'[s] = Tail(mail[s]) /\ wrote'[s] = Append(wrote[s], mail[s][1])
        /\ mail[s][1] \in Places
    BY <1>0, <1>4, <2>1 DEF Deliver, HubTypes
  <2>3. /\ DOMAIN mail'[s] = 1 .. Len(mail[s]) - 1
        /\ \A j \in DOMAIN mail'[s] : j + 1 \in DOMAIN mail[s] /\ mail'[s][j] = mail[s][j + 1]
    BY <1>0, <2>1, <2>2
  <2>4. /\ DOMAIN wrote'[s] = 1 .. Len(wrote[s]) + 1
        /\ \A j \in DOMAIN wrote[s] : wrote'[s][j] = wrote[s][j]
        /\ wrote'[s][Len(wrote[s]) + 1] = mail[s][1]
    BY <1>0, <2>2
  <2>5. Handled(s)' = Handled(s) /\ log' = log /\ Wanted(s)' = Wanted(s)
    BY <1>4 DEF Deliver, Handled, Wanted, Pending, Chats, history, Subject
  <2>6. Increasing(wrote'[s])
    <3>1. ASSUME NEW j \in DOMAIN wrote'[s], NEW k \in DOMAIN wrote'[s], j < k
          PROVE  wrote'[s][j] < wrote'[s][k]
      <4>1. j \in DOMAIN wrote[s]
        BY <1>0, <2>4, <3>1
      <4>2. k \in DOMAIN wrote[s] \/ k = Len(wrote[s]) + 1
        BY <1>0, <2>4
      <4>3. QED
        BY <2>1, <2>2, <2>4, <3>1, <4>1, <4>2 DEF Successive, Increasing
    <3>2. QED
      BY <3>1 DEF Increasing
  <2>7. Increasing(mail'[s])
    <3>1. ASSUME NEW j \in DOMAIN mail'[s], NEW k \in DOMAIN mail'[s], j < k
          PROVE  mail'[s][j] < mail'[s][k]
      <4>1. j + 1 < k + 1
        BY <2>3, <3>1
      <4>2. QED
        BY <2>1, <2>3, <4>1 DEF Successive, Increasing
    <3>2. QED
      BY <3>1 DEF Increasing
  <2>8. \A j \in DOMAIN wrote'[s] : j \in DOMAIN wrote[s] \/ j = Len(wrote[s]) + 1
    BY <1>0, <2>4
  <2>9. \A j \in DOMAIN wrote'[s] : wrote'[s][j] \in Handled(s)
    BY <2>1, <2>2, <2>4, <2>8 DEF Successive
  <2>10. ASSUME NEW j \in DOMAIN wrote'[s], NEW k \in DOMAIN mail'[s]
         PROVE  wrote'[s][j] < mail'[s][k]
    <3>1. 1 < k + 1
      BY <2>3
    <3>2. mail[s][1] < mail'[s][k]
      BY <2>1, <2>2, <2>3, <3>1 DEF Successive, Increasing
    <3>3. QED
      BY <2>1, <2>3, <2>4, <2>8, <3>2 DEF Successive
  <2>11. QED
    BY <2>1, <2>3, <2>5, <2>6, <2>7, <2>9, <2>10 DEF Successive, Increasing
<1>5. ASSUME session[s].state = "open", HandleChat PROVE Successive(s)'
  <2>1. /\ mail'[s] = IF Listed(s) /\ log[hub[1].id] \in Wanted(s)
                        THEN Append(mail[s], hub[1].id) ELSE mail[s]
        /\ wrote' = wrote /\ log' = log
    BY <1>5, ChatForwarded DEF HandleChat, history
  <2>2. CASE Listed(s) /\ log[hub[1].id] \in Wanted(s)
    <3>1. /\ hub[1].id \in Handled(s)' /\ hub[1].id \in Places
          /\ \A n \in Handled(s) : n < hub[1].id
      <4>1. hub[1].id \in 1 .. Len(log) /\ Len(log) <= MaxMessages /\ MaxMessages \in Nat
        BY <1>5, ChatForwarded, HubAssumption DEF HubTypes
      <4>2. QED
        BY <1>0, <1>5, <2>2, <4>1, NextForListed DEF Places
    <3>2. \A n \in Handled(s) : n \in Handled(s)'
      BY <1>5, HandledGrows
    <3>3. /\ DOMAIN mail'[s] = 1 .. Len(mail[s]) + 1
          /\ \A j \in DOMAIN mail[s] : mail'[s][j] = mail[s][j]
          /\ mail'[s][Len(mail[s]) + 1] = hub[1].id
      BY <1>0, <2>1, <2>2, <3>1
    <3>4. Successive(s) /\ Wanted(s)' = Wanted(s)
      BY <1>5 DEF MailInv, HandleChat, Wanted, Subject
    <3>5. \A j \in DOMAIN mail'[s] : j \in DOMAIN mail[s] \/ j = Len(mail[s]) + 1
      BY <1>0, <3>3
    <3>6. Increasing(mail'[s])
      <4>1. ASSUME NEW j \in DOMAIN mail'[s], NEW k \in DOMAIN mail'[s], j < k
            PROVE  mail'[s][j] < mail'[s][k]
        <5>1. j \in DOMAIN mail[s]
          BY <1>0, <3>3, <4>1
        <5>2. mail[s][j] \in Handled(s)
          BY <3>4, <5>1 DEF Successive
        <5>3. QED
          BY <3>1, <3>3, <3>4, <3>5, <4>1, <5>1, <5>2 DEF Successive, Increasing
      <4>2. QED
        BY <4>1 DEF Increasing
    <3>7. \A j \in DOMAIN mail'[s] : mail'[s][j] \in Handled(s)' /\ log[mail'[s][j]] \in Wanted(s)
      BY <2>2, <3>1, <3>2, <3>3, <3>4, <3>5 DEF Successive
    <3>8. \A j \in DOMAIN wrote[s], k \in DOMAIN mail'[s] : wrote[s][j] < mail'[s][k]
      BY <3>1, <3>3, <3>4, <3>5 DEF Successive
    <3>9. QED
      BY <2>1, <3>2, <3>4, <3>6, <3>7, <3>8 DEF Successive, Increasing
  <2>3. QED
    BY <1>2, <1>5, <2>1, <2>2
<1>6. ASSUME NEW r \in Sessions, Deliver(r), r # s
      PROVE  mail'[s] = mail[s] /\ wrote'[s] = wrote[s]
  BY <1>6 DEF Deliver, HubTypes
<1>7. QED
  <2>1. CASE session[s].state = "open"
    BY <1>2, <1>3, <1>4, <1>5, <1>6, <2>1, StepKinds
       DEF StepKind, Quiet, Accepts, Starts, Ends, HandleConnect, HandleDisconnect, Publish
  <2>2. QED
    BY <1>1, <2>1

\* NothingMissed, for one session.
Served(s) ==
  \A n \in from[s] + 1 .. Len(log) :
    log[n] \in Wanted(s) => n \in Range(wrote[s]) \cup Range(mail[s]) \cup Pending

LEMMA NothingMissedIsServed ==
  ASSUME HubTypes
  PROVE  NothingMissed <=> \A s \in Sessions : session[s].state = "open" => Served(s)
  BY DEF NothingMissed, Served, Wanted, Pending, Chats

LEMMA ServedStep ==
  ASSUME HubTypes, IdsInv, TablesInv, NoticesInv, FromInv, PendingInv, OutsideInv, ConnectInv,
         OpenInv, [HNext]_vars,
         NEW s \in Sessions, session'[s].state = "open",
         session[s].state = "open" => Served(s)
  PROVE  Served(s)'
<1>0. /\ Len(log) \in Nat /\ from[s] \in Nat
      /\ mail[s] \in Seq(Places) /\ wrote[s] \in Seq(Places)
      /\ Len(mail[s]) \in Nat /\ DOMAIN mail[s] = 1 .. Len(mail[s])
      /\ Len(wrote[s]) \in Nat /\ DOMAIN wrote[s] = 1 .. Len(wrote[s])
  BY MailTyped, SessionTyped
<1>1. ASSUME NEW r \in Sessions, Starts(r), r = s PROVE Served(s)'
  <2>1. from'[s] = Len(log) /\ log' = log
    BY <1>1 DEF Starts, HubTypes
  <2>2. from'[s] + 1 .. Len(log') = {}
    BY <1>0, <2>1
  <2>3. QED
    BY <2>2 DEF Served
<1>2. ASSUME session[s].state = "open",
             mail'[s] = mail[s], wrote'[s] = wrote[s], from'[s] = from[s], log' = log, Same(s),
             Pending \subseteq Pending'
      PROVE  Served(s)'
  BY <1>2 DEF Served, Wanted, Same, Subject
<1>3. CASE Quiet
  BY <1>2, <1>3 DEF Quiet, Pending, Chats, history
<1>4. ASSUME NEW r \in Sessions, Accepts(r) PROVE Served(s)'
  <2>1. r # s /\ session[s].state = "open" /\ Same(s)
    BY <1>4 DEF Accepts, OnlyIn
  <2>2. QED
    BY <1>2, <1>4, <2>1 DEF Accepts, Pending, Chats, history
<1>5. ASSUME NEW r \in Sessions, Starts(r), r # s PROVE Served(s)'
  <2>1. session[s].state = "open" /\ Same(s) /\ from'[s] = from[s]
    BY <1>5 DEF Starts, OnlyIn, HubTypes
  <2>2. Pending' = Pending
    BY <1>5, NoticeSent DEF Starts
  <2>3. QED
    BY <1>2, <1>5, <2>1, <2>2 DEF Starts
<1>6. ASSUME NEW r \in Sessions, Ends(r) \/ Stops(r) PROVE Served(s)'
  <2>1. r # s /\ session[s].state = "open" /\ Same(s)
    BY <1>6 DEF Ends, Stops, OnlyIn
  <2>2. Pending' = Pending
    BY <1>6, NoticeSent DEF Ends, Stops, Pending, Chats
  <2>3. mail'[s] = mail[s]
    BY <1>6, <2>1 DEF Ends, Stops, HubTypes
  <2>4. QED
    BY <1>2, <1>6, <2>1, <2>2, <2>3 DEF Ends, Stops, history
<1>7. ASSUME NEW r \in Sessions, Deliver(r) PROVE Served(s)'
  <2>1. /\ session[s].state = "open" /\ Same(s)
        /\ from' = from /\ log' = log /\ Pending' = Pending
    BY <1>7 DEF Deliver, Same, Pending, Chats, history
  <2>2. CASE r # s
    BY <1>2, <1>7, <2>1, <2>2 DEF Deliver, HubTypes
  <2>3. CASE r = s
    <3>1. /\ 1 \in DOMAIN mail[s] /\ Head(mail[s]) = mail[s][1] /\ mail[s][1] \in Places
          /\ mail'[s] = Tail(mail[s]) /\ wrote'[s] = Append(wrote[s], mail[s][1])
      BY <1>0, <1>7, <2>3 DEF Deliver, HubTypes
    <3>2. \A j \in DOMAIN mail[s] : j # 1 =>
            j - 1 \in DOMAIN mail'[s] /\ mail'[s][j - 1] = mail[s][j]
      BY <1>0, <3>1
    <3>3. /\ \A j \in DOMAIN wrote[s] : j \in DOMAIN wrote'[s] /\ wrote'[s][j] = wrote[s][j]
          /\ Len(wrote[s]) + 1 \in DOMAIN wrote'[s]
          /\ wrote'[s][Len(wrote[s]) + 1] = mail[s][1]
      BY <1>0, <3>1
    <3>4. Range(wrote[s]) \subseteq Range(wrote'[s])
      BY <3>3 DEF Range
    <3>5. mail[s][1] \in Range(wrote'[s])
      BY <3>3 DEF Range
    <3>6. Range(mail[s]) \subseteq Range(mail'[s]) \cup {mail[s][1]}
      BY <3>2 DEF Range
    <3>7. Wanted(s)' = Wanted(s)
      BY <2>1 DEF Wanted, Same, Subject
    <3>8. QED
      BY <2>1, <3>4, <3>5, <3>6, <3>7 DEF Served
  <2>4. QED
    BY <2>2, <2>3
<1>8. ASSUME HandleConnect \/ HandleDisconnect PROVE Served(s)'
  <2>1. Pending' = Pending
    BY <1>8, MailHandled DEF HandleConnect, HandleDisconnect
  <2>2. QED
    BY <1>2, <1>8, <2>1 DEF HandleConnect, HandleDisconnect, Same, history
<1>9. CASE Publish
  <2>1. /\ Len(log') = Len(log) + 1 /\ \A n \in 1 .. Len(log) : log'[n] = log[n]
        /\ Pending' = Pending \cup {Len(log) + 1}
    BY <1>9, ChatSent
  <2>2. /\ session' = session /\ mail' = mail /\ wrote' = wrote /\ from' = from
        /\ Wanted(s)' = Wanted(s)
    BY <1>9 DEF Publish, Wanted, Subject
  <2>3. \A n \in from[s] + 1 .. Len(log') :
          n = Len(log) + 1 \/ (n \in from[s] + 1 .. Len(log) /\ n \in 1 .. Len(log))
    BY <1>0, <2>1
  <2>4. QED
    BY <2>1, <2>2, <2>3 DEF Served
<1>10. CASE HandleChat
  <2>1. /\ session' = session /\ wrote' = wrote /\ from' = from /\ log' = log
        /\ Wanted(s)' = Wanted(s)
    BY <1>10 DEF HandleChat, Wanted, Subject, history
  <2>2. Pending' = Pending \ {hub[1].id} /\ 1 \in Chats /\ hub[1].id \in 1 .. Len(log)
    BY <1>10, MailHandled, ChatForwarded DEF HandleChat
  <2>3. mail'[s] = IF Listed(s) /\ log[hub[1].id] \in Wanted(s)
                     THEN Append(mail[s], hub[1].id) ELSE mail[s]
    BY <1>10, <2>1, ChatForwarded
  <2>4. Range(mail[s]) \subseteq Range(mail'[s])
    <3>1. hub[1].id \in Places
      BY <1>0, <2>2, HubAssumption DEF HubTypes, Places
    <3>2. \A j \in DOMAIN mail[s] : j \in DOMAIN mail'[s] /\ mail'[s][j] = mail[s][j]
      BY <1>0, <2>3, <3>1
    <3>3. QED
      BY <3>2 DEF Range
  <2>5. ASSUME hub[1].id \in from[s] + 1 .. Len(log), log[hub[1].id] \in Wanted(s)
        PROVE  hub[1].id \in Range(mail'[s])
    <3>1. Listed(s)
      <4>1. ASSUME NEW i \in Connects(s) PROVE FALSE
        <5>1. i # 1 /\ i \in Nat /\ 1 <= i
          BY <2>2, PlacesInHub DEF Chats, Connects
        <5>2. hub[1].id <= from[s]
          BY <2>2, <5>1 DEF ConnectInv
        <5>3. QED
          BY <1>0, <2>2, <2>5, <5>2
      <4>2. QED
        BY <2>1, <4>1 DEF OpenInv
    <3>2. hub[1].id \in Places
      BY <1>0, <2>2, HubAssumption DEF HubTypes, Places
    <3>3. /\ Len(mail[s]) + 1 \in DOMAIN mail'[s]
          /\ mail'[s][Len(mail[s]) + 1] = hub[1].id
      BY <1>0, <2>3, <2>5, <3>1, <3>2
    <3>4. QED
      BY <3>3 DEF Range
  <2>6. QED
    BY <2>1, <2>2, <2>4, <2>5 DEF Served
<1>11. QED
  BY <1>1, <1>3, <1>4, <1>5, <1>6, <1>7, <1>8, <1>9, <1>10, StepKinds DEF StepKind

-----------------------------------------------------------------------------
(* The invariant and what follows from it                                  *)

LEMMA HubInvInit == HInit => HubInv
<1> SUFFICES ASSUME HInit PROVE HubInv
  OBVIOUS
<1>1. HubTypes
  BY HubTypesInit
<1>2. hub = << >> /\ DOMAIN hub = {} /\ log = << >> /\ Len(log) = 0
  BY DEF HInit
<1>3. Chats = {} /\ Pending = {}
      /\ \A s \in Sessions : Connects(s) = {} /\ Leaves(s) = {}
  BY <1>2 DEF Chats, Pending, Connects, Leaves
<1>4. \A s \in Sessions : /\ session[s].state = "none" /\ ~Joined(s)
                          /\ mail[s] = << >> /\ wrote[s] = << >> /\ from[s] = 0
  BY DEF HInit, Unborn, Joined
<1>5. \A t \in Tenants, c \in Subjects : DOMAIN Table(t, c) = {}
  BY DEF HInit, Table, NoTable, Subjects
<1>6. IdsInv /\ NoticesInv /\ TablesInv
  BY <1>2, <1>4, <1>5 DEF IdsInv, NoticesInv, TablesInv
<1>7. FromInv /\ PendingInv /\ OutsideInv /\ ConnectInv /\ ConnectedInv
  BY <1>2, <1>3, <1>4 DEF FromInv, PendingInv, OutsideInv, ConnectInv, ConnectedInv
<1>8. OpenInv /\ GoneInv /\ MailInv /\ NothingMissed
  BY <1>4 DEF OpenInv, GoneInv, MailInv, NothingMissed
<1>9. QED
  BY <1>1, <1>6, <1>7, <1>8 DEF HubInv

LEMMA HubInvStep ==
  ASSUME HubInv, [HNext]_vars
  PROVE  HubInv'
<1>1. HubTypes' /\ IdsInv' /\ NoticesInv' /\ TablesInv' /\ FromInv' /\ PendingInv'
  BY HubTypesStep, IdsStep, NoticesStep, TablesStep, FromStep, PendingStep DEF HubInv
<1>2. OutsideInv' /\ ConnectInv' /\ ConnectedInv' /\ OpenInv' /\ GoneInv' /\ MailInv'
  BY OutsideStep, ConnectStep, ConnectedStep, OpenStep, GoneStep, MailStep DEF HubInv
<1>3. NothingMissed'
  <2>1. \A s \in Sessions : session[s].state = "open" => Served(s)
    BY NothingMissedIsServed DEF HubInv
  <2>2. \A s \in Sessions : session'[s].state = "open" => Served(s)'
    BY <2>1, ServedStep DEF HubInv
  <2>3. NothingMissed' <=> \A s \in Sessions : session'[s].state = "open" => Served(s)'
    BY <1>1 DEF NothingMissed, Served, Wanted, Pending, Chats
  <2>4. QED
    BY <2>2, <2>3
<1>4. QED
  BY <1>1, <1>2, <1>3 DEF HubInv

\* The inductive invariant of the hub and its sessions.
THEOREM HubInductive == HSpec => []HubInv
<1>1. HubInv /\ [HNext]_vars => HubInv'
  BY HubInvStep
<1>2. QED
  BY HubInvInit, <1>1, PTL DEF HSpec

\* Types; ids are unique, and a table holds only sessions of its tenant and
\* conversation, each under its own id (hub.rs, Connect; session.rs, NEXT_ID).
THEOREM HubTypesCorrect == HSpec => []HTypeOK
<1>1. HubInv => HTypeOK
  <2> SUFFICES ASSUME HubInv PROVE HTypeOK
    OBVIOUS
  <2>1. HubTypes /\ TablesInv /\ IdsInv
    BY DEF HubInv
  <2>2. ASSUME NEW i \in DOMAIN hub
        PROVE  \/ hub[i] \in [kind : {"chat"}, id : Places]
               \/ hub[i] \in [kind : {"connect", "disconnect"}, id : Nat, tenant : Tenants,
                              conversation : Subjects, addr : Sessions]
    BY <2>1, ChatOrNotice DEF Chat, Notice
  <2>3. ASSUME NEW t \in Tenants, NEW c \in Subjects, NEW i \in DOMAIN Table(t, c)
        PROVE  LET s == Table(t, c)[i] IN
                 /\ s \in Sessions /\ session[s].state # "none"
                 /\ session[s].id = i /\ session[s].tenant = t /\ session[s].conversation = c
    BY <2>1 DEF TablesInv, Joined
  <2>4. QED
    BY <2>1, <2>2, <2>3 DEF HTypeOK, HubTypes, SessionRecord, IdsInv
<1>2. QED
  BY <1>1, HubInductive, PTL

\* A session that has stopped and whose notices the hub has handled is in no
\* table, however heartbeat, client and runtime interleave (hub.rs, Disconnect;
\* session.rs, stopping).
THEOREM SessionsForgotten == HSpec => []Forgotten
<1>1. HubInv => Forgotten
  <2> SUFFICES ASSUME HubInv, NEW s \in Sessions, session[s].state = "stopped",
                      \A i \in DOMAIN hub : hub[i].kind = "chat" \/ hub[i].id # session[s].id
               PROVE  ~Known(s)
    BY DEF Forgotten
  <2>1. Leaves(s) = {}
    BY DEF HubInv, NoticesInv, Leaves, Envelope
  <2>2. ~Listed(s)
    BY <2>1 DEF HubInv, GoneInv
  <2>3. QED
    BY <2>2, KnownIsListed DEF HubInv
<1>2. QED
  BY <1>1, HubInductive, PTL

\* No running session is passed over (hub.rs, ChatMessage).
THEOREM NoMessageMissed == HSpec => []NothingMissed
<1>1. HubInv => NothingMissed
  BY DEF HubInv
<1>2. QED
  BY <1>1, HubInductive, PTL

-----------------------------------------------------------------------------
(***************************************************************************)
(* The hub implements Broadcast: a session joins when it sends its Connect *)
(* and leaves when it stops running; only what is written to a client is a *)
(* step of the abstract sessions, and it is the oldest of the mailbox.     *)
(***************************************************************************)
\* A session's part in the promise changes only when it starts or ends.
LEMMA MembersKept ==
  ASSUME HubTypes, [HNext]_vars, NEW s \in Sessions, ~Starts(s), ~Ends(s)
  PROVE  MemberOf(s)' = MemberOf(s) /\ SubjectOf(s)' = SubjectOf(s)
<1>1. \/ session'[s].state = session[s].state
      \/ session[s].state = "none" /\ session'[s].state = "new"
      \/ session[s].state = "stopping" /\ session'[s].state = "stopped"
  BY StepKinds
     DEF StepKind, Quiet, Accepts, Starts, Ends, Stops, OnlyIn, Deliver,
         HandleConnect, HandleDisconnect, HandleChat, Publish
<1>2. Joined(s)' <=> Joined(s)
  BY <1>1 DEF Joined
<1>3. Joined(s) => Same(s)
  BY KeepsIdentity DEF Joined
<1>4. QED
  BY <1>1, <1>2, <1>3 DEF MemberOf, SubjectOf, Same, Subject, Joined

\* What a client is written is the next message of its subject.
LEMMA WritesNext ==
  ASSUME HubInv, NEW s \in Sessions, Deliver(s)
  PROVE  /\ mail[s][1] \in Promise!Reached(s) + 1 .. Len(log)
         /\ log[mail[s][1]] \in Wanted(s)
         /\ \A n \in Promise!Reached(s) + 1 .. mail[s][1] - 1 : log[n] \notin Wanted(s)
         /\ wrote' = [wrote EXCEPT ![s] = Append(@, mail[s][1])]
<1>0. /\ Len(log) \in Nat /\ from[s] \in Nat
      /\ Len(mail[s]) \in Nat /\ DOMAIN mail[s] = 1 .. Len(mail[s])
      /\ Len(wrote[s]) \in Nat /\ DOMAIN wrote[s] = 1 .. Len(wrote[s])
      /\ mail[s] \in Seq(Places) /\ wrote[s] \in Seq(Places)
      /\ \A j \in DOMAIN wrote[s] : wrote[s][j] \in Nat
  BY MailTyped, SessionTyped DEF HubInv
<1>1. Successive(s) /\ session[s].state = "open" /\ mail[s] # << >>
  BY DEF HubInv, MailInv, Deliver
<1>2. 1 \in DOMAIN mail[s] /\ Head(mail[s]) = mail[s][1]
  BY <1>0, <1>1
<1>3. /\ mail[s][1] \in 1 .. Len(log) /\ from[s] < mail[s][1] /\ mail[s][1] \notin Pending
      /\ log[mail[s][1]] \in Wanted(s)
  BY <1>1, <1>2 DEF Successive, Handled
<1>4. /\ Promise!Reached(s) \in Nat
      /\ Promise!Reached(s) < mail[s][1] /\ from[s] <= Promise!Reached(s)
      /\ \A j \in DOMAIN wrote[s] : wrote[s][j] <= Promise!Reached(s)
  <2>1. CASE wrote[s] = << >>
    BY <1>0, <1>3, <2>1 DEF Promise!Reached
  <2>2. CASE wrote[s] # << >>
    <3>1. Len(wrote[s]) \in DOMAIN wrote[s] /\ Promise!Reached(s) = wrote[s][Len(wrote[s])]
      BY <1>0, <2>2 DEF Promise!Reached
    <3>2. wrote[s][Len(wrote[s])] \in Handled(s)
      BY <1>1, <3>1 DEF Successive
    <3>3. \A j \in DOMAIN wrote[s] : wrote[s][j] <= wrote[s][Len(wrote[s])]
      BY <1>0, <1>1, <3>1 DEF Successive, Increasing
    <3>4. wrote[s][Len(wrote[s])] < mail[s][1]
      BY <1>1, <1>2, <3>1 DEF Successive
    <3>5. QED
      BY <1>0, <3>1, <3>2, <3>3, <3>4 DEF Handled
  <2>3. QED
    BY <2>1, <2>2
<1>5. ASSUME NEW n \in Promise!Reached(s) + 1 .. mail[s][1] - 1, log[n] \in Wanted(s)
      PROVE  FALSE
  <2>1. n \in from[s] + 1 .. Len(log) /\ n < mail[s][1] /\ Promise!Reached(s) < n
    BY <1>0, <1>3, <1>4
  <2>2. n \in Range(wrote[s]) \cup Range(mail[s]) \cup Pending
    BY <1>1, <1>5, <2>1, NothingMissedIsServed DEF HubInv, Served
  <2>3. n \notin Range(wrote[s])
    BY <1>0, <1>4, <2>1 DEF Range
  <2>4. n \notin Range(mail[s])
    <3>1. \A j \in DOMAIN mail[s] : mail[s][j] \in Nat /\ (j = 1 \/ 1 < j)
      BY <1>0, MailTyped DEF HubInv
    <3>2. \A j \in DOMAIN mail[s] : mail[s][1] <= mail[s][j]
      BY <1>1, <1>2, <1>3, <3>1 DEF Successive, Increasing
    <3>3. QED
      BY <1>3, <2>1, <3>1, <3>2 DEF Range
  <2>5. n \notin Pending
    <3>1. ASSUME NEW i \in Chats, hub[i].id = n PROVE mail[s][1] \in Pending
      BY <1>3, <2>1, <3>1 DEF HubInv, PendingInv
    <3>2. QED
      BY <1>3, <3>1 DEF Pending
  <2>6. QED
    BY <2>2, <2>3, <2>4, <2>5
<1>6. wrote' = [wrote EXCEPT ![s] = Append(@, mail[s][1])]
  BY <1>2 DEF Deliver
<1>7. QED
  BY <1>0, <1>3, <1>4, <1>5, <1>6

LEMMA BroadcastInit == HInit => Promise!BInit
  BY DEF HInit, Promise!BInit, Members, SubjectsOf, MemberOf, SubjectOf, Unborn, Joined

LEMMA BroadcastStep ==
  ASSUME HubInv, [HNext]_vars
  PROVE  [Promise!BNext]_(Promise!bvars)
<1>0. HubTypes
  BY DEF HubInv
<1>1. /\ Members = [s \in Sessions |-> MemberOf(s)]
      /\ Members' = [s \in Sessions |-> MemberOf(s)']
      /\ SubjectsOf = [s \in Sessions |-> SubjectOf(s)]
      /\ SubjectsOf' = [s \in Sessions |-> SubjectOf(s)']
  BY DEF Members, SubjectsOf
<1>2. ASSUME \A s \in Sessions : ~Starts(s) /\ ~Ends(s)
      PROVE  Members' = Members /\ SubjectsOf' = SubjectsOf
  BY <1>0, <1>1, <1>2, MembersKept
<1>3. ASSUME NEW s \in Sessions, Starts(s) PROVE Promise!BJoin(s)
  <2>1. MemberOf(s) = "out" /\ MemberOf(s)' = "in"
    BY <1>3 DEF Starts, MemberOf, Joined
  <2>2. SubjectOf(s)' = Subject(session[s].tenant, session[s].conversation)
    BY <1>3 DEF Starts, SubjectOf, Joined, Same, Subject
  <2>3. \A r \in Sessions \ {s} : MemberOf(r)' = MemberOf(r) /\ SubjectOf(r)' = SubjectOf(r)
    BY <1>3 DEF Starts, OnlyIn, Same, MemberOf, SubjectOf, Joined, Subject
  <2>4. /\ Members[s] = "out" /\ Members' = [Members EXCEPT ![s] = "in"]
        /\ SubjectsOf' = [SubjectsOf EXCEPT ![s] = Subject(session[s].tenant, session[s].conversation)]
    BY <1>1, <2>1, <2>2, <2>3
  <2>5. Subject(session[s].tenant, session[s].conversation) \in SubjectSets
    BY <1>0, SessionTyped DEF SubjectSets
  <2>6. QED
    BY <1>3, <2>4, <2>5 DEF Starts, Promise!BJoin
<1>4. ASSUME NEW s \in Sessions, Ends(s) PROVE Promise!BLeave(s)
  <2>1. MemberOf(s) = "in" /\ MemberOf(s)' = "left" /\ SubjectOf(s)' = SubjectOf(s)
    BY <1>4 DEF Ends, MemberOf, SubjectOf, Joined, Same, Subject
  <2>2. \A r \in Sessions \ {s} : MemberOf(r)' = MemberOf(r) /\ SubjectOf(r)' = SubjectOf(r)
    BY <1>4 DEF Ends, OnlyIn, Same, MemberOf, SubjectOf, Joined, Subject
  <2>3. Members[s] = "in" /\ Members' = [Members EXCEPT ![s] = "left"] /\ SubjectsOf' = SubjectsOf
    BY <1>1, <2>1, <2>2
  <2>4. QED
    BY <1>4, <2>3 DEF Ends, Promise!BLeave, history
<1>5. ASSUME NEW s \in Sessions, Deliver(s) PROVE Promise!BWrite(s)
  <2>1. MemberOf(s) = "in" /\ SubjectOf(s) = Wanted(s)
    BY <1>5 DEF Deliver, MemberOf, SubjectOf, Wanted, Joined
  <2>2. Members[s] = "in" /\ SubjectsOf[s] = Wanted(s)
    BY <1>1, <2>1
  <2>3. Members' = Members /\ SubjectsOf' = SubjectsOf /\ log' = log /\ from' = from
    BY <1>5 DEF Deliver, history, Members, SubjectsOf, MemberOf, SubjectOf, Joined, Subject
  <2>4. QED
    BY <1>5, <2>2, <2>3, WritesNext DEF Promise!BWrite
<1>6. ASSUME Publish PROVE Promise!BPublish
  <2>1. PICK c \in Conversations :
          log' = Append(log, [tenant |-> TenantOf[c], conversation |-> c])
    BY <1>6 DEF Publish
  <2>2. [tenant |-> TenantOf[c], conversation |-> c] \in Message
    BY HubAssumption DEF Message
  <2>3. Members' = Members /\ SubjectsOf' = SubjectsOf /\ from' = from /\ wrote' = wrote
    BY <1>6 DEF Publish, Members, SubjectsOf, MemberOf, SubjectOf, Joined, Subject
  <2>4. QED
    BY <2>1, <2>2, <2>3 DEF Promise!BPublish
<1>7. ASSUME UNCHANGED <<log, from, wrote>>, \A s \in Sessions : ~Starts(s) /\ ~Ends(s)
      PROVE  UNCHANGED Promise!bvars
  BY <1>2, <1>7 DEF Promise!bvars
<1>8. QED
  BY <1>0, <1>3, <1>4, <1>5, <1>6, <1>7, StepKinds
     DEF StepKind, Quiet, Accepts, Stops, HandleConnect, HandleDisconnect, HandleChat,
         Promise!BNext, history

\* Every client of a running session is written the messages of its tenant (and
\* conversation) from its Connect on, in order, none left out, none twice and
\* none of another tenant (hub.rs, session.rs).
THEOREM HubImplementsBroadcast == HSpec => ImplementsBroadcast
<1>1. HInit => Promise!BInit
  BY BroadcastInit
<1>2. HubInv /\ [HNext]_vars => [Promise!BNext]_(Promise!bvars)
  BY BroadcastStep
<1>3. QED
  BY <1>1, <1>2, HubInductive, PTL DEF HSpec, ImplementsBroadcast, Promise!BSpec

=============================================================================
