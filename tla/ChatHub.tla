------------------------------- MODULE ChatHub -------------------------------
(***************************************************************************)
(* The WebSocket hub and its sessions: two kinds of actix actors, each     *)
(* with one mailbox, handling one message at a time.                       *)
(*                                                                         *)
(*   src/infrastructure/websocket/hub.rs       the hub and its tables      *)
(*   src/infrastructure/websocket/session.rs   one session per connection  *)
(*   src/api/routes/websocket.rs               the routes that open them   *)
(*                                                                         *)
(* A session sends Connect to the hub when it starts, and Disconnect when  *)
(* its heartbeat times out and again when it stops.  Whoever stores a      *)
(* message sends it to the hub, which forwards it to the sessions it has   *)
(* in its tables.  All of these are do_send: queued without a limit, in    *)
(* order, and dropped when the receiver has stopped.                       *)
(***************************************************************************)
EXTENDS Naturals, Sequences, Functions, FiniteSets

CONSTANTS
  Sessions,         \* the connections that may be opened
  Tenants,
  Conversations,
  TenantOf,         \* conversation.tenant_id of the stored conversations
  Requests,         \* Requests[s]: what the client of s may ask for
  Vanishing,        \* bound: the sessions whose client may disappear
  NoConversation,   \* conversation_id = None: a session of /ws/updates
  MaxMessages       \* bound on the messages published

ASSUME HubAssumption ==
  /\ Tenants # {} /\ TenantOf \in [Conversations -> Tenants]
  /\ NoConversation \notin Conversations
  /\ Requests \in [Sessions -> SUBSET (Tenants \X (Conversations \cup {NoConversation}))]
  /\ Vanishing \subseteq Sessions
  /\ MaxMessages \in Nat

VARIABLES
  hub,              \* the hub's mailbox
  globalSessions,   \* globalSessions[t]: id -> session
  conversationSessions,  \* conversationSessions[t][c]: id -> session
  nextId,           \* NEXT_ID
  session,          \* session[s]: the record of a ChatSession
  mail,             \* mail[s]: the mailbox of s
  wrote,            \* history: the messages written to the client of s
  log,              \* history: the messages sent to the hub
  from              \* history: from[s], how many when s sent its Connect

tables  == <<globalSessions, conversationSessions>>
history == <<log, from>>
vars == <<hub, tables, nextId, session, mail, wrote, history>>

Subjects == Conversations \cup {NoConversation}

\* ChatMessage: only its tenant and its conversation matter to the hub.
Message == [tenant : Tenants, conversation : Conversations]

\* The sessions' states: not yet accepted, accepted, running, told to stop
\* by ctx.stop(), stopped.
States == {"none", "new", "open", "stopping", "stopped"}

Unborn == [state |-> "none", id |-> 0, tenant |-> CHOOSE t \in Tenants : TRUE,
           conversation |-> NoConversation, age |-> 0, silent |-> FALSE]

NoTable == [i \in {} |-> {}]        \* HashMap::new()

HInit ==
  /\ hub = << >>
  /\ globalSessions = [t \in Tenants |-> NoTable]
  /\ conversationSessions = [t \in Tenants |-> [c \in Conversations |-> NoTable]]
  /\ nextId = 1
  /\ session = [s \in Sessions |-> Unborn]
  /\ mail = [s \in Sessions |-> << >>]
  /\ wrote = [s \in Sessions |-> << >>]
  /\ log = << >>
  /\ from = [s \in Sessions |-> 0]

-----------------------------------------------------------------------------
(* The routes                                                              *)

\* tenant_id_from_request and ensure_conversation_tenant: the token names
\* the tenant, and the conversation must be one of that tenant.
Admitted(t, c) == c # NoConversation => TenantOf[c] = t

\* As Accept, with an id that is read but not taken.
AcceptSharedId(s) ==
  /\ session[s].state = "none"
  /\ \E r \in Requests[s] :
       /\ Admitted(r[1], r[2])
       /\ session' = [session EXCEPT ![s] =
            [state |-> "new", id |-> nextId, tenant |-> r[1],
             conversation |-> r[2], age |-> 0, silent |-> FALSE]]
  /\ UNCHANGED <<hub, tables, nextId, mail, wrote, history>>

\* ws_updates and ws_chat, and ChatSession::new.
Accept(s) ==
  /\ session[s].state = "none"
  /\ \E r \in Requests[s] :
       /\ Admitted(r[1], r[2])
       /\ session' = [session EXCEPT ![s] =
            [state |-> "new", id |-> nextId, tenant |-> r[1],
             conversation |-> r[2], age |-> 0, silent |-> FALSE]]
  /\ nextId' = nextId + 1
  /\ UNCHANGED <<hub, tables, mail, wrote, history>>

-----------------------------------------------------------------------------
(* A session                                                               *)

\* The Connect and Disconnect messages of s.
Envelope(kind, s) ==
  [kind |-> kind, id |-> session[s].id, tenant |-> session[s].tenant,
   conversation |-> session[s].conversation, addr |-> s]

\* started: the heartbeat begins and the hub is told.
Started(s) ==
  /\ session[s].state = "new"
  /\ session' = [session EXCEPT ![s].state = "open"]
  /\ hub' = Append(hub, Envelope("connect", s))
  /\ from' = [from EXCEPT ![s] = Len(log)]
  /\ UNCHANGED <<tables, nextId, mail, wrote, log>>

\* The age of the last sign of life in heartbeat intervals: two intervals
\* are CLIENT_TIMEOUT, so the second tick finds it barely over or not, by the
\* jitter of the timer, and the third finds it over.
TimedOutNever(s)  == FALSE
TimedOut(s)       == session[s].age >= 1
Answering(s)      == session[s].age < 2

\* ctx.stop(); nobody asks for the age or the client from here on.
Stopped(record) == [record EXCEPT !.state = "stopping", !.age = 0, !.silent = FALSE]

\* heartbeat, the closure, on a late client.
HeartbeatTimeout(s) ==
  /\ session[s].state = "open"
  /\ TimedOut(s)
  /\ hub' = Append(hub, Envelope("disconnect", s))
  /\ session' = [session EXCEPT ![s] = Stopped(@)]
  /\ UNCHANGED <<tables, nextId, mail, wrote, history>>

\* heartbeat, the closure, otherwise: a ping, which a live client answers.
HeartbeatPing(s) ==
  /\ session[s].state = "open"
  /\ Answering(s)
  /\ session' = [session EXCEPT ![s].age = @ + 1]
  /\ UNCHANGED <<hub, tables, nextId, mail, wrote, history>>

\* StreamHandler::handle, a ping or a pong of the client.
SignOfLife(s) ==
  /\ session[s].state = "open"
  /\ ~session[s].silent
  /\ session[s].age # 0
  /\ session' = [session EXCEPT ![s].age = 0]
  /\ UNCHANGED <<hub, tables, nextId, mail, wrote, history>>

\* StreamHandler::handle, a close message, or the end of the stream.
ClientCloses(s) ==
  /\ session[s].state = "open"
  /\ ~session[s].silent
  /\ session' = [session EXCEPT ![s] = Stopped(@)]
  /\ UNCHANGED <<hub, tables, nextId, mail, wrote, history>>

\* The client disappears without a word.
GoesSilent(s) ==
  /\ s \in Vanishing
  /\ session[s].state = "open"
  /\ ~session[s].silent
  /\ session' = [session EXCEPT ![s].silent = TRUE]
  /\ UNCHANGED <<hub, tables, nextId, mail, wrote, history>>

\* As Stopping, without telling the hub again.
StoppingQuietly(s) ==
  /\ session[s].state = "stopping"
  /\ session' = [session EXCEPT ![s].state = "stopped"]
  /\ mail' = [mail EXCEPT ![s] = << >>]
  /\ UNCHANGED <<hub, tables, nextId, wrote, history>>

\* stopping: the hub is told, a second time after a timeout.
Stopping(s) ==
  /\ session[s].state = "stopping"
  /\ hub' = Append(hub, Envelope("disconnect", s))
  /\ session' = [session EXCEPT ![s].state = "stopped"]
  /\ mail' = [mail EXCEPT ![s] = << >>]
  /\ UNCHANGED <<tables, nextId, wrote, history>>

\* Handler<ChatMessage> for ChatSession: the oldest message is written to
\* the client.  A context that was told to stop handles nothing more.
Deliver(s) ==
  /\ session[s].state = "open"
  /\ mail[s] # << >>
  /\ wrote' = [wrote EXCEPT ![s] = Append(@, Head(mail[s]))]
  /\ mail' = [mail EXCEPT ![s] = Tail(@)]
  /\ UNCHANGED <<hub, tables, nextId, session, history>>

-----------------------------------------------------------------------------
(* The hub                                                                 *)

\* HashMap::insert and HashMap::remove.
Inserted(table, id, s) == [i \in DOMAIN table \cup {id} |-> IF i = id THEN s ELSE table[i]]
Removed(table, id) == Restrict(table, DOMAIN table \ {id})

Mail(kind) == hub # << >> /\ Head(hub).kind = kind /\ hub' = Tail(hub)

\* Handler<Connect> for ChatHub.
HandleConnect ==
  /\ Mail("connect")
  /\ LET msg == Head(hub) IN
       \/ /\ msg.conversation = NoConversation
          /\ globalSessions' =
               [globalSessions EXCEPT ![msg.tenant] = Inserted(@, msg.id, msg.addr)]
          /\ UNCHANGED conversationSessions
       \/ /\ msg.conversation # NoConversation
          /\ conversationSessions' = [conversationSessions EXCEPT
               ![msg.tenant][msg.conversation] = Inserted(@, msg.id, msg.addr)]
          /\ UNCHANGED globalSessions
  /\ UNCHANGED <<nextId, session, mail, wrote, history>>

\* Handler<Disconnect> for ChatHub: an id that is not there is ignored.
HandleDisconnect ==
  /\ Mail("disconnect")
  /\ LET msg == Head(hub) IN
       \/ /\ msg.conversation = NoConversation
          /\ globalSessions' =
               [globalSessions EXCEPT ![msg.tenant] = Removed(@, msg.id)]
          /\ UNCHANGED conversationSessions
       \/ /\ msg.conversation # NoConversation
          /\ conversationSessions' = [conversationSessions EXCEPT
               ![msg.tenant][msg.conversation] = Removed(@, msg.id)]
          /\ UNCHANGED globalSessions
  /\ UNCHANGED <<nextId, session, mail, wrote, history>>

\* As Listeners, of whatever tenant.
ListenersOfAll(m) ==
  UNION {Range(globalSessions[t]) : t \in Tenants}
    \cup Range(conversationSessions[m.tenant][m.conversation])

\* The sessions the hub forwards a message to.
Listeners(m) ==
  Range(globalSessions[m.tenant])
    \cup Range(conversationSessions[m.tenant][m.conversation])

\* Handler<ChatMessage> for ChatHub.
HandleChat ==
  /\ Mail("chat")
  /\ LET n == Head(hub).id IN
       mail' = [s \in Sessions |->
         IF s \in Listeners(log[n]) /\ session[s].state # "stopped"
           THEN Append(mail[s], n) ELSE mail[s]]
  /\ UNCHANGED <<tables, nextId, session, wrote, history>>

\* The webhook receiver sends each inbound message it has stored to the hub; it
\* is the only publisher, for the send routes broadcast nothing.
Publish ==
  /\ Len(log) < MaxMessages
  /\ \E c \in Conversations :
       log' = Append(log, [tenant |-> TenantOf[c], conversation |-> c])
  /\ hub' = Append(hub, [kind |-> "chat", id |-> Len(log) + 1])
  /\ UNCHANGED <<tables, nextId, session, mail, wrote, from>>

-----------------------------------------------------------------------------
HandleMail == HandleConnect \/ HandleDisconnect \/ HandleChat

SessionStep(s) ==
  \/ Accept(s) \/ Started(s) \/ HeartbeatTimeout(s) \/ HeartbeatPing(s)
  \/ SignOfLife(s) \/ ClientCloses(s) \/ GoesSilent(s)
  \/ Stopping(s) \/ Deliver(s)

HNext == Publish \/ HandleMail \/ \E s \in Sessions : SessionStep(s)

HSpec == HInit /\ [][HNext]_vars

\* The runtime polls every actor that has something to do: the hub with mail,
\* an accepted session, its interval timer, its mailbox and its stop.
HFairness ==
  /\ WF_vars(HandleMail)
  /\ \A s \in Sessions :
       /\ WF_vars(Started(s))
       /\ WF_vars(HeartbeatTimeout(s) \/ HeartbeatPing(s))
       /\ WF_vars(Stopping(s))
       /\ WF_vars(Deliver(s))

HLiveSpec == HSpec /\ HFairness

-----------------------------------------------------------------------------
(* Properties                                                              *)

Tables == {globalSessions[t] : t \in Tenants}
            \cup {conversationSessions[t][c] : t \in Tenants, c \in Conversations}

\* Is s in a table of the hub?
Known(s) == \E table \in Tables : s \in Range(table)

\* The table of a tenant, or of one of its conversations.
Table(t, c) == IF c = NoConversation THEN globalSessions[t] ELSE conversationSessions[t][c]

Places == 1 .. MaxMessages

\* Every variable has its type, no two sessions have one id, and an entry of a
\* table is a session under its own id, in the table of its own tenant and
\* conversation.
HTypeOK ==
  /\ \A i \in DOMAIN hub :
       \/ hub[i] \in [kind : {"chat"}, id : Places]
       \/ hub[i] \in [kind : {"connect", "disconnect"}, id : Nat, tenant : Tenants,
                      conversation : Subjects, addr : Sessions]
  /\ DOMAIN globalSessions = Tenants
  /\ DOMAIN conversationSessions = Tenants
  /\ \A t \in Tenants, c \in Subjects : \A i \in DOMAIN Table(t, c) :
       LET s == Table(t, c)[i] IN
         /\ s \in Sessions /\ session[s].state # "none"
         /\ session[s].id = i /\ session[s].tenant = t /\ session[s].conversation = c
  /\ \A s, r \in Sessions :
       session[s].state # "none" /\ session[r].state # "none" /\ session[s].id = session[r].id
         => s = r
  /\ nextId \in Nat
  /\ session \in [Sessions -> [state : States, id : Nat, tenant : Tenants,
                               conversation : Subjects, age : 0 .. 2,
                               silent : BOOLEAN]]
  /\ log \in Seq(Message)
  /\ from \in [Sessions -> 0 .. MaxMessages]
  /\ \A s \in Sessions : mail[s] \in Seq(Places) /\ wrote[s] \in Seq(Places)

\* No session outlives itself in the hub's tables, whichever of the heartbeat,
\* the client and the runtime ended it and however their messages to the hub
\* interleave: once a session has stopped and the hub has handled what it
\* sent, no table holds it.  A leaked entry costs every later broadcast.
Forgotten ==
  \A s \in Sessions :
    (session[s].state = "stopped" /\ \A i \in DOMAIN hub :
        hub[i].kind = "chat" \/ hub[i].id # session[s].id)
      => ~Known(s)

\* What a session is for: the messages of its tenant and, if it is about one
\* conversation, of that one.
Subject(t, c) == {m \in Message : m.tenant = t /\ c \in {NoConversation, m.conversation}}

Joined(s) == session[s].state \in {"open", "stopping", "stopped"}

\* No running session is passed over: a message of its subject sent after its
\* Connect has been written to its client, or waits in its mailbox or in the
\* hub's.  It fails when two sessions get one id, or one is dropped by the
\* Disconnect of another.
NothingMissed ==
  \A s \in Sessions : \A n \in from[s] + 1 .. Len(log) :
    (session[s].state = "open"
        /\ log[n] \in Subject(session[s].tenant, session[s].conversation))
      => \/ n \in Range(wrote[s]) \cup Range(mail[s])
         \/ \E i \in DOMAIN hub : hub[i].kind = "chat" /\ hub[i].id = n

\* A session takes part from its Connect until it stops running.
MemberOf(s)  == IF ~Joined(s) THEN "out" ELSE IF session[s].state = "open" THEN "in" ELSE "left"
SubjectOf(s) == IF ~Joined(s) THEN {} ELSE Subject(session[s].tenant, session[s].conversation)

SubjectSets == {Subject(t, c) : t \in Tenants, c \in Subjects}
Members    == [s \in Sessions |-> MemberOf(s)]
SubjectsOf == [s \in Sessions |-> SubjectOf(s)]

Promise == INSTANCE Broadcast WITH
  Messages  <- Message,
  Subjects  <- SubjectSets,
  published <- log,
  member    <- Members,
  subject   <- SubjectsOf,
  written   <- wrote

\* The hub keeps its promise: from the moment a session has sent its Connect,
\* its client is written every later message of its tenant (and conversation)
\* in the order they were sent, none left out, none twice and none of another
\* tenant, whatever else connects, times out or stops meanwhile.
ImplementsBroadcast == Promise!BSpec

\* A client that disappears without closing does not stay in the tables: the
\* heartbeat finds it and the hub forgets it.
EventuallyForgotten ==
  \A s \in Sessions :
    session[s].silent ~> (session[s].state = "stopped" /\ ~Known(s))

=============================================================================
