------------------------------- MODULE Paging --------------------------------
(***************************************************************************)
(* Lists that a client reads page by page while they change.               *)
(*                                                                         *)
(*   src/application/messaging/chat_use_cases.rs   list_conversations,     *)
(*                              get_messages_by_phone, search_messages     *)
(*   src/api/routes/chat.rs     their handlers                             *)
(*                                                                         *)
(* A page is a query of its own: the rows that match, ordered by a time    *)
(* stamp, from an offset on.  The rows here are those that match; rows of  *)
(* the same stamp come in any order, another one in each query.  The total *)
(* that the response carries comes from a query before, and decides        *)
(* nothing; the client here asks for pages until one is not full.          *)
(***************************************************************************)
EXTENDS Naturals, Sequences, FiniteSets

CONSTANTS
  Rows,             \* rows there may be
  MaxStamp,         \* bound of the time stamps; 0 is NULL
  PerPage,          \* the cap on per_page: 100
  Asked,            \* the values of per_page that clients ask for
  MaxPages,         \* bound on the pages a client asks for
  MaxEdits          \* bound on changes of the rows

Lists == {"history", "search", "conversations"}

ASSUME PagingAssumption ==
  /\ IsFiniteSet(Rows)
  /\ PerPage \in Nat \ {0} /\ Asked \in SUBSET Nat /\ MaxPages \in Nat
  /\ MaxStamp \in Nat /\ MaxEdits \in Nat

VARIABLES
  list,             \* which list it is
  present,          \* the rows that match
  stamp,            \* timestamp of messages, last_message_at of conversations
  reader,           \* the client
  edits,
  there,            \* history: rows present since the client began
  excused,          \* history: rows that moved, or tied with another, since
  calm              \* history: no row went back or away since

pvars == <<list, present, stamp, reader, edits, there, excused, calm>>

IdleReader == [at |-> "idle", asked |-> 1, page |-> 1, seen |-> {}]

PInit ==
  /\ list \in Lists /\ present \in SUBSET Rows /\ stamp \in [Rows -> 0 .. MaxStamp]
  /\ \A i \in Rows : stamp[i] = 0 => (i \notin present \/ list = "conversations")
  /\ \A i \in Rows \ present : stamp[i] = 0
  /\ reader = IdleReader
  /\ edits = 0 /\ there = {} /\ excused = {} /\ calm = TRUE

-----------------------------------------------------------------------------
Reading == reader.at = "reading"
Tied(rows, at) == {i \in rows : \E j \in rows \ {i} : at[i] = at[j]}

\* What the reader is not promised after a change.
Note(moved, ok) ==
  /\ excused' = excused \cup moved \cup Tied(present', stamp')
  /\ calm' = (calm /\ ok)
  /\ there' = there \cap present'

\* Changes before the client begins make another first state.
Edit == Reading /\ edits < MaxEdits /\ edits' = edits + 1

\* A message arrives or is queued, with Meta's time or ours; a conversation
\* begins, without one.
Insert ==
  /\ Edit
  /\ \E i \in Rows \ present, t \in 0 .. MaxStamp :
       /\ (t = 0) <=> (list = "conversations")
       /\ present' = present \cup {i}
       /\ stamp' = [stamp EXCEPT ![i] = t]
  /\ Note({}, TRUE)
  /\ UNCHANGED <<list, reader>>

\* A message dates its conversation, whether or not it is the latest.
Date ==
  /\ Edit /\ list = "conversations"
  /\ \E i \in present, t \in 1 .. MaxStamp :
       /\ stamp' = [stamp EXCEPT ![i] = t]
       /\ UNCHANGED present
       /\ Note({i}, t >= stamp[i])
  /\ UNCHANGED <<list, reader>>

\* The message of a failed upload is cleaned up.
CleanUp ==
  /\ Edit /\ list # "conversations"
  /\ \E i \in present : present' = present \ {i} /\ stamp' = [stamp EXCEPT ![i] = 0]
  /\ UNCHANGED <<list, reader>>
  /\ Note({}, FALSE)

-----------------------------------------------------------------------------
\* per_page.min(100).  It has no lower bound: a client may ask for pages of
\* none, which are never short of a row, so that it comes to no end.
Limit == IF reader.asked < PerPage THEN reader.asked ELSE PerPage

\* Mutant: by what was asked for, before the cap.
OffsetAsked == (reader.page - 1) * reader.asked
Offset      == (reader.page - 1) * Limit

Listings == {s \in [1 .. Cardinality(present) -> present] :
               \A m, n \in DOMAIN s : m # n => s[m] # s[n]}

\* order_by_asc and order_by_desc; NULL is the least.
OldestFirst == {s \in Listings : \A m, n \in DOMAIN s : m < n => stamp[s[m]] <= stamp[s[n]]}
LatestFirst == {s \in Listings : \A m, n \in DOMAIN s : m < n => stamp[s[m]] >= stamp[s[n]]}

\* What OFFSET and LIMIT may return.
Pages(orders) ==
  {{s[n] : n \in {m \in DOMAIN s : Offset < m /\ m <= Offset + Limit}} : s \in orders}

ListConversations  == Pages(LatestFirst)
GetMessagesByPhone == Pages(OldestFirst)
SearchMessages     == Pages(LatestFirst)

\* The client asks for the first page.
StartReading ==
  /\ reader.at = "idle"
  /\ \E n \in Asked : reader' = [IdleReader EXCEPT !.at = "reading", !.asked = n]
  /\ there' = present /\ excused' = Tied(present, stamp) /\ calm' = TRUE
  /\ UNCHANGED <<list, present, stamp, edits>>

\* A page, and the next one unless it is short.
Receive(rows) ==
  /\ reader.page <= MaxPages
  /\ reader' = [reader EXCEPT !.seen = @ \cup rows, !.page = @ + 1,
                  !.at = IF Cardinality(rows) < Limit THEN "done" ELSE "reading"]
  /\ UNCHANGED <<list, present, stamp, edits, there, excused, calm>>

ReadConversations == Reading /\ list = "conversations" /\ \E p \in ListConversations : Receive(p)
ReadHistory       == Reading /\ list = "history"       /\ \E p \in GetMessagesByPhone : Receive(p)
ReadSearch        == Reading /\ list = "search"        /\ \E p \in SearchMessages : Receive(p)

PNext ==
  \/ Insert \/ Date \/ CleanUp
  \/ StartReading \/ ReadConversations \/ ReadHistory \/ ReadSearch
PSpec == PInit /\ [][PNext]_pvars

-----------------------------------------------------------------------------
(* Properties                                                              *)

\* The rows, their stamps and the pages of the client have their types, and
\* only rows that are there can have been there since it began.
PTypeOK ==
  /\ list \in Lists /\ present \subseteq Rows /\ stamp \in [Rows -> 0 .. MaxStamp]
  /\ reader.at \in {"idle", "reading", "done"} /\ reader.seen \subseteq Rows
  /\ there \subseteq present

\* A client that reads a list to its end has seen every row that was there all
\* the time and did not move or share its stamp, however many rows came in, at
\* whatever place, and whatever per_page it asked for, as long as none went
\* back in the order or away.
PagesComplete ==
  (reader.at = "done" /\ calm) => there \subseteq reader.seen \cup excused

=============================================================================
