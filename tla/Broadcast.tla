------------------------------ MODULE Broadcast ------------------------------
(***************************************************************************)
(* What the WebSocket hub promises the clients, without the hub: messages  *)
(* are published in one order; a session that joins at some place of that  *)
(* order is written every message of its subject published from there on,  *)
(* in that order, without a gap and without a repetition, until it leaves. *)
(***************************************************************************)
EXTENDS Naturals, Sequences

CONSTANTS
  Sessions,              \* the sessions that may ever be opened
  Messages,              \* what may be published
  Subjects               \* what a session may join for: sets of messages

VARIABLES
  published,             \* the messages, in the order they were published
  member,                \* member[s]: "out", "in" or "left"
  subject,               \* subject[s]: the messages s joined for
  from,                  \* from[s]: how much was published when s joined
  written                \* written[s]: the places of what s was written

bvars == <<published, member, subject, from, written>>

BInit ==
  /\ published = << >>
  /\ member = [s \in Sessions |-> "out"]
  /\ subject = [s \in Sessions |-> {}]
  /\ from = [s \in Sessions |-> 0]
  /\ written = [s \in Sessions |-> << >>]

BPublish ==
  /\ \E m \in Messages : published' = Append(published, m)
  /\ UNCHANGED <<member, subject, from, written>>

BJoin(s) ==
  /\ member[s] = "out"
  /\ member' = [member EXCEPT ![s] = "in"]
  /\ \E S \in Subjects : subject' = [subject EXCEPT ![s] = S]
  /\ from' = [from EXCEPT ![s] = Len(published)]
  /\ UNCHANGED <<published, written>>

\* The place of the message s was last written, or where it joined.
Reached(s) == IF written[s] = << >> THEN from[s] ELSE written[s][Len(written[s])]

\* The next message of its subject is the only one s can be written.
BWrite(s) ==
  /\ member[s] = "in"
  /\ \E i \in Reached(s) + 1 .. Len(published) :
       /\ published[i] \in subject[s]
       /\ \A j \in Reached(s) + 1 .. i - 1 : published[j] \notin subject[s]
       /\ written' = [written EXCEPT ![s] = Append(@, i)]
  /\ UNCHANGED <<published, member, subject, from>>

BLeave(s) ==
  /\ member[s] # "left"
  /\ member' = [member EXCEPT ![s] = "left"]
  /\ UNCHANGED <<published, subject, from, written>>

BNext == BPublish \/ \E s \in Sessions : BJoin(s) \/ BWrite(s) \/ BLeave(s)

BSpec == BInit /\ [][BNext]_bvars
=============================================================================
