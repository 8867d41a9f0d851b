------------------------------ MODULE TenantApi ------------------------------
(***************************************************************************)
(* The API of a tenant: administration, contacts and tags, sending and     *)
(* settings, and lists read page by page.                                  *)
(*                                                                         *)
(* The four parts run in one server but each property below is about the   *)
(* tables of one of them, and the actions of one part look at no variable  *)
(* of another: what one module takes from the domain of another (users as  *)
(* owners of contacts, messages as rows of a list) it has as constants or  *)
(* as actions of its own.  So it is enough to let each of them run alone,  *)
(* with all its interleavings; which one it is is chosen at first.         *)
(*                                                                         *)
(* What they read of each other does not change where it matters: the      *)
(* tenant of a user only when seed_admin makes one a superadmin, and the   *)
(* permissions of a request are loaded before it starts.                   *)
(***************************************************************************)
EXTENDS Rbac, ContactTags, ChatSend, Paging

VARIABLE part       \* the part that runs

apivars == <<part, rvars, cvars, svars, pvars>>

ApiInit ==
  /\ part \in {"admin", "contacts", "sending", "reading"}
  /\ RInit /\ CInit /\ SInit /\ PInit
  /\ part # "admin" => tenants = {}       \* these do not look at it
  /\ part # "reading" => (list = "history" /\ present = {})

ApiNext ==
  /\ UNCHANGED part
  /\ \/ part = "admin"    /\ RNext /\ UNCHANGED <<cvars, svars, pvars>>
     \/ part = "contacts" /\ CNext /\ UNCHANGED <<rvars, svars, pvars>>
     \/ part = "sending"  /\ SNext /\ UNCHANGED <<rvars, cvars, pvars>>
     \/ part = "reading"  /\ PNext /\ UNCHANGED <<rvars, cvars, svars>>

ApiSpec == ApiInit /\ [][ApiNext]_apivars

\* What the type invariants of the four parts say: columns have their types;
\* names of roles and of tags are unique in a tenant, and phone number ids of
\* accounts everywhere; links of users and roles, and of contacts and tags, join
\* rows that are there; and the user, the role and the tag that a request has
\* looked up, or the message it has saved, are there until it writes.
ApiTypeOK == RTypeOK /\ CTypeOK /\ STypeOK /\ PTypeOK

=============================================================================
