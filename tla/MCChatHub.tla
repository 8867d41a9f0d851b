------------------------------ MODULE MCChatHub ------------------------------
(***************************************************************************)
(* Small instances of ChatHub for TLC: two connections, two tenants, two   *)
(* conversations of the first, a bounded number of messages.               *)
(***************************************************************************)
EXTENDS ChatHub, TLC

CONSTANTS s1, s2, t1, t2, c1, c2, none

MCTenantOf == (c1 :> t1) @@ (c2 :> t1)

\* One listener to all of t1; another like it, or one for a conversation
\* of its tenant, for all of the other tenant, or for a conversation that is
\* not of its tenant.
MCRequests ==
  (s1 :> {<<t1, none>>}) @@ (s2 :> {<<t1, none>>, <<t1, c1>>, <<t2, none>>, <<t2, c1>>})

=============================================================================
