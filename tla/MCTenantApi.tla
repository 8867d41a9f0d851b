----------------------------- MODULE MCTenantApi -----------------------------
(***************************************************************************)
(* Instances of TenantApi: two tenants, two tasks of the server.  The      *)
(* administration starts with a fresh database, or with one where each     *)
(* tenant has its default roles and a user, and one has a role of its own. *)
(***************************************************************************)
EXTENDS TenantApi, TLC

CONSTANTS k1, k2, ta, tb, su, adm, oth, new, manage, chats, bogus, c1, c2, c3,
  n1, n2, m1, m2, m3

\* roles and permissions
MCDefaults == << [name |-> "tenant_admin", codes |-> {manage, chats}],
                 [name |-> "agent", codes |-> {chats}] >>
MCWishes == {{}, {chats}, {manage, chats}, {chats, bogus}}

NoRows(S) == [x \in S |-> Absent]
MCFresh == [catalogue |-> {}, tenants |-> {}, users |-> NoRows(Users),
            roles |-> NoRows(RoleIds), granted |-> [r \in RoleIds |-> {}], member |-> {}]

MCRoles == << [tenant |-> NoTenant, name |-> "superadmin", system |-> TRUE],
              [tenant |-> ta, name |-> "tenant_admin", system |-> TRUE],
              [tenant |-> ta, name |-> "agent", system |-> TRUE],
              [tenant |-> tb, name |-> "tenant_admin", system |-> TRUE],
              [tenant |-> tb, name |-> "agent", system |-> TRUE],
              [tenant |-> ta, name |-> "custom", system |-> FALSE] >>
MCGranted == << {manage, chats}, {manage, chats}, {chats}, {manage, chats}, {chats}, {chats} >>

MCUsed ==
  [catalogue |-> {manage, chats}, tenants |-> {ta, tb},
   users |-> [u \in Users |-> IF u = new THEN Absent ELSE
     [tenant |-> IF u = su THEN NoTenant ELSE IF u = adm THEN ta ELSE tb,
      super |-> (u = su), active |-> TRUE]],
   roles |-> [r \in RoleIds |-> IF r \in DOMAIN MCRoles THEN MCRoles[r] ELSE Absent],
   granted |-> [r \in RoleIds |-> IF r \in DOMAIN MCRoles THEN MCGranted[r] ELSE {}],
   member |-> {<<su, 1>>, <<adm, 2>>, <<oth, 5>>}]

MCDatabases == {MCFresh, MCUsed}

\* contacts and tags
MCContactTenant == (c1 :> ta) @@ (c2 :> ta) @@ (c3 :> tb)
MCOwnerTenant == (adm :> ta) @@ (oth :> tb)

\* sending
MCGlobal == [bucket |-> "local", base |-> "/media"]

\* Tasks are interchangeable, and so are phone numbers.
MCSymmetry == Permutations({k1, k2}) \cup Permutations({n1, n2})

=============================================================================
