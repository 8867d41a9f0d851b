------------------------------ MODULE RbacProofs ------------------------------
(***************************************************************************)
(* Proofs about Rbac, for any tenants, users, roles, default roles, tasks  *)
(* and contents of the database that DatabasesAssumption allows.           *)
(*                                                                         *)
(* Nothing locks a row between the check of a request and its writes.      *)
(* What makes the checks good is that rows only change in harmless ways    *)
(* (Grow): a role stays in its tenant and remains the system role it is, a *)
(* user leaves its tenant only to become a superadmin.  So what a task has *)
(* checked stays true until it writes (TaskOK).                            *)
(***************************************************************************)
EXTENDS Rbac, TLAPS

Setting == {"set_delete", "set_codes", "set_insert"}
Seeding == {"seed_find", "seed_insert"}

AnyCode == Codes \cup RoleIds \cup UNION Wishes

TaskRow ==
  [at : Steps, user : Users, super : BOOLEAN, tenant : Tenants \cup {NoTenant},
   perms : SUBSET Codes, t : Tenants \cup {NoTenant}, u : Users, r : RoleIds \cup {0},
   codes : SUBSET AnyCode, default : Nat]

SeederRow ==
  [at : {"idle", "permissions", "attach", "link"}, codes : SUBSET Codes, r : RoleIds \cup {0}]

RowsInv ==
  /\ catalogue \subseteq Codes /\ tenants \subseteq Tenants
  /\ users \in [Users -> UserRow \cup {Absent}]
  /\ roles \in [RoleIds -> RoleRow \cup {Absent}]
  /\ granted \in [RoleIds -> SUBSET Codes] /\ asked \in [RoleIds -> SUBSET AnyCode]
  /\ member \subseteq Users \X RoleIds /\ torn \subseteq RoleIds

\* Users and their roles.
MembersInv ==
  /\ \A m \in member : IsUser(m[1]) /\ IsRole(m[2])
                         /\ users[m[1]].tenant \in {NoTenant, roles[m[2]].tenant}
  /\ \A u \in Users : IsUser(u) /\ users[u].super => users[u].tenant = NoTenant

\* A user the task may write: of its tenant, or made a superadmin since.
Reached(k) ==
  /\ IsUser(task[k].u)
  /\ task[k].super \/ users[task[k].u].super \/ users[task[k].u].tenant = task[k].tenant

\* A role of a tenant the task may write.
ReachedRole(k) == LET r == task[k].r IN
  /\ r \in RoleIds /\ IsRole(r) /\ roles[r].tenant # NoTenant
  /\ task[k].super \/ roles[r].tenant = task[k].tenant

\* A default role with its codes is being seeded on a system role.
SeedsIt(k) == LET i == task[k].default IN
  /\ task[k].super /\ i \in DOMAIN DefaultRoles
  /\ DefaultRoles[i].name = roles[task[k].r].name
  /\ task[k].at \in {"set_delete", "set_codes"} => task[k].codes = DefaultRoles[i].codes

TaskOK(k) ==
  /\ task[k].at = "load_codes" => task[k].codes \subseteq RoleIds
  /\ task[k].at \in Seeding =>
       task[k].super /\ task[k].t \in Tenants /\ task[k].default \in DOMAIN DefaultRoles
  /\ task[k].at \in Setting =>
       /\ ReachedRole(k)
       /\ task[k].default # 0 => (task[k].super /\ task[k].t \in Tenants)
       /\ roles[task[k].r].system => SeedsIt(k)
       /\ task[k].at = "set_insert" => task[k].codes \subseteq catalogue
  /\ task[k].at = "attach" =>
       /\ Reached(k) /\ task[k].t # NoTenant
       /\ users[task[k].u].tenant \in {NoTenant, task[k].t}
  /\ task[k].at \in {"update_user", "remove"} => Reached(k)
  /\ task[k].at = "remove" => task[k].r \in RoleIds /\ IsRole(task[k].r)
  /\ task[k].at = "assign" =>
       /\ Reached(k) /\ task[k].r \in RoleIds /\ IsRole(task[k].r)
       /\ users[task[k].u].tenant \in {NoTenant, roles[task[k].r].tenant}

TasksInv == task \in [Tasks -> TaskRow] /\ \A k \in Tasks : TaskOK(k)

SeederInv ==
  /\ seeder \in SeederRow
  /\ seeder.at \in {"attach", "link"} =>
       seeder.r \in RoleIds /\ IsRole(seeder.r) /\ roles[seeder.r].tenant = NoTenant
  /\ seeder.at = "link" => IsUser(Operator) /\ users[Operator].tenant = NoTenant

\* A role of a tenant, or one there may be.
TenantRole(r) == IsRole(r) => roles[r].tenant # NoTenant

\* Between DELETE and INSERTs, what is there and what is missing is what was
\* asked for.
CodesOK(r) ==
  /\ \A j, k \in Tasks : Writing(j, r) /\ Writing(k, r) => j = k
  /\ \A k \in Tasks : Writing(k, r) =>
       /\ asked[r] = granted[r] \cup task[k].codes
       /\ granted[r] \cap task[k].codes = {} /\ task[k].codes # {}
       /\ task[k].at = "set_codes" => granted[r] = {}
  /\ (\A k \in Tasks : ~Writing(k, r)) => granted[r] = asked[r]

WritesInv == \A r \in RoleIds : TenantRole(r) /\ r \notin torn => CodesOK(r)

\* Who could seed a tenant has seen the catalogue complete.
CatalogueInv ==
  ~skipped =>
    /\ (\E u \in Users : IsUser(u) /\ users[u].super) => catalogue = Codes
    /\ \A k \in Tasks : task[k].super => catalogue = Codes
    /\ seeder.at \in {"attach", "link"} => catalogue = Codes
    /\ seeder.at = "permissions" => Codes \ seeder.codes \subseteq catalogue

RInv == RowsInv /\ MembersInv /\ RoleKeys /\ TasksInv /\ SeederInv

-----------------------------------------------------------------------------
USE RbacAssumption

LEMMA RowsAreThere == \A x \in UserRow \cup RoleRow : x # Absent
<1>1. \A x \in UserRow \cup RoleRow : "tenant" \in DOMAIN x /\ DOMAIN x # {"tenant"}
  BY DEF UserRow, RoleRow
<1>2. DOMAIN Absent = {"tenant"}
  BY DEF Absent
<1>3. QED
  BY <1>1, <1>2

LEMMA IdleTaskType == IdleTask \in TaskRow /\ IdleSeeder \in SeederRow
BY DEF IdleTask, TaskRow, Steps, IdleSeeder, SeederRow

\* What the steps do to rows of users and roles.
Grow ==
  /\ catalogue \subseteq catalogue'
  /\ \A u \in Users : IsUser(u) =>
       /\ IsUser(u)' /\ (users[u].super => users'[u].super)
       /\ \/ users'[u].tenant = users[u].tenant
          \/ users'[u].tenant = NoTenant /\ users'[u].super
  /\ \A r \in RoleIds : IsRole(r) =>
       /\ IsRole(r)' /\ roles'[r].tenant = roles[r].tenant
       /\ roles'[r].system = roles[r].system
       /\ roles[r].system => roles'[r].name = roles[r].name

\* Steps of a request that write no table but, perhaps, granted, member or
\* tenants.
Keeps(k) ==
  \/ LoadUser(k) \/ LoadRoles(k) \/ LoadCodes(k) \/ Answer(k)
  \/ CreateTenant(k) \/ SeedFound(k) \/ SeedMissing(k) \/ SeedConflict(k)
  \/ AttachDefault(k) \/ AttachNothing(k) \/ UpdateUserLoad(k) \/ ResetPassword(k)
  \/ AssignLoad(k) \/ Assign(k) \/ RemoveLoad(k) \/ Remove(k)
  \/ SetStep(k) \/ Abort(k)

LEMMA KeepsRows ==
  ASSUME NEW k \in Tasks, Keeps(k)
  PROVE  UNCHANGED <<catalogue, users, roles, seeder>>
<1>1. CASE LoadUser(k) \/ LoadRoles(k) \/ LoadCodes(k) \/ Answer(k) \/ CreateTenant(k)
  BY <1>1 DEF LoadUser, LoadRoles, LoadCodes, Answer, CreateTenant, tables
<1>2. CASE SeedFound(k) \/ SeedMissing(k) \/ SeedConflict(k) \/ AttachDefault(k) \/ AttachNothing(k)
  BY <1>2 DEF SeedFound, SeedMissing, SeedConflict, AttachDefault, AttachNothing, tables
<1>3. CASE \/ UpdateUserLoad(k) \/ ResetPassword(k) \/ AssignLoad(k) \/ Assign(k)
           \/ RemoveLoad(k) \/ Remove(k)
  BY <1>3 DEF UpdateUserLoad, ResetPassword, AssignLoad, Assign, RemoveLoad, Remove, tables
<1>4. CASE SetStep(k) \/ Abort(k)
  BY <1>4 DEF SetStep, SetDelete, SetFound, SetRefused, SetInsert, SetConflict, Abort, tables
<1>5. QED
  BY <1>1, <1>2, <1>3, <1>4 DEF Keeps

\* The steps that write users or roles, by what they do to the row.
LEMMA UserStep ==
  ASSUME RInv, NEW k \in Tasks, CreateUser(k) \/ UpdateUser(k)
  PROVE  /\ Grow /\ users' \in [Users -> UserRow \cup {Absent}] /\ MembersInv'
         /\ \A u \in Users : IsUser(u)' /\ users'[u].super => IsUser(u) /\ users[u].super
<1>0. UNCHANGED <<catalogue, roles, member>>
  BY DEF CreateUser, UpdateUser
<1>1. CASE CreateUser(k)
  <2>1. PICK t \in tenants, u \in Users :
          /\ ~IsUser(u)
          /\ users' = [users EXCEPT ![u] = [tenant |-> t, super |-> FALSE, active |-> TRUE]]
    BY <1>1 DEF CreateUser
  <2>2. [tenant |-> t, super |-> FALSE, active |-> TRUE] \in UserRow
    BY DEF UserRow, RInv, RowsInv
  <2>3. \A v \in Users \ {u} : users'[v] = users[v]
    BY <2>1 DEF RInv, RowsInv
  <2>4. users'[u].super = FALSE
    BY <2>1 DEF RInv, RowsInv
  <2>5. QED
    BY <1>0, <2>1, <2>2, <2>3, <2>4 DEF RInv, RowsInv, MembersInv, Grow, IsUser, IsRole
<1>2. CASE UpdateUser(k)
  <2> DEFINE u == task[k].u
  <2>1. u \in Users /\ IsUser(u)
    BY <1>2 DEF UpdateUser, At, RInv, TasksInv, TaskOK, TaskRow, Reached
  <2>2. PICK active \in BOOLEAN : users' = [users EXCEPT ![u].active = active]
    BY <1>2 DEF UpdateUser
  <2>3. users[u] \in UserRow
    BY <2>1 DEF IsUser, RInv, RowsInv
  <2>4. /\ users'[u] \in UserRow /\ users'[u].tenant = users[u].tenant
        /\ users'[u].super = users[u].super
    BY <2>1, <2>2, <2>3 DEF UserRow, RInv, RowsInv
  <2>5. /\ users' \in [Users -> UserRow \cup {Absent}]
        /\ \A v \in Users \ {u} : users'[v] = users[v]
    BY <2>1, <2>2, <2>4 DEF RInv, RowsInv
  <2>6. users'[u] # Absent
    BY <2>4, RowsAreThere
  <2> HIDE DEF u
  <2>7. QED
    BY <1>0, <2>1, <2>4, <2>5, <2>6 DEF RInv, RowsInv, MembersInv, Grow, IsUser, IsRole
<1>3. QED
  BY <1>1, <1>2

LEMMA KeysStay ==
  ASSUME RInv, UNCHANGED roles
  PROVE  RoleKeys'
BY DEF RInv, RoleKeys, IsRole

\* A role that is new, and what it is.
NewRole(r, row) ==
  /\ r \in RoleIds /\ ~IsRole(r) /\ row \in RoleRow /\ ~Taken(row.tenant, row.name)
  /\ roles' = [roles EXCEPT ![r] = row]

LEMMA NewRoleStep ==
  ASSUME RInv, NEW r, NEW row, NewRole(r, row), UNCHANGED <<catalogue, users, member>>
  PROVE  /\ Grow /\ MembersInv' /\ roles' \in [RoleIds -> RoleRow \cup {Absent}]
         /\ roles'[r] = row /\ IsRole(r)' /\ \A q \in RoleIds \ {r} : roles'[q] = roles[q]
         /\ RoleKeys'
<1>1. row # Absent
  BY RowsAreThere DEF NewRole
<1>2. /\ roles' \in [RoleIds -> RoleRow \cup {Absent}]
      /\ roles'[r] = row /\ \A q \in RoleIds \ {r} : roles'[q] = roles[q]
  BY DEF NewRole, RInv, RowsInv
<1>3. Grow /\ MembersInv' /\ IsRole(r)'
  BY <1>1, <1>2 DEF Grow, MembersInv, IsUser, IsRole, NewRole, RInv, RowsInv
<1>4. \A q \in RoleIds \ {r} : IsRole(q) =>
        row.tenant = NoTenant \/ roles[q].tenant # row.tenant \/ roles[q].name # row.name
  BY DEF NewRole, Taken
<1>5. RoleKeys'
  BY <1>2, <1>4 DEF RoleKeys, IsRole, RInv
<1>6. QED
  BY <1>2, <1>3, <1>5

LEMMA CreateRoleStep ==
  ASSUME RInv, NEW k \in Tasks, CreateRole(k)
  PROVE  \E t \in tenants, name \in RoleNames, codes \in Wishes, r \in RoleIds :
           /\ MayManage(k, t)
           /\ NewRole(r, [tenant |-> t, name |-> name, system |-> FALSE])
           /\ ToSet(k, r, codes, 0)
<1>1. PICK t \in tenants, name \in RoleNames, codes \in Wishes, r \in RoleIds :
        /\ MayManage(k, t) /\ ~Taken(t, name) /\ NextRole(r)
        /\ roles' = [roles EXCEPT ![r] = [tenant |-> t, name |-> name, system |-> FALSE]]
        /\ ToSet(k, r, codes, 0)
  BY DEF CreateRole
<1>2. [tenant |-> t, name |-> name, system |-> FALSE] \in RoleRow
  BY DEF RoleRow, Names, RInv, RowsInv
<1>3. QED
  BY <1>1, <1>2 DEF NextRole, NewRole

LEMMA SeedInsertStep ==
  ASSUME RInv, NEW k \in Tasks, SeedInsert(k)
  PROVE  \E r \in RoleIds :
           /\ NewRole(r, [tenant |-> task[k].t, name |-> Seeded(k).name, system |-> TRUE])
           /\ ToSet(k, r, Seeded(k).codes, task[k].default)
<1>1. PICK r \in RoleIds :
        /\ NextRole(r) /\ ~Taken(task[k].t, Seeded(k).name)
        /\ roles' = [roles EXCEPT ![r] =
             [tenant |-> task[k].t, name |-> Seeded(k).name, system |-> TRUE]]
        /\ ToSet(k, r, Seeded(k).codes, task[k].default)
  BY DEF SeedInsert
<1>2. task[k].t \in Tenants /\ task[k].default \in DOMAIN DefaultRoles
  BY DEF SeedInsert, At, RInv, TasksInv, TaskOK, Seeding
<1>3. Seeded(k).name \in Names
  BY <1>2 DEF Seeded, Names
<1>4. QED
  BY <1>1, <1>2, <1>3 DEF NextRole, NewRole, RoleRow

LEMMA UpdateRoleStep ==
  ASSUME RInv, NEW k \in Tasks, UpdateRole(k)
  PROVE  /\ Grow /\ MembersInv' /\ roles' \in [RoleIds -> RoleRow \cup {Absent}]
         /\ RoleKeys'
         /\ \E r \in RoleIds :
              /\ Updatable(k, r) /\ roles'[r].tenant = roles[r].tenant
              /\ IsRole(r)' /\ roles'[r].system = FALSE
              /\ \A q \in RoleIds \ {r} : roles'[q] = roles[q]
              /\ Done(k) \/ \E codes \in Wishes : ToSet(k, r, codes, 0)
<1>1. PICK r \in RoleIds, name \in RoleNames :
        /\ Updatable(k, r) /\ roles' = [roles EXCEPT ![r].name = name]
        /\ name = roles[r].name \/ ~Taken(roles[r].tenant, name)
        /\ Done(k) \/ \E codes \in Wishes : ToSet(k, r, codes, 0)
  BY DEF UpdateRole
<1>2. roles[r] \in RoleRow /\ IsRole(r) /\ roles[r].system = FALSE
  BY <1>1 DEF Updatable, IsRole, RInv, RowsInv, RoleRow
<1>3. /\ roles'[r] \in RoleRow /\ roles'[r].tenant = roles[r].tenant
      /\ roles'[r].system = FALSE /\ roles'[r].name = name
  BY <1>1, <1>2 DEF RoleRow, Names, RInv, RowsInv
<1>4. /\ roles' \in [RoleIds -> RoleRow \cup {Absent}]
      /\ \A q \in RoleIds \ {r} : roles'[q] = roles[q]
  BY <1>1, <1>3 DEF RInv, RowsInv
<1>5. roles'[r] # Absent
  BY <1>3, RowsAreThere
<1>6. UNCHANGED <<catalogue, users, member>>
  BY DEF UpdateRole
<1>7. Grow /\ MembersInv'
  BY <1>2, <1>3, <1>4, <1>5, <1>6 DEF Grow, MembersInv, IsUser, IsRole, RInv, RowsInv
<1>8. RoleKeys'
  <2>1. \A q \in RoleIds \ {r} : IsRole(q) =>
          roles[r].tenant = NoTenant \/ roles[q].tenant # roles[r].tenant \/ roles[q].name # name
    BY <1>1, <1>2 DEF Taken, RoleKeys, RInv
  <2>2. QED
    BY <1>3, <1>4, <2>1 DEF RoleKeys, IsRole, RInv
<1>9. QED
  BY <1>1, <1>3, <1>4, <1>5, <1>7, <1>8 DEF IsRole

-----------------------------------------------------------------------------
(* What the tasks know, from step to step.                                 *)

\* What another step does to the rows disturbs no task.
LEMMA OthersKeep ==
  ASSUME RInv, Grow, NEW j \in Tasks, task'[j] = task[j]
  PROVE  TaskOK(j)'
<1>1. task'[j] = task[j] /\ task[j].u \in Users
  BY DEF RInv, TasksInv, TaskRow
<1>2. TaskOK(j)
  BY DEF RInv, TasksInv
<1>3. (task[j].at = "load_codes" \/ task[j].at \in Seeding) => TaskOK(j)'
  BY <1>1, <1>2 DEF TaskOK, Seeding, Setting
<1>4. task[j].at \in Setting => TaskOK(j)'
  <2> HAVE task[j].at \in Setting
  <2>1. task[j].r \in RoleIds /\ IsRole(task[j].r)
    BY <1>2 DEF TaskOK, ReachedRole
  <2>2. /\ roles'[task[j].r] # Absent /\ roles'[task[j].r].tenant = roles[task[j].r].tenant
        /\ roles'[task[j].r].system = roles[task[j].r].system
        /\ roles[task[j].r].system => roles'[task[j].r].name = roles[task[j].r].name
    BY <2>1 DEF Grow, IsRole
  <2>3. ReachedRole(j)'
    BY <1>1, <1>2, <2>1, <2>2 DEF TaskOK, ReachedRole, IsRole
  <2>4. roles'[task'[j].r].system => SeedsIt(j)'
    BY <1>1, <1>2, <2>2 DEF TaskOK, SeedsIt
  <2>5. catalogue \subseteq catalogue'
    BY DEF Grow
  <2>6. QED
    BY <1>1, <1>2, <2>3, <2>4, <2>5 DEF TaskOK, Seeding, Setting
<1>5. task[j].at \in {"attach", "update_user", "remove"} => TaskOK(j)'
  <2> HAVE task[j].at \in {"attach", "update_user", "remove"}
  <2>1. task[j].at = "remove" => task[j].r \in RoleIds /\ roles'[task[j].r] # Absent
    BY <1>2 DEF TaskOK, Grow, IsRole
  <2>2. QED
    BY <1>1, <1>2, <2>1 DEF TaskOK, Seeding, Setting, Reached, Grow, IsUser, IsRole
<1>6. task[j].at = "assign" => TaskOK(j)'
  <2> HAVE task[j].at = "assign"
  <2>1. IsUser(task[j].u) /\ task[j].r \in RoleIds /\ IsRole(task[j].r)
    BY <1>2 DEF TaskOK, Reached
  <2>2. roles'[task[j].r] # Absent /\ roles'[task[j].r].tenant = roles[task[j].r].tenant
    BY <2>1 DEF Grow, IsRole
  <2>3. /\ users'[task[j].u] # Absent /\ (users[task[j].u].super => users'[task[j].u].super)
        /\ \/ users'[task[j].u].tenant = users[task[j].u].tenant
           \/ users'[task[j].u].tenant = NoTenant /\ users'[task[j].u].super
    BY <1>1, <2>1 DEF Grow, IsUser
  <2>4. Reached(j)'
    BY <1>1, <1>2, <2>3 DEF TaskOK, Reached, IsUser
  <2>5. users'[task[j].u].tenant \in {NoTenant, roles'[task[j].r].tenant}
    BY <1>2, <2>2, <2>3 DEF TaskOK
  <2>6. QED
    BY <1>1, <2>1, <2>2, <2>4, <2>5 DEF TaskOK, Seeding, Setting, IsRole
<1>7. QED
  BY <1>1, <1>3, <1>4, <1>5, <1>6 DEF TaskOK, Seeding, Setting

\* So a step that replaces the locals of k by good ones leaves all good.
LEMMA ReplaceTask ==
  ASSUME RInv, Grow, NEW k \in Tasks, NEW n \in TaskRow, Becomes(k, n), TaskOK(k)'
  PROVE  TasksInv'
<1>1. task' = [task EXCEPT ![k] = n] /\ task \in [Tasks -> TaskRow]
  BY DEF Becomes, RInv, TasksInv
<1>2. task' \in [Tasks -> TaskRow] /\ \A j \in Tasks \ {k} : task'[j] = task[j]
  BY <1>1
<1>3. QED
  BY <1>2, OthersKeep DEF TasksInv

LEMMA NewLocals ==
  ASSUME RInv, NEW k \in Tasks, NEW n, Becomes(k, n)
  PROVE  task'[k] = n
BY DEF RInv, TasksInv, Becomes

LEMMA DoneTask ==
  ASSUME RInv, Grow, NEW k \in Tasks, Done(k)
  PROVE  TasksInv'
<1>1. task'[k] = IdleTask
  BY NewLocals DEF Done
<1>2. TaskOK(k)'
  BY <1>1 DEF TaskOK, IdleTask, Seeding, Setting
<1>3. QED
  BY <1>2, IdleTaskType, ReplaceTask DEF Done

\* No step of another kind reads more than that nothing changed.
LEMMA SameRowsGrow ==
  ASSUME UNCHANGED <<catalogue, users, roles>>
  PROVE  Grow
BY DEF Grow, IsUser, IsRole

LEMMA DefaultRow ==
  ASSUME NEW i \in DOMAIN DefaultRoles
  PROVE  /\ DefaultRoles[i].codes \subseteq Codes
         /\ DefaultRoles[i] = [name |-> DefaultRoles[i].name, codes |-> DefaultRoles[i].codes]
<1> DEFINE S == [name : Names, codes : SUBSET Codes]
           d == DefaultRoles[i]
<1>0. DefaultRoles \in Seq(S)
  OBVIOUS
<1> HIDE DEF S
<1>1. d \in S
  BY <1>0
<1> HIDE DEF d
<1>2. d.codes \subseteq Codes /\ d = [name |-> d.name, codes |-> d.codes]
  BY <1>1 DEF S
<1>3. QED
  BY <1>2 DEF d

LEMMA DefaultCodes == \A i \in DOMAIN DefaultRoles : DefaultRoles[i].codes \in SUBSET AnyCode
BY DefaultRow DEF AnyCode

LEMMA ToSetKeeps ==
  ASSUME RInv, Grow, NEW k \in Tasks, NEW r \in RoleIds, NEW codes \in SUBSET AnyCode,
         NEW d \in Nat, ToSet(k, r, codes, d),
         IsRole(r)', roles'[r].tenant # NoTenant,
         task[k].super \/ roles'[r].tenant = task[k].tenant,
         d # 0 => (task[k].super /\ task[k].t \in Tenants),
         roles'[r].system =>
           /\ task[k].super /\ d \in DOMAIN DefaultRoles
           /\ DefaultRoles[d].name = roles'[r].name /\ codes = DefaultRoles[d].codes
  PROVE  TasksInv'
<1> DEFINE n == [task[k] EXCEPT !.at = "set_delete", !.r = r, !.codes = codes, !.default = d]
<1>0. task[k] \in TaskRow
  BY DEF RInv, TasksInv
<1>1. Becomes(k, n) /\ n \in TaskRow
  BY <1>0 DEF ToSet, TaskRow, Steps
<1>2. /\ n.at = "set_delete" /\ n.r = r /\ n.codes = codes /\ n.default = d
      /\ n.super = task[k].super /\ n.tenant = task[k].tenant /\ n.t = task[k].t
  BY <1>0 DEF TaskRow
<1> HIDE DEF n
<1>3. task'[k] = n
  BY <1>1, NewLocals
<1>4. ReachedRole(k)'
  BY <1>2, <1>3 DEF ReachedRole
<1>5. roles'[task'[k].r].system => SeedsIt(k)'
  BY <1>2, <1>3 DEF SeedsIt
<1>6. TaskOK(k)'
  BY <1>2, <1>3, <1>4, <1>5 DEF TaskOK, Seeding, Setting
<1>7. QED
  BY <1>1, <1>6, ReplaceTask

\* The end of set_role_permissions: the next default role, if any.
LEMMA SetDoneKeeps ==
  ASSUME RInv, Grow, NEW k \in Tasks, task[k].at \in Setting, SetDone(k)
  PROVE  TasksInv'
<1>0. task[k] \in TaskRow /\ TaskOK(k)
  BY DEF RInv, TasksInv
<1>1. CASE task[k].default \in 1 .. Len(DefaultRoles) - 1
  <2> DEFINE n == [task[k] EXCEPT !.at = "seed_find", !.default = @ + 1]
  <2>0. task[k].default + 1 \in Nat
    BY <1>1
  <2>1. Becomes(k, n) /\ n \in TaskRow
    <3>1. Becomes(k, n)
      BY <1>1 DEF SetDone
    <3>2. n \in TaskRow
      BY <1>0, <2>0 DEF TaskRow, Steps
    <3>3. QED
      BY <3>1, <3>2
  <2>2. /\ n.at = "seed_find" /\ n.default = task[k].default + 1
        /\ n.super = task[k].super /\ n.t = task[k].t
    BY <1>0 DEF TaskRow
  <2> HIDE DEF n
  <2>3. task'[k] = n
    BY <2>1, NewLocals
  <2>4. DOMAIN DefaultRoles = 1 .. Len(DefaultRoles) /\ Len(DefaultRoles) \in Nat
    OBVIOUS
  <2>5. n.default \in DOMAIN DefaultRoles
    BY <1>1, <2>2, <2>4
  <2>6. task[k].default # 0
    BY <1>1
  <2>7. TaskOK(k)'
    BY <1>0, <2>2, <2>3, <2>5, <2>6 DEF TaskOK, Seeding, Setting
  <2>8. QED
    BY <2>1, <2>7, ReplaceTask
<1>2. CASE ~(task[k].default \in 1 .. Len(DefaultRoles) - 1)
  BY <1>2, DoneTask DEF SetDone
<1>3. QED
  BY <1>1, <1>2

LEMMA SetStepKeeps ==
  ASSUME RInv, NEW k \in Tasks, SetStep(k)
  PROVE  TasksInv'
<1>0. task[k] \in TaskRow /\ TaskOK(k)
  BY DEF RInv, TasksInv
<1>1. Grow /\ UNCHANGED <<catalogue, users, roles>>
  BY KeepsRows, SameRowsGrow DEF Keeps
<1>2. task[k].at \in Setting
  BY DEF SetStep, SetDelete, SetFound, SetRefused, SetInsert, SetConflict, At, Setting
<1>3. CASE SetRefused(k) \/ SetConflict(k)
  BY <1>1, <1>3, DoneTask DEF SetRefused, SetConflict
<1>4. CASE SetDone(k)
  BY <1>1, <1>2, <1>4, SetDoneKeeps
<1>5. CASE SetDelete(k) /\ ~SetDone(k)
  <2> DEFINE n == [task[k] EXCEPT !.at = "set_codes"]
  <2>1. Becomes(k, n) /\ n \in TaskRow
    BY <1>0, <1>5 DEF SetDelete, TaskRow, Steps
  <2>2. /\ n.at = "set_codes" /\ n.r = task[k].r /\ n.codes = task[k].codes
        /\ n.default = task[k].default
        /\ n.super = task[k].super /\ n.tenant = task[k].tenant /\ n.t = task[k].t
    BY <1>0 DEF TaskRow
  <2> HIDE DEF n
  <2>3. task'[k] = n
    BY <2>1, NewLocals
  <2>4. TaskOK(k)'
    BY <1>0, <1>1, <1>5, <2>2, <2>3
       DEF TaskOK, Seeding, Setting, ReachedRole, SeedsIt, IsRole, SetDelete, At
  <2>5. QED
    BY <1>1, <2>1, <2>4, ReplaceTask
<1>6. CASE SetFound(k)
  <2> DEFINE n == [task[k] EXCEPT !.at = "set_insert"]
  <2>1. Becomes(k, n) /\ n \in TaskRow
    BY <1>0, <1>6 DEF SetFound, TaskRow, Steps
  <2>2. /\ n.at = "set_insert" /\ n.r = task[k].r /\ n.default = task[k].default
        /\ n.super = task[k].super /\ n.tenant = task[k].tenant /\ n.t = task[k].t
        /\ n.codes \subseteq catalogue
    BY <1>0, <1>6 DEF TaskRow, SetFound
  <2> HIDE DEF n
  <2>3. task'[k] = n
    BY <2>1, NewLocals
  <2>4. TaskOK(k)'
    BY <1>0, <1>1, <1>2, <2>2, <2>3 DEF TaskOK, Seeding, Setting, ReachedRole, SeedsIt, IsRole
  <2>5. QED
    BY <1>1, <2>1, <2>4, ReplaceTask
<1>7. CASE SetInsert(k) /\ ~SetDone(k)
  <2>0. PICK c \in task[k].codes : Becomes(k, [task[k] EXCEPT !.codes = @ \ {c}])
    BY <1>7 DEF SetInsert
  <2> DEFINE n == [task[k] EXCEPT !.codes = @ \ {c}]
  <2>1. Becomes(k, n) /\ n \in TaskRow
    BY <1>0, <2>0 DEF TaskRow
  <2>2. /\ n.at = "set_insert" /\ n.r = task[k].r /\ n.default = task[k].default
        /\ n.super = task[k].super /\ n.tenant = task[k].tenant /\ n.t = task[k].t
        /\ n.codes \subseteq catalogue
    BY <1>0, <1>7 DEF TaskRow, SetInsert, At, TaskOK, Setting
  <2> HIDE DEF n
  <2>3. task'[k] = n
    BY <2>1, NewLocals
  <2>4. TaskOK(k)'
    BY <1>0, <1>1, <1>2, <2>2, <2>3 DEF TaskOK, Seeding, Setting, ReachedRole, SeedsIt, IsRole
  <2>5. QED
    BY <1>1, <2>1, <2>4, ReplaceTask
<1>8. QED
  BY <1>3, <1>4, <1>5, <1>6, <1>7 DEF SetStep

LEMMA KeepsTasks ==
  ASSUME RInv, NEW k \in Tasks, Keeps(k)
  PROVE  TasksInv'
<1>a. task[k] \in TaskRow /\ TaskOK(k)
  BY DEF RInv, TasksInv
<1>b. Grow /\ UNCHANGED <<catalogue, users, roles>>
  BY KeepsRows, SameRowsGrow
<1>1. CASE LoadUser(k)
  <2> DEFINE n(u) == [IdleTask EXCEPT
            !.at = IF users[u].super THEN "ready" ELSE "load_permissions",
            !.user = u, !.super = users[u].super, !.tenant = users[u].tenant]
  <2>1. PICK u \in Users : IsUser(u) /\ Becomes(k, n(u))
    BY <1>1 DEF LoadUser
  <2>2. users[u] \in UserRow
    BY <2>1 DEF IsUser, RInv, RowsInv
  <2>3. n(u) \in TaskRow
    BY <2>2 DEF IdleTask, TaskRow, UserRow, Steps
  <2>4. n(u).at \in {"ready", "load_permissions"}
    BY DEF IdleTask
  <2> HIDE DEF n
  <2>5. task'[k] = n(u)
    BY <2>1, NewLocals
  <2>6. TaskOK(k)'
    BY <2>4, <2>5 DEF TaskOK, Seeding, Setting
  <2>7. QED
    BY <1>b, <2>1, <2>3, <2>6, ReplaceTask
<1>2. CASE LoadRoles(k)
  <2> DEFINE n == [task[k] EXCEPT !.at = "load_codes",
                     !.codes = {r \in RoleIds : <<task[k].user, r>> \in member}]
  <2>1. Becomes(k, n)
    BY <1>2 DEF LoadRoles
  <2>2. n \in TaskRow /\ n.at = "load_codes" /\ n.codes \subseteq RoleIds
    BY <1>a DEF TaskRow, Steps, AnyCode
  <2> HIDE DEF n
  <2>3. task'[k] = n
    BY <2>1, NewLocals
  <2>4. TaskOK(k)'
    BY <2>2, <2>3 DEF TaskOK, Seeding, Setting
  <2>5. QED
    BY <1>b, <2>1, <2>2, <2>4, ReplaceTask
<1>3. CASE LoadCodes(k)
  <2> DEFINE perms == UNION {granted[r] : r \in task[k].codes}
             n == [task[k] EXCEPT !.at = "ready", !.codes = {}, !.perms = perms]
  <2>1. Becomes(k, n)
    BY <1>3 DEF LoadCodes
  <2>2. perms \in SUBSET Codes
    BY <1>a, <1>3 DEF LoadCodes, At, TaskOK, RInv, RowsInv
  <2> HIDE DEF perms
  <2>3. n \in TaskRow /\ n.at = "ready"
    BY <1>a, <2>2 DEF TaskRow, Steps
  <2> HIDE DEF n
  <2>4. task'[k] = n
    BY <2>1, NewLocals
  <2>5. TaskOK(k)'
    BY <2>3, <2>4 DEF TaskOK, Seeding, Setting
  <2>6. QED
    BY <1>b, <2>1, <2>3, <2>5, ReplaceTask
<1>4. CASE \/ Answer(k) \/ SeedConflict(k) \/ AttachNothing(k) \/ ResetPassword(k)
           \/ Assign(k) \/ Remove(k) \/ Abort(k)
  <2>1. Done(k)
    BY <1>4 DEF Answer, SeedConflict, AttachNothing, ResetPassword, Assign, Remove, Abort
  <2>2. QED
    BY <1>b, <2>1, DoneTask
<1>5. CASE CreateTenant(k)
  <2> DEFINE n(t) == [task[k] EXCEPT !.at = "seed_find", !.t = t, !.default = 1]
  <2>1. PICK t \in Tenants : Becomes(k, n(t))
    BY <1>5 DEF CreateTenant
  <2>2. /\ n(t) \in TaskRow /\ n(t).at = "seed_find" /\ n(t).t = t /\ n(t).default = 1
        /\ n(t).super = task[k].super
    BY <1>a DEF TaskRow, Steps
  <2> HIDE DEF n
  <2>3. task'[k] = n(t)
    BY <2>1, NewLocals
  <2>4. 1 \in DOMAIN DefaultRoles /\ task[k].super
    BY <1>5 DEF CreateTenant
  <2>5. TaskOK(k)'
    BY <2>2, <2>3, <2>4 DEF TaskOK, Seeding, Setting
  <2>6. QED
    BY <1>b, <2>1, <2>2, <2>5, ReplaceTask
<1>6. CASE SeedFound(k)
  <2>1. PICK r \in RoleIds :
          /\ IsRole(r) /\ roles[r].tenant = task[k].t /\ roles[r].name = Seeded(k).name
          /\ ToSet(k, r, Seeded(k).codes, task[k].default)
    BY <1>6 DEF SeedFound
  <2>2. task[k].super /\ task[k].t \in Tenants /\ task[k].default \in DOMAIN DefaultRoles
    BY <1>a, <1>6 DEF SeedFound, At, TaskOK, Seeding
  <2>3. Seeded(k).codes \in SUBSET AnyCode /\ task[k].default \in Nat
    BY <1>a, <2>2, DefaultCodes DEF Seeded, TaskRow
  <2>4. roles' = roles /\ roles[r].tenant # NoTenant /\ IsRole(r)'
    BY <1>b, <2>1, <2>2 DEF IsRole
  <2>5. QED
    BY <1>b, <2>1, <2>2, <2>3, <2>4, ToSetKeeps DEF Seeded
<1>7. CASE SeedMissing(k)
  <2> DEFINE n == [task[k] EXCEPT !.at = "seed_insert"]
  <2>1. Becomes(k, n)
    BY <1>7 DEF SeedMissing
  <2>2. /\ n \in TaskRow /\ n.at = "seed_insert" /\ n.t = task[k].t
        /\ n.default = task[k].default /\ n.super = task[k].super
    BY <1>a DEF TaskRow, Steps
  <2> HIDE DEF n
  <2>3. task'[k] = n
    BY <2>1, NewLocals
  <2>4. TaskOK(k)'
    BY <1>a, <1>7, <2>2, <2>3 DEF TaskOK, Seeding, Setting, SeedMissing, At
  <2>5. QED
    BY <1>b, <2>1, <2>2, <2>4, ReplaceTask
<1>8. CASE AttachDefault(k)
  <2> DEFINE n(r) == [task[k] EXCEPT !.at = "assign", !.r = r]
  <2>1. PICK r \in RoleIds : IsRole(r) /\ roles[r].tenant = task[k].t /\ Becomes(k, n(r))
    BY <1>8 DEF AttachDefault
  <2>2. /\ n(r) \in TaskRow /\ n(r).at = "assign" /\ n(r).r = r /\ n(r).u = task[k].u
        /\ n(r).super = task[k].super /\ n(r).tenant = task[k].tenant
    BY <1>a DEF TaskRow, Steps
  <2> HIDE DEF n
  <2>3. task'[k] = n(r)
    BY <2>1, NewLocals
  <2>4. Reached(k) /\ users[task[k].u].tenant \in {NoTenant, task[k].t}
    BY <1>a, <1>8 DEF AttachDefault, At, TaskOK
  <2>5. TaskOK(k)'
    BY <1>b, <2>1, <2>2, <2>3, <2>4 DEF TaskOK, Seeding, Setting, Reached, IsUser, IsRole
  <2>6. QED
    BY <1>b, <2>1, <2>2, <2>5, ReplaceTask
<1>9. CASE UpdateUserLoad(k)
  <2> DEFINE n(u) == [task[k] EXCEPT !.at = "update_user", !.u = u]
  <2>1. PICK u \in Users : Managed(k, u) /\ Becomes(k, n(u))
    BY <1>9 DEF UpdateUserLoad
  <2>2. /\ n(u) \in TaskRow /\ n(u).at = "update_user" /\ n(u).u = u
        /\ n(u).super = task[k].super /\ n(u).tenant = task[k].tenant
    BY <1>a DEF TaskRow, Steps
  <2> HIDE DEF n
  <2>3. task'[k] = n(u)
    BY <2>1, NewLocals
  <2>4. TaskOK(k)'
    BY <1>b, <2>1, <2>2, <2>3
       DEF TaskOK, Seeding, Setting, Reached, IsUser, Managed, MayManage
  <2>5. QED
    BY <1>b, <2>1, <2>2, <2>4, ReplaceTask
<1>10. CASE AssignLoad(k) \/ RemoveLoad(k)
  <2> DEFINE n(u, r, at) == [task[k] EXCEPT !.at = at, !.u = u, !.r = r]
  <2>1. PICK u \in Users, r \in RoleIds, at \in {"assign", "remove"} :
          /\ Managed(k, u) /\ IsRole(r) /\ Becomes(k, n(u, r, at))
          /\ at = "assign" => roles[r].tenant = users[u].tenant
    BY <1>10 DEF AssignLoad, RemoveLoad
  <2>2. /\ n(u, r, at) \in TaskRow /\ n(u, r, at).at = at
        /\ n(u, r, at).u = u /\ n(u, r, at).r = r
        /\ n(u, r, at).super = task[k].super /\ n(u, r, at).tenant = task[k].tenant
    BY <1>a DEF TaskRow, Steps
  <2> HIDE DEF n
  <2>3. task'[k] = n(u, r, at)
    BY <2>1, NewLocals
  <2>4. IsUser(u)' /\ IsRole(r)'
    BY <1>b, <2>1 DEF IsUser, IsRole, Managed
  <2>5. Reached(k)'
    BY <1>b, <2>1, <2>2, <2>3 DEF Reached, IsUser, Managed, MayManage
  <2>6. TaskOK(k)'
    BY <1>b, <2>1, <2>2, <2>3, <2>4, <2>5 DEF TaskOK, Seeding, Setting, IsRole
  <2>7. QED
    BY <1>b, <2>1, <2>2, <2>6, ReplaceTask
<1>11. CASE SetStep(k)
  BY <1>11, SetStepKeeps
<1>12. QED
  BY <1>1, <1>2, <1>3, <1>4, <1>5, <1>6, <1>7, <1>8, <1>9, <1>10, <1>11 DEF Keeps

\* The steps of a request that write users or roles.
LEMMA WritesTasks ==
  ASSUME RInv, NEW k \in Tasks,
         CreateUser(k) \/ UpdateUser(k) \/ SeedInsert(k) \/ CreateRole(k) \/ UpdateRole(k)
  PROVE  TasksInv'
<1>a. task[k] \in TaskRow /\ TaskOK(k)
  BY DEF RInv, TasksInv
<1>1. CASE UpdateUser(k)
  BY <1>1, UserStep, DoneTask DEF UpdateUser
<1>2. CASE CreateUser(k)
  <2> DEFINE n(t, u) == [task[k] EXCEPT !.at = "attach", !.t = t, !.u = u]
             row(t) == [tenant |-> t, super |-> FALSE, active |-> TRUE]
  <2>1. PICK t \in tenants, u \in Users :
          /\ MayManage(k, t) /\ users' = [users EXCEPT ![u] = row(t)] /\ Becomes(k, n(t, u))
    BY <1>2 DEF CreateUser
  <2>2. t \in Tenants /\ row(t) \in UserRow /\ row(t).tenant = t
    BY DEF RInv, RowsInv, UserRow
  <2>3. /\ n(t, u) \in TaskRow /\ n(t, u).at = "attach" /\ n(t, u).u = u /\ n(t, u).t = t
        /\ n(t, u).super = task[k].super /\ n(t, u).tenant = task[k].tenant
    BY <1>a, <2>2 DEF TaskRow, Steps
  <2> HIDE DEF n, row
  <2>4. task'[k] = n(t, u)
    BY <2>1, NewLocals
  <2>5. users'[u] = row(t) /\ users'[u] # Absent
    BY <2>1, <2>2, RowsAreThere DEF RInv, RowsInv
  <2>6. Reached(k)'
    BY <2>1, <2>2, <2>3, <2>4, <2>5 DEF Reached, IsUser, MayManage
  <2>7. t # NoTenant /\ users'[u].tenant = t
    BY <2>2, <2>5
  <2>8. TaskOK(k)'
    BY <2>3, <2>4, <2>6, <2>7 DEF TaskOK, Seeding, Setting
  <2>9. QED
    BY <1>2, <2>1, <2>3, <2>8, UserStep, ReplaceTask
<1>3. CASE SeedInsert(k)
  <2> DEFINE row == [tenant |-> task[k].t, name |-> Seeded(k).name, system |-> TRUE]
  <2>1. PICK r \in RoleIds :
          NewRole(r, row) /\ ToSet(k, r, Seeded(k).codes, task[k].default)
    BY <1>3, SeedInsertStep
  <2>2. task[k].super /\ task[k].t \in Tenants /\ task[k].default \in DOMAIN DefaultRoles
    BY <1>a, <1>3 DEF SeedInsert, At, TaskOK, Seeding
  <2>3. Seeded(k).codes \in SUBSET AnyCode /\ task[k].default \in Nat
    BY <1>a, <2>2, DefaultCodes DEF Seeded, TaskRow
  <2>4. row.tenant = task[k].t /\ row.name = Seeded(k).name
    OBVIOUS
  <2> HIDE DEF row
  <2>5. Grow /\ IsRole(r)' /\ roles'[r] = row
    BY <1>3, <2>1, NewRoleStep DEF SeedInsert
  <2>6. QED
    BY <2>1, <2>2, <2>3, <2>4, <2>5, ToSetKeeps DEF Seeded
<1>4. CASE CreateRole(k)
  <2> DEFINE row(t, name) == [tenant |-> t, name |-> name, system |-> FALSE]
  <2>1. PICK t \in tenants, name \in RoleNames, codes \in Wishes, r \in RoleIds :
          MayManage(k, t) /\ NewRole(r, row(t, name)) /\ ToSet(k, r, codes, 0)
    BY <1>4, CreateRoleStep
  <2>2. t \in Tenants /\ codes \in SUBSET AnyCode
    BY DEF RInv, RowsInv, AnyCode
  <2>3. row(t, name).tenant = t /\ ~row(t, name).system
    OBVIOUS
  <2> HIDE DEF row
  <2>4. Grow /\ IsRole(r)' /\ roles'[r] = row(t, name)
    BY <1>4, <2>1, NewRoleStep DEF CreateRole
  <2>5. t # NoTenant /\ (task[k].super \/ t = task[k].tenant)
    BY <2>1, <2>2 DEF MayManage
  <2>6. QED
    BY <2>1, <2>2, <2>3, <2>4, <2>5, ToSetKeeps
<1>5. CASE UpdateRole(k)
  <2>1. PICK r \in RoleIds :
              /\ Updatable(k, r) /\ roles'[r].tenant = roles[r].tenant
              /\ IsRole(r)' /\ roles'[r].system = FALSE
              /\ Done(k) \/ \E codes \in Wishes : ToSet(k, r, codes, 0)
    BY <1>5, UpdateRoleStep
  <2>2. CASE Done(k)
    BY <1>5, <2>2, UpdateRoleStep, DoneTask
  <2>3. CASE \E codes \in Wishes : ToSet(k, r, codes, 0)
    <3>1. PICK codes \in Wishes : ToSet(k, r, codes, 0)
      BY <2>3
    <3>2. codes \in SUBSET AnyCode
      BY DEF AnyCode
    <3>3. /\ roles'[r].tenant # NoTenant
          /\ task[k].super \/ roles'[r].tenant = task[k].tenant
      BY <2>1 DEF Updatable, MayManage
    <3>4. Grow
      BY <1>5, UpdateRoleStep
    <3>5. QED
      BY <2>1, <3>1, <3>2, <3>3, <3>4, ToSetKeeps
  <2>4. QED
    BY <2>1, <2>2, <2>3
<1>6. QED
  BY <1>1, <1>2, <1>3, <1>4, <1>5

-----------------------------------------------------------------------------
(* The steps keep rows, tasks and the seeder as they should be.            *)

LEMMA SeederStays ==
  ASSUME RInv, Grow, UNCHANGED seeder
  PROVE  SeederInv'
<1>1. Operator \in Users
  OBVIOUS
<1>2. QED
  BY <1>1 DEF RInv, SeederInv, Grow, IsUser, IsRole

LEMMA KeepsMembers ==
  ASSUME RInv, NEW k \in Tasks, Keeps(k)
  PROVE  MembersInv' /\ member' \subseteq Users \X RoleIds
<1>0. UNCHANGED <<users, roles>>
  BY KeepsRows
<1>1. CASE Assign(k)
  <2>1. task[k] \in TaskRow /\ TaskOK(k) /\ task[k].at = "assign"
    BY <1>1 DEF RInv, TasksInv, Assign, At
  <2>2. /\ task[k].u \in Users /\ task[k].r \in RoleIds
        /\ IsUser(task[k].u) /\ IsRole(task[k].r)
        /\ users[task[k].u].tenant \in {NoTenant, roles[task[k].r].tenant}
    BY <2>1 DEF TaskRow, TaskOK, Reached
  <2>3. member' = member \cup {<<task[k].u, task[k].r>>}
    BY <1>1 DEF Assign
  <2>4. QED
    BY <1>0, <2>2, <2>3 DEF RInv, RowsInv, MembersInv, IsUser, IsRole
<1>2. CASE ~Assign(k)
  <2>1. member' \subseteq member
    BY <1>2 DEF Keeps, LoadUser, LoadRoles, LoadCodes, Answer, CreateTenant, SeedFound,
         SeedMissing, SeedConflict, AttachDefault, AttachNothing, UpdateUserLoad,
         ResetPassword, AssignLoad, RemoveLoad, Remove, SetStep, SetDelete, SetFound,
         SetRefused, SetInsert, SetConflict, Abort, tables
  <2>2. QED
    BY <1>0, <2>1 DEF RInv, RowsInv, MembersInv, IsUser, IsRole
<1>3. QED
  BY <1>1, <1>2

LEMMA KeepsTheRest ==
  ASSUME RInv, NEW k \in Tasks, Keeps(k)
  PROVE  /\ tenants' \subseteq Tenants /\ granted' \in [RoleIds -> SUBSET Codes]
         /\ asked' \in [RoleIds -> SUBSET AnyCode] /\ torn' \subseteq RoleIds
<1>a. /\ tenants \subseteq Tenants /\ granted \in [RoleIds -> SUBSET Codes]
      /\ asked \in [RoleIds -> SUBSET AnyCode] /\ torn \subseteq RoleIds
      /\ catalogue \subseteq Codes
  BY DEF RInv, RowsInv
<1>b. task[k] \in TaskRow /\ TaskOK(k)
  BY DEF RInv, TasksInv
<1>1. CASE LoadUser(k) \/ LoadRoles(k) \/ LoadCodes(k) \/ Answer(k) \/ CreateTenant(k)
  BY <1>1, <1>a DEF LoadUser, LoadRoles, LoadCodes, Answer, CreateTenant, tables, memory
<1>2. CASE SeedFound(k) \/ SeedMissing(k) \/ SeedConflict(k) \/ AttachDefault(k) \/ AttachNothing(k)
  BY <1>2, <1>a DEF SeedFound, SeedMissing, SeedConflict, AttachDefault, AttachNothing,
       tables, memory
<1>3. CASE \/ UpdateUserLoad(k) \/ ResetPassword(k) \/ AssignLoad(k) \/ Assign(k)
           \/ RemoveLoad(k) \/ Remove(k)
  BY <1>3, <1>a DEF UpdateUserLoad, ResetPassword, AssignLoad, Assign, RemoveLoad, Remove,
       tables, memory
<1>4. CASE SetStep(k)
  <2>1. task[k].r \in RoleIds /\ task[k].codes \in SUBSET AnyCode
    BY <1>4, <1>b DEF TaskRow, TaskOK, Setting, ReachedRole, At,
         SetStep, SetDelete, SetFound, SetRefused, SetInsert, SetConflict
  <2>2. CASE SetDelete(k)
    BY <1>a, <2>1, <2>2 DEF SetDelete
  <2>3. CASE SetRefused(k)
    BY <1>a, <2>1, <2>3 DEF SetRefused, tables
  <2>4. CASE SetInsert(k)
    <3>1. PICK c \in task[k].codes : granted' = [granted EXCEPT ![task[k].r] = @ \cup {c}]
      BY <2>4 DEF SetInsert
    <3>2. c \in Codes
      BY <1>a, <1>b, <2>4, <3>1 DEF SetInsert, At, TaskOK, Setting
    <3>3. UNCHANGED <<tenants, asked, torn>>
      BY <2>4 DEF SetInsert, memory
    <3>4. QED
      BY <1>a, <2>1, <3>1, <3>2, <3>3
  <2>5. CASE SetFound(k) \/ SetConflict(k)
    BY <1>a, <2>5 DEF SetFound, SetConflict, tables, memory
  <2>6. QED
    BY <1>4, <2>2, <2>3, <2>4, <2>5 DEF SetStep
<1>5. CASE Abort(k)
  <2>1. task[k].at \in Setting => task[k].r \in RoleIds
    BY <1>b DEF TaskOK, ReachedRole
  <2>2. QED
    BY <1>5, <1>a, <2>1 DEF Abort, tables, Setting
<1>6. QED
  BY <1>1, <1>2, <1>3, <1>4, <1>5 DEF Keeps

LEMMA RequestKeeps ==
  ASSUME RInv, NEW k \in Tasks, RequestStep(k)
  PROVE  RInv' /\ Grow /\ UNCHANGED <<catalogue, seeder>>
<1>1. CASE Keeps(k)
  <2>1. UNCHANGED <<catalogue, users, roles, seeder>> /\ Grow
    BY <1>1, KeepsRows, SameRowsGrow
  <2>2. RowsInv'
    BY <1>1, <2>1, KeepsTheRest, KeepsMembers DEF RInv, RowsInv
  <2>3. QED
    BY <1>1, <2>1, <2>2, KeepsMembers, KeysStay, KeepsTasks, SeederStays DEF RInv
<1>2. CASE CreateUser(k) \/ UpdateUser(k)
  <2>1. UNCHANGED <<catalogue, tenants, roles, granted, member, seeder, asked, torn>>
    BY <1>2 DEF CreateUser, UpdateUser, memory
  <2>2. RowsInv' /\ Grow /\ MembersInv'
    BY <1>2, <2>1, UserStep DEF RInv, RowsInv
  <2>3. QED
    BY <1>2, <2>1, <2>2, KeysStay, WritesTasks, SeederStays DEF RInv
<1>3. CASE SeedInsert(k) \/ CreateRole(k) \/ UpdateRole(k)
  <2>1. UNCHANGED <<catalogue, tenants, users, granted, member, seeder, asked, torn>>
    BY <1>3 DEF SeedInsert, CreateRole, UpdateRole, memory
  <2>2. Grow /\ MembersInv' /\ RoleKeys' /\ roles' \in [RoleIds -> RoleRow \cup {Absent}]
    <3>1. CASE SeedInsert(k)
      <4>1. PICK r, row : NewRole(r, row)
        BY <3>1, SeedInsertStep
      <4>2. QED
        BY <2>1, <4>1, NewRoleStep
    <3>2. CASE CreateRole(k)
      <4>1. PICK r, row : NewRole(r, row)
        BY <3>2, CreateRoleStep
      <4>2. QED
        BY <2>1, <4>1, NewRoleStep
    <3>3. QED
      BY <1>3, <3>1, <3>2, UpdateRoleStep
  <2>3. RowsInv'
    BY <2>1, <2>2 DEF RInv, RowsInv
  <2>4. QED
    BY <1>3, <2>1, <2>2, <2>3, WritesTasks, SeederStays DEF RInv
<1>4. QED
  BY <1>1, <1>2, <1>3 DEF RequestStep, Keeps

\* SeedRole finds a role or creates one.
LEMMA SeedRoleStep ==
  ASSUME RInv, SeedRole
  PROVE  \E r \in RoleIds :
           /\ \/ IsSuperRole(r) /\ UNCHANGED roles
              \/ NewRole(r, [tenant |-> NoTenant, name |-> Superadmin, system |-> TRUE])
           /\ seeder' = [seeder EXCEPT !.at = "attach", !.r = r, !.codes = catalogue]
<1>1. [tenant |-> NoTenant, name |-> Superadmin, system |-> TRUE] \in RoleRow
  BY DEF RoleRow, Names
<1>2. QED
  BY <1>1 DEF SeedRole, NextRole, NewRole, Taken

LEMMA SeedStepKeeps ==
  ASSUME RInv, SeedStep
  PROVE  RInv' /\ Grow
<1>a. seeder \in SeederRow /\ SeederInv
  BY DEF RInv, SeederInv
<1>b. UNCHANGED <<task, tenants, asked, torn>>
  BY DEF SeedStep, Seed, SeedPermission, SeedPermissionSkipped, SeedRole, SeedAttach,
     SeedAttachSkipped, SeedUser, SeedLink, SeedAbort, tables, memory
<1>c. ASSUME Grow PROVE TasksInv'
  BY <1>b, <1>c, OthersKeep DEF RInv, TasksInv
<1>1. CASE Seed \/ SeedPermission \/ SeedPermissionSkipped \/ SeedAttachSkipped \/ SeedAbort
  <2>1. UNCHANGED <<users, roles, granted, member>>
    BY <1>1 DEF Seed, SeedPermission, SeedPermissionSkipped, SeedAttachSkipped, SeedAbort, tables
  <2>2. catalogue \subseteq catalogue' /\ catalogue' \subseteq Codes
    BY <1>1, <1>a DEF Seed, SeedPermission, SeedPermissionSkipped, SeedAttachSkipped,
         SeedAbort, tables, RInv, RowsInv, SeederRow
  <2>3. Grow
    BY <2>1, <2>2 DEF Grow, IsUser, IsRole
  <2>4. seeder' \in SeederRow /\ (seeder'.at \in {"attach", "link"} =>
                                     seeder'.at = seeder.at /\ seeder'.r = seeder.r)
    <3>1. CASE Seed
      BY <3>1 DEF Seed, IdleSeeder, SeederRow
    <3>2. CASE SeedPermission \/ SeedPermissionSkipped
      BY <3>2, <1>a DEF SeedPermission, SeedPermissionSkipped, SeederRow
    <3>3. CASE SeedAttachSkipped
      BY <3>3, <1>a DEF SeedAttachSkipped, SeederRow
    <3>4. CASE SeedAbort
      BY <3>4 DEF SeedAbort, IdleSeeder, SeederRow
    <3>5. QED
      BY <1>1, <3>1, <3>2, <3>3, <3>4
  <2>5. SeederInv'
    BY <1>a, <2>1, <2>4 DEF SeederInv, IsUser, IsRole
  <2>6. RowsInv' /\ MembersInv'
    BY <1>b, <2>1, <2>2 DEF RInv, RowsInv, MembersInv, IsUser, IsRole
  <2>7. QED
    BY <1>c, <2>1, <2>3, <2>5, <2>6, KeysStay DEF RInv
<1>2. CASE SeedRole
  <2>0. UNCHANGED <<catalogue, users, granted, member>>
    BY <1>2 DEF SeedRole
  <2>1. PICK r \in RoleIds :
          /\ \/ IsSuperRole(r) /\ UNCHANGED roles
             \/ NewRole(r, [tenant |-> NoTenant, name |-> Superadmin, system |-> TRUE])
          /\ seeder' = [seeder EXCEPT !.at = "attach", !.r = r, !.codes = catalogue]
    BY <1>2, SeedRoleStep
  <2>2. /\ Grow /\ MembersInv' /\ roles' \in [RoleIds -> RoleRow \cup {Absent}]
        /\ IsRole(r)' /\ roles'[r].tenant = NoTenant /\ RoleKeys'
    <3>1. CASE IsSuperRole(r) /\ UNCHANGED roles
      BY <2>0, <3>1, SameRowsGrow, KeysStay
         DEF IsSuperRole, IsUser, IsRole, RInv, RowsInv, MembersInv
    <3>2. CASE NewRole(r, [tenant |-> NoTenant, name |-> Superadmin, system |-> TRUE])
      BY <2>0, <3>2, NewRoleStep
    <3>3. QED
      BY <2>1, <3>1, <3>2
  <2>3. RowsInv'
    BY <1>b, <2>0, <2>2 DEF RInv, RowsInv
  <2>4. seeder' \in SeederRow /\ seeder'.r = r /\ seeder'.at = "attach"
    BY <1>a, <2>1 DEF SeederRow, RInv, RowsInv
  <2>5. SeederInv'
    BY <2>2, <2>4 DEF SeederInv
  <2>6. QED
    BY <1>c, <2>2, <2>3, <2>5 DEF RInv
<1>3. CASE SeedAttach
  <2>0. UNCHANGED <<catalogue, users, roles, member>>
    BY <1>3 DEF SeedAttach
  <2>1. PICK c \in seeder.codes :
          /\ granted' = [granted EXCEPT ![seeder.r] = @ \cup {c}]
          /\ seeder' = [seeder EXCEPT !.codes = @ \ {c}]
    BY <1>3 DEF SeedAttach
  <2>2. c \in Codes /\ seeder.at = "attach" /\ seeder.r \in RoleIds
    BY <1>a, <1>3 DEF SeederRow, SeederInv, SeedAttach, SeederAt
  <2>3. granted' \in [RoleIds -> SUBSET Codes]
    BY <2>1, <2>2 DEF RInv, RowsInv
  <2>4. RowsInv' /\ MembersInv'
    BY <1>b, <2>0, <2>3 DEF RInv, RowsInv, MembersInv, IsUser, IsRole
  <2>5. seeder' \in SeederRow /\ seeder'.r = seeder.r /\ seeder'.at = seeder.at
    BY <1>a, <2>1 DEF SeederRow
  <2>6. SeederInv'
    BY <1>a, <2>0, <2>5 DEF SeederInv, IsUser, IsRole
  <2>7. QED
    BY <1>c, <2>0, <2>4, <2>6, SameRowsGrow, KeysStay DEF RInv
<1>4. CASE SeedUser
  <2> DEFINE row == [tenant |-> NoTenant, super |-> TRUE, active |-> TRUE]
  <2>0. UNCHANGED <<catalogue, roles, granted, member>>
    BY <1>4 DEF SeedUser
  <2>1. Operator \in Users /\ row \in UserRow /\ row.tenant = NoTenant /\ row.super
    BY DEF UserRow
  <2> HIDE DEF row
  <2>2. users' = [users EXCEPT ![Operator] = row]
    BY <1>4 DEF SeedUser, row
  <2>3. /\ users' \in [Users -> UserRow \cup {Absent}] /\ users'[Operator] = row
        /\ \A u \in Users \ {Operator} : users'[u] = users[u]
    BY <2>1, <2>2 DEF RInv, RowsInv
  <2>4. row # Absent
    BY <2>1, RowsAreThere
  <2>5. Grow
    BY <2>0, <2>1, <2>3, <2>4 DEF Grow, IsUser, IsRole
  <2>6. MembersInv'
    BY <2>0, <2>1, <2>3, <2>4 DEF RInv, RowsInv, MembersInv, IsUser, IsRole
  <2>7. RowsInv'
    BY <1>b, <2>0, <2>3 DEF RInv, RowsInv
  <2>8. seeder' \in SeederRow /\ seeder'.r = seeder.r /\ seeder.at = "attach"
    BY <1>a, <1>4 DEF SeederRow, SeedUser, SeederAt
  <2>9. SeederInv'
    BY <1>a, <2>0, <2>1, <2>3, <2>4, <2>8 DEF SeederInv, IsUser, IsRole
  <2>10. QED
    BY <1>c, <2>0, <2>5, <2>6, <2>7, <2>9, KeysStay DEF RInv
<1>5. CASE SeedLink
  <2>0. UNCHANGED <<catalogue, users, roles, granted>> /\ seeder' = IdleSeeder
    BY <1>5 DEF SeedLink
  <2>1. /\ seeder.r \in RoleIds /\ IsRole(seeder.r)
        /\ IsUser(Operator) /\ users[Operator].tenant = NoTenant
    BY <1>a, <1>5 DEF SeederInv, SeedLink, SeederAt
  <2>2. member' = member \cup {<<Operator, seeder.r>>}
    BY <1>5 DEF SeedLink
  <2>3. RowsInv' /\ MembersInv'
    BY <1>b, <2>0, <2>1, <2>2 DEF RInv, RowsInv, MembersInv, IsUser, IsRole
  <2>4. SeederInv'
    BY <2>0, IdleTaskType DEF SeederInv, IdleSeeder
  <2>5. QED
    BY <1>c, <2>0, <2>3, <2>4, SameRowsGrow, KeysStay DEF RInv
<1>6. QED
  BY <1>1, <1>2, <1>3, <1>4, <1>5 DEF SeedStep

-----------------------------------------------------------------------------
LEMMA RInitInv == RInit => RInv
<1> SUFFICES ASSUME RInit PROVE RInv
  OBVIOUS
<1>1. PICK db \in Databases :
        /\ catalogue = db.catalogue /\ tenants = db.tenants /\ users = db.users
        /\ roles = db.roles /\ granted = db.granted /\ member = db.member
        /\ asked = db.granted
  BY DEF RInit
<1>2. /\ catalogue \subseteq Codes /\ tenants \subseteq Tenants
      /\ users \in [Users -> UserRow \cup {Absent}]
      /\ roles \in [RoleIds -> RoleRow \cup {Absent}]
      /\ granted \in [RoleIds -> SUBSET Codes] /\ asked = granted
      /\ member \subseteq Users \X RoleIds
      /\ \A m \in member : /\ users[m[1]] # Absent /\ roles[m[2]] # Absent
                           /\ users[m[1]].tenant \in {NoTenant, roles[m[2]].tenant}
      /\ \A u \in Users : (users[u] # Absent /\ users[u].super) => users[u].tenant = NoTenant
  BY <1>1, DatabasesAssumption
<1>3. RowsInv
  BY <1>2 DEF RInit, RowsInv, AnyCode
<1>4. MembersInv
  BY <1>2 DEF MembersInv, IsUser, IsRole
<1>5. TasksInv
  <2>1. \A k \in Tasks : task[k] = IdleTask
    BY DEF RInit
  <2>2. \A k \in Tasks : TaskOK(k)
    BY <2>1 DEF TaskOK, IdleTask, Seeding, Setting
  <2>3. QED
    BY <2>2, IdleTaskType DEF RInit, TasksInv
<1>6. SeederInv
  BY IdleTaskType DEF RInit, SeederInv, IdleSeeder
<1>7. RoleKeys
  BY <1>1, DatabasesAssumption DEF RoleKeys, IsRole
<1>8. QED
  BY <1>3, <1>4, <1>5, <1>6, <1>7 DEF RInv

LEMMA StutterKeeps ==
  ASSUME RInv, UNCHANGED rvars
  PROVE  RInv'
<1>1. UNCHANGED <<catalogue, tenants, users, roles, granted, member, task, seeder, asked, torn>>
  BY DEF rvars, tables, memory
<1>2. RowsInv' /\ MembersInv' /\ SeederInv'
  BY <1>1 DEF RInv, RowsInv, MembersInv, SeederInv, IsUser, IsRole
<1>3. TasksInv'
  BY <1>1, SameRowsGrow, OthersKeep DEF RInv, TasksInv
<1>4. QED
  BY <1>1, <1>2, <1>3, KeysStay DEF RInv

\* RInv holds in every reachable state: rows are well-formed, and what a
\* request has checked is still true when it writes.
THEOREM RowsInductive == RSpec => []RInv
<1>1. RInv /\ [RNext]_rvars => RInv'
  BY RequestKeeps, SeedStepKeeps, StutterKeeps DEF RNext
<1>2. QED
  BY RInitInv, <1>1, PTL DEF RSpec

\* Rows have their types, role names are unique in a tenant, links join rows
\* that are there, and so are the user and the role a request is about to
\* write: no handler of the admin API writes a reference to nothing, and none
\* gives a name twice, though names are checked before they are written.
THEOREM RbacTypesCorrect == RSpec => []RTypeOK
<1>1. RInv => RTypeOK
  BY DEF RInv, RTypeOK, RowsInv, MembersInv, TasksInv, TaskRow, TaskOK, Reached,
         ReachedRole, Setting
<1>2. QED
  BY RowsInductive, <1>1, PTL

\* A user of a tenant has roles of this tenant only, although assign_user_role
\* and attach_default_role compare user and role before they write the link.
THEOREM RolesAreOfTenant == RSpec => []RolesStayInTenant
<1>1. RInv => RolesStayInTenant
  BY DEF RInv, RowsInv, MembersInv, RolesStayInTenant
<1>2. QED
  BY RowsInductive, <1>1, PTL

-----------------------------------------------------------------------------
(* A request that is no superadmin's writes rows of its tenant only.       *)

LEMMA OneTask ==
  ASSUME RInv, NEW j \in Tasks, NEW k \in Tasks, RequestStep(j), task'[k] # task[k]
  PROVE  j = k
<1>1. \E n : Becomes(j, n)
  <2>1. CASE LoadUser(j) \/ LoadRoles(j) \/ LoadCodes(j) \/ Answer(j) \/ CreateTenant(j)
    BY <2>1 DEF LoadUser, LoadRoles, LoadCodes, Answer, CreateTenant, Done
  <2>2. CASE SeedFound(j) \/ SeedMissing(j) \/ SeedInsert(j) \/ SeedConflict(j)
    BY <2>2 DEF SeedFound, SeedMissing, SeedInsert, SeedConflict, Done, ToSet
  <2>3. CASE \/ CreateUser(j) \/ AttachDefault(j) \/ AttachNothing(j)
             \/ UpdateUserLoad(j) \/ UpdateUser(j) \/ ResetPassword(j)
    BY <2>3 DEF CreateUser, AttachDefault, AttachNothing, UpdateUserLoad, UpdateUser,
         ResetPassword, Done
  <2>4. CASE AssignLoad(j) \/ Assign(j) \/ RemoveLoad(j) \/ Remove(j) \/ Abort(j)
    BY <2>4 DEF AssignLoad, Assign, RemoveLoad, Remove, Abort, Done
  <2>5. CASE CreateRole(j) \/ UpdateRole(j)
    BY <2>5 DEF CreateRole, UpdateRole, Done, ToSet
  <2>6. CASE SetStep(j)
    BY <2>6 DEF SetStep, SetDelete, SetFound, SetRefused, SetInsert, SetConflict, SetDone, Done
  <2>7. QED
    BY <2>1, <2>2, <2>3, <2>4, <2>5, <2>6 DEF RequestStep
<1>2. QED
  BY <1>1 DEF Becomes, RInv, TasksInv

LEMMA OwnTenantOnly ==
  ASSUME RInv, NEW k \in Tasks, RequestStep(k), task[k].at # "idle", ~task[k].super
  PROVE  OnlyOf(task[k].tenant)
<1>a. task[k] \in TaskRow /\ TaskOK(k)
  BY DEF RInv, TasksInv
<1>b. /\ users \in [Users -> UserRow \cup {Absent}] /\ roles \in [RoleIds -> RoleRow \cup {Absent}]
      /\ granted \in [RoleIds -> SUBSET Codes] /\ member \subseteq Users \X RoleIds
  BY DEF RInv, RowsInv
<1>1. CASE \/ LoadUser(k) \/ LoadRoles(k) \/ LoadCodes(k) \/ Answer(k)
           \/ SeedFound(k) \/ SeedMissing(k) \/ SeedConflict(k)
           \/ AttachDefault(k) \/ AttachNothing(k) \/ UpdateUserLoad(k) \/ ResetPassword(k)
           \/ AssignLoad(k) \/ RemoveLoad(k) \/ Abort(k)
           \/ SetFound(k) \/ SetRefused(k) \/ SetConflict(k)
  <2>1. UNCHANGED tables
    BY <1>1 DEF LoadUser, LoadRoles, LoadCodes, Answer, SeedFound, SeedMissing, SeedConflict,
         AttachDefault, AttachNothing, UpdateUserLoad, ResetPassword, AssignLoad, RemoveLoad,
         Abort, SetFound, SetRefused, SetConflict
  <2>2. QED
    BY <2>1 DEF OnlyOf, tables
<1>2. CASE CreateTenant(k) \/ SeedInsert(k)
  BY <1>2, <1>a DEF CreateTenant, SeedInsert, At, TaskOK, Seeding
<1>3. CASE CreateUser(k)
  <2>1. PICK t \in tenants, u \in Users :
          /\ MayManage(k, t)
          /\ users' = [users EXCEPT ![u] = [tenant |-> t, super |-> FALSE, active |-> TRUE]]
    BY <1>3 DEF CreateUser
  <2>2. UNCHANGED <<catalogue, tenants, roles, granted, member>>
    BY <1>3 DEF CreateUser
  <2>3. t = task[k].tenant
    BY <2>1 DEF MayManage
  <2>4. users'[u].tenant = t /\ \A v \in Users \ {u} : users'[v] = users[v]
    BY <1>b, <2>1
  <2>5. QED
    BY <2>2, <2>3, <2>4 DEF OnlyOf
<1>4. CASE UpdateUser(k)
  <2>1. Reached(k) /\ task[k].u \in Users
    BY <1>a, <1>4 DEF UpdateUser, At, TaskOK, TaskRow
  <2>2. PICK active \in BOOLEAN : users' = [users EXCEPT ![task[k].u].active = active]
    BY <1>4 DEF UpdateUser
  <2>3. users[task[k].u] \in UserRow
    BY <1>b, <2>1 DEF Reached, IsUser
  <2>4. /\ users'[task[k].u].tenant = users[task[k].u].tenant
        /\ \A v \in Users \ {task[k].u} : users'[v] = users[v]
    BY <1>b, <2>1, <2>2, <2>3 DEF UserRow
  <2>5. UNCHANGED <<catalogue, tenants, roles, granted, member>>
    BY <1>4 DEF UpdateUser
  <2>6. QED
    BY <2>1, <2>4, <2>5 DEF OnlyOf, Reached
<1>5. CASE Assign(k) \/ Remove(k)
  <2>1. Reached(k)
    BY <1>a, <1>5 DEF Assign, Remove, At, TaskOK
  <2>2. /\ UNCHANGED <<catalogue, tenants, users, roles, granted>>
        /\ \A m \in (member' \ member) \cup (member \ member') : m = <<task[k].u, task[k].r>>
    BY <1>5 DEF Assign, Remove
  <2>3. QED
    BY <2>1, <2>2 DEF OnlyOf, Reached
<1>6. CASE CreateRole(k)
  <2>1. PICK t \in tenants, name \in RoleNames, r \in RoleIds :
          MayManage(k, t) /\ NewRole(r, [tenant |-> t, name |-> name, system |-> FALSE])
    BY <1>6, CreateRoleStep
  <2>2. UNCHANGED <<catalogue, tenants, users, granted, member>>
    BY <1>6 DEF CreateRole
  <2>3. t = task[k].tenant
    BY <2>1 DEF MayManage
  <2>4. roles'[r].tenant = t /\ \A q \in RoleIds \ {r} : roles'[q] = roles[q]
    BY <2>1, <2>2, NewRoleStep
  <2>5. QED
    BY <2>2, <2>3, <2>4 DEF OnlyOf
<1>7. CASE UpdateRole(k)
  <2>1. PICK r \in RoleIds :
          /\ Updatable(k, r) /\ roles'[r].tenant = roles[r].tenant
          /\ \A q \in RoleIds \ {r} : roles'[q] = roles[q]
    BY <1>7, UpdateRoleStep
  <2>2. UNCHANGED <<catalogue, tenants, users, granted, member>>
    BY <1>7 DEF UpdateRole
  <2>3. QED
    BY <2>1, <2>2 DEF OnlyOf, Updatable, MayManage
<1>8. CASE SetDelete(k) \/ SetInsert(k)
  <2>1. ReachedRole(k)
    BY <1>a, <1>8 DEF SetDelete, SetInsert, At, TaskOK, Setting
  <2>2. /\ UNCHANGED <<catalogue, tenants, users, roles, member>>
        /\ \A q \in RoleIds \ {task[k].r} : granted'[q] = granted[q]
    BY <1>b, <1>8 DEF SetDelete, SetInsert
  <2>3. QED
    BY <2>1, <2>2 DEF OnlyOf, ReachedRole
<1>9. QED
  BY <1>1, <1>2, <1>3, <1>4, <1>5, <1>6, <1>7, <1>8 DEF RequestStep, SetStep

\* A request of anybody but a superadmin changes nothing outside the tenant of
\* its user, whatever became of the rows between its check and the write.
THEOREM TenantsAreIsolated == RSpec => TenantIsolation
<1>1. ASSUME RInv, [RNext]_rvars, NEW k \in Tasks,
             task'[k] # task[k], task[k].at # "idle", ~task[k].super
      PROVE  OnlyOf(task[k].tenant)
  <2>1. ~(UNCHANGED rvars) /\ ~SeedStep
    BY <1>1 DEF rvars, SeedStep, Seed, SeedPermission, SeedPermissionSkipped, SeedRole,
       SeedAttach, SeedAttachSkipped, SeedUser, SeedLink, SeedAbort
  <2>2. PICK j \in Tasks : RequestStep(j)
    BY <1>1, <2>1 DEF RNext
  <2>3. QED
    BY <1>1, <2>2, OneTask, OwnTenantOnly
<1>2. RInv /\ [RNext]_rvars =>
        [\A k \in Tasks : (task'[k] # task[k] /\ task[k].at # "idle" /\ ~task[k].super)
           => OnlyOf(task[k].tenant)]_rvars
  BY <1>1
<1>3. QED
  BY RowsInductive, <1>2, PTL DEF RSpec, TenantIsolation

-----------------------------------------------------------------------------
(* DELETE and INSERTs.                                                     *)

\* The steps of a request that set no codes.
Plain(k) == RequestStep(k) /\ ~SetStep(k) /\ ~Abort(k)

Written == {"set_codes", "set_insert"}

LEMMA PlainLocals ==
  ASSUME RInv, NEW k \in Tasks, Plain(k)
  PROVE  /\ task[k].at \notin Setting /\ task'[k].at \notin Written
         /\ task'[k].super => LoadUser(k) \/ task[k].super
<1>a. task[k] \in TaskRow
  BY DEF RInv, TasksInv
<1>0. ASSUME Done(k) PROVE task'[k].at = "idle" /\ task'[k].super = FALSE
  <2>1. task'[k] = IdleTask
    BY <1>0, NewLocals DEF Done
  <2>2. QED
    BY <2>1 DEF IdleTask
<1>x. ASSUME NEW r, NEW codes, NEW d, ToSet(k, r, codes, d)
      PROVE  task'[k].at = "set_delete" /\ task'[k].super = task[k].super
  <2>1. task'[k] = [task[k] EXCEPT !.at = "set_delete", !.r = r, !.codes = codes, !.default = d]
    BY <1>x, NewLocals DEF ToSet
  <2>2. QED
    BY <1>a, <2>1 DEF TaskRow
<1>1. CASE LoadUser(k)
  <2>1. PICK u \in Users : Becomes(k, [IdleTask EXCEPT
            !.at = IF users[u].super THEN "ready" ELSE "load_permissions",
            !.user = u, !.super = users[u].super, !.tenant = users[u].tenant])
    BY <1>1 DEF LoadUser
  <2>2. task'[k] = [IdleTask EXCEPT
            !.at = IF users[u].super THEN "ready" ELSE "load_permissions",
            !.user = u, !.super = users[u].super, !.tenant = users[u].tenant]
    BY <2>1, NewLocals
  <2>3. task'[k].at \in {"ready", "load_permissions"}
    BY <2>2 DEF IdleTask
  <2>4. QED
    BY <1>1, <2>3 DEF LoadUser, At, Setting, Written
<1>2. CASE LoadRoles(k)
  <2>1. PICK ids : Becomes(k, [task[k] EXCEPT !.at = "load_codes", !.codes = ids])
    BY <1>2 DEF LoadRoles
  <2>2. task'[k] = [task[k] EXCEPT !.at = "load_codes", !.codes = ids]
    BY <2>1, NewLocals
  <2>3. QED
    BY <1>a, <1>2, <2>2 DEF LoadRoles, At, Setting, Written, TaskRow
<1>3. CASE LoadCodes(k)
  <2>1. PICK perms : Becomes(k, [task[k] EXCEPT !.at = "ready", !.codes = {}, !.perms = perms])
    BY <1>3 DEF LoadCodes
  <2>2. task'[k] = [task[k] EXCEPT !.at = "ready", !.codes = {}, !.perms = perms]
    BY <2>1, NewLocals
  <2>3. QED
    BY <1>a, <1>3, <2>2 DEF LoadCodes, At, Setting, Written, TaskRow
<1>4. CASE \/ Answer(k) \/ SeedConflict(k) \/ AttachNothing(k) \/ ResetPassword(k)
           \/ UpdateUser(k) \/ Assign(k) \/ Remove(k)
  BY <1>0, <1>4 DEF Answer, SeedConflict, AttachNothing, ResetPassword, UpdateUser, Assign,
     Remove, At, Setting, Written
<1>5. CASE CreateTenant(k) \/ CreateUser(k)
  <2>1. CASE CreateTenant(k)
    <3>1. PICK t : Becomes(k, [task[k] EXCEPT !.at = "seed_find", !.t = t, !.default = 1])
      BY <2>1 DEF CreateTenant
    <3>2. task'[k] = [task[k] EXCEPT !.at = "seed_find", !.t = t, !.default = 1]
      BY <3>1, NewLocals
    <3>3. QED
      BY <1>a, <2>1, <3>2 DEF CreateTenant, At, Setting, Written, TaskRow
  <2>2. CASE CreateUser(k)
    <3>1. PICK t, u : Becomes(k, [task[k] EXCEPT !.at = "attach", !.t = t, !.u = u])
      BY <2>2 DEF CreateUser
    <3>2. task'[k] = [task[k] EXCEPT !.at = "attach", !.t = t, !.u = u]
      BY <3>1, NewLocals
    <3>3. QED
      BY <1>a, <2>2, <3>2 DEF CreateUser, At, Setting, Written, TaskRow
  <2>3. QED
    BY <1>5, <2>1, <2>2
<1>6. CASE SeedMissing(k)
  <2>1. task'[k] = [task[k] EXCEPT !.at = "seed_insert"]
    BY <1>6, NewLocals DEF SeedMissing
  <2>2. QED
    BY <1>a, <1>6, <2>1 DEF SeedMissing, At, Setting, Written, TaskRow
<1>7. CASE AttachDefault(k)
  <2>1. PICK r : Becomes(k, [task[k] EXCEPT !.at = "assign", !.r = r])
    BY <1>7 DEF AttachDefault
  <2>2. task'[k] = [task[k] EXCEPT !.at = "assign", !.r = r]
    BY <2>1, NewLocals
  <2>3. QED
    BY <1>a, <1>7, <2>2 DEF AttachDefault, At, Setting, Written, TaskRow
<1>8. CASE UpdateUserLoad(k)
  <2>1. PICK u : Becomes(k, [task[k] EXCEPT !.at = "update_user", !.u = u])
    BY <1>8 DEF UpdateUserLoad
  <2>2. task'[k] = [task[k] EXCEPT !.at = "update_user", !.u = u]
    BY <2>1, NewLocals
  <2>3. QED
    BY <1>a, <1>8, <2>2 DEF UpdateUserLoad, At, Setting, Written, TaskRow
<1>9. CASE AssignLoad(k) \/ RemoveLoad(k)
  <2>1. PICK u \in Users, r \in RoleIds, p \in {"assign", "remove"} :
          Becomes(k, [task[k] EXCEPT !.at = p, !.u = u, !.r = r])
    BY <1>9 DEF AssignLoad, RemoveLoad
  <2>2. task'[k] = [task[k] EXCEPT !.at = p, !.u = u, !.r = r]
    BY <2>1, NewLocals
  <2>3. QED
    BY <1>a, <1>9, <2>2 DEF AssignLoad, RemoveLoad, At, Setting, Written, TaskRow
<1>10. CASE SeedFound(k) \/ SeedInsert(k) \/ CreateRole(k) \/ UpdateRole(k)
  <2>1. Done(k) \/ \E r, codes, d : ToSet(k, r, codes, d)
    BY <1>10 DEF SeedFound, SeedInsert, CreateRole, UpdateRole
  <2>2. task[k].at \notin Setting
    BY <1>10 DEF SeedFound, SeedInsert, CreateRole, UpdateRole, At, Setting
  <2>3. QED
    BY <1>0, <1>x, <2>1, <2>2 DEF Written
<1>11. QED
  BY <1>1, <1>2, <1>3, <1>4, <1>5, <1>6, <1>7, <1>8, <1>9, <1>10 DEF Plain, RequestStep

LEMMA PlainRows ==
  ASSUME NEW k \in Tasks, Plain(k)
  PROVE  UNCHANGED <<granted, asked, torn, skipped>>
<1>1. CASE LoadUser(k) \/ LoadRoles(k) \/ LoadCodes(k) \/ Answer(k) \/ CreateTenant(k)
  BY <1>1 DEF LoadUser, LoadRoles, LoadCodes, Answer, CreateTenant, tables, memory
<1>2. CASE \/ SeedFound(k) \/ SeedMissing(k) \/ SeedInsert(k) \/ SeedConflict(k)
           \/ AttachDefault(k) \/ AttachNothing(k)
  BY <1>2 DEF SeedFound, SeedMissing, SeedInsert, SeedConflict, AttachDefault, AttachNothing,
     tables, memory
<1>3. CASE \/ CreateUser(k) \/ UpdateUserLoad(k) \/ UpdateUser(k) \/ ResetPassword(k)
           \/ AssignLoad(k) \/ Assign(k) \/ RemoveLoad(k) \/ Remove(k)
  BY <1>3 DEF CreateUser, UpdateUserLoad, UpdateUser, ResetPassword, AssignLoad, Assign,
     RemoveLoad, Remove, tables, memory
<1>4. CASE CreateRole(k) \/ UpdateRole(k)
  BY <1>4 DEF CreateRole, UpdateRole, memory
<1>5. QED
  BY <1>1, <1>2, <1>3, <1>4 DEF Plain, RequestStep

LEMMA SetDoneLocals ==
  ASSUME RInv, NEW k \in Tasks, SetDone(k)
  PROVE  task'[k].at \notin Setting /\ (task'[k].super => task[k].super)
<1>a. task[k] \in TaskRow
  BY DEF RInv, TasksInv
<1>1. CASE task[k].default \in 1 .. Len(DefaultRoles) - 1
  <2>1. task'[k] = [task[k] EXCEPT !.at = "seed_find", !.default = @ + 1]
    <3>1. Becomes(k, [task[k] EXCEPT !.at = "seed_find", !.default = @ + 1])
      BY <1>1 DEF SetDone
    <3>2. QED
      BY <3>1, NewLocals
  <2>2. task'[k].at = "seed_find" /\ task'[k].super = task[k].super
    BY <1>a, <2>1 DEF TaskRow
  <2>3. QED
    BY <2>2 DEF Setting
<1>2. CASE ~(task[k].default \in 1 .. Len(DefaultRoles) - 1)
  <2>1. task'[k] = IdleTask
    BY <1>2, NewLocals DEF SetDone, Done
  <2>2. QED
    BY <2>1 DEF IdleTask, Setting
<1>3. QED
  BY <1>1, <1>2

\* The locals after a step of set_role_permissions: it goes on, or it is over.
GoesOn(k, place, codes) ==
  /\ task'[k].at = place /\ task'[k].r = task[k].r /\ task'[k].codes = codes
  /\ task'[k].super = task[k].super

IsOver(k) == task'[k].at \notin Setting /\ (task'[k].super => task[k].super)

LEMMA SetLocals ==
  ASSUME RInv, NEW k \in Tasks
  PROVE  /\ Done(k) => IsOver(k)
         /\ SetDelete(k) => IF task[k].codes = {} THEN IsOver(k)
                            ELSE GoesOn(k, "set_codes", task[k].codes)
         /\ SetFound(k) => GoesOn(k, "set_insert", task[k].codes)
         /\ SetRefused(k) \/ SetConflict(k) => IsOver(k)
         /\ SetInsert(k) => \E c \in task[k].codes :
              /\ granted' = [granted EXCEPT ![task[k].r] = @ \cup {c}]
              /\ IF task[k].codes = {c} THEN IsOver(k)
                 ELSE GoesOn(k, "set_insert", task[k].codes \ {c})
<1>a. task[k] \in TaskRow
  BY DEF RInv, TasksInv
<1>1. ASSUME Done(k) PROVE IsOver(k)
  <2>1. task'[k] = IdleTask
    BY <1>1, NewLocals DEF Done
  <2>2. QED
    BY <2>1 DEF IdleTask, Setting, IsOver
<1>2. ASSUME SetDone(k) PROVE IsOver(k)
  BY <1>2, SetDoneLocals DEF IsOver
<1>3. ASSUME SetDelete(k), task[k].codes # {} PROVE GoesOn(k, "set_codes", task[k].codes)
  <2>1. task'[k] = [task[k] EXCEPT !.at = "set_codes"]
    BY <1>3, NewLocals DEF SetDelete
  <2>2. QED
    BY <1>a, <2>1 DEF TaskRow, GoesOn
<1>4. ASSUME SetFound(k) PROVE GoesOn(k, "set_insert", task[k].codes)
  <2>1. task'[k] = [task[k] EXCEPT !.at = "set_insert"]
    BY <1>4, NewLocals DEF SetFound
  <2>2. QED
    BY <1>a, <2>1 DEF TaskRow, GoesOn
<1>5. ASSUME SetInsert(k)
      PROVE  \E c \in task[k].codes :
              /\ granted' = [granted EXCEPT ![task[k].r] = @ \cup {c}]
              /\ IF task[k].codes = {c} THEN IsOver(k)
                 ELSE GoesOn(k, "set_insert", task[k].codes \ {c})
  <2>1. PICK c \in task[k].codes :
          /\ granted' = [granted EXCEPT ![task[k].r] = @ \cup {c}]
          /\ IF task[k].codes = {c} THEN SetDone(k)
             ELSE Becomes(k, [task[k] EXCEPT !.codes = @ \ {c}])
    BY <1>5 DEF SetInsert
  <2>2. ASSUME task[k].codes # {c} PROVE GoesOn(k, "set_insert", task[k].codes \ {c})
    <3>1. task'[k] = [task[k] EXCEPT !.codes = @ \ {c}]
      BY <2>1, <2>2, NewLocals
    <3>2. task[k].at = "set_insert"
      BY <1>5 DEF SetInsert, At
    <3>3. QED
      BY <1>a, <3>1, <3>2 DEF TaskRow, GoesOn
  <2>3. QED
    BY <1>2, <2>1, <2>2
<1>6. QED
  BY <1>1, <1>2, <1>3, <1>4, <1>5 DEF SetDelete, SetRefused, SetConflict

\* A step of k that neither writes role r nor concerns it.
LEMMA CodesUntouched ==
  ASSUME RInv, NEW k \in Tasks, RequestStep(k), NEW r \in RoleIds, CodesOK(r),
         granted'[r] = granted[r], asked'[r] = asked[r], ~Writing(k, r), ~Writing(k, r)'
  PROVE  CodesOK(r)'
<1>1. \A j \in Tasks \ {k} : task'[j] = task[j]
  BY OneTask
<1>2. \A j \in Tasks : Writing(j, r)' <=> Writing(j, r)
  BY <1>1 DEF Writing
<1>3. \A j \in Tasks : Writing(j, r) => task'[j] = task[j]
  BY <1>1
<1>4. QED
  BY <1>2, <1>3 DEF CodesOK

LEMMA RequestKeepsWrites ==
  ASSUME RInv, WritesInv, NEW k \in Tasks, RequestStep(k),
         NEW r \in RoleIds, TenantRole(r)', r \notin torn'
  PROVE  CodesOK(r)'
<1>a. task[k] \in TaskRow /\ TaskOK(k)
  BY DEF RInv, TasksInv
<1>b. granted \in [RoleIds -> SUBSET Codes] /\ asked \in [RoleIds -> SUBSET AnyCode]
  BY DEF RInv, RowsInv
<1>c. TenantRole(r)
  BY RequestKeeps DEF TenantRole, Grow
<1>d. \A j \in Tasks \ {k} : task'[j] = task[j]
  BY OneTask
<1>1. CASE Plain(k)
  <2>1. ~Writing(k, r) /\ ~Writing(k, r)'
    BY <1>1, PlainLocals DEF Writing, Setting, Written
  <2>2. CodesOK(r)
    BY <1>1, <1>c, PlainRows DEF WritesInv
  <2>3. QED
    BY <1>1, <2>1, <2>2, PlainRows, CodesUntouched
<1>2. CASE Abort(k)
  <2>1. r \notin torn /\ UNCHANGED <<granted, asked>>
    BY <1>2 DEF Abort, tables
  <2>2. ~Writing(k, r)
    BY <1>2 DEF Abort, Writing
  <2>3. ~Writing(k, r)'
    BY <1>2, SetLocals DEF Abort, IsOver, Writing, Setting
  <2>4. QED
    BY <1>c, <2>1, <2>2, <2>3, CodesUntouched DEF WritesInv
<1>3. CASE SetStep(k) /\ task[k].r # r
  <2>1. r \notin torn /\ granted'[r] = granted[r] /\ asked'[r] = asked[r]
    BY <1>3, <1>b DEF SetStep, SetDelete, SetFound, SetRefused, SetInsert, SetConflict,
       tables, memory
  <2>2. ~Writing(k, r)
    BY <1>3 DEF Writing
  <2>3. ~Writing(k, r)'
    BY <1>3, SetLocals DEF SetStep, IsOver, GoesOn, Writing, Setting
  <2>4. QED
    BY <1>c, <2>1, <2>2, <2>3, CodesUntouched DEF WritesInv
<1>4. CASE SetDelete(k) /\ task[k].r = r
  <2>1. /\ granted'[r] = {} /\ asked'[r] = task[k].codes
        /\ \A j \in Tasks : ~Writing(j, r)
    BY <1>4, <1>b DEF SetDelete
  <2>2. \A j \in Tasks \ {k} : ~Writing(j, r)'
    BY <1>d, <2>1 DEF Writing
  <2>3. CASE task[k].codes = {}
    <3>1. ~Writing(k, r)'
      BY <1>4, <2>3, SetLocals DEF IsOver, Writing, Setting
    <3>2. QED
      BY <2>1, <2>2, <2>3, <3>1 DEF CodesOK
  <2>4. CASE task[k].codes # {}
    <3>1. /\ task'[k].at = "set_codes" /\ task'[k].r = r /\ task'[k].codes = task[k].codes
      BY <1>4, <2>4, SetLocals DEF GoesOn
    <3>2. Writing(k, r)'
      BY <3>1 DEF Writing
    <3>3. QED
      BY <2>1, <2>2, <2>4, <3>1, <3>2 DEF CodesOK
  <2>5. QED
    BY <2>3, <2>4
<1>5. CASE SetStep(k) /\ ~SetDelete(k) /\ task[k].r = r
  <2>1. torn' = torn
    BY <1>5 DEF SetStep, SetFound, SetRefused, SetInsert, SetConflict, memory
  <2>2. CodesOK(r) /\ Writing(k, r)
    BY <1>5, <1>c, <2>1
       DEF WritesInv, SetStep, SetFound, SetRefused, SetInsert, SetConflict, At, Writing
  <2>3. \A j \in Tasks \ {k} : ~Writing(j, r)'
    BY <1>d, <2>2 DEF CodesOK, Writing
  <2>4. /\ asked[r] = granted[r] \cup task[k].codes
        /\ granted[r] \cap task[k].codes = {} /\ task[k].codes # {}
        /\ task[k].at = "set_codes" => granted[r] = {}
    BY <2>2 DEF CodesOK
  <2>5. CASE SetFound(k)
    <3>1. UNCHANGED <<granted, asked>> /\ GoesOn(k, "set_insert", task[k].codes)
      BY <2>5, SetLocals DEF SetFound, tables, memory
    <3>2. Writing(k, r)'
      BY <1>5, <3>1 DEF GoesOn, Writing
    <3>3. QED
      BY <2>3, <2>4, <3>1, <3>2 DEF CodesOK, GoesOn
  <2>6. CASE SetRefused(k)
    <3>1. granted'[r] = {} /\ asked'[r] = {}
      BY <1>5, <1>b, <2>4, <2>6 DEF SetRefused, At, tables
    <3>2. ~Writing(k, r)'
      BY <2>6, SetLocals DEF IsOver, Writing, Setting
    <3>3. QED
      BY <2>3, <3>1, <3>2 DEF CodesOK
  <2>7. CASE SetInsert(k)
    <3>1. PICK c \in task[k].codes :
            /\ granted' = [granted EXCEPT ![task[k].r] = @ \cup {c}]
            /\ IF task[k].codes = {c} THEN IsOver(k)
               ELSE GoesOn(k, "set_insert", task[k].codes \ {c})
      BY <2>7, SetLocals
    <3>2. granted'[r] = granted[r] \cup {c} /\ asked' = asked
      BY <1>5, <1>b, <2>7, <3>1 DEF SetInsert, memory
    <3>3. CASE task[k].codes = {c}
      <4>1. ~Writing(k, r)'
        BY <3>1, <3>3 DEF IsOver, Writing, Setting
      <4>2. granted'[r] = asked'[r]
        BY <2>4, <3>2, <3>3
      <4>3. QED
        BY <2>3, <4>1, <4>2 DEF CodesOK
    <3>4. CASE task[k].codes # {c}
      <4>1. GoesOn(k, "set_insert", task[k].codes \ {c})
        BY <3>1, <3>4
      <4>2. Writing(k, r)'
        BY <1>5, <4>1 DEF GoesOn, Writing
      <4>3. /\ asked'[r] = granted'[r] \cup task'[k].codes
            /\ granted'[r] \cap task'[k].codes = {} /\ task'[k].codes # {}
            /\ task'[k].at # "set_codes"
        BY <2>4, <3>2, <3>4, <4>1 DEF GoesOn
      <4>4. QED
        BY <2>3, <4>2, <4>3 DEF CodesOK
    <3>5. QED
      BY <3>3, <3>4
  <2>8. CASE SetConflict(k)
    BY <1>5, <2>4, <2>8 DEF SetConflict
  <2>9. QED
    BY <1>5, <2>5, <2>6, <2>7, <2>8 DEF SetStep
<1>6. QED
  BY <1>1, <1>2, <1>3, <1>4, <1>5 DEF Plain

LEMMA SeedKeepsWrites ==
  ASSUME RInv, WritesInv, SeedStep, NEW r \in RoleIds, TenantRole(r)', r \notin torn'
  PROVE  CodesOK(r)'
<1>1. UNCHANGED <<task, asked, torn>>
  BY DEF SeedStep, Seed, SeedPermission, SeedPermissionSkipped, SeedRole, SeedAttach,
     SeedAttachSkipped, SeedUser, SeedLink, SeedAbort, memory
<1>2. TenantRole(r)
  BY SeedStepKeeps DEF TenantRole, Grow
<1>3. granted'[r] = granted[r]
  <2>1. CASE SeedAttach
    <3>1. seeder.r \in RoleIds /\ IsRole(seeder.r) /\ roles[seeder.r].tenant = NoTenant
      BY <2>1 DEF RInv, SeederInv, SeedAttach, SeederAt
    <3>2. seeder.r # r
      BY <1>2, <3>1 DEF TenantRole
    <3>3. QED
      BY <2>1, <3>1, <3>2 DEF SeedAttach, RInv, RowsInv
  <2>2. CASE ~SeedAttach
    BY <2>2 DEF SeedStep, Seed, SeedPermission, SeedPermissionSkipped, SeedRole,
       SeedAttachSkipped, SeedUser, SeedLink, SeedAbort, tables
  <2>3. QED
    BY <2>1, <2>2
<1>4. CodesOK(r)
  BY <1>1, <1>2 DEF WritesInv
<1>5. QED
  BY <1>1, <1>3, <1>4 DEF CodesOK, Writing

LEMMA WritesPreserved ==
  ASSUME RInv, WritesInv, [RNext]_rvars
  PROVE  WritesInv'
<1>1. CASE UNCHANGED rvars
  BY <1>1 DEF WritesInv, CodesOK, Writing, TenantRole, IsRole, rvars, tables, memory
<1>2. CASE RNext
  BY <1>2, RequestKeepsWrites, SeedKeepsWrites DEF RNext, WritesInv
<1>3. QED
  BY <1>1, <1>2

LEMMA InitWrites == RInit => WritesInv
BY DEF RInit, WritesInv, CodesOK, Writing, IdleTask

\* Once no request is at it, a role of a tenant has the very codes of the last
\* request that set them, or none when that was refused: DELETE and INSERTs,
\* which no transaction holds together, leave no mixture unless requests wrote
\* the role at once or one died writing.
THEOREM CodesAreAsAsked == RSpec => []PermissionsAsAsked
<1>1. RInv /\ WritesInv /\ [RNext]_rvars => WritesInv'
  BY WritesPreserved
<1>2. WritesInv => PermissionsAsAsked
  BY DEF WritesInv, PermissionsAsAsked, CodesOK, Writing, TenantRole, Busy
<1>3. QED
  BY RowsInductive, InitWrites, <1>1, <1>2, PTL DEF RSpec

-----------------------------------------------------------------------------
(* System roles.                                                           *)

LEMMA RequestKeepsCatalogue ==
  ASSUME RInv, CatalogueInv, NEW k \in Tasks, RequestStep(k)
  PROVE  CatalogueInv' /\ UNCHANGED <<catalogue, skipped>>
<1>1. UNCHANGED <<catalogue, seeder>> /\ \A j \in Tasks \ {k} : task'[j] = task[j]
  BY RequestKeeps, OneTask
<1>2. skipped' = skipped
  BY PlainRows DEF Plain, SetStep, SetDelete, SetFound, SetRefused, SetInsert, SetConflict,
     Abort, memory
<1>3. ASSUME NEW u \in Users, IsUser(u)', users'[u].super PROVE IsUser(u) /\ users[u].super
  <2>1. CASE Keeps(k)
    BY <1>3, <2>1, KeepsRows DEF IsUser
  <2>2. CASE CreateUser(k) \/ UpdateUser(k)
    BY <1>3, <2>2, UserStep
  <2>3. CASE SeedInsert(k) \/ CreateRole(k) \/ UpdateRole(k)
    BY <1>3, <2>3 DEF SeedInsert, CreateRole, UpdateRole, IsUser
  <2>4. QED
    BY <2>1, <2>2, <2>3 DEF RequestStep, Keeps
<1>4. ASSUME task'[k].super, ~task[k].super PROVE \E u \in Users : IsUser(u) /\ users[u].super
  <2>1. LoadUser(k)
    BY <1>4, PlainLocals, SetLocals DEF Plain, SetStep, GoesOn, IsOver, Abort
  <2>2. PICK u \in Users : IsUser(u) /\ Becomes(k, [IdleTask EXCEPT
            !.at = IF users[u].super THEN "ready" ELSE "load_permissions",
            !.user = u, !.super = users[u].super, !.tenant = users[u].tenant])
    BY <2>1 DEF LoadUser
  <2>3. task'[k] = [IdleTask EXCEPT
            !.at = IF users[u].super THEN "ready" ELSE "load_permissions",
            !.user = u, !.super = users[u].super, !.tenant = users[u].tenant]
    BY <2>2, NewLocals
  <2>4. task'[k].super = users[u].super
    BY <2>3 DEF IdleTask
  <2>5. QED
    BY <1>4, <2>2, <2>4
<1>5. ~skipped' => \A j \in Tasks : task'[j].super => catalogue' = Codes
  BY <1>1, <1>2, <1>4 DEF CatalogueInv
<1>6. QED
  BY <1>1, <1>2, <1>3, <1>5 DEF CatalogueInv

LEMMA SeedKeepsCatalogue ==
  ASSUME RInv, CatalogueInv, SeedStep
  PROVE  CatalogueInv' /\ UNCHANGED <<task, asked, torn>> /\ (skipped => skipped')
<1>a. seeder \in SeederRow /\ catalogue \subseteq Codes
  BY DEF RInv, SeederInv, RowsInv
<1>b. UNCHANGED <<task, asked, torn>> /\ (skipped => skipped')
  <2>1. UNCHANGED <<task, asked, torn>>
    BY DEF SeedStep, Seed, SeedPermission, SeedPermissionSkipped, SeedRole, SeedAttach,
       SeedAttachSkipped, SeedUser, SeedLink, SeedAbort, memory
  <2>2. CASE SeedPermissionSkipped
    BY <2>1, <2>2 DEF SeedPermissionSkipped
  <2>3. CASE ~SeedPermissionSkipped
    <3>1. skipped' = skipped
      BY <2>3 DEF SeedStep, Seed, SeedPermission, SeedRole, SeedAttach, SeedAttachSkipped,
         SeedUser, SeedLink, SeedAbort, memory
    <3>2. QED
      BY <2>1, <3>1
  <2>4. QED
    BY <2>2, <2>3
<1>1. CASE Seed
  BY <1>1 DEF Seed, IdleSeeder, CatalogueInv, tables, memory, IsUser
<1>2. CASE SeedPermission
  <2>1. PICK c \in seeder.codes :
          /\ seeder' = [seeder EXCEPT !.codes = @ \ {c}] /\ catalogue' = catalogue \cup {c}
    BY <1>2 DEF SeedPermission
  <2>2. /\ seeder'.at = "permissions" /\ seeder'.codes = seeder.codes \ {c}
        /\ c \in Codes
    BY <1>a, <1>2, <2>1 DEF SeederRow, SeedPermission, SeederAt
  <2>3. UNCHANGED <<users, skipped>>
    BY <1>2 DEF SeedPermission, memory
  <2>4. QED
    BY <1>a, <1>2, <1>b, <2>1, <2>2, <2>3 DEF CatalogueInv, SeedPermission, SeederAt, IsUser
<1>3. CASE SeedPermissionSkipped
  BY <1>3, <1>b DEF SeedPermissionSkipped, CatalogueInv
<1>4. CASE SeedRole
  <2>1. seeder.at = "permissions" /\ seeder.codes = {} /\ UNCHANGED <<catalogue, users, skipped>>
    BY <1>4 DEF SeedRole, SeederAt, memory
  <2>2. ~skipped => catalogue = Codes
    BY <1>a, <2>1 DEF CatalogueInv
  <2>3. QED
    BY <1>b, <2>1, <2>2 DEF CatalogueInv, IsUser
<1>5. CASE SeedAttach \/ SeedAttachSkipped \/ SeedUser \/ SeedLink
  <2>1. /\ seeder.at \in {"attach", "link"} /\ UNCHANGED <<catalogue, skipped>>
    BY <1>5 DEF SeedAttach, SeedAttachSkipped, SeedUser, SeedLink, SeederAt, memory, tables
  <2>2. ~skipped => catalogue = Codes
    BY <2>1 DEF CatalogueInv
  <2>3. QED
    BY <1>a, <1>b, <2>1, <2>2 DEF CatalogueInv
<1>6. CASE SeedAbort
  BY <1>6, <1>b DEF SeedAbort, IdleSeeder, CatalogueInv, tables, memory, IsUser
<1>7. QED
  BY <1>b, <1>1, <1>2, <1>3, <1>4, <1>5, <1>6 DEF SeedStep

\* A default role is, or is being, seeded on role r.
Seeds(r) ==
  \/ \E k \in Tasks : task[k].at = "set_delete" /\ task[k].r = r
  \/ \E i \in DOMAIN DefaultRoles :
       DefaultRoles[i].name = roles[r].name /\ DefaultRoles[i].codes = asked[r]

OfSystem(r) == IsRole(r) /\ roles[r].tenant # NoTenant /\ roles[r].system

SystemInv == ~skipped => \A r \in RoleIds : OfSystem(r) /\ r \notin torn => Seeds(r)

LEMMA RequestKeepsSystem ==
  ASSUME RInv, CatalogueInv, SystemInv, NEW k \in Tasks, RequestStep(k), ~skipped',
         NEW r \in RoleIds, OfSystem(r)', r \notin torn'
  PROVE  Seeds(r)'
<1>a. task[k] \in TaskRow /\ TaskOK(k)
  BY DEF RInv, TasksInv
<1>b. /\ granted \in [RoleIds -> SUBSET Codes] /\ asked \in [RoleIds -> SUBSET AnyCode]
      /\ roles \in [RoleIds -> RoleRow \cup {Absent}]
  BY DEF RInv, RowsInv
<1>c. \A j \in Tasks \ {k} : task'[j] = task[j]
  BY OneTask
<1>d. ~skipped /\ Grow
  BY RequestKeepsCatalogue, RequestKeeps
<1>1. ASSUME IsRole(r), r \notin torn, asked'[r] = asked[r],
             task[k].at = "set_delete" => task[k].r # r
      PROVE  Seeds(r)'
  <2>1. OfSystem(r) /\ roles'[r].name = roles[r].name
    BY <1>1, <1>d DEF Grow, OfSystem
  <2>2. Seeds(r)
    BY <1>1, <1>d, <2>1 DEF SystemInv
  <2>3. CASE \E j \in Tasks : task[j].at = "set_delete" /\ task[j].r = r
    BY <1>1, <1>c, <2>3 DEF Seeds
  <2>4. QED
    BY <1>1, <2>1, <2>2, <2>3 DEF Seeds
<1>2. CASE ~IsRole(r)
  <2>1. roles' # roles
    BY <1>2 DEF OfSystem, IsRole
  <2>2. SeedInsert(k) \/ CreateRole(k) \/ UpdateRole(k)
    BY <2>1, KeepsRows DEF RequestStep, Keeps, CreateUser, UpdateUser
  <2>3. ~UpdateRole(k)
    BY <1>2, UpdateRoleStep DEF OfSystem, IsRole, Updatable
  <2>4. ~CreateRole(k)
    <3> SUFFICES ASSUME CreateRole(k) PROVE FALSE
      OBVIOUS
    <3>1. PICK t, name, q : NewRole(q, [tenant |-> t, name |-> name, system |-> FALSE])
      BY CreateRoleStep
    <3>2. /\ roles'[q] = [tenant |-> t, name |-> name, system |-> FALSE]
          /\ \A p \in RoleIds \ {q} : roles'[p] = roles[p]
      BY <3>1, NewRoleStep DEF CreateRole
    <3>3. ~roles'[q].system
      BY <3>2
    <3>4. QED
      BY <1>2, <3>2, <3>3 DEF OfSystem, IsRole
  <2>5. SeedInsert(k)
    BY <2>2, <2>3, <2>4
  <2>6. PICK q \in RoleIds :
          /\ NewRole(q, [tenant |-> task[k].t, name |-> Seeded(k).name, system |-> TRUE])
          /\ ToSet(k, q, Seeded(k).codes, task[k].default)
    BY <2>5, SeedInsertStep
  <2>7. q = r
    BY <1>2, <2>5, <2>6, NewRoleStep DEF SeedInsert, OfSystem, IsRole
  <2>8. task'[k] = [task[k] EXCEPT !.at = "set_delete", !.r = q, !.codes = Seeded(k).codes,
                      !.default = task[k].default]
    BY <2>6, NewLocals DEF ToSet
  <2>9. task'[k].at = "set_delete" /\ task'[k].r = r
    BY <1>a, <2>7, <2>8 DEF TaskRow
  <2>10. QED
    BY <2>9 DEF Seeds
<1>3. CASE IsRole(r) /\ Plain(k)
  BY <1>1, <1>3, PlainRows, PlainLocals DEF Setting
<1>4. CASE IsRole(r) /\ Abort(k)
  <2>1. /\ torn \subseteq torn' /\ asked' = asked
        /\ task[k].at = "set_delete" => task[k].r \in torn'
    BY <1>4 DEF Abort
  <2>2. QED
    BY <1>1, <1>4, <2>1
<1>5. CASE IsRole(r) /\ SetStep(k) /\ task[k].r # r
  <2>1. r \notin torn /\ asked'[r] = asked[r]
    BY <1>5, <1>b DEF SetStep, SetDelete, SetFound, SetRefused, SetInsert, SetConflict, memory
  <2>2. QED
    BY <1>1, <1>5, <2>1
<1>6. CASE IsRole(r) /\ SetDelete(k) /\ task[k].r = r
  <2>1. roles' = roles /\ asked'[r] = task[k].codes
    BY <1>6, <1>b DEF SetDelete
  <2>2. SeedsIt(k)
    BY <1>a, <1>6, <2>1 DEF SetDelete, At, TaskOK, Setting, OfSystem
  <2>3. QED
    BY <1>6, <2>1, <2>2 DEF SeedsIt, Seeds, SetDelete, At
<1>7. CASE IsRole(r) /\ SetRefused(k) /\ task[k].r = r
  <2>1. roles' = roles /\ task[k].at = "set_codes" /\ ~(task[k].codes \subseteq catalogue)
    BY <1>7 DEF SetRefused, At, tables
  <2>2. SeedsIt(k)
    BY <1>a, <1>7, <2>1 DEF TaskOK, Setting, OfSystem
  <2>3. catalogue = Codes
    BY <1>d, <2>2 DEF SeedsIt, CatalogueInv
  <2>4. task[k].codes \subseteq Codes
    BY <2>1, <2>2, DefaultRow DEF SeedsIt
  <2>5. QED
    BY <2>1, <2>3, <2>4
<1>8. CASE IsRole(r) /\ (SetFound(k) \/ SetInsert(k) \/ SetConflict(k))
  <2>1. UNCHANGED <<asked, torn>> /\ task[k].at # "set_delete"
    BY <1>8 DEF SetFound, SetInsert, SetConflict, At, memory
  <2>2. QED
    BY <1>1, <1>8, <2>1
<1>9. QED
  BY <1>2, <1>3, <1>4, <1>5, <1>6, <1>7, <1>8 DEF Plain, SetStep

LEMMA SystemPreserved ==
  ASSUME RInv, CatalogueInv, SystemInv, [RNext]_rvars
  PROVE  CatalogueInv' /\ SystemInv'
<1>1. CASE UNCHANGED rvars
  <2>1. UNCHANGED <<catalogue, users, roles, task, seeder, asked, torn, skipped>>
    BY <1>1 DEF rvars, tables, memory
  <2>2. QED
    BY <2>1 DEF CatalogueInv, SystemInv, OfSystem, Seeds, IsUser, IsRole
<1>2. CASE SeedStep
  <2>1. CatalogueInv' /\ UNCHANGED <<task, asked, torn>> /\ (skipped => skipped')
    BY <1>2, SeedKeepsCatalogue
  <2>2. ASSUME NEW r \in RoleIds, OfSystem(r)' PROVE OfSystem(r) /\ roles'[r].name = roles[r].name
    <3>1. CASE SeedRole
      <4>1. PICK q \in RoleIds :
              \/ UNCHANGED roles
              \/ NewRole(q, [tenant |-> NoTenant, name |-> Superadmin, system |-> TRUE])
        BY <3>1, <1>2, SeedRoleStep
      <4>2. CASE UNCHANGED roles
        BY <2>2, <4>2 DEF OfSystem, IsRole
      <4>3. CASE NewRole(q, [tenant |-> NoTenant, name |-> Superadmin, system |-> TRUE])
        <5>1. roles'[q].tenant = NoTenant /\ \A p \in RoleIds \ {q} : roles'[p] = roles[p]
          BY <3>1, <4>3, NewRoleStep DEF SeedRole
        <5>2. QED
          BY <2>2, <5>1 DEF OfSystem, IsRole
      <4>4. QED
        BY <4>1, <4>2, <4>3
    <3>2. CASE ~SeedRole
      <4>1. UNCHANGED roles
        BY <1>2, <3>2 DEF SeedStep, Seed, SeedPermission, SeedPermissionSkipped, SeedAttach,
           SeedAttachSkipped, SeedUser, SeedLink, SeedAbort, tables
      <4>2. QED
        BY <2>2, <4>1 DEF OfSystem, IsRole
    <3>3. QED
      BY <3>1, <3>2
  <2>3. QED
    BY <2>1, <2>2 DEF SystemInv, Seeds
<1>3. CASE \E k \in Tasks : RequestStep(k)
  BY <1>3, RequestKeepsCatalogue, RequestKeepsSystem DEF SystemInv
<1>4. QED
  BY <1>1, <1>2, <1>3 DEF RNext

LEMMA InitSystem == RInit => CatalogueInv /\ SystemInv
<1> SUFFICES ASSUME RInit PROVE CatalogueInv /\ SystemInv
  OBVIOUS
<1>1. PICK db \in Databases :
        /\ catalogue = db.catalogue /\ users = db.users
        /\ roles = db.roles /\ granted = db.granted /\ asked = db.granted
  BY DEF RInit
<1>2. /\ \A u \in Users : (users[u] # Absent /\ users[u].super) => catalogue = Codes
      /\ \A r \in RoleIds : (roles[r] # Absent /\ roles[r].tenant # NoTenant /\ roles[r].system) =>
           \E i \in DOMAIN DefaultRoles :
             DefaultRoles[i] = [name |-> roles[r].name, codes |-> asked[r]]
  <2>1. \A u \in Users : (db.users[u] # Absent /\ db.users[u].super) => db.catalogue = Codes
    BY DatabasesAssumption
  <2>2. \A r \in RoleIds :
          (db.roles[r] # Absent /\ db.roles[r].tenant # NoTenant /\ db.roles[r].system) =>
            \E i \in DOMAIN DefaultRoles :
              DefaultRoles[i] = [name |-> db.roles[r].name, codes |-> db.granted[r]]
    BY DatabasesAssumption, Zenon
  <2>3. QED
    BY <1>1, <2>1, <2>2
<1>3. CatalogueInv
  BY <1>2 DEF RInit, IdleTask, IdleSeeder, CatalogueInv, IsUser
<1>4. ASSUME NEW r \in RoleIds, OfSystem(r) PROVE Seeds(r)
  <2>1. PICK i \in DOMAIN DefaultRoles :
          DefaultRoles[i] = [name |-> roles[r].name, codes |-> asked[r]]
    BY <1>2, <1>4 DEF OfSystem, IsRole
  <2>2. DefaultRoles[i].name = roles[r].name /\ DefaultRoles[i].codes = asked[r]
    BY <2>1
  <2>3. QED
    BY <2>2 DEF Seeds
<1>5. QED
  BY <1>3, <1>4 DEF SystemInv

\* A role that create_tenant has seeded keeps its name and its codes, whatever
\* requests create, rename and set at the same time; seed_admin has completed
\* the catalogue before, unless it passed over a failed insert.
THEOREM SystemRolesStay == RSpec => []SystemRolesIntact
<1>1. RInv /\ WritesInv /\ [RNext]_rvars => WritesInv'
  BY WritesPreserved
<1>2. RInv /\ CatalogueInv /\ SystemInv /\ [RNext]_rvars => CatalogueInv' /\ SystemInv'
  BY SystemPreserved
<1>3. WritesInv /\ SystemInv => SystemRolesIntact
  <2> SUFFICES ASSUME WritesInv, SystemInv, ~skipped, NEW r \in RoleIds,
                      OfSystem(r), ~Busy(r), r \notin torn
               PROVE  \E i \in DOMAIN DefaultRoles :
                        DefaultRoles[i] = [name |-> roles[r].name, codes |-> granted[r]]
    BY DEF SystemRolesIntact, OfSystem
  <2>1. granted[r] = asked[r]
    BY DEF WritesInv, CodesOK, Writing, TenantRole, OfSystem, Busy
  <2>2. Seeds(r)
    BY DEF SystemInv
  <2>3. PICK i \in DOMAIN DefaultRoles :
          DefaultRoles[i].name = roles[r].name /\ DefaultRoles[i].codes = asked[r]
    BY <2>2 DEF Seeds, Busy
  <2>4. DefaultRoles[i] = [name |-> DefaultRoles[i].name, codes |-> DefaultRoles[i].codes]
    BY DefaultRow
  <2>5. QED
    BY <2>1, <2>3, <2>4
<1>4. QED
  BY RowsInductive, InitWrites, InitSystem, <1>1, <1>2, <1>3, PTL DEF RSpec

=============================================================================
