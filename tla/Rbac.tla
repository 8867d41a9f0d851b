-------------------------------- MODULE Rbac --------------------------------
(***************************************************************************)
(* Tenants, users, roles and permissions: the tables, the requests of the  *)
(* admin API that change them, and the seeding of an empty database.       *)
(*                                                                         *)
(*   src/api/routes/admin.rs              the requests                     *)
(*   src/api/middleware/auth_extractor.rs who is asking, and may do what   *)
(*   src/bin/seed_admin.rs                seeding                          *)
(*   src/domain/auth/permissions.rs       the codes and the default roles  *)
(*                                                                         *)
(* Every statement is a transaction of its own.  A find and an insert that *)
(* follow each other are one step where the row found cannot change and    *)
(* the insert merely fails when it is too late; they are two where another *)
(* request can come between them with an effect.                           *)
(*                                                                         *)
(* E-mail addresses and names of people stand for the rows they identify;  *)
(* passwords and descriptions are left out.                                *)
(***************************************************************************)
EXTENDS Naturals, Sequences, FiniteSets

CONSTANTS
  Tasks,            \* tasks of the API server
  Tenants, Users,   \* the tenants and users that there may be
  RoleIds,          \* the ids of roles, 1 .. n
  Codes,            \* PERMISSIONS
  Manage,           \* ADMIN_USERS_MANAGE
  DefaultRoles,     \* default_tenant_roles(): a sequence of names and codes
  Agent,            \* roles::AGENT
  Superadmin,       \* roles::SUPERADMIN
  RoleNames,        \* the names that requests give to roles
  Wishes,           \* the lists of codes that requests ask for
  Operator,         \* the user seed_admin is run for
  Databases,        \* what the database may hold at first
  MaxRequests, MaxSeedings, MaxFaults   \* bounds

NoTenant == "none"                      \* tenant_id = NULL

Names == {DefaultRoles[i].name : i \in DOMAIN DefaultRoles}
           \cup RoleNames \cup {Superadmin}

UserRow == [tenant : Tenants \cup {NoTenant}, super : BOOLEAN, active : BOOLEAN]
RoleRow == [tenant : Tenants \cup {NoTenant}, name : Names, system : BOOLEAN]
Absent  == [tenant |-> "absent"]        \* no row with this id

ASSUME RbacAssumption ==
  /\ RoleIds \in SUBSET Nat /\ Manage \in Codes /\ Operator \in Users
  /\ NoTenant \notin Tenants
  /\ DefaultRoles \in Seq([name : Names, codes : SUBSET Codes]) /\ DefaultRoles # <<>>
  /\ \A i, j \in DOMAIN DefaultRoles : DefaultRoles[i].name = DefaultRoles[j].name => i = j

\* What seed_admin and the API leave behind when no request is under way.
ASSUME DatabasesAssumption ==
  \A db \in Databases :
    /\ db.catalogue \subseteq Codes /\ db.tenants \subseteq Tenants
    /\ db.users \in [Users -> UserRow \cup {Absent}]
    /\ db.roles \in [RoleIds -> RoleRow \cup {Absent}]
    /\ db.granted \in [RoleIds -> SUBSET Codes]
    /\ db.member \subseteq Users \X RoleIds
    /\ \A m \in db.member :
         /\ db.users[m[1]] # Absent /\ db.roles[m[2]] # Absent
         /\ db.users[m[1]].tenant \in {NoTenant, db.roles[m[2]].tenant}
    /\ \A q, r \in RoleIds :
         (db.roles[q] # Absent /\ db.roles[r] # Absent /\ db.roles[q].tenant # NoTenant
            /\ db.roles[q].tenant = db.roles[r].tenant /\ db.roles[q].name = db.roles[r].name)
           => q = r
    /\ \A u \in Users : (db.users[u] # Absent /\ db.users[u].super) =>
         db.users[u].tenant = NoTenant /\ db.catalogue = Codes
    /\ \A r \in RoleIds :
         (db.roles[r] # Absent /\ db.roles[r].tenant # NoTenant /\ db.roles[r].system) =>
           \E i \in DOMAIN DefaultRoles :
             DefaultRoles[i] = [name |-> db.roles[r].name, codes |-> db.granted[r]]

VARIABLES
  catalogue,        \* permissions: the codes there are
  tenants,          \* tenants: those there are
  users,            \* users
  roles,            \* roles
  granted,          \* role_permissions: granted[r], the codes of role r
  member,           \* user_roles: pairs of a user and a role
  task,             \* task[k]: the locals of a request
  seeder,           \* the locals of seed_admin
  requests, seedings, faults,           \* how many so far
  asked,            \* history: asked[r], the codes last asked for, or none
                    \*   when they were refused
  torn,             \* history: roles two requests were writing at once, or
                    \*   one died writing
  skipped           \* history: seed_admin has passed over a failed insert

tables == <<catalogue, tenants, users, roles, granted, member>>
counts == <<requests, seedings, faults>>
memory == <<asked, torn, skipped>>
rvars  == <<tables, task, seeder, counts, memory>>

IsUser(u) == users[u] # Absent
IsRole(r) == roles[r] # Absent

\* AUTO_INCREMENT: roles are never deleted.
NextRole(r) == ~IsRole(r) /\ \A q \in RoleIds : q < r => IsRole(q)

\* uq_roles_tenant_name; NULLs are distinct.
Taken(t, name) == \E r \in RoleIds :
  IsRole(r) /\ t # NoTenant /\ roles[r].tenant = t /\ roles[r].name = name

IdleTask == [at |-> "idle", user |-> Operator, super |-> FALSE, tenant |-> NoTenant,
             perms |-> {}, t |-> NoTenant, u |-> Operator, r |-> 0,
             codes |-> {}, default |-> 0]

IdleSeeder == [at |-> "idle", codes |-> {}, r |-> 0]

RInit ==
  /\ \E db \in Databases :
       /\ catalogue = db.catalogue /\ tenants = db.tenants /\ users = db.users
       /\ roles = db.roles /\ granted = db.granted /\ member = db.member
       /\ asked = db.granted
  /\ task = [k \in Tasks |-> IdleTask]
  /\ seeder = IdleSeeder
  /\ requests = 0 /\ seedings = 0 /\ faults = 0
  /\ torn = {} /\ skipped = FALSE

-----------------------------------------------------------------------------
(* CurrentUser::from_request: three reads before the handler starts.       *)

At(k, place) == task[k].at = place
Becomes(k, record) == task' = [task EXCEPT ![k] = record]
Done(k) == Becomes(k, IdleTask)

\* A request with the token of user u: the user must still be active.
LoadUser(k) ==
  /\ At(k, "idle")
  /\ requests < MaxRequests
  /\ requests' = requests + 1
  /\ \E u \in Users :
       /\ IsUser(u) /\ users[u].active
       /\ Becomes(k, [IdleTask EXCEPT
            !.at = IF users[u].super THEN "ready" ELSE "load_permissions",
            !.user = u, !.super = users[u].super, !.tenant = users[u].tenant])
  /\ UNCHANGED <<tables, seeder, seedings, faults, memory>>

\* load_permissions, the roles of the user; a superadmin's decide nothing.
LoadRoles(k) ==
  /\ At(k, "load_permissions")
  /\ \E ids \in {{r \in RoleIds : <<task[k].user, r>> \in member}} :
       Becomes(k, [task[k] EXCEPT !.at = "load_codes", !.codes = ids])
  /\ UNCHANGED <<tables, seeder, counts, memory>>

\* load_permissions, the codes of these roles.
LoadCodes(k) ==
  /\ At(k, "load_codes")
  /\ Becomes(k, [task[k] EXCEPT !.at = "ready", !.codes = {},
                   !.perms = UNION {granted[r] : r \in task[k].codes}])
  /\ UNCHANGED <<tables, seeder, counts, memory>>

\* can_manage_tenant.
MayManage(k, t) ==
  task[k].super \/ (task[k].tenant = t /\ Manage \in task[k].perms)

\* The handler refuses, or only reads.
Answer(k) ==
  /\ At(k, "ready")
  /\ Done(k)
  /\ UNCHANGED <<tables, seeder, counts, memory>>

-----------------------------------------------------------------------------
(* set_role_permissions: DELETE, one SELECT, one INSERT for each code.     *)

\* The codes are to be set on role r; default says which default role is
\* being seeded, 0 if none.
ToSet(k, r, codes, default) ==
  Becomes(k, [task[k] EXCEPT !.at = "set_delete", !.r = r, !.codes = codes,
                !.default = default])

\* It is done: the next default role is seeded, if there is one.
SetDone(k) ==
  IF task[k].default \in 1 .. Len(DefaultRoles) - 1
    THEN Becomes(k, [task[k] EXCEPT !.at = "seed_find", !.default = @ + 1])
    ELSE Done(k)

Writing(k, r) == task[k].at \in {"set_codes", "set_insert"} /\ task[k].r = r

\* Mutant: the codes are added to those there are.
SetDeleteNever(k) == LET r == task[k].r IN
  /\ At(k, "set_delete")
  /\ asked' = [asked EXCEPT ![r] = task[k].codes]
  /\ torn' = IF \E j \in Tasks : Writing(j, r) THEN torn \cup {r} ELSE torn \ {r}
  /\ IF task[k].codes = {} THEN SetDone(k)
     ELSE Becomes(k, [task[k] EXCEPT !.at = "set_codes"])
  /\ UNCHANGED <<tables, seeder, counts, skipped>>

SetDelete(k) == LET r == task[k].r IN
  /\ At(k, "set_delete")
  /\ granted' = [granted EXCEPT ![r] = {}]
  /\ asked' = [asked EXCEPT ![r] = task[k].codes]
  /\ torn' = IF \E j \in Tasks : Writing(j, r) THEN torn \cup {r} ELSE torn \ {r}
  /\ IF task[k].codes = {} THEN SetDone(k)
     ELSE Becomes(k, [task[k] EXCEPT !.at = "set_codes"])
  /\ UNCHANGED <<catalogue, tenants, users, roles, member, seeder, counts, skipped>>

\* As many permissions are found as codes were given.
SetFound(k) ==
  /\ At(k, "set_codes")
  /\ task[k].codes \subseteq catalogue
  /\ Becomes(k, [task[k] EXCEPT !.at = "set_insert"])
  /\ UNCHANGED <<tables, seeder, counts, memory>>

\* A code is unknown, or given twice: an error, and the role is left without.
SetRefused(k) == LET r == task[k].r IN
  /\ At(k, "set_codes")
  /\ ~(task[k].codes \subseteq catalogue)
  /\ asked' = [asked EXCEPT ![r] = {}]
  /\ Done(k)
  /\ UNCHANGED <<tables, seeder, counts, torn, skipped>>

SetInsert(k) == LET r == task[k].r IN
  /\ At(k, "set_insert")
  /\ \E c \in task[k].codes :
       /\ c \notin granted[r]
       /\ granted' = [granted EXCEPT ![r] = @ \cup {c}]
       /\ IF task[k].codes = {c} THEN SetDone(k)
          ELSE Becomes(k, [task[k] EXCEPT !.codes = @ \ {c}])
  /\ UNCHANGED <<catalogue, tenants, users, roles, member, seeder, counts, memory>>

\* The primary key refuses a code that another request has inserted.
SetConflict(k) ==
  /\ At(k, "set_insert")
  /\ task[k].codes \cap granted[task[k].r] # {}
  /\ Done(k)
  /\ UNCHANGED <<tables, seeder, counts, memory>>

SetStep(k) ==
  SetDelete(k) \/ SetFound(k) \/ SetRefused(k) \/ SetInsert(k) \/ SetConflict(k)

-----------------------------------------------------------------------------
(* The handlers.                                                           *)

\* create_tenant: superadmins only, a valid name and an unused slug; then
\* seed_default_tenant_roles, whose failure is only logged.
CreateTenant(k) ==
  /\ At(k, "ready") /\ task[k].super
  /\ \E t \in Tenants \ tenants :
       /\ tenants' = tenants \cup {t}
       /\ Becomes(k, [task[k] EXCEPT !.at = "seed_find", !.t = t, !.default = 1])
  /\ UNCHANGED <<catalogue, users, roles, granted, member, seeder, counts, memory>>

Seeded(k) == DefaultRoles[task[k].default]

\* seed_default_tenant_roles: a role of that name is taken over.
SeedFound(k) ==
  /\ At(k, "seed_find")
  /\ \E r \in RoleIds :
       /\ IsRole(r) /\ roles[r].tenant = task[k].t /\ roles[r].name = Seeded(k).name
       /\ ToSet(k, r, Seeded(k).codes, task[k].default)
  /\ UNCHANGED <<tables, seeder, counts, memory>>

SeedMissing(k) ==
  /\ At(k, "seed_find")
  /\ ~Taken(task[k].t, Seeded(k).name)
  /\ Becomes(k, [task[k] EXCEPT !.at = "seed_insert"])
  /\ UNCHANGED <<tables, seeder, counts, memory>>

SeedInsert(k) == LET row == [tenant |-> task[k].t, name |-> Seeded(k).name, system |-> TRUE] IN
  /\ At(k, "seed_insert")
  /\ ~Taken(row.tenant, row.name)
  /\ \E r \in RoleIds :
       /\ NextRole(r)
       /\ roles' = [roles EXCEPT ![r] = row]
       /\ ToSet(k, r, Seeded(k).codes, task[k].default)
  /\ UNCHANGED <<catalogue, tenants, users, granted, member, seeder, counts, memory>>

\* A role of that name was created meanwhile: the seeding ends here.
SeedConflict(k) ==
  /\ At(k, "seed_insert")
  /\ Taken(task[k].t, Seeded(k).name)
  /\ Done(k)
  /\ UNCHANGED <<tables, seeder, counts, memory>>

\* create_tenant_user: the row, then attach_default_role.
CreateUser(k) ==
  /\ At(k, "ready")
  /\ \E t \in tenants, u \in Users :
       /\ MayManage(k, t) /\ ~IsUser(u)
       /\ users' = [users EXCEPT ![u] = [tenant |-> t, super |-> FALSE, active |-> TRUE]]
       /\ Becomes(k, [task[k] EXCEPT !.at = "attach", !.t = t, !.u = u])
  /\ UNCHANGED <<catalogue, tenants, roles, granted, member, seeder, counts, memory>>

\* attach_default_role: the tenant's agent role is found, to be linked...
AttachDefault(k) ==
  /\ At(k, "attach")
  /\ \E r \in RoleIds :
       /\ IsRole(r) /\ roles[r].tenant = task[k].t /\ roles[r].name = Agent
       /\ Becomes(k, [task[k] EXCEPT !.at = "assign", !.r = r])
  /\ UNCHANGED <<tables, seeder, counts, memory>>

\* ... or there is none, and the user has no role.
AttachNothing(k) ==
  /\ At(k, "attach")
  /\ ~Taken(task[k].t, Agent)
  /\ Done(k)
  /\ UNCHANGED <<tables, seeder, counts, memory>>

\* can_manage_user: a user of a tenant the caller manages.
Managed(k, u) ==
  IsUser(u) /\ users[u].tenant # NoTenant /\ MayManage(k, users[u].tenant)

\* update_user and reset_user_password: what they load...
UpdateUserLoad(k) ==
  /\ At(k, "ready")
  /\ \E u \in Users :
       /\ Managed(k, u)
       /\ Becomes(k, [task[k] EXCEPT !.at = "update_user", !.u = u])
  /\ UNCHANGED <<tables, seeder, counts, memory>>

\* ... and write: of the columns only those that were given, ...  (A new
\* e-mail address, admin.rs:429, is left out like those of CreateUser: it names
\* the same row, and that it may be taken already is an Abort.)
UpdateUser(k) ==
  /\ At(k, "update_user")
  /\ \E active \in BOOLEAN :
       users' = [users EXCEPT ![task[k].u].active = active]
  /\ Done(k)
  /\ UNCHANGED <<catalogue, tenants, roles, granted, member, seeder, counts, memory>>

\* ... or the hash of the password, which decides nothing here.
ResetPassword(k) ==
  /\ At(k, "update_user")
  /\ Done(k)
  /\ UNCHANGED <<tables, seeder, counts, memory>>

\* assign_user_role: user and role are loaded and compared.  Mutant: they are
\* not compared.
AssignLoadAny(k) ==
  /\ At(k, "ready")
  /\ \E u \in Users, r \in RoleIds :
       /\ Managed(k, u) /\ IsRole(r)
       /\ Becomes(k, [task[k] EXCEPT !.at = "assign", !.u = u, !.r = r])
  /\ UNCHANGED <<tables, seeder, counts, memory>>

AssignLoad(k) ==
  /\ At(k, "ready")
  /\ \E u \in Users, r \in RoleIds :
       /\ Managed(k, u) /\ IsRole(r)
       /\ roles[r].tenant = users[u].tenant
       /\ Becomes(k, [task[k] EXCEPT !.at = "assign", !.u = u, !.r = r])
  /\ UNCHANGED <<tables, seeder, counts, memory>>

\* ... and linked, unless they are already; attach_default_role as well.
Assign(k) ==
  /\ At(k, "assign")
  /\ member' = member \cup {<<task[k].u, task[k].r>>}
  /\ Done(k)
  /\ UNCHANGED <<catalogue, tenants, users, roles, granted, seeder, counts, memory>>

\* remove_user_role: any link of a user the caller manages.
RemoveLoad(k) ==
  /\ At(k, "ready")
  /\ \E u \in Users, r \in RoleIds :
       /\ Managed(k, u) /\ IsRole(r)
       /\ Becomes(k, [task[k] EXCEPT !.at = "remove", !.u = u, !.r = r])
  /\ UNCHANGED <<tables, seeder, counts, memory>>

Remove(k) ==
  /\ At(k, "remove")
  /\ member' = member \ {<<task[k].u, task[k].r>>}
  /\ Done(k)
  /\ UNCHANGED <<catalogue, tenants, users, roles, granted, seeder, counts, memory>>

\* create_tenant_role: a name not used in the tenant, then the codes.
CreateRole(k) ==
  /\ At(k, "ready")
  /\ \E t \in tenants, name \in RoleNames, codes \in Wishes, r \in RoleIds :
       /\ MayManage(k, t) /\ ~Taken(t, name) /\ NextRole(r)
       /\ roles' = [roles EXCEPT ![r] = [tenant |-> t, name |-> name, system |-> FALSE]]
       /\ ToSet(k, r, codes, 0)
  /\ UNCHANGED <<catalogue, tenants, users, granted, member, seeder, counts, memory>>

\* update_role: what it requires of the role.  Mutants: not that it is not a
\* system role, not that the caller manages its tenant.
UpdatableSystem(k, r) == IsRole(r) /\ roles[r].tenant # NoTenant /\ MayManage(k, roles[r].tenant)
UpdatableByAny(k, r)  == IsRole(r) /\ roles[r].tenant # NoTenant /\ ~roles[r].system
Updatable(k, r) ==
  /\ IsRole(r) /\ roles[r].tenant # NoTenant
  /\ MayManage(k, roles[r].tenant)
  /\ ~roles[r].system

\* The name is written first, and then, if any are given, the codes.
UpdateRole(k) ==
  /\ At(k, "ready")
  /\ \E r \in RoleIds, name \in RoleNames :
       /\ Updatable(k, r)
       /\ name = roles[r].name \/ ~Taken(roles[r].tenant, name)
       /\ roles' = [roles EXCEPT ![r].name = name]
       /\ \/ Done(k)
          \/ \E codes \in Wishes : ToSet(k, r, codes, 0)
  /\ UNCHANGED <<catalogue, tenants, users, granted, member, seeder, counts, memory>>

\* A statement fails, or the task is dropped: the request ends there.
Abort(k) ==
  /\ ~At(k, "idle")
  /\ faults < MaxFaults
  /\ faults' = faults + 1
  /\ torn' = IF task[k].at \in {"set_delete", "set_codes", "set_insert"}
               THEN torn \cup {task[k].r} ELSE torn
  /\ Done(k)
  /\ UNCHANGED <<tables, seeder, requests, seedings, asked, skipped>>

-----------------------------------------------------------------------------
(* seed_admin, for the address of Operator.                                *)

SeederAt(place) == seeder.at = place

Seed ==
  /\ SeederAt("idle")
  /\ seedings < MaxSeedings
  /\ seedings' = seedings + 1
  /\ seeder' = [IdleSeeder EXCEPT !.at = "permissions", !.codes = Codes]
  /\ UNCHANGED <<tables, task, requests, faults, memory>>

\* The next permission; an insert that fails is passed over.
SeedPermission ==
  /\ SeederAt("permissions")
  /\ \E c \in seeder.codes :
       /\ seeder' = [seeder EXCEPT !.codes = @ \ {c}]
       /\ catalogue' = catalogue \cup {c}
  /\ UNCHANGED <<tenants, users, roles, granted, member, task, counts, memory>>

SeedPermissionSkipped ==
  /\ SeederAt("permissions")
  /\ faults < MaxFaults
  /\ faults' = faults + 1
  /\ skipped' = TRUE
  /\ \E c \in seeder.codes \ catalogue : seeder' = [seeder EXCEPT !.codes = @ \ {c}]
  /\ UNCHANGED <<tables, task, requests, seedings, asked, torn>>

IsSuperRole(r) == IsRole(r) /\ roles[r].tenant = NoTenant /\ roles[r].name = Superadmin

\* The superadmin role of no tenant is found or created.
SeedRole ==
  /\ SeederAt("permissions") /\ seeder.codes = {}
  /\ \E r \in RoleIds :
       /\ \/ /\ IsSuperRole(r)
             /\ UNCHANGED roles
          \/ /\ \A q \in RoleIds : ~IsSuperRole(q)
             /\ NextRole(r)
             /\ roles' = [roles EXCEPT ![r] =
                  [tenant |-> NoTenant, name |-> Superadmin, system |-> TRUE]]
       /\ seeder' = [seeder EXCEPT !.at = "attach", !.r = r, !.codes = catalogue]
  /\ UNCHANGED <<catalogue, tenants, users, granted, member, task, counts, memory>>

\* Each permission that was found is attached.
SeedAttach ==
  /\ SeederAt("attach")
  /\ \E c \in seeder.codes :
       /\ granted' = [granted EXCEPT ![seeder.r] = @ \cup {c}]
       /\ seeder' = [seeder EXCEPT !.codes = @ \ {c}]
  /\ UNCHANGED <<catalogue, tenants, users, roles, member, task, counts, memory>>

\* One that cannot be attached is passed over.
SeedAttachSkipped ==
  /\ SeederAt("attach")
  /\ faults < MaxFaults
  /\ faults' = faults + 1
  /\ \E c \in seeder.codes \ granted[seeder.r] : seeder' = [seeder EXCEPT !.codes = @ \ {c}]
  /\ UNCHANGED <<tables, task, requests, seedings, memory>>

\* The user is created, or made a superadmin of no tenant.
SeedUser ==
  /\ SeederAt("attach") /\ seeder.codes = {}
  /\ users' = [users EXCEPT ![Operator] = [tenant |-> NoTenant, super |-> TRUE, active |-> TRUE]]
  /\ seeder' = [seeder EXCEPT !.at = "link"]
  /\ UNCHANGED <<catalogue, tenants, roles, granted, member, task, counts, memory>>

SeedLink ==
  /\ SeederAt("link")
  /\ member' = member \cup {<<Operator, seeder.r>>}
  /\ seeder' = IdleSeeder
  /\ UNCHANGED <<catalogue, tenants, users, roles, granted, task, counts, memory>>

\* An error of any other statement, or the end of the process; a link that
\* cannot be inserted ends it as well, there is nothing after it.
SeedAbort ==
  /\ ~SeederAt("idle")
  /\ faults < MaxFaults
  /\ faults' = faults + 1
  /\ seeder' = IdleSeeder
  /\ UNCHANGED <<tables, task, requests, seedings, memory>>

-----------------------------------------------------------------------------
RequestStep(k) ==
  \/ LoadUser(k) \/ LoadRoles(k) \/ LoadCodes(k) \/ Answer(k)
  \/ CreateTenant(k) \/ SeedFound(k) \/ SeedMissing(k) \/ SeedInsert(k) \/ SeedConflict(k)
  \/ CreateUser(k) \/ AttachDefault(k) \/ AttachNothing(k) \/ UpdateUserLoad(k) \/ UpdateUser(k) \/ ResetPassword(k)
  \/ AssignLoad(k) \/ Assign(k) \/ RemoveLoad(k) \/ Remove(k)
  \/ CreateRole(k) \/ UpdateRole(k) \/ SetStep(k) \/ Abort(k)

SeedStep ==
  \/ Seed \/ SeedPermission \/ SeedPermissionSkipped \/ SeedRole
  \/ SeedAttach \/ SeedAttachSkipped \/ SeedUser \/ SeedLink \/ SeedAbort

RNext == SeedStep \/ \E k \in Tasks : RequestStep(k)

RSpec == RInit /\ [][RNext]_rvars

-----------------------------------------------------------------------------
(* Properties                                                              *)

Steps == {"idle", "load_permissions", "load_codes", "ready", "seed_find", "seed_insert",
          "set_delete", "set_codes", "set_insert", "attach", "update_user",
          "assign", "remove"}

\* No two roles of a tenant have the same name: a name is looked up in one
\* statement and written in another, for a new role, a renamed one and a
\* default role alike.
RoleKeys ==
  \A q, r \in RoleIds :
    (IsRole(q) /\ IsRole(r) /\ roles[q].tenant # NoTenant
       /\ roles[q].tenant = roles[r].tenant /\ roles[q].name = roles[r].name)
      => q = r

\* Rows have the types of their columns and role names are unique in a tenant
\* (RoleKeys); a link joins a user and a role that are there; and the user and
\* the role that a request is about to link, unlink, update or set codes of
\* are still there when it does.
RTypeOK ==
  /\ catalogue \subseteq Codes /\ tenants \subseteq Tenants
  /\ users \in [Users -> UserRow \cup {Absent}]
  /\ roles \in [RoleIds -> RoleRow \cup {Absent}]
  /\ granted \in [RoleIds -> SUBSET Codes]
  /\ \A m \in member : m \in Users \X RoleIds /\ IsUser(m[1]) /\ IsRole(m[2])
  /\ \A k \in Tasks :
       /\ task[k].at \in Steps
       /\ task[k].at \in {"attach", "update_user", "assign", "remove"} => IsUser(task[k].u)
       /\ task[k].at \in {"set_delete", "set_codes", "set_insert", "assign", "remove"} =>
            IsRole(task[k].r)
  /\ RoleKeys
  /\ torn \subseteq RoleIds

\* Is a request between the first and the last statement about role r?
Busy(r) == \E k \in Tasks :
  task[k].at \in {"set_delete", "set_codes", "set_insert"} /\ task[k].r = r

\* A role of a tenant ends up with the very codes of the last request that set
\* them, or with none when that request was refused: unless requests wrote it
\* at once or one died writing, no mixture of old and new codes is left by the
\* DELETE and the INSERTs, which no transaction holds together.
PermissionsAsAsked ==
  \A r \in RoleIds :
    (IsRole(r) /\ roles[r].tenant # NoTenant /\ ~Busy(r) /\ r \notin torn)
      => granted[r] = asked[r]

\* A default role keeps its name and its codes: requests that create, rename
\* and set roles at the same time, in any order, never change a role that
\* create_tenant has seeded, and the catalogue was complete when it did.
SystemRolesIntact ==
  \A r \in RoleIds :
    (IsRole(r) /\ roles[r].tenant # NoTenant /\ roles[r].system
        /\ ~Busy(r) /\ r \notin torn /\ ~skipped)
      => \E i \in DOMAIN DefaultRoles :
           DefaultRoles[i] = [name |-> roles[r].name, codes |-> granted[r]]

\* A user of a tenant has roles of this tenant only, although user and role
\* are compared before the link is written.  (A user whom seed_admin takes out
\* of a tenant keeps the roles there.)
RolesStayInTenant ==
  \A m \in member :
    users[m[1]].tenant # NoTenant => roles[m[2]].tenant = users[m[1]].tenant

\* What changes between two states, if anything, is of tenant t: roles, their
\* codes, users, and the links of users of t or made superadmins since.
OnlyOf(t) ==
  /\ UNCHANGED <<catalogue, tenants>>
  /\ \A r \in RoleIds :
       (roles'[r] # roles[r] \/ granted'[r] # granted[r]) => roles'[r].tenant = t
  /\ \A u \in Users : users'[u] # users[u] => users'[u].tenant = t \/ users[u].super
  /\ \A m \in (member' \ member) \cup (member \ member') :
       users[m[1]].tenant = t \/ users[m[1]].super

\* A request of anybody but a superadmin changes nothing outside the tenant of
\* its user, whatever became of the rows between their check and the write.
TenantIsolation ==
  [][\A k \in Tasks :
       (task'[k] # task[k] /\ task[k].at # "idle" /\ ~task[k].super)
         => OnlyOf(task[k].tenant)]_rvars

=============================================================================
