----------------------------- MODULE ContactTags -----------------------------
(***************************************************************************)
(* Contacts and their tags, as the API changes them.                       *)
(*                                                                         *)
(*   src/api/routes/contacts.rs   update_contact, attach_tag, detach_tag,  *)
(*                                create_tag and their helpers             *)
(*                                                                         *)
(* Nothing is in a transaction: between the statements of one request,     *)
(* those of another may come.  Only the keys of tags (tenant, name) and    *)
(* contact_tags (contact, tag) decide who was first.  Contacts come from   *)
(* the webhook and from sending (module Inbound); here they are there.     *)
(***************************************************************************)
EXTENDS Naturals, FiniteSets

CONSTANTS
  CTasks,           \* tasks of the API server
  Contacts,         \* contacts
  ContactTenant,    \* ContactTenant[c]
  Owners,           \* users that requests name as owners
  OwnerTenant,      \* OwnerTenant[u]
  TagIds,           \* the ids of tags, 1 .. n
  TagNames,         \* names that are left of a name by trim()
  Fields,           \* the other columns of a contact: name, email, ...
  NoOwner, NoTag,   \* owner_user_id = NULL; no row
  MaxTagRequests, MaxTagFaults     \* bounds

CTenants == {ContactTenant[c] : c \in Contacts}
Values == CTasks \cup {"old"}       \* of a field: which task wrote it

ASSUME TagAssumption ==
  /\ TagIds \in SUBSET Nat
  /\ DOMAIN ContactTenant = Contacts /\ DOMAIN OwnerTenant = Owners
  /\ NoOwner \notin Owners /\ "old" \notin CTasks /\ "owner" \notin Fields
  /\ NoTag \notin [tenant : CTenants, name : TagNames]

VARIABLES
  tags,             \* tags: [tenant, name] or NoTag
  links,            \* contact_tags
  contact,          \* contacts: their fields and the owner
  ctask,            \* the locals of a request
  tagRequests, tagFaults,
  promised,         \* history: links of answered requests, not detached since
  last              \* history: what the last request to give a column gave

tagTables == <<tags, links, contact>>
cvars == <<tagTables, ctask, tagRequests, tagFaults, promised, last>>

Columns == Fields \cup {"owner"}
ColumnType(f) == IF f = "owner" THEN Owners \cup {NoOwner} ELSE Values

IdleRequest == [at |-> "idle", t |-> NoTag, c |-> NoTag, tag |-> 0, name |-> NoTag,
                given |-> {}, owner |-> NoOwner, row |-> NoTag]

CInit ==
  /\ tags = [i \in TagIds |-> NoTag]
  /\ links = {}
  /\ contact = [c \in Contacts |-> [f \in Columns |-> IF f = "owner" THEN NoOwner ELSE "old"]]
  /\ ctask = [k \in CTasks |-> IdleRequest]
  /\ tagRequests = 0 /\ tagFaults = 0
  /\ promised = {} /\ last = contact

-----------------------------------------------------------------------------
CAt(k, place) == ctask[k].at = place
CBecomes(k, record) == ctask' = [ctask EXCEPT ![k] = record]
CDone(k) == CBecomes(k, IdleRequest)

\* The tag of that name, by uq_tags_tenant_name no more than one.  Mutant: there
\* is no such key, and the look-up misses.
TagOfMissed(t, name) == {}
TagOf(t, name) == {i \in TagIds : tags[i] # NoTag /\ tags[i] = [tenant |-> t, name |-> name]}
OwnTag(t, i) == tags[i] # NoTag /\ tags[i].tenant = t
NextTag(i) == tags[i] = NoTag /\ \A j \in TagIds : j < i => tags[j] # NoTag

\* A request of a user of the contact's tenant; load_contact finds only those.
OfContact(k, c, place) ==
  /\ CAt(k, "idle") /\ tagRequests < MaxTagRequests
  /\ tagRequests' = tagRequests + 1
  /\ CBecomes(k, [IdleRequest EXCEPT !.at = place, !.t = ContactTenant[c], !.c = c])

AttachTag(k) ==
  /\ \E c \in Contacts : OfContact(k, c, "resolve")
  /\ UNCHANGED <<tagTables, tagFaults, promised, last>>

DetachTag(k) ==
  /\ \E c \in Contacts : OfContact(k, c, "detach_tag")
  /\ UNCHANGED <<tagTables, tagFaults, promised, last>>

\* resolve_or_create_tag: by id, or by name.
ResolveTag(k) ==
  /\ CAt(k, "resolve")
  /\ \/ \E i \in TagIds :
          /\ OwnTag(ctask[k].t, i)
          /\ CBecomes(k, [ctask[k] EXCEPT !.at = "check_link", !.tag = i])
     \/ \E name \in TagNames :
          /\ TagOf(ctask[k].t, name) = {}
          /\ CBecomes(k, [ctask[k] EXCEPT !.at = "create_tag", !.name = name])
  /\ UNCHANGED <<tagTables, tagRequests, tagFaults, promised, last>>

\* Neither id nor name, or the id of no tag of the tenant.
ResolveRefused(k) ==
  /\ CAt(k, "resolve")
  /\ CDone(k)
  /\ UNCHANGED <<tagTables, tagRequests, tagFaults, promised, last>>

\* create_tag: a request of its own.
NewTag(k) ==
  /\ CAt(k, "idle") /\ tagRequests < MaxTagRequests
  /\ tagRequests' = tagRequests + 1
  /\ \E t \in CTenants, name \in TagNames :
       CBecomes(k, [IdleRequest EXCEPT !.at = "create_tag", !.t = t, !.name = name])
  /\ UNCHANGED <<tagTables, tagFaults, promised, last>>

\* create_tag_model, for either; attach_tag goes on with the new tag.
CreateTag(k) ==
  /\ CAt(k, "create_tag")
  /\ TagOf(ctask[k].t, ctask[k].name) = {}
  /\ \E i \in TagIds :
       /\ NextTag(i)
       /\ tags' = [tags EXCEPT ![i] = [tenant |-> ctask[k].t, name |-> ctask[k].name]]
       /\ IF ctask[k].c = NoTag THEN CDone(k)
          ELSE CBecomes(k, [ctask[k] EXCEPT !.at = "check_link", !.tag = i])
  /\ UNCHANGED <<links, contact, tagRequests, tagFaults, promised, last>>

\* uq_tags_tenant_name refuses it: 409, to attach_tag as well.
CreateTagConflict(k) ==
  /\ CAt(k, "create_tag")
  /\ TagOf(ctask[k].t, ctask[k].name) # {}
  /\ CDone(k)
  /\ UNCHANGED <<tagTables, tagRequests, tagFaults, promised, last>>

LinkOf(k) == <<ctask[k].c, ctask[k].tag>>

\* attach_tag: it is linked already, ...
LinkThere(k) ==
  /\ CAt(k, "check_link")
  /\ LinkOf(k) \in links
  /\ promised' = promised \cup {LinkOf(k)}
  /\ CDone(k)
  /\ UNCHANGED <<tagTables, tagRequests, tagFaults, last>>

\* ... or it is not, ...
LinkMissing(k) ==
  /\ CAt(k, "check_link")
  /\ LinkOf(k) \notin links
  /\ CBecomes(k, [ctask[k] EXCEPT !.at = "link"])
  /\ UNCHANGED <<tagTables, tagRequests, tagFaults, promised, last>>

\* ... and is linked now, ...
Link(k) ==
  /\ CAt(k, "link")
  /\ LinkOf(k) \notin links
  /\ links' = links \cup {LinkOf(k)}
  /\ promised' = promised \cup {LinkOf(k)}
  /\ CDone(k)
  /\ UNCHANGED <<tags, contact, tagRequests, tagFaults, last>>

\* ... unless another request was faster: 500.
LinkConflict(k) ==
  /\ CAt(k, "link")
  /\ LinkOf(k) \in links
  /\ CDone(k)
  /\ UNCHANGED <<tagTables, tagRequests, tagFaults, promised, last>>

\* detach_tag, tag_exists: the tag of that id is the tenant's, ...
FindTag(k) ==
  /\ CAt(k, "detach_tag")
  /\ \E i \in TagIds :
       /\ OwnTag(ctask[k].t, i)
       /\ CBecomes(k, [ctask[k] EXCEPT !.at = "detach", !.tag = i])
  /\ UNCHANGED <<tagTables, tagRequests, tagFaults, promised, last>>

\* ... or it is not, or the look-up fails: 404.
FindTagRefused(k) ==
  /\ CAt(k, "detach_tag")
  /\ CDone(k)
  /\ UNCHANGED <<tagTables, tagRequests, tagFaults, promised, last>>

\* The links that detach_tag deletes.  Mutant: the tag's from every contact.
DetachedOfTag(k) == {l \in links : l[2] = ctask[k].tag}
Detached(k) == {l \in links : l[1] = ctask[k].c /\ l[2] = ctask[k].tag}

Detach(k) ==
  /\ CAt(k, "detach")
  /\ links' = links \ Detached(k)
  /\ promised' = promised \ {LinkOf(k)}
  /\ CDone(k)
  /\ UNCHANGED <<tags, contact, tagRequests, tagFaults, last>>

-----------------------------------------------------------------------------
\* update_contact: what is loaded is not written again; the owner, if one is
\* given, must be a user of the tenant.
PatchContact(k) ==
  /\ \E c \in Contacts, given \in SUBSET Columns, u \in Owners :
       /\ given # {}
       /\ "owner" \in given => OwnerTenant[u] = ContactTenant[c]
       /\ CAt(k, "idle") /\ tagRequests < MaxTagRequests
       /\ CBecomes(k, [IdleRequest EXCEPT !.at = "patch", !.t = ContactTenant[c],
                          !.c = c, !.given = given, !.owner = u, !.row = contact[c]])
  /\ tagRequests' = tagRequests + 1
  /\ UNCHANGED <<tagTables, tagFaults, promised, last>>

Given(k, f) == IF f = "owner" THEN ctask[k].owner ELSE k

\* Only the columns that were set are written.  Mutant: those not given are
\* written as well, as they were loaded.
SetAll(k, row)   == [f \in Columns |->
  IF f \in ctask[k].given THEN Given(k, f) ELSE ctask[k].row[f]]
SetGiven(k, row) == [f \in Columns |-> IF f \in ctask[k].given THEN Given(k, f) ELSE row[f]]

Update(k) == LET c == ctask[k].c IN
  /\ CAt(k, "patch")
  /\ contact' = [contact EXCEPT ![c] = SetGiven(k, @)]
  /\ last' = [last EXCEPT ![c] =
       [f \in Columns |-> IF f \in ctask[k].given THEN Given(k, f) ELSE @[f]]]
  /\ CDone(k)
  /\ UNCHANGED <<tags, links, tagRequests, tagFaults, promised>>

\* A statement fails, or the task is dropped.
CAbort(k) ==
  /\ ~CAt(k, "idle") /\ tagFaults < MaxTagFaults
  /\ tagFaults' = tagFaults + 1
  /\ CDone(k)
  /\ UNCHANGED <<tagTables, tagRequests, promised, last>>

\* attach_tag's insert of a link is executed, but its answer is lost: 500.
LinkAnswerLost(k) ==
  /\ CAt(k, "link") /\ tagFaults < MaxTagFaults
  /\ tagFaults' = tagFaults + 1
  /\ links' = links \cup {LinkOf(k)}
  /\ CDone(k)
  /\ UNCHANGED <<tags, contact, tagRequests, promised, last>>

CStep(k) ==
  \/ AttachTag(k) \/ DetachTag(k) \/ ResolveTag(k) \/ ResolveRefused(k) \/ NewTag(k)
  \/ CreateTag(k) \/ CreateTagConflict(k)
  \/ LinkThere(k) \/ LinkMissing(k) \/ Link(k) \/ LinkConflict(k) \/ LinkAnswerLost(k)
  \/ FindTag(k) \/ FindTagRefused(k) \/ Detach(k) \/ PatchContact(k) \/ Update(k) \/ CAbort(k)

CNext == \E k \in CTasks : CStep(k)
CSpec == CInit /\ [][CNext]_cvars

-----------------------------------------------------------------------------
(* Properties                                                              *)

\* Every link joins a contact and a tag of the same tenant.
LinksOfOneTenant == \A l \in links : OwnTag(ContactTenant[l[1]], l[2])

\* Rows and locals have their types; a tenant has a tag of a name once; a link
\* joins a contact and a tag of one tenant; and the tag that a request is about
\* to look up, link or take off is there and of its contact's tenant.
CTypeOK ==
  /\ tags \in [TagIds -> [tenant : CTenants, name : TagNames] \cup {NoTag}]
  /\ \A i, j \in TagIds : tags[i] = tags[j] => i = j \/ tags[i] = NoTag
  /\ links \subseteq Contacts \X TagIds /\ promised \subseteq Contacts \X TagIds
  /\ LinksOfOneTenant
  /\ \A c \in Contacts, f \in Columns : contact[c][f] \in ColumnType(f)
  /\ \A k \in CTasks :
       /\ ctask[k].at \in {"idle", "resolve", "create_tag", "check_link", "link",
                           "detach_tag", "detach", "patch"}
       /\ ctask[k].at \in {"check_link", "link", "detach"} =>
            /\ ctask[k].c \in Contacts /\ ctask[k].tag \in TagIds
            /\ OwnTag(ContactTenant[ctask[k].c], ctask[k].tag)

\* A contact that a request was told has a tag keeps it until a request for
\* this contact and this tag takes it off, whatever goes on with the same tag,
\* and it has no tag of another tenant.
TagsKept ==
  /\ promised \subseteq links
  /\ LinksOfOneTenant

\* Requests that change different columns of a contact at the same time do not
\* undo each other: a column has what the last request that gave it gave, and
\* an owner is of the contact's tenant.
PatchesKept ==
  /\ contact = last
  /\ \A c \in Contacts : contact[c]["owner"] # NoOwner =>
       OwnerTenant[contact[c]["owner"]] = ContactTenant[c]

=============================================================================
