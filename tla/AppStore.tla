------------------------------ MODULE AppStore ------------------------------
(***************************************************************************)
(* What the app service keeps (services/app/src/persistence.rs: Postgres   *)
(* tables and the object store of full texts), who may touch it            *)
(* (services/app/src/auth.rs), and the requests that are being handled.    *)
(*                                                                         *)
(* A request is a task that goes from one await to the next; a database    *)
(* transaction is one step.  A repository method is an operator that says  *)
(* how the statement ends given the tables ("ok", "notfound", "conflict"); *)
(* the handlers of the other App modules apply its effect when it is "ok". *)
(* Times, names and free text are left out, except where a property tells  *)
(* them apart.                                                             *)
(***************************************************************************)
EXTENDS Naturals, FiniteSets

CONSTANTS
    Tasks,          \* requests that are handled
    Workloads,      \* sets of requests that clients may send together
    Projects, Docs, Refs, Links,    \* ids: uuids and share-link tokens
    Names,          \* what a membership is keyed by: OIDC subjects and user names
    Users,          \* principals
    SubjectOf, UsernameOf, IdpRole, \* per user: sub, preferred_username, best role
    Creator,        \* the subject who creates, or created, each project
    Existing,       \* the projects that exist at the start
    FirstEntry, FirstMembers, FirstDocs, FirstRefs, FirstTexts, FirstLinks, \* their rows
    NoName, NoRow   \* sentinels

Requests == UNION Workloads

MembershipRoles == {"owner", "author", "reviewer", "read-only"}
NoRole == "none"

ASSUME AppAssumption ==
    /\ SubjectOf \in [Users -> Names] /\ UsernameOf \in [Users -> Names \cup {NoName}]
    /\ IdpRole \in [Users -> {"none", "read-only", "reviewer", "author"}]
    /\ NoName \notin Names /\ NoRow \notin Docs
    /\ Creator \in [Projects -> Names] /\ Existing \subseteq Projects
    /\ \A q \in Requests : q.user \in Users /\ q.project \in Projects

VARIABLES
    req,            \* per task: the request it handles
    pc,             \* per task: the await it is at
    row,            \* per task: what its handler has read
    resp,           \* per task: the answer, "" while there is none
    projects, members, docs, revs, refs, fulltexts, links,  \* the tables
    audited,        \* audit_events: the tasks whose event is recorded
    blobs,          \* the object store: the PDF filed under a reference id
    written,        \* history: every (document, revision, body) ever committed
    raced           \* history: references whose upload overlapped a deletion

tables == <<projects, members, docs, revs, refs, fulltexts, links, audited, written>>
taskVars == <<req, pc, row, resp>>
vars == <<taskVars, tables, blobs, raced>>

(* A lower rank never overrides a higher one: membership_role_rank. *)
Rank == [r \in MembershipRoles |->
            CASE r = "owner" -> 3 [] r = "author" -> 2 [] r = "reviewer" -> 1 [] OTHER -> 0]

-----------------------------------------------------------------------------
(* Control of a task. *)

At(t, op, where) == req[t].op = op /\ pc[t] = where

Goto(t, where) == pc' = [pc EXCEPT ![t] = where] /\ UNCHANGED <<req, resp>>

Read(t, what, where) == row' = [row EXCEPT ![t] = what] /\ Goto(t, where)

Reply(t, code) ==
    /\ pc' = [pc EXCEPT ![t] = "done"] /\ resp' = [resp EXCEPT ![t] = code]
    /\ UNCHANGED <<req, row>>

(* A handler that has checked its request and found "code". *)
Refuse(t, code) == code # "ok" /\ Reply(t, code) /\ UNCHANGED <<tables, blobs, raced>>

-----------------------------------------------------------------------------
(* Access control: auth.rs. *)

(* Permission::allows, on the role claims of the token. *)
Permitted(u, permission) ==
    CASE permission = "manage"   -> IdpRole[u] = "author"
      [] permission = "document" -> IdpRole[u] \in {"author", "reviewer"}
      [] OTHER                   -> IdpRole[u] # "none"

(* The membership of a principal: by subject, else by preferred_username. *)
RoleOf(p, u) ==
    IF members[p][SubjectOf[u]] # NoRole THEN members[p][SubjectOf[u]]
    ELSE IF UsernameOf[u] # NoName THEN members[p][UsernameOf[u]] ELSE NoRole

(* project_access: a handler's own check. *)
ProjectAccess(p, u, permission) ==
    IF Permitted(u, permission) /\ RoleOf(p, u) # NoRole THEN "ok" ELSE "forbidden"

Reads == {"get_project", "get_document", "get_document_revision", "get_reference", "get_fulltext",
          "get_my_membership", "list_members", "list_documents", "list_document_history",
          "list_references", "list_fulltexts", "list_share_links", "list_audit"}

(* Paths outside /projects/{id}: their handlers answer for themselves. *)
Unscoped == {"create_project", "list_projects", "redeem_share_link", "authorize_sync_document",
             "api_compile"}

CanWrite(q, role) ==
    \/ q.op \in Reads \cup {"project_preview"}
    \/ q.op = "export_project" /\ role \in {"owner", "author", "reviewer"}
    \/ q.op = "remove_member" /\ q.subject = SubjectOf[q.user]
    \/ role \in {"owner", "author"}

(* project_acl: the middleware before every handler. *)
ProjectAcl(t) ==
    /\ pc[t] = "received"
    /\ IF req[t].op \in Unscoped
         THEN Goto(t, "admitted") /\ UNCHANGED row
         ELSE LET role == RoleOf(req[t].project, req[t].user) IN
              IF role # NoRole /\ CanWrite(req[t], role)
                THEN Goto(t, "admitted") /\ UNCHANGED row
                ELSE Reply(t, "forbidden")
    /\ UNCHANGED <<tables, blobs, raced>>

(* The database or the object store fails a call, or the service stops:    *)
(* the handler returns at its await and nothing it did is undone.          *)
Fail(t) == pc[t] # "done" /\ Reply(t, "failed") /\ UNCHANGED <<tables, blobs, raced>>

-----------------------------------------------------------------------------
(* The repository: how a statement ends. *)

Found(x) == IF x = NoRow THEN "notfound" ELSE "ok"

(* Mutant: the row is looked up by its id alone. *)
ForProjectAny(p, x) == IF projects[p] = NoRow \/ x = NoRow THEN "notfound" ELSE "ok"

(* project_for, then a row of the project by its id: document_for_project  *)
(* and reference_for_project.                                              *)
ForProject(p, x) ==
    CASE projects[p] = NoRow \/ x = NoRow -> "notfound"
      [] x.project # p -> "notfound"
      [] OTHER -> "ok"

(* The first of two checks that is not "ok". *)
Then(a, b) == IF a # "ok" THEN a ELSE b

If(condition, code) == IF condition THEN "ok" ELSE code

CreateMembership(p, s) ==
    CASE projects[p] = NoRow -> "notfound" [] members[p][s] # NoRole -> "conflict" [] OTHER -> "ok"

UpsertMembership(p) == Found(projects[p])

DeleteMembership(p, s) == If(members[p][s] # NoRole, "notfound")

(* entry_document_id references documents. *)
UpdateProject(p, v) ==
    Then(Found(projects[p]), IF v.entry = NoRow THEN "ok" ELSE Found(docs[v.entry]))

PathTaken(d, v) ==
    \E e \in Docs \ {d} : docs[e] # NoRow /\ docs[e].project = v.project /\ docs[e].path = v.path

CreateDocument(d, v) ==
    CASE projects[v.project] = NoRow -> "notfound" [] PathTaken(d, v) -> "conflict" [] OTHER -> "ok"

(* Mutant: the last writer wins. *)
UpdateDocumentBlind(d, v, expected) ==
    CASE docs[d] = NoRow -> "notfound" [] PathTaken(d, v) -> "conflict" [] OTHER -> "ok"

(* The row is replaced only if it still has the revision that was read. *)
UpdateDocument(d, v, expected) ==
    CASE docs[d] = NoRow -> "notfound"
      [] docs[d].rev # expected \/ PathTaken(d, v) -> "conflict"
      [] OTHER -> "ok"

(* Project-scoped uniqueness of DOIs: the expression index of migration 8. *)
DoiTaken(r, v) ==
    \E e \in Refs \ {r} : refs[e] # NoRow /\ refs[e].project = v.project /\ refs[e].doi = v.doi

CreateReference(r, v) ==
    CASE projects[v.project] = NoRow -> "notfound" [] DoiTaken(r, v) -> "conflict" [] OTHER -> "ok"

UpdateReference(r, v) ==
    CASE refs[r] = NoRow -> "notfound" [] DoiTaken(r, v) -> "conflict" [] OTHER -> "ok"

DeleteReference(r) == Found(refs[r])

PutFulltext(r) == Found(refs[r])

DeleteFulltext(r) == Found(fulltexts[r])

DeleteShareLink(k) == Found(links[k])

(* insert_audit: the event refers to its project. *)
InsertAudit(t) == audited' = audited \cup {t}

(* The project a request is about: redeeming names only a link. *)
Target(t) ==
    IF req[t].op = "redeem_share_link" /\ row[t] # NoRow THEN row[t].link.project ELSE req[t].project

(* audit: a transaction of its own after the change it reports. *)
AppendAudit(t, where) ==
    /\ IF projects[Target(t)] = NoRow
         THEN Reply(t, "notfound") /\ UNCHANGED audited
         ELSE Reply(t, "ok") /\ InsertAudit(t)
    /\ pc[t] = where
    /\ UNCHANGED <<projects, members, docs, revs, refs, fulltexts, links, written, blobs, raced>>
=============================================================================
