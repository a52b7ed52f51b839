---------------------------- MODULE AppProjects -----------------------------
(***************************************************************************)
(* The handlers of projects, memberships and share links in                *)
(* services/app/src/lib.rs, and the endpoint the sync service asks for a   *)
(* subject's role.                                                         *)
(***************************************************************************)
EXTENDS AppStore

(* The project row and its owner's membership are two transactions. *)
CreateProject(t) ==
    /\ At(t, "create_project", "admitted")
    /\ LET p == req[t].project IN
       \/ Refuse(t, If(Permitted(req[t].user, "manage"), "forbidden"))
       \/ /\ Permitted(req[t].user, "manage")
          /\ projects[p] = NoRow
          /\ projects' = [projects EXCEPT ![p] = [name |-> req[t].name, entry |-> NoRow]]
          /\ InsertAudit(t) /\ Goto(t, "commit")
          /\ UNCHANGED <<row, members, docs, revs, refs, fulltexts, links, written, blobs, raced>>

CreateProjectOwner(t) ==
    /\ At(t, "create_project", "commit")
    /\ LET p == req[t].project
           s == SubjectOf[req[t].user] IN
       \/ Refuse(t, CreateMembership(p, s))
       \/ /\ CreateMembership(p, s) = "ok"
          /\ members' = [members EXCEPT ![p][s] = "owner"] /\ Reply(t, "ok")
          /\ UNCHANGED <<projects, docs, revs, refs, fulltexts, links, audited, written, blobs, raced>>

(* The patch is applied to a row that was read two awaits before. *)
PatchProjectLoad(t) ==
    /\ At(t, "patch_project", "admitted")
    /\ LET q == req[t]
           code == Then(If(Permitted(q.user, "manage"), "forbidden"),
                   Then(Found(projects[q.project]),
                   Then(ProjectAccess(q.project, q.user, "manage"),
                        IF "entry" \in DOMAIN q.set THEN ForProject(q.project, docs[q.set.entry])
                                                    ELSE "ok"))) IN
       \/ Refuse(t, code)
       \/ /\ code = "ok"
          /\ Read(t, [f \in {"name", "entry"} |->
                        IF f \in DOMAIN q.set THEN q.set[f] ELSE projects[q.project][f]], "commit")
          /\ UNCHANGED <<tables, blobs, raced>>

PatchProjectCommit(t) ==
    /\ At(t, "patch_project", "commit")
    /\ LET p == req[t].project IN
       \/ Refuse(t, UpdateProject(p, row[t]))
       \/ /\ UpdateProject(p, row[t]) = "ok"
          /\ projects' = [projects EXCEPT ![p] = row[t]] /\ InsertAudit(t) /\ Reply(t, "ok")
          /\ UNCHANGED <<members, docs, revs, refs, fulltexts, links, written, blobs, raced>>

(* The references are listed before their rows cascade away. *)
DeleteProjectLoad(t) ==
    /\ At(t, "delete_project", "admitted")
    /\ LET p == req[t].project
           code == Then(If(Permitted(req[t].user, "manage"), "forbidden"),
                   Then(Found(projects[p]), ProjectAccess(p, req[t].user, "manage"))) IN
       \/ Refuse(t, code)
       \/ /\ code = "ok"
          /\ Read(t, {r \in Refs : refs[r] # NoRow /\ refs[r].project = p}, "commit")
          /\ UNCHANGED <<tables, blobs, raced>>

OfProject(rows, p) == {x \in DOMAIN rows : rows[x] # NoRow /\ rows[x].project = p}

Without(rows, gone) == [x \in DOMAIN rows |-> IF x \in gone THEN NoRow ELSE rows[x]]

(* DELETE FROM projects: every table of the project cascades. *)
DeleteProjectCommit(t) ==
    /\ At(t, "delete_project", "commit")
    /\ LET p == req[t].project IN
       \/ Refuse(t, Found(projects[p]))
       \/ /\ projects[p] # NoRow
          /\ projects' = [projects EXCEPT ![p] = NoRow]
          /\ members' = [members EXCEPT ![p] = [s \in Names |-> NoRole]]
          /\ docs' = Without(docs, OfProject(docs, p))
          /\ revs' = {h \in revs : h.doc \notin OfProject(docs, p)}
          /\ refs' = Without(refs, OfProject(refs, p))
          /\ fulltexts' = Without(fulltexts, OfProject(refs, p))
          /\ links' = Without(links, OfProject(links, p))
          /\ audited' = {u \in audited : Target(u) # p}
          /\ Goto(t, "more") /\ UNCHANGED <<row, written, blobs, raced>>

(* Then the blobs, one call each, best effort. *)
DeleteProjectBlobs(t) ==
    /\ At(t, "delete_project", "more")
    /\ \/ row[t] = {} /\ Reply(t, "ok") /\ UNCHANGED blobs
       \/ \E r \in row[t] :
            /\ blobs' \in {[blobs EXCEPT ![r] = NoRow], blobs}
            /\ row' = [row EXCEPT ![t] = @ \ {r}] /\ UNCHANGED <<req, pc, resp>>
    /\ UNCHANGED <<tables, raced>>

-----------------------------------------------------------------------------
(* Members. *)

AddMember(t) ==
    /\ At(t, "add_member", "admitted")
    /\ LET q == req[t]
           code == Then(Found(projects[q.project]),
                   Then(ProjectAccess(q.project, q.user, "manage"),
                        If(q.role # "owner", "bad"))) IN
       \/ Refuse(t, code)
       \/ code = "ok" /\ Goto(t, "commit") /\ UNCHANGED <<row, tables, blobs, raced>>

(* upsert_membership: the subject's present role is not looked at. *)
AddMemberCommit(t) ==
    /\ At(t, "add_member", "commit")
    /\ LET q == req[t] IN
       \/ Refuse(t, UpsertMembership(q.project))
       \/ /\ UpsertMembership(q.project) = "ok"
          /\ members' = [members EXCEPT ![q.project][q.subject] = q.role]
          /\ Goto(t, "more")
          /\ UNCHANGED <<row, projects, docs, revs, refs, fulltexts, links, audited, written, blobs, raced>>

RemoveMember(t) ==
    /\ At(t, "remove_member", "admitted")
    /\ LET q == req[t]
           permission == IF q.subject = SubjectOf[q.user] THEN "read" ELSE "manage"
           code == Then(Found(projects[q.project]),
                   Then(ProjectAccess(q.project, q.user, permission),
                   Then(If(members[q.project][q.subject] # NoRole, "notfound"),
                        If(members[q.project][q.subject] # "owner", "bad")))) IN
       \/ Refuse(t, code)
       \/ code = "ok" /\ Goto(t, "commit") /\ UNCHANGED <<row, tables, blobs, raced>>

RemoveMemberCommit(t) ==
    /\ At(t, "remove_member", "commit")
    /\ LET q == req[t] IN
       \/ Refuse(t, DeleteMembership(q.project, q.subject))
       \/ /\ DeleteMembership(q.project, q.subject) = "ok"
          /\ members' = [members EXCEPT ![q.project][q.subject] = NoRole]
          /\ Goto(t, "more")
          /\ UNCHANGED <<row, projects, docs, revs, refs, fulltexts, links, audited, written, blobs, raced>>

-----------------------------------------------------------------------------
(* Share links. *)

CreateShareLink(t) ==
    /\ At(t, "create_share_link", "admitted")
    /\ LET q == req[t]
           code == Then(If(Permitted(q.user, "manage"), "forbidden"),
                   Then(Found(projects[q.project]), If(q.role # "owner", "bad"))) IN
       \/ Refuse(t, code)
       \/ /\ code = "ok" /\ links[q.link] = NoRow
          /\ links' = [links EXCEPT ![q.link] = [project |-> q.project, role |-> q.role]]
          /\ Goto(t, "more")
          /\ UNCHANGED <<row, projects, members, docs, revs, refs, fulltexts, audited, written, blobs, raced>>

RevokeShareLink(t) ==
    /\ At(t, "delete_share_link", "admitted")
    /\ LET q == req[t]
           code == Then(If(Permitted(q.user, "manage"), "forbidden"), ForProject(q.project, links[q.link])) IN
       \/ Refuse(t, code)
       \/ code = "ok" /\ Goto(t, "commit") /\ UNCHANGED <<row, tables, blobs, raced>>

RevokeShareLinkCommit(t) ==
    /\ At(t, "delete_share_link", "commit")
    /\ LET k == req[t].link IN
       \/ Refuse(t, DeleteShareLink(k))
       \/ /\ DeleteShareLink(k) = "ok"
          /\ links' = [links EXCEPT ![k] = NoRow] /\ Goto(t, "more")
          /\ UNCHANGED <<row, projects, members, docs, revs, refs, fulltexts, audited, written, blobs, raced>>

(* Mutant: the link's role as it stands. *)
GrantedUnclamped(k, u) == links[k].role

(* The granted role is the link's, clamped to the token's best role. *)
Granted(k, u) ==
    LET best == IF IdpRole[u] = "none" THEN "read-only" ELSE IdpRole[u]
    IN  IF Rank[links[k].role] <= Rank[best] THEN links[k].role ELSE best

(* Two reads: the link, then the redeemer's membership by subject. *)
RedeemShareLink(t) ==
    /\ At(t, "redeem_share_link", "admitted")
    /\ LET k == req[t].link IN
       \/ Refuse(t, Found(links[k]))
       \/ /\ links[k] # NoRow
          /\ Read(t, [link |-> links[k], role |-> Granted(k, req[t].user)], "load")
          /\ UNCHANGED <<tables, blobs, raced>>

RedeemReadsMembership(t) ==
    /\ At(t, "redeem_share_link", "load")
    /\ LET p == row[t].link.project
           old == members[p][SubjectOf[req[t].user]] IN
       IF old # NoRole /\ Rank[old] >= Rank[row[t].role]
         THEN Reply(t, "ok")
         ELSE Read(t, [link |-> row[t].link, role |-> row[t].role, old |-> old], "commit")
    /\ UNCHANGED <<tables, blobs, raced>>

(* create_membership for a newcomer, upsert_membership for an upgrade. *)
RedeemCommit(t) ==
    /\ At(t, "redeem_share_link", "commit")
    /\ LET p == row[t].link.project
           s == SubjectOf[req[t].user]
           code == IF row[t].old = NoRole THEN CreateMembership(p, s) ELSE UpsertMembership(p) IN
       \/ Refuse(t, code)
       \/ /\ code = "ok"
          /\ members' = [members EXCEPT ![p][s] = row[t].role] /\ Goto(t, "more")
          /\ UNCHANGED <<row, projects, docs, revs, refs, fulltexts, links, audited, written, blobs, raced>>

-----------------------------------------------------------------------------
(* The sync service asks for the role of a subject on a document: the      *)
(* document is read, then the membership, by subject alone.                *)
AuthorizeSyncDocument(t) ==
    /\ At(t, "authorize_sync_document", "admitted")
    /\ LET d == req[t].doc IN
       \/ Refuse(t, IF docs[d] = NoRow THEN "forbidden" ELSE "ok")
       \/ /\ docs[d] # NoRow
          /\ Read(t, docs[d].project, "load") /\ UNCHANGED <<tables, blobs, raced>>

AuthorizeReadsMembership(t) ==
    /\ At(t, "authorize_sync_document", "load")
    /\ LET role == members[row[t]][SubjectOf[req[t].user]] IN
       Reply(t, CASE role = NoRole -> "forbidden" [] role = "owner" -> "author" [] OTHER -> role)
    /\ UNCHANGED <<tables, blobs, raced>>

(* Changes of access are reported in a transaction of their own. *)
AuditAccess(t) ==
    /\ req[t].op \in {"add_member", "remove_member", "create_share_link", "delete_share_link",
                      "redeem_share_link"}
    /\ AppendAudit(t, "more")

ProjectStep(t) ==
    \/ CreateProject(t) \/ CreateProjectOwner(t)
    \/ PatchProjectLoad(t) \/ PatchProjectCommit(t)
    \/ DeleteProjectLoad(t) \/ DeleteProjectCommit(t) \/ DeleteProjectBlobs(t)
    \/ AddMember(t) \/ AddMemberCommit(t) \/ RemoveMember(t) \/ RemoveMemberCommit(t)
    \/ CreateShareLink(t) \/ RevokeShareLink(t) \/ RevokeShareLinkCommit(t)
    \/ RedeemShareLink(t) \/ RedeemReadsMembership(t) \/ RedeemCommit(t)
    \/ AuthorizeSyncDocument(t) \/ AuthorizeReadsMembership(t) \/ AuditAccess(t)
=============================================================================
