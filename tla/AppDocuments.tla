---------------------------- MODULE AppDocuments ----------------------------
(***************************************************************************)
(* The handlers of documents, their history and the reads of a project in  *)
(* services/app/src/lib.rs.  A document's stored body carries a revision   *)
(* number; history keeps copies of some revisions.                         *)
(***************************************************************************)
EXTENDS AppStore

(* The request's value of a field, if it names it, else the row's. *)
Patched(q, old, f) == IF f \in DOMAIN q.set THEN q.set[f] ELSE old[f]

Revision(d, v) == [doc |-> d, project |-> v.project, rev |-> v.rev, body |-> v.body]

(* Mutant: the body is read back when the copy is made. *)
SaveDocumentRevisionLate(d, v) ==
    revs' = IF docs[d] = NoRow THEN revs
            ELSE revs \cup {[Revision(d, v) EXCEPT !.body = docs[d].body]}

(* save_document_revision: an insert that refers to document and project. *)
SaveDocumentRevision(d, v) ==
    revs' = IF docs[d] = NoRow THEN revs ELSE revs \cup {Revision(d, v)}

CreateDocumentInsert(t) ==
    /\ At(t, "create_document", "admitted")
    /\ LET q == req[t]
           v == [project |-> q.project, path |-> q.set.path, title |-> q.set.title,
                 body |-> q.set.body, rev |-> 0]
           code == Then(If(Permitted(q.user, "manage"), "forbidden"), CreateDocument(q.doc, v)) IN
       \/ Refuse(t, code)
       \/ /\ code = "ok" /\ docs[q.doc] = NoRow
          /\ docs' = [docs EXCEPT ![q.doc] = v] /\ written' = written \cup {Revision(q.doc, v)}
          /\ InsertAudit(t) /\ Read(t, v, "more")
          /\ UNCHANGED <<projects, members, revs, refs, fulltexts, links, blobs, raced>>

(* The request's fields are put into the row that was read; the revision   *)
(* that was read is what the commit compares with.                         *)
PatchDocumentLoad(t) ==
    /\ At(t, "patch_document", "admitted")
    /\ LET q == req[t]
           old == docs[q.doc]
           code == Then(If(Permitted(q.user, "manage"), "forbidden"),
                   Then(ForProject(q.project, old),
                        IF q.expected = NoRow THEN "ok" ELSE If(old.rev = q.expected, "conflict"))) IN
       \/ Refuse(t, code)
       \/ /\ code = "ok"
          /\ Read(t, [project |-> old.project, path |-> Patched(q, old, "path"),
                      title |-> Patched(q, old, "title"), body |-> Patched(q, old, "body"),
                      rev |-> old.rev + 1], "commit")
          /\ UNCHANGED <<tables, blobs, raced>>

PatchDocumentCommit(t) ==
    /\ At(t, "patch_document", "commit")
    /\ LET d == req[t].doc
           code == UpdateDocument(d, row[t], row[t].rev - 1) IN
       \/ Refuse(t, code)
       \/ /\ code = "ok"
          /\ docs' = [docs EXCEPT ![d] = row[t]]
          /\ written' = written \cup {Revision(d, row[t])}
          /\ InsertAudit(t) /\ Goto(t, "more")
          /\ UNCHANGED <<row, projects, members, revs, refs, fulltexts, links, blobs, raced>>

(* A copy for the history: always for revision 0, for later ones unless    *)
(* the latest copy is younger than MIN_SNAPSHOT_INTERVAL_SECS.  A failure  *)
(* is only logged.                                                         *)
SaveHistory(t) ==
    /\ req[t].op \in {"create_document", "patch_document"} /\ pc[t] = "more"
    /\ \/ SaveDocumentRevision(req[t].doc, row[t])
       \/ UNCHANGED revs
    /\ Reply(t, "ok")
    /\ UNCHANGED <<projects, members, docs, refs, fulltexts, links, audited, written, blobs, raced>>

DeleteDocumentLoad(t) ==
    /\ At(t, "delete_document", "admitted")
    /\ LET code == Then(If(Permitted(req[t].user, "manage"), "forbidden"),
                        ForProject(req[t].project, docs[req[t].doc])) IN
       \/ Refuse(t, code)
       \/ code = "ok" /\ Goto(t, "commit") /\ UNCHANGED <<row, tables, blobs, raced>>

(* The history cascades; a project that had it as entry has none. *)
DeleteDocumentCommit(t) ==
    /\ At(t, "delete_document", "commit")
    /\ LET d == req[t].doc IN
       \/ Refuse(t, Found(docs[d]))
       \/ /\ docs[d] # NoRow
          /\ docs' = [docs EXCEPT ![d] = NoRow]
          /\ revs' = {h \in revs : h.doc # d}
          /\ projects' = [p \in Projects |->
                            IF projects[p] # NoRow /\ projects[p].entry = d
                            THEN [projects[p] EXCEPT !.entry = NoRow] ELSE projects[p]]
          /\ InsertAudit(t) /\ Reply(t, "ok")
          /\ UNCHANGED <<members, refs, fulltexts, links, written, blobs, raced>>

-----------------------------------------------------------------------------
(* Reads. *)

(* A revision is scoped to the document named in the path. *)
RevisionFor(q) ==
    Then(ForProject(q.project, docs[q.doc]),
    Then(If(\E h \in revs : h.doc = q.of, "notfound"),
         If(q.of = q.doc, "notfound")))

(* Which answers check the membership again, and what they look up. *)
ReadCode(q) ==
    CASE q.op \in {"get_project", "list_members", "get_my_membership"} ->
            Then(Found(projects[q.project]), ProjectAccess(q.project, q.user, "read"))
      [] q.op = "list_share_links" ->
            Then(If(Permitted(q.user, "manage"), "forbidden"), Found(projects[q.project]))
      [] OTHER ->
            Then(If(Permitted(q.user, "read"), "forbidden"),
                 CASE q.op \in {"get_document", "list_document_history"} ->
                        ForProject(q.project, docs[q.doc])
                   [] q.op = "get_document_revision" -> RevisionFor(q)
                   [] q.op = "get_reference" -> ForProject(q.project, refs[q.ref])
                   [] q.op = "get_fulltext"  ->
                        Then(ForProject(q.project, refs[q.ref]), Found(fulltexts[q.ref]))
                   [] OTHER -> Found(projects[q.project]))

(* The projects of the rows the answer is made of. *)
ProjectsOf(rows, keys) == {rows[x].project : x \in {x \in keys : rows[x] # NoRow}}

Returned(q) ==
    LET listed(rows) == {x \in DOMAIN rows : rows[x] # NoRow /\ rows[x].project = q.project}
    IN  CASE q.op \in {"get_project", "list_members", "get_my_membership"} -> {q.project}
          [] q.op = "get_document"  -> ProjectsOf(docs, {q.doc})
          [] q.op = "list_document_history" -> {h.project : h \in {h \in revs : h.doc = q.doc}}
          [] q.op = "get_document_revision" -> {h.project : h \in {h \in revs : h.doc = q.of}}
          [] q.op \in {"get_reference", "get_fulltext"} -> ProjectsOf(refs, {q.ref})
          [] q.op = "list_documents"   -> ProjectsOf(docs, listed(docs))
          [] q.op = "list_references"  -> ProjectsOf(refs, listed(refs))
          [] q.op = "list_fulltexts"   ->
                ProjectsOf(refs, {r \in listed(refs) : fulltexts[r] # NoRow})
          [] q.op = "list_share_links" -> ProjectsOf(links, listed(links))
          [] OTHER -> {Target(u) : u \in {u \in audited : Target(u) = q.project}}

ReadRows(t) ==
    /\ req[t].op \in Reads /\ pc[t] = "admitted"
    /\ \/ Refuse(t, ReadCode(req[t]))
       \/ /\ ReadCode(req[t]) = "ok"
          /\ row' = [row EXCEPT ![t] = Returned(req[t])]
          /\ pc' = [pc EXCEPT ![t] = "done"] /\ resp' = [resp EXCEPT ![t] = "ok"]
          /\ UNCHANGED <<req, tables, blobs, raced>>

(* The projects the caller has a membership of, under either of its names. *)
ListProjects(t) ==
    /\ At(t, "list_projects", "admitted")
    /\ LET u == req[t].user IN
       \/ Refuse(t, If(Permitted(u, "read"), "forbidden"))
       \/ /\ Permitted(u, "read")
          /\ row' = [row EXCEPT ![t] =
                {p \in Projects : projects[p] # NoRow /\ RoleOf(p, u) # NoRole}]
          /\ pc' = [pc EXCEPT ![t] = "done"] /\ resp' = [resp EXCEPT ![t] = "ok"]
          /\ UNCHANGED <<req, tables, blobs, raced>>

DocumentStep(t) ==
    \/ CreateDocumentInsert(t) \/ PatchDocumentLoad(t) \/ PatchDocumentCommit(t) \/ SaveHistory(t)
    \/ DeleteDocumentLoad(t) \/ DeleteDocumentCommit(t) \/ ReadRows(t) \/ ListProjects(t)
=============================================================================
