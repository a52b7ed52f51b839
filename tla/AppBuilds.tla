----------------------------- MODULE AppBuilds ------------------------------
(***************************************************************************)
(* Previews, compiles and exports in services/app/src/lib.rs: they read    *)
(* the project in several calls, ask the sync service for the live state   *)
(* of every document and the compile service for a build.                  *)
(***************************************************************************)
EXTENDS AppStore, AppSources

CONSTANT LiveStates     \* what the sync service may hold of a document: records
                        \* with body and marked, or NoRow for nothing

OfDocs(p) == {d \in Docs : docs[d] # NoRow /\ docs[d].project = p}
OfRefs(p) == {r \in Refs : refs[r] # NoRow /\ refs[r].project = p}

(* gather_documents: one list of the rows; the text and marks of a         *)
(* document that the sync service holds replace the stored body.           *)
Gathered(p, live) ==
    {[id |-> d, path |-> docs[d].path,
      body |-> IF live[d] = NoRow THEN docs[d].body ELSE live[d].body,
      marked |-> live[d] # NoRow /\ live[d].marked] : d \in OfDocs(p)}

(* Every answer of the sync service about the project's documents. *)
LiveOf(p) == [OfDocs(p) -> LiveStates]

(* The draft of the document that is being edited replaces its text and    *)
(* its marks.                                                              *)
WithDraft(gathered, q) ==
    {IF d.id = q.draft THEN [d EXCEPT !.body = q.body, !.marked = q.marked] ELSE d : d \in gathered}

(* capture_preview_inputs reads the project, then its references ... *)
PreviewLoad(t) ==
    /\ At(t, "project_preview", "admitted")
    /\ LET p == req[t].project
           code == Then(Found(projects[p]), ProjectAccess(p, req[t].user, "read")) IN
       \/ Refuse(t, code)
       \/ /\ code = "ok" /\ Read(t, [entry |-> projects[p].entry, refs |-> OfRefs(p)], "load")
          /\ UNCHANGED <<tables, blobs, raced>>

(* ... then its documents, and prepares what the compiler is given. *)
PreviewCapture(t) ==
    /\ At(t, "project_preview", "load")
    /\ \E live \in LiveOf(req[t].project) :
       LET gathered == Gathered(req[t].project, live)
           ids == {d.id : d \in gathered}
           code == Then(If(gathered # {}, "bad"),
                        If(req[t].draft = NoDoc \/ req[t].draft \in ids, "notfound")) IN
       \/ Refuse(t, code)
       \/ /\ code = "ok"
          /\ Read(t, PrepareProjectSources(PreviewEntry(gathered, row[t].entry), req[t].view,
                                           WithDraft(gathered, req[t]), row[t].refs), "build")
          /\ UNCHANGED <<tables, blobs, raced>>

(* The compile service refuses an entry that is not among the sources. *)
Compile(request) == If(request.entry \in DOMAIN request.sources, "bad")

PreviewBuild(t) ==
    /\ At(t, "project_preview", "build")
    /\ Reply(t, Compile(row[t])) /\ UNCHANGED <<tables, blobs, raced>>

-----------------------------------------------------------------------------
(* A compile of sources the client sends: the sources are its own, the     *)
(* bibliography the project's.                                             *)
ApiCompile(t) ==
    /\ At(t, "api_compile", "admitted")
    /\ LET q == req[t]
           code == Then(ProjectAccess(q.project, q.user, "read"), If(q.entry \in q.paths, "bad"))
           own == {[id |-> NoDoc, path |-> p, body |-> q.body, marked |-> q.marked] : p \in q.paths} IN
       \/ Refuse(t, code)
       \/ /\ code = "ok"
          /\ Read(t, PrepareProjectSources(q.entry, q.view, own, OfRefs(q.project)), "build")
          /\ UNCHANGED <<tables, blobs, raced>>

ApiCompileBuild(t) ==
    At(t, "api_compile", "build") /\ Compile(row[t]) = "ok" /\ AppendAudit(t, "build")

-----------------------------------------------------------------------------
(* An export checks its entry in one list of the documents and is made of  *)
(* another.                                                                *)
ExportCheck(t) ==
    /\ At(t, "export_project", "admitted")
    /\ LET q == req[t]
           code == Then(If(Permitted(q.user, "document"), "forbidden"),
                   Then(Found(projects[q.project]),
                        If(\E d \in OfDocs(q.project) : docs[d].path = q.entry, "bad"))) IN
       \/ Refuse(t, code)
       \/ /\ code = "ok" /\ Read(t, [refs |-> OfRefs(q.project)], "load")
          /\ UNCHANGED <<tables, blobs, raced>>

ExportGather(t) ==
    /\ At(t, "export_project", "load")
    /\ \E live \in LiveOf(req[t].project) :
       LET gathered == Gathered(req[t].project, live)
           cited == IF req[t].fulltexts THEN Cited(gathered, row[t].refs) ELSE {} IN
       Read(t, [docs |-> gathered, refs |-> row[t].refs, todo |-> cited, next |-> NoDoc,
                pdfs |-> {}, missing |-> {}], "fetch")
    /\ UNCHANGED <<tables, blobs, raced>>

(* fetch_fulltext of the next cited reference: the row, then the blob.  A  *)
(* missing row is remembered; S3BlobStore answers a missing object with a  *)
(* failure, which ends the export.                                         *)
ExportFetchRow(t) ==
    /\ At(t, "export_project", "fetch")
    /\ \E r \in row[t].todo :
         IF fulltexts[r] = NoRow
           THEN Read(t, [row[t] EXCEPT !.todo = @ \ {r}, !.missing = @ \cup {r}], "fetch")
           ELSE Read(t, [row[t] EXCEPT !.todo = @ \ {r}, !.next = r], "blob")
    /\ UNCHANGED <<tables, blobs, raced>>

ExportFetchBlob(t) ==
    /\ At(t, "export_project", "blob")
    /\ LET r == row[t].next IN
       IF blobs[r] = NoRow THEN Reply(t, "unavailable")
                           ELSE Read(t, [row[t] EXCEPT !.pdfs = @ \cup {r}], "fetch")
    /\ UNCHANGED <<tables, blobs, raced>>

(* Nothing is built unless every cited full text was there. *)
ExportBuild(t) ==
    /\ At(t, "export_project", "fetch") /\ row[t].todo = {}
    /\ LET request == PrepareProjectSources(req[t].entry, req[t].view, row[t].docs, row[t].refs)
           code == Then(If(row[t].missing = {}, "conflict"), Compile(request)) IN
       \/ Refuse(t, code)
       \/ /\ code = "ok"
          /\ Read(t, [docs |-> row[t].docs, refs |-> row[t].refs, pdfs |-> row[t].pdfs,
                      request |-> request], "built")
          /\ UNCHANGED <<tables, blobs, raced>>

ExportAudit(t) == req[t].op = "export_project" /\ AppendAudit(t, "built")

BuildStep(t) ==
    \/ PreviewLoad(t) \/ PreviewCapture(t) \/ PreviewBuild(t)
    \/ ApiCompile(t) \/ ApiCompileBuild(t)
    \/ ExportCheck(t) \/ ExportGather(t) \/ ExportFetchRow(t) \/ ExportFetchBlob(t)
    \/ ExportBuild(t) \/ ExportAudit(t)
=============================================================================
