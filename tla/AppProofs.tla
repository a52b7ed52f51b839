----------------------------- MODULE AppProofs ------------------------------
(***************************************************************************)
(* The six properties of the app service, for any tasks, users, rows and   *)
(* requests that satisfy the assumptions of AppStore, AppSources and App.  *)
(*                                                                         *)
(* The inductive invariant AppInv says what a handler knows at each of its *)
(* awaits: the row it has read may be stale, but a row that is still there *)
(* belongs to the project it was looked up in, because a project never     *)
(* gives a row away and an id that was used once is never used again.      *)
(***************************************************************************)
EXTENDS App, TLAPS

(* The task is past the step that creates what it creates. *)
Past(t) == pc[t] \notin {"received", "admitted"}

(* Nobody is going to create it any more. *)
DocKnown(d) == \A t \in Tasks : req[t].op = "create_document" /\ req[t].doc = d => Past(t)
RefKnown(r) == \A t \in Tasks : req[t].op = "create_reference" /\ req[t].ref = r => Past(t)
LinkKnown(k) == \A t \in Tasks : req[t].op = "create_share_link" /\ req[t].link = k => Past(t)

TaskOK ==
    /\ DOMAIN pc = Tasks /\ DOMAIN row = Tasks /\ DOMAIN resp = Tasks
    /\ req \in [Tasks -> Requests] /\ FreshIds(req)
    /\ \A t \in Tasks : pc[t] # "done" => resp[t] = ""

-----------------------------------------------------------------------------
(* Documents. *)

(* What was ever committed is not ahead of the row, nor of another project. *)
DocsOK ==
    /\ DOMAIN docs = Docs
    /\ \A d \in Docs : docs[d] # NoRow => docs[d].rev \in Nat /\ Revision(d, docs[d]) \in written
    /\ \A w \in written :
         /\ w.doc \in Docs /\ w.rev \in Nat /\ DocKnown(w.doc)
         /\ docs[w.doc] # NoRow => w.rev <= docs[w.doc].rev /\ w.project = docs[w.doc].project

(* A handler's document is still in the project it was looked up in. *)
OwnDoc(t) ==
    /\ DocKnown(req[t].doc)
    /\ docs[req[t].doc] # NoRow => docs[req[t].doc].project = req[t].project

(* A row that waits to be committed is not newer than the table's next     *)
(* revision, and if it is that one it differs in the fields it sets only.  *)
SavesOK ==
    \A t \in Tasks : At(t, "patch_document", "commit") =>
        LET d == req[t].doc IN
        /\ OwnDoc(t) /\ row[t].rev \in Nat /\ row[t].rev >= 1 /\ row[t].project = req[t].project
        /\ docs[d] # NoRow =>
             /\ row[t].rev - 1 <= docs[d].rev
             /\ docs[d].rev = row[t].rev - 1 =>
                  \A f \in {"path", "title", "body"} \ DOMAIN req[t].set : row[t][f] = docs[d][f]

DeletesOK == \A t \in Tasks : At(t, "delete_document", "commit") => OwnDoc(t)

(* A copy for the history is of something committed. *)
CopiesOK ==
    \A t \in Tasks : req[t].op \in {"create_document", "patch_document"} /\ pc[t] = "more" =>
        Revision(req[t].doc, row[t]) \in written

DocInv == DocsOK /\ SavesOK /\ DeletesOK /\ CopiesOK /\ HistoryFaithful

PathsOK ==
    \A d, e \in Docs : d # e /\ docs[d] # NoRow /\ docs[e] # NoRow =>
        docs[d].project # docs[e].project \/ docs[d].path # docs[e].path

(* The entry of a project, or the one it is about to get. *)
OwnEntry(p, d) ==
    d # NoRow => d \in Docs /\ DocKnown(d) /\ (docs[d] # NoRow => docs[d].project = p)

EntriesOK ==
    /\ DOMAIN projects = Projects
    /\ \A p \in Projects : projects[p] # NoRow => OwnEntry(p, projects[p].entry)
    /\ \A t \in Tasks : At(t, "patch_project", "commit") => OwnEntry(req[t].project, row[t].entry)

-----------------------------------------------------------------------------
(* References and full texts. *)

RefsOK ==
    /\ DOMAIN refs = Refs /\ DOMAIN fulltexts = Refs /\ DOMAIN blobs = Refs
    /\ \A r \in Refs : /\ refs[r] # NoRow => refs[r] \in RefRow /\ RefKnown(r)
                       /\ fulltexts[r] # NoRow => refs[r] # NoRow

OwnRef(r, p) == r \in Refs /\ RefKnown(r) /\ (refs[r] # NoRow => refs[r].project = p)

LoadedOps == {"patch_reference", "delete_reference", "put_fulltext", "delete_fulltext"}

RefTask(t) ==
    /\ req[t].op \in LoadedOps /\ pc[t] \in {"load", "commit", "more"} => OwnRef(req[t].ref, req[t].project)
    /\ At(t, "patch_reference", "load") => row[t] \in RefRow /\ row[t].project = req[t].project
    /\ At(t, "delete_reference", "more") => refs[req[t].ref] = NoRow
    /\ At(t, "delete_project", "commit") => \A r \in row[t] : OwnRef(r, req[t].project)
    /\ At(t, "delete_project", "more") => \A r \in row[t] : OwnRef(r, req[t].project) /\ refs[r] = NoRow

(* Between the two halves of an upload or a deletion, one of them may be   *)
(* undone only by the other, and then the reference is among the raced.    *)
Halves(t) ==
    LET r == req[t].ref IN
    /\ At(t, "delete_fulltext", "more") => fulltexts[r] = NoRow \/ r \in raced
    /\ At(t, "put_fulltext", "commit") => blobs[r] # NoRow \/ r \in raced \/ refs[r] = NoRow

RefInv == RefsOK /\ (\A t \in Tasks : RefTask(t) /\ Halves(t)) /\ DanglingOnlyByRace

-----------------------------------------------------------------------------
(* Memberships and share links. *)

OwnLink(t) ==
    /\ LinkKnown(req[t].link)
    /\ links[req[t].link] # NoRow => links[req[t].link].project = req[t].project

(* What is about to be granted is no more than the link and the token give. *)
Clamped(t) ==
    /\ row[t].link \in Given(req[t].link) \ {NoRow}
    /\ Rank[row[t].role] <= Rank[row[t].link.role]
    /\ row[t].role = "read-only" \/ Rank[row[t].role] <= Rank[IdpRole[req[t].user]]

LinksOK ==
    /\ DOMAIN links = Links
    /\ \A k \in Links : links[k] # NoRow => links[k] \in LinkRow \cap Given(k) /\ LinkKnown(k)

LinkTask(t) ==
    /\ At(t, "delete_share_link", "commit") => OwnLink(t)
    /\ At(t, "redeem_share_link", "load") => row[t] \in RedeemRow /\ Clamped(t)
    /\ At(t, "redeem_share_link", "commit") => row[t] \in UpgradeRow /\ Clamped(t)
    /\ At(t, "add_member", "commit") => req[t].role # "owner"

MembersOK ==
    members \in [Projects -> [Names -> MembershipRoles \cup {NoRole}]] /\ RolesGranted

LinkInv == LinksOK /\ (\A t \in Tasks : LinkTask(t)) /\ MembersOK

-----------------------------------------------------------------------------
(* Builds. *)

(* What PrepareProjectSources promises. *)
Prepared(b) ==
    /\ \A p \in DOMAIN b.sources : b.sources[p].redline =>
          b.sources[p].import \/ p = ReviewIn[DirOf[p]] \/ p \notin Typst
    /\ \A p \in DOMAIN b.sources : b.sources[p].import => ReviewIn[DirOf[p]] \in DOMAIN b.sources

OnePath(rows) == \A d, e \in rows : d.path = e.path => d = e

Wanted(t) == IF req[t].fulltexts THEN Cited(row[t].docs, row[t].refs) ELSE {}

(* An export knows of every full text it wants whether it has it. *)
BuildTask(t) ==
    /\ req[t].op \in {"project_preview", "api_compile"} /\ pc[t] = "build" => Prepared(row[t])
    /\ req[t].op = "export_project" /\ pc[t] \in {"fetch", "blob"} =>
         /\ DOMAIN row[t] = {"docs", "refs", "todo", "next", "pdfs", "missing"} /\ OnePath(row[t].docs)
         /\ row[t].todo \cup row[t].pdfs \cup row[t].missing \cup
              (IF pc[t] = "blob" THEN {row[t].next} ELSE {}) = Wanted(t)
    /\ At(t, "export_project", "built") =>
         LET b == row[t].request IN
         /\ Prepared(b) /\ b.entry \in DOMAIN b.sources /\ row[t].pdfs = Wanted(t)
         /\ \A d \in row[t].docs : b.sources[d.path].of = d.id

BuildInv == (\A t \in Tasks : BuildTask(t)) /\ BuildsComplete

AppInv == TaskOK /\ DocInv /\ PathsOK /\ EntriesOK /\ RefInv /\ LinkInv /\ BuildInv

-----------------------------------------------------------------------------
(* What a step of a task leaves alone. *)

(* Only the task moves, forward, and it is new to nothing twice. *)
Shape(t) ==
    /\ req' = req /\ DOMAIN pc' = Tasks /\ DOMAIN row' = Tasks /\ DOMAIN resp' = Tasks
    /\ \A u \in Tasks \ {t} : pc'[u] = pc[u] /\ row'[u] = row[u] /\ resp'[u] = resp[u]
    /\ pc[t] # "done" /\ pc'[t] # "received" /\ (pc'[t] = "admitted" => pc[t] = "received")
    /\ pc'[t] # "done" => resp'[t] = resp[t]

(* Admitted, or refused: nothing was read. *)
Calm(t) == pc'[t] \in {"admitted", "done"}

(* The actions that are about documents, and what the others do to them;   *)
(* the same for entries, references, memberships and links, and builds.    *)
DocWork(t) ==
    \/ CreateDocumentInsert(t) \/ PatchDocumentLoad(t) \/ PatchDocumentCommit(t) \/ SaveHistory(t)
    \/ DeleteDocumentLoad(t) \/ DeleteDocumentCommit(t) \/ DeleteProjectCommit(t)

DocQuiet(t) ==
    /\ UNCHANGED <<docs, revs, written>>
    /\ req[t].op \in {"create_document", "patch_document", "delete_document"} => Calm(t)

EntryWork(t) ==
    CreateProject(t) \/ PatchProjectLoad(t) \/ PatchProjectCommit(t) \/ DeleteProjectCommit(t) \/ DeleteDocumentCommit(t)

EntryQuiet(t) == UNCHANGED projects /\ (req[t].op = "patch_project" => Calm(t))

RefWork(t) == FileStep(t) \/ DeleteProjectLoad(t) \/ DeleteProjectCommit(t) \/ DeleteProjectBlobs(t)

RefQuiet(t) ==
    /\ UNCHANGED <<refs, fulltexts, blobs, raced>>
    /\ req[t].op \in LoadedOps \cup {"create_reference", "delete_project"} => Calm(t)

LinkWork(t) ==
    \/ CreateProjectOwner(t) \/ DeleteProjectCommit(t) \/ AddMember(t) \/ AddMemberCommit(t)
    \/ RemoveMemberCommit(t) \/ CreateShareLink(t) \/ RevokeShareLink(t) \/ RevokeShareLinkCommit(t)
    \/ RedeemShareLink(t) \/ RedeemReadsMembership(t) \/ RedeemCommit(t) \/ AuditAccess(t)

LinkQuiet(t) ==
    /\ UNCHANGED <<members, links>>
    /\ req[t].op \in LinkOps \cup {"add_member"} => Calm(t)

BuildOps == {"project_preview", "api_compile", "export_project"}

BuildQuiet(t) == req[t].op \in BuildOps => Calm(t) /\ resp'[t] # "ok"

Frame(t) ==
    /\ Shape(t)
    /\ DocWork(t) \/ DocQuiet(t)
    /\ EntryWork(t) \/ EntryQuiet(t)
    /\ RefWork(t) \/ RefQuiet(t)
    /\ LinkWork(t) \/ LinkQuiet(t)
    /\ BuildStep(t) \/ BuildQuiet(t)

(* Steps that are about none of these. *)
LEMMA IdleFrame ==
    ASSUME TaskOK, NEW t \in Tasks,
           \/ ProjectAcl(t) \/ Fail(t) \/ AuthorizeSyncDocument(t)
           \/ AuthorizeReadsMembership(t) \/ ReadRows(t) \/ ListProjects(t)
           \/ RemoveMember(t)
    PROVE  Shape(t) /\ DocQuiet(t) /\ EntryQuiet(t) /\ RefQuiet(t) /\ LinkQuiet(t) /\ BuildQuiet(t)
<1> USE DEF Shape, Calm, DocQuiet, EntryQuiet, RefQuiet, LinkQuiet, BuildQuiet, At, Refuse, Reply, Goto, Read, tables, InsertAudit, TaskOK, BuildOps, LoadedOps, LinkOps
<1>1. CASE ProjectAcl(t)
  BY <1>1 DEF ProjectAcl
<1>2. CASE Fail(t)
  BY <1>2 DEF Fail
<1>3. CASE AuthorizeSyncDocument(t)
  BY <1>3 DEF AuthorizeSyncDocument
<1>4. CASE AuthorizeReadsMembership(t)
  BY <1>4 DEF AuthorizeReadsMembership
<1>5. CASE ReadRows(t)
  BY <1>5 DEF ReadRows, Reads
<1>6. CASE ListProjects(t)
  BY <1>6 DEF ListProjects
<1>7. CASE RemoveMember(t)
  BY <1>7 DEF RemoveMember
<1> QED BY <1>1, <1>2, <1>3, <1>4, <1>5, <1>6, <1>7

(* Projects. *)
LEMMA EntryFrame ==
    ASSUME TaskOK, NEW t \in Tasks,
           \/ CreateProject(t) \/ PatchProjectLoad(t) \/ PatchProjectCommit(t)
    PROVE  Shape(t) /\ DocQuiet(t) /\ RefQuiet(t) /\ LinkQuiet(t) /\ BuildQuiet(t)
<1> USE DEF Shape, Calm, DocQuiet, RefQuiet, LinkQuiet, BuildQuiet, At, Refuse, Reply, Goto, Read, tables, InsertAudit, TaskOK, BuildOps, LoadedOps, LinkOps
<1>1. CASE CreateProject(t)
  BY <1>1 DEF CreateProject
<1>2. CASE PatchProjectLoad(t)
  BY <1>2 DEF PatchProjectLoad
<1>3. CASE PatchProjectCommit(t)
  BY <1>3 DEF PatchProjectCommit
<1> QED BY <1>1, <1>2, <1>3

(* The end of a project. *)
LEMMA CascadeFrame ==
    ASSUME TaskOK, NEW t \in Tasks,
           \/ DeleteProjectCommit(t)
    PROVE  Shape(t) /\ BuildQuiet(t)
<1> USE DEF Shape, Calm, BuildQuiet, At, Refuse, Reply, Goto, Read, tables, InsertAudit, TaskOK, BuildOps
<1>1. CASE DeleteProjectCommit(t)
  BY <1>1 DEF DeleteProjectCommit
<1> QED BY <1>1

(* The end of a document. *)
LEMMA DeleteDocFrame ==
    ASSUME TaskOK, NEW t \in Tasks,
           \/ DeleteDocumentCommit(t)
    PROVE  Shape(t) /\ RefQuiet(t) /\ LinkQuiet(t) /\ BuildQuiet(t)
<1> USE DEF Shape, Calm, RefQuiet, LinkQuiet, BuildQuiet, At, Refuse, Reply, Goto, Read, tables, InsertAudit, TaskOK, BuildOps, LoadedOps, LinkOps
<1>1. CASE DeleteDocumentCommit(t)
  BY <1>1 DEF DeleteDocumentCommit
<1> QED BY <1>1

(* Memberships and links. *)
LEMMA LinkFrame ==
    ASSUME TaskOK, NEW t \in Tasks,
           \/ CreateProjectOwner(t) \/ AddMember(t) \/ AddMemberCommit(t)
           \/ RemoveMemberCommit(t) \/ CreateShareLink(t) \/ RevokeShareLink(t)
           \/ RevokeShareLinkCommit(t) \/ RedeemShareLink(t) \/ RedeemReadsMembership(t)
           \/ RedeemCommit(t) \/ AuditAccess(t)
    PROVE  Shape(t) /\ DocQuiet(t) /\ EntryQuiet(t) /\ RefQuiet(t) /\ BuildQuiet(t)
<1> USE DEF Shape, Calm, DocQuiet, EntryQuiet, RefQuiet, BuildQuiet, At, Refuse, Reply, Goto, Read, tables, InsertAudit, TaskOK, BuildOps, LoadedOps
<1>1. CASE CreateProjectOwner(t)
  BY <1>1 DEF CreateProjectOwner
<1>2. CASE AddMember(t)
  BY <1>2 DEF AddMember
<1>3. CASE AddMemberCommit(t)
  BY <1>3 DEF AddMemberCommit
<1>4. CASE RemoveMemberCommit(t)
  BY <1>4 DEF RemoveMemberCommit
<1>5. CASE CreateShareLink(t)
  BY <1>5 DEF CreateShareLink
<1>6. CASE RevokeShareLink(t)
  BY <1>6 DEF RevokeShareLink
<1>7. CASE RevokeShareLinkCommit(t)
  BY <1>7 DEF RevokeShareLinkCommit
<1>8. CASE RedeemShareLink(t)
  BY <1>8 DEF RedeemShareLink
<1>9. CASE RedeemReadsMembership(t)
  BY <1>9 DEF RedeemReadsMembership
<1>10. CASE RedeemCommit(t)
  BY <1>10 DEF RedeemCommit
<1>11. CASE AuditAccess(t)
  BY <1>11 DEF AuditAccess, AppendAudit
<1> QED BY <1>1, <1>2, <1>3, <1>4, <1>5, <1>6, <1>7, <1>8, <1>9, <1>10, <1>11

(* Documents. *)
LEMMA DocFrame ==
    ASSUME TaskOK, NEW t \in Tasks,
           \/ CreateDocumentInsert(t) \/ PatchDocumentLoad(t) \/ PatchDocumentCommit(t)
           \/ SaveHistory(t) \/ DeleteDocumentLoad(t)
    PROVE  Shape(t) /\ EntryQuiet(t) /\ RefQuiet(t) /\ LinkQuiet(t) /\ BuildQuiet(t)
<1> USE DEF Shape, Calm, EntryQuiet, RefQuiet, LinkQuiet, BuildQuiet, At, Refuse, Reply, Goto, Read, tables, InsertAudit, TaskOK, BuildOps, LoadedOps, LinkOps
<1>1. CASE CreateDocumentInsert(t)
  BY <1>1 DEF CreateDocumentInsert
<1>2. CASE PatchDocumentLoad(t)
  BY <1>2 DEF PatchDocumentLoad
<1>3. CASE PatchDocumentCommit(t)
  BY <1>3 DEF PatchDocumentCommit
<1>4. CASE SaveHistory(t)
  BY <1>4 DEF SaveHistory
<1>5. CASE DeleteDocumentLoad(t)
  BY <1>5 DEF DeleteDocumentLoad
<1> QED BY <1>1, <1>2, <1>3, <1>4, <1>5

(* References and full texts. *)
LEMMA RefFrame ==
    ASSUME TaskOK, NEW t \in Tasks,
           \/ DeleteProjectLoad(t) \/ DeleteProjectBlobs(t) \/ CreateReferenceInsert(t)
           \/ PatchReferenceLoad(t) \/ PatchReferenceCommit(t) \/ DeleteReferenceLoad(t)
           \/ DeleteReferenceCommit(t) \/ PutFulltextLoad(t) \/ PutFulltextBlob(t)
           \/ PutFulltextRow(t) \/ DeleteFulltextLoad(t) \/ DeleteFulltextRow(t)
           \/ DeleteBlob(t)
    PROVE  Shape(t) /\ DocQuiet(t) /\ EntryQuiet(t) /\ LinkQuiet(t) /\ BuildQuiet(t)
<1> USE DEF Shape, Calm, DocQuiet, EntryQuiet, LinkQuiet, BuildQuiet, At, Refuse, Reply, Goto, Read, tables, InsertAudit, TaskOK, BuildOps, LinkOps
<1>1. CASE DeleteProjectLoad(t)
  BY <1>1 DEF DeleteProjectLoad
<1>2. CASE DeleteProjectBlobs(t)
  BY <1>2 DEF DeleteProjectBlobs
<1>3. CASE CreateReferenceInsert(t)
  BY <1>3 DEF CreateReferenceInsert
<1>4. CASE PatchReferenceLoad(t)
  BY <1>4 DEF PatchReferenceLoad, ReferenceForProject
<1>5. CASE PatchReferenceCommit(t)
  BY <1>5 DEF PatchReferenceCommit
<1>6. CASE DeleteReferenceLoad(t)
  BY <1>6 DEF DeleteReferenceLoad, ReferenceForProject
<1>7. CASE DeleteReferenceCommit(t)
  BY <1>7 DEF DeleteReferenceCommit
<1>8. CASE PutFulltextLoad(t)
  BY <1>8 DEF PutFulltextLoad, ReferenceForProject
<1>9. CASE PutFulltextBlob(t)
  BY <1>9 DEF PutFulltextBlob
<1>10. CASE PutFulltextRow(t)
  BY <1>10 DEF PutFulltextRow
<1>11. CASE DeleteFulltextLoad(t)
  BY <1>11 DEF DeleteFulltextLoad, ReferenceForProject
<1>12. CASE DeleteFulltextRow(t)
  BY <1>12 DEF DeleteFulltextRow
<1>13. CASE DeleteBlob(t)
  BY <1>13 DEF DeleteBlob
<1> QED BY <1>1, <1>2, <1>3, <1>4, <1>5, <1>6, <1>7, <1>8, <1>9, <1>10, <1>11, <1>12, <1>13

(* Builds. *)
LEMMA BuildFrame ==
    ASSUME TaskOK, NEW t \in Tasks,
           \/ PreviewLoad(t) \/ PreviewCapture(t) \/ PreviewBuild(t) \/ ApiCompile(t)
           \/ ApiCompileBuild(t) \/ ExportCheck(t) \/ ExportGather(t) \/ ExportFetchRow(t)
           \/ ExportFetchBlob(t) \/ ExportBuild(t) \/ ExportAudit(t)
    PROVE  Shape(t) /\ DocQuiet(t) /\ EntryQuiet(t) /\ RefQuiet(t) /\ LinkQuiet(t)
<1> USE DEF Shape, Calm, DocQuiet, EntryQuiet, RefQuiet, LinkQuiet, At, Refuse, Reply, Goto, Read, tables, InsertAudit, TaskOK, LoadedOps, LinkOps
<1>1. CASE PreviewLoad(t)
  BY <1>1 DEF PreviewLoad
<1>2. CASE PreviewCapture(t)
  BY <1>2 DEF PreviewCapture
<1>3. CASE PreviewBuild(t)
  BY <1>3 DEF PreviewBuild
<1>4. CASE ApiCompile(t)
  BY <1>4 DEF ApiCompile
<1>5. CASE ApiCompileBuild(t)
  BY <1>5 DEF ApiCompileBuild, AppendAudit
<1>6. CASE ExportCheck(t)
  BY <1>6 DEF ExportCheck
<1>7. CASE ExportGather(t)
  BY <1>7 DEF ExportGather
<1>8. CASE ExportFetchRow(t)
  BY <1>8 DEF ExportFetchRow
<1>9. CASE ExportFetchBlob(t)
  BY <1>9 DEF ExportFetchBlob
<1>10. CASE ExportBuild(t)
  BY <1>10 DEF ExportBuild
<1>11. CASE ExportAudit(t)
  BY <1>11 DEF ExportAudit, AppendAudit
<1> QED BY <1>1, <1>2, <1>3, <1>4, <1>5, <1>6, <1>7, <1>8, <1>9, <1>10, <1>11

LEMMA StepFrame == ASSUME TaskOK, NEW t \in Tasks, Step(t) PROVE Frame(t)
<1> USE DEF Frame
<1>1. CASE ProjectAcl(t) \/ Fail(t) \/ AuthorizeSyncDocument(t) \/ AuthorizeReadsMembership(t) \/ ReadRows(t) \/ ListProjects(t) \/ RemoveMember(t)
  BY <1>1, IdleFrame
<1>2. CASE CreateProject(t) \/ PatchProjectLoad(t) \/ PatchProjectCommit(t)
  BY <1>2, EntryFrame DEF EntryWork
<1>3. CASE DeleteProjectCommit(t)
  BY <1>3, CascadeFrame DEF DocWork, EntryWork, RefWork, LinkWork
<1>4. CASE DeleteDocumentCommit(t)
  BY <1>4, DeleteDocFrame DEF DocWork, EntryWork
<1>5. CASE \/ CreateProjectOwner(t) \/ AddMember(t) \/ AddMemberCommit(t) \/ RemoveMemberCommit(t)
           \/ CreateShareLink(t) \/ RevokeShareLink(t) \/ RevokeShareLinkCommit(t) \/ RedeemShareLink(t)
           \/ RedeemReadsMembership(t) \/ RedeemCommit(t) \/ AuditAccess(t)
  BY <1>5, LinkFrame DEF LinkWork
<1>6. CASE \/ CreateDocumentInsert(t) \/ PatchDocumentLoad(t) \/ PatchDocumentCommit(t)
           \/ SaveHistory(t) \/ DeleteDocumentLoad(t)
  BY <1>6, DocFrame DEF DocWork
<1>7. CASE FileStep(t) \/ DeleteProjectLoad(t) \/ DeleteProjectBlobs(t)
  <2>1. RefWork(t)
    BY <1>7 DEF RefWork
  <2> QED BY <1>7, <2>1, RefFrame DEF FileStep
<1>8. CASE BuildStep(t)
  BY <1>8, BuildFrame DEF BuildStep
<1> QED BY <1>1, <1>2, <1>3, <1>4, <1>5, <1>6, <1>7, <1>8 DEF Step, ProjectStep, DocumentStep

-----------------------------------------------------------------------------
(* The tasks. *)

LEMMA TaskInit == Init => TaskOK
BY DEF Init, TaskOK, Requests

LEMMA TaskNext == ASSUME TaskOK, NEW t \in Tasks, Shape(t) PROVE TaskOK'
BY DEF TaskOK, Shape

(* What is known stays known. *)
LEMMA KnownStays ==
    ASSUME TaskOK, NEW t \in Tasks, Shape(t)
    PROVE  /\ \A d : DocKnown(d) => DocKnown(d)'
           /\ \A r : RefKnown(r) => RefKnown(r)'
           /\ \A k : LinkKnown(k) => LinkKnown(k)'
<1>1. \A u \in Tasks : Past(u) => Past(u)'
  BY DEF TaskOK, Shape, Past
<1> QED BY <1>1 DEF DocKnown, RefKnown, LinkKnown, Shape

(* What the requests of two tasks create is not the same. *)
LEMMA Creators ==
    ASSUME TaskOK, NEW t \in Tasks, NEW u \in Tasks, req[t].op = req[u].op, t # u
    PROVE  /\ req[t].op = "create_document" => req[t].doc # req[u].doc
           /\ req[t].op = "create_reference" => req[t].ref # req[u].ref
           /\ req[t].op = "create_share_link" => req[t].link # req[u].link
<1>1. req[t] \in Requests /\ req[u] \in Requests
  BY DEF TaskOK
<1>2. NewId(req[t]) # NoRow => NewId(req[t]) # NewId(req[u])
  BY DEF TaskOK, FreshIds
<1>3. CASE req[t].op = "create_document"
  BY <1>1, <1>2, <1>3, RequestAssumption, AppAssumption DEF NewId, DocOps
<1>4. CASE req[t].op = "create_reference"
  BY <1>1, <1>2, <1>4, RequestAssumption DEF NewId, RefOps
<1>5. CASE req[t].op = "create_share_link"
  BY <1>1, <1>2, <1>5, RequestAssumption DEF NewId, LinkOps
<1> QED BY <1>3, <1>4, <1>5

-----------------------------------------------------------------------------
(* Documents. *)

LEMMA DocInit == Init => DocInv
<1> SUFFICES ASSUME Init PROVE DocInv
  OBVIOUS
<1>1. req \in [Tasks -> Requests] /\ pc = [t \in Tasks |-> "received"] /\ docs = FirstDocs /\ written = revs
  BY DEF Init, Requests
<1>2. revs = {Revision(d, FirstDocs[d]) : d \in {d \in Docs : FirstDocs[d] # NoRow}}
  BY DEF Init
<1>3. \A d \in Docs : FirstDocs[d] # NoRow => DocKnown(d)
  BY <1>1, RequestAssumption DEF DocKnown
<1>4. DocsOK
  BY <1>1, <1>2, <1>3, RowAssumption DEF DocsOK, Revision
<1>5. SavesOK /\ DeletesOK /\ CopiesOK
  BY <1>1 DEF SavesOK, DeletesOK, CopiesOK, At
<1>6. HistoryFaithful
  BY <1>1, <1>2 DEF HistoryFaithful, Revision
<1> QED BY <1>4, <1>5, <1>6 DEF DocInv

(* Rows may go away at any time, and a deletion may be under way. *)
LEMMA DocShrinks ==
    ASSUME TaskOK, DocInv, NEW t \in Tasks, Shape(t),
           written' = written, revs' \subseteq written,
           DOMAIN docs' = Docs, \A d \in Docs : docs'[d] = docs[d] \/ docs'[d] = NoRow,
           req[t].op \in {"create_document", "patch_document"} => pc'[t] \notin {"commit", "more"},
           req[t].op = "delete_document" /\ pc'[t] = "commit" => OwnDoc(t)
    PROVE  DocInv'
<1>1. \A d \in Docs : docs'[d] # NoRow => docs'[d] = docs[d] /\ docs[d] # NoRow
  OBVIOUS
<1>2. \A d : DocKnown(d) => DocKnown(d)'
  BY KnownStays
<1>3. req' = req /\ \A u \in Tasks \ {t} : pc'[u] = pc[u] /\ row'[u] = row[u]
  BY DEF Shape
<1>4. \A u \in Tasks : req[u] \in Requests /\ (req[u].op \in DocOps => req[u].doc \in Docs)
  BY RequestAssumption DEF TaskOK
<1>5. DocsOK'
  BY <1>1, <1>2 DEF DocInv, DocsOK, Revision
<1>6. \A u \in Tasks : req[u].op \in DocOps /\ OwnDoc(u) => OwnDoc(u)'
  BY <1>1, <1>2, <1>3, <1>4 DEF OwnDoc
<1>7. SavesOK'
  BY <1>1, <1>3, <1>4, <1>6 DEF DocInv, SavesOK, At, DocOps
<1>8. DeletesOK'
  BY <1>3, <1>6 DEF DocInv, DeletesOK, At, DocOps
<1>9. CopiesOK'
  BY <1>3 DEF DocInv, CopiesOK, Revision
<1>10. HistoryFaithful'
  BY DEF DocInv, HistoryFaithful
<1> QED BY <1>5, <1>7, <1>8, <1>9, <1>10 DEF DocInv

LEMMA DocCreate ==
    ASSUME TaskOK, DocInv, NEW t \in Tasks, Shape(t), CreateDocumentInsert(t) PROVE DocInv'
<1>0. PICK d : d = req[t].doc
  OBVIOUS
<1> DEFINE v == [project |-> req[t].project, path |-> req[t].set.path, title |-> req[t].set.title,
                 body |-> req[t].set.body, rev |-> 0]
<1>1. CASE \E code : Refuse(t, code)
  BY <1>1, DocShrinks DEF Refuse, Reply, tables, DocInv, DocsOK, HistoryFaithful, CreateDocumentInsert, At, TaskOK
<1>2. CASE ~\E code : Refuse(t, code)
  <2>1. /\ req[t].op = "create_document" /\ pc[t] = "admitted" /\ docs[d] = NoRow
        /\ docs' = [docs EXCEPT ![d] = v] /\ written' = written \cup {Revision(d, v)}
        /\ row' = [row EXCEPT ![t] = v] /\ pc' = [pc EXCEPT ![t] = "more"] /\ revs' = revs
    BY <1>0, <1>2 DEF CreateDocumentInsert, At, Read, Goto
  <2>2. d \in Docs /\ \A u \in Tasks : req[u] \in Requests /\ (req[u].op \in DocOps => req[u].doc \in Docs)
    BY <1>0, <2>1, RequestAssumption DEF TaskOK, DocOps
  <2>3. v.rev = 0 /\ Revision(d, v) = [doc |-> d, project |-> v.project, rev |-> 0, body |-> v.body]
    BY DEF Revision
  <2> HIDE DEF v
  <2>4. req' = req /\ \A u \in Tasks \ {t} : pc'[u] = pc[u] /\ row'[u] = row[u]
    BY DEF Shape
  <2>5. (\A e : DocKnown(e) => DocKnown(e)') /\ DocKnown(d)' /\ ~DocKnown(d)
    <3>1. \A e : DocKnown(e) => DocKnown(e)'
      BY KnownStays
    <3>2. ~DocKnown(d)
      BY <1>0, <2>1 DEF DocKnown, Past
    <3>3. DocKnown(d)'
      <4>1. \A u \in Tasks \ {t} : ~(req[u].op = "create_document" /\ req[u].doc = d)
        BY <1>0, <2>1, Creators
      <4>2. pc'[t] = "more"
        BY <2>1 DEF TaskOK
      <4> QED BY <2>4, <4>1, <4>2 DEF DocKnown, Past
    <3> QED BY <3>1, <3>2, <3>3
  <2>6. \A w \in written : w.doc # d
    BY <2>5 DEF DocInv, DocsOK
  <2>7. DOMAIN docs' = Docs /\ \A e \in Docs : docs'[e] = IF e = d THEN v ELSE docs[e]
    BY <2>1, <2>2 DEF DocInv, DocsOK
  <2>8. DocsOK'
    <3>1. ASSUME NEW e \in Docs, docs'[e] # NoRow PROVE docs'[e].rev \in Nat /\ Revision(e, docs'[e]) \in written'
      BY <2>1, <2>3, <2>7, <3>1 DEF DocInv, DocsOK
    <3>2. ASSUME NEW w \in written'
          PROVE  /\ w.doc \in Docs /\ w.rev \in Nat /\ DocKnown(w.doc)'
                 /\ docs'[w.doc] # NoRow => w.rev <= docs'[w.doc].rev /\ w.project = docs'[w.doc].project
      <4>1. CASE w \in written
        BY <2>5, <2>6, <2>7, <4>1 DEF DocInv, DocsOK
      <4>2. CASE w = Revision(d, v)
        BY <2>2, <2>3, <2>5, <2>7, <4>2
      <4> QED BY <2>1, <4>1, <4>2
    <3> QED BY <2>7, <3>1, <3>2 DEF DocsOK
  <2>9. \A u \in Tasks : req[u].op \in {"patch_document", "delete_document"} /\ OwnDoc(u) => OwnDoc(u)' /\ req[u].doc # d
    BY <2>2, <2>4, <2>5, <2>7 DEF OwnDoc, DocOps
  <2>10. SavesOK'
    BY <2>1, <2>2, <2>4, <2>7, <2>9 DEF DocInv, SavesOK, At, DocOps
  <2>11. DeletesOK'
    BY <2>1, <2>4, <2>9 DEF DocInv, DeletesOK, At
  <2>12. CopiesOK'
    BY <1>0, <2>1, <2>4 DEF DocInv, CopiesOK, Revision, TaskOK
  <2>13. HistoryFaithful'
    BY <2>1, <2>3, <2>6 DEF DocInv, HistoryFaithful
  <2> QED BY <2>8, <2>10, <2>11, <2>12, <2>13 DEF DocInv
<1> QED BY <1>1, <1>2

(* The revision that is read is the newest. *)
LEMMA DocLoad ==
    ASSUME TaskOK, DocInv, NEW t \in Tasks, Shape(t), PatchDocumentLoad(t) PROVE DocInv'
<1>0. PICK d : d = req[t].doc
  OBVIOUS
<1> DEFINE old == docs[d]
           v == [project |-> old.project, path |-> Patched(req[t], old, "path"),
                 title |-> Patched(req[t], old, "title"), body |-> Patched(req[t], old, "body"),
                 rev |-> old.rev + 1]
<1>1. CASE \E code : Refuse(t, code)
  BY <1>1, DocShrinks DEF Refuse, Reply, tables, DocInv, DocsOK, HistoryFaithful, PatchDocumentLoad, At, TaskOK
<1>2. CASE ~\E code : Refuse(t, code)
  <2>1. /\ req[t].op = "patch_document" /\ pc[t] = "admitted" /\ ForProject(req[t].project, old) = "ok"
        /\ row' = [row EXCEPT ![t] = v] /\ pc' = [pc EXCEPT ![t] = "commit"]
        /\ UNCHANGED <<docs, written, revs>>
    BY <1>0, <1>2 DEF PatchDocumentLoad, At, Read, Goto, tables, Then
  <2>2. old # NoRow /\ old.project = req[t].project
    BY <2>1 DEF ForProject
  <2>3. d \in Docs /\ \A u \in Tasks : req[u] \in Requests /\ (req[u].op \in DocOps => req[u].doc \in Docs)
    BY <1>0, <2>1, RequestAssumption DEF TaskOK, DocOps
  <2>4. DocKnown(d) /\ old.rev \in Nat
    BY <2>2, <2>3 DEF DocInv, DocsOK, Revision
  <2>5. req' = req /\ \A u \in Tasks \ {t} : pc'[u] = pc[u] /\ row'[u] = row[u]
    BY DEF Shape
  <2>6. \A e : DocKnown(e) => DocKnown(e)'
    BY KnownStays
  <2>7. DocsOK'
    BY <2>1, <2>6 DEF DocInv, DocsOK, Revision
  <2>8. \A u \in Tasks : OwnDoc(u) => OwnDoc(u)'
    BY <2>1, <2>5, <2>6 DEF OwnDoc
  <2>9. OwnDoc(t)
    BY <1>0, <2>2, <2>4 DEF OwnDoc
  <2>10. SavesOK'
    <3>1. row'[t] = v /\ v.rev = old.rev + 1 /\ v.project = req[t].project
      BY <2>1, <2>2 DEF TaskOK
    <3>2. \A f \in {"path", "title", "body"} \ DOMAIN req[t].set : v[f] = old[f]
      BY DEF Patched
    <3> HIDE DEF v
    <3>3. ASSUME NEW u \in Tasks, u # t, At(u, "patch_document", "commit")'
          PROVE  LET e == req'[u].doc IN
                 /\ OwnDoc(u)' /\ row'[u].rev \in Nat /\ row'[u].rev >= 1 /\ row'[u].project = req'[u].project
                 /\ docs'[e] # NoRow =>
                      /\ row'[u].rev - 1 <= docs'[e].rev
                      /\ docs'[e].rev = row'[u].rev - 1 =>
                           \A f \in {"path", "title", "body"} \ DOMAIN req'[u].set : row'[u][f] = docs'[e][f]
      BY <2>1, <2>5, <2>8, <3>3 DEF DocInv, SavesOK, At
    <3> QED BY <1>0, <2>1, <2>4, <2>5, <2>8, <2>9, <3>1, <3>2, <3>3 DEF SavesOK
  <2>11. DeletesOK'
    BY <2>1, <2>5, <2>8 DEF DocInv, DeletesOK, At
  <2>12. CopiesOK'
    BY <2>1, <2>5 DEF DocInv, CopiesOK, Revision, TaskOK
  <2>13. HistoryFaithful'
    BY <2>1 DEF DocInv, HistoryFaithful
  <2> QED BY <2>7, <2>10, <2>11, <2>12, <2>13 DEF DocInv
<1> QED BY <1>1, <1>2

(* A commit makes the next revision, so every row that waits for the same  *)
(* one is now out of date.                                                 *)
LEMMA DocCommit ==
    ASSUME TaskOK, DocInv, NEW t \in Tasks, Shape(t), PatchDocumentCommit(t) PROVE DocInv'
<1>0. PICK d : d = req[t].doc
  OBVIOUS
<1> DEFINE v == row[t]
<1>1. CASE \E code : Refuse(t, code)
  BY <1>1, DocShrinks DEF Refuse, Reply, tables, DocInv, DocsOK, HistoryFaithful, PatchDocumentCommit, At, TaskOK
<1>2. CASE ~\E code : Refuse(t, code)
  <2>1. /\ At(t, "patch_document", "commit") /\ UpdateDocument(d, v, v.rev - 1) = "ok"
        /\ docs' = [docs EXCEPT ![d] = v] /\ written' = written \cup {Revision(d, v)}
        /\ pc' = [pc EXCEPT ![t] = "more"] /\ UNCHANGED <<row, revs>>
    BY <1>0, <1>2 DEF PatchDocumentCommit, Goto
  <2>2. d \in Docs /\ \A u \in Tasks : req[u] \in Requests /\ (req[u].op \in DocOps => req[u].doc \in Docs)
    BY <1>0, <2>1, RequestAssumption DEF TaskOK, DocOps, At
  <2>3. docs[d] # NoRow /\ docs[d].rev = v.rev - 1
    BY <2>1 DEF UpdateDocument
  <2>4. /\ OwnDoc(t) /\ v.rev \in Nat /\ v.rev >= 1 /\ v.project = req[t].project
        /\ docs[d].project = req[t].project /\ DocKnown(d)
    BY <1>0, <2>1, <2>3 DEF DocInv, SavesOK, OwnDoc
  <2>5. req' = req /\ \A u \in Tasks \ {t} : pc'[u] = pc[u] /\ row'[u] = row[u]
    BY DEF Shape
  <2>6. \A e : DocKnown(e) => DocKnown(e)'
    BY KnownStays
  <2>7. DOMAIN docs' = Docs /\ \A e \in Docs : docs'[e] = IF e = d THEN v ELSE docs[e]
    BY <2>1, <2>2 DEF DocInv, DocsOK
  <2>8. Revision(d, v) = [doc |-> d, project |-> v.project, rev |-> v.rev, body |-> v.body]
    BY DEF Revision
  <2>9. \A w \in written : w.rev \in Nat /\ (w.doc = d => w.rev <= v.rev - 1 /\ w.project = v.project)
    BY <2>2, <2>3, <2>4 DEF DocInv, DocsOK
  <2> HIDE DEF v
  <2>10. DocsOK'
    <3>1. ASSUME NEW e \in Docs, docs'[e] # NoRow PROVE docs'[e].rev \in Nat /\ Revision(e, docs'[e]) \in written'
      BY <2>1, <2>4, <2>7, <3>1 DEF DocInv, DocsOK
    <3>2. ASSUME NEW w \in written'
          PROVE  /\ w.doc \in Docs /\ w.rev \in Nat /\ DocKnown(w.doc)'
                 /\ docs'[w.doc] # NoRow => w.rev <= docs'[w.doc].rev /\ w.project = docs'[w.doc].project
      <4>1. CASE w \in written
        <5>1. w.doc \in Docs /\ w.rev \in Nat /\ DocKnown(w.doc)'
          BY <2>6, <4>1 DEF DocInv, DocsOK
        <5>2. CASE w.doc = d
          BY <2>4, <2>7, <2>9, <4>1, <5>1, <5>2
        <5>3. CASE w.doc # d
          BY <2>7, <4>1, <5>1, <5>3 DEF DocInv, DocsOK
        <5> QED BY <5>2, <5>3
      <4>2. CASE w = Revision(d, v)
        BY <2>2, <2>4, <2>6, <2>7, <2>8, <4>2
      <4> QED BY <2>1, <4>1, <4>2
    <3> QED BY <2>7, <3>1, <3>2 DEF DocsOK
  <2>11. \A u \in Tasks : req[u].op \in DocOps /\ OwnDoc(u) => OwnDoc(u)'
    BY <1>0, <2>2, <2>3, <2>4, <2>5, <2>6, <2>7 DEF OwnDoc
  <2>12. SavesOK'
    <3> SUFFICES ASSUME NEW u \in Tasks, At(u, "patch_document", "commit")'
          PROVE  LET e == req'[u].doc IN
                 /\ OwnDoc(u)' /\ row'[u].rev \in Nat /\ row'[u].rev >= 1 /\ row'[u].project = req'[u].project
                 /\ docs'[e] # NoRow =>
                      /\ row'[u].rev - 1 <= docs'[e].rev
                      /\ docs'[e].rev = row'[u].rev - 1 =>
                           \A f \in {"path", "title", "body"} \ DOMAIN req'[u].set : row'[u][f] = docs'[e][f]
      BY DEF SavesOK
    <3>1. u # t
      BY <2>1 DEF At, TaskOK
    <3>2. /\ At(u, "patch_document", "commit") /\ req'[u] = req[u] /\ row'[u] = row[u]
          /\ req[u].doc \in Docs /\ row[u].rev \in Nat
      BY <2>2, <2>5, <3>1 DEF At, DocOps, DocInv, SavesOK
    <3>3. CASE req[u].doc = d
      <4>1. row[u].rev - 1 <= docs[d].rev
        BY <2>3, <3>2, <3>3 DEF DocInv, SavesOK
      <4>2. row[u].rev - 1 <= v.rev /\ v.rev # row[u].rev - 1
        BY <2>3, <2>4, <3>2, <4>1
      <4> QED BY <2>7, <2>11, <3>2, <3>3, <4>2 DEF DocInv, SavesOK, At, DocOps
    <3>4. CASE req[u].doc # d
      BY <2>7, <2>11, <3>2, <3>4 DEF DocInv, SavesOK, At, DocOps
    <3> QED BY <3>3, <3>4
  <2>13. DeletesOK'
    BY <2>1, <2>5, <2>11 DEF DocInv, DeletesOK, At, DocOps, TaskOK
  <2>14. CopiesOK'
    BY <1>0, <2>1, <2>5 DEF DocInv, CopiesOK, Revision, TaskOK, v
  <2>15. HistoryFaithful'
    <3>1. revs' \subseteq written'
      BY <2>1 DEF DocInv, HistoryFaithful
    <3>2. ASSUME NEW a \in written', NEW b \in written', a.doc = b.doc, a.rev = b.rev PROVE a.body = b.body
      BY <2>1, <2>4, <2>8, <2>9, <3>2 DEF DocInv, HistoryFaithful
    <3> QED BY <3>1, <3>2 DEF HistoryFaithful
  <2> QED BY <2>10, <2>12, <2>13, <2>14, <2>15 DEF DocInv
<1> QED BY <1>1, <1>2

LEMMA DocNext == ASSUME TaskOK, DocInv, NEW t \in Tasks, Frame(t) PROVE DocInv'
<1>1. Shape(t) /\ (DocWork(t) \/ DocQuiet(t))
  BY DEF Frame
<1>2. DOMAIN docs = Docs /\ revs \subseteq written
  BY DEF DocInv, DocsOK, HistoryFaithful
<1>3. CASE DocQuiet(t)
  BY <1>1, <1>2, <1>3, DocShrinks DEF DocQuiet, Calm
<1>4. CASE CreateDocumentInsert(t) \/ PatchDocumentLoad(t) \/ PatchDocumentCommit(t)
  BY <1>1, <1>4, DocCreate, DocLoad, DocCommit
<1>5. CASE SaveHistory(t)
  <2>1. revs' \subseteq written
    BY <1>2, <1>5 DEF SaveHistory, SaveDocumentRevision, DocInv, CopiesOK
  <2>2. UNCHANGED <<docs, written>> /\ pc'[t] = "done" /\ req[t].op # "delete_document"
    BY <1>5 DEF SaveHistory, Reply, TaskOK
  <2> QED BY <1>1, <1>2, <2>1, <2>2, DocShrinks
<1>6. CASE DeleteDocumentLoad(t)
  <2>1. UNCHANGED <<docs, written, revs>> /\ req[t].op = "delete_document"
    BY <1>6 DEF DeleteDocumentLoad, At, Refuse, tables
  <2>2. ASSUME pc'[t] = "commit" PROVE OwnDoc(t)
    <3>1. ForProject(req[t].project, docs[req[t].doc]) = "ok"
      BY <1>6, <2>2 DEF DeleteDocumentLoad, At, Refuse, Reply, Then, TaskOK
    <3>2. docs[req[t].doc] # NoRow /\ docs[req[t].doc].project = req[t].project
      BY <3>1 DEF ForProject
    <3>3. req[t].doc \in Docs
      BY <2>1, RequestAssumption DEF TaskOK, DocOps
    <3>4. DocKnown(req[t].doc)
      BY <3>2, <3>3 DEF DocInv, DocsOK, Revision
    <3> QED BY <3>2, <3>4 DEF OwnDoc
  <2> QED BY <1>1, <1>2, <2>1, <2>2, DocShrinks
<1>7. CASE DeleteDocumentCommit(t)
  <2>1. /\ req[t].op = "delete_document" /\ pc'[t] = "done" /\ written' = written /\ revs' \subseteq revs
        /\ DOMAIN docs' = Docs /\ \A d \in Docs : docs'[d] = docs[d] \/ docs'[d] = NoRow
    BY <1>2, <1>7 DEF DeleteDocumentCommit, At, Refuse, Reply, tables, TaskOK
  <2> QED BY <1>1, <1>2, <2>1, DocShrinks
<1>8. CASE DeleteProjectCommit(t)
  <2>1. /\ req[t].op = "delete_project" /\ written' = written /\ revs' \subseteq revs
        /\ DOMAIN docs' = Docs /\ \A d \in Docs : docs'[d] = docs[d] \/ docs'[d] = NoRow
    BY <1>2, <1>8 DEF DeleteProjectCommit, At, Refuse, Goto, tables, Without
  <2> QED BY <1>1, <1>2, <2>1, DocShrinks
<1> QED BY <1>1, <1>3, <1>4, <1>5, <1>6, <1>7, <1>8 DEF DocWork

(* A document has its path to itself: the unique index of the table. *)
LEMMA PathsInit == Init => PathsOK
<1> SUFFICES ASSUME Init PROVE PathsOK
  OBVIOUS
<1>1. docs = FirstDocs
  BY DEF Init
<1> QED BY <1>1, RowAssumption DEF PathsOK

LEMMA PathsNext == ASSUME TaskOK, DocInv, PathsOK, NEW t \in Tasks, Frame(t) PROVE PathsOK'
<1>1. DOMAIN docs = Docs /\ (DocWork(t) \/ DocQuiet(t))
  BY DEF DocInv, DocsOK, Frame
<1>2. ASSUME NEW d \in Docs, NEW v, docs' = [docs EXCEPT ![d] = v], ~PathTaken(d, v) PROVE PathsOK'
  <2>1. \A e \in Docs : docs'[e] = IF e = d THEN v ELSE docs[e]
    BY <1>1, <1>2
  <2> QED BY <1>2, <2>1 DEF PathsOK, PathTaken
<1>3. ASSUME \A d \in Docs : docs'[d] = docs[d] \/ docs'[d] = NoRow PROVE PathsOK'
  BY <1>3 DEF PathsOK
<1>4. CASE CreateDocumentInsert(t)
  <2>1. req[t].doc \in Docs
    BY <1>4, RequestAssumption DEF CreateDocumentInsert, At, TaskOK, DocOps
  <2> DEFINE v == [project |-> req[t].project, path |-> req[t].set.path, title |-> req[t].set.title,
                   body |-> req[t].set.body, rev |-> 0]
  <2>2. docs' = docs \/ (docs' = [docs EXCEPT ![req[t].doc] = v] /\ CreateDocument(req[t].doc, v) = "ok")
    BY <1>4 DEF CreateDocumentInsert, Refuse, tables, Then
  <2> HIDE DEF v
  <2> QED BY <1>2, <1>3, <2>1, <2>2 DEF CreateDocument
<1>5. CASE PatchDocumentCommit(t)
  <2>1. req[t].doc \in Docs
    BY <1>5, RequestAssumption DEF PatchDocumentCommit, At, TaskOK, DocOps
  <2>2. \/ docs' = docs
        \/ docs' = [docs EXCEPT ![req[t].doc] = row[t]] /\ UpdateDocument(req[t].doc, row[t], row[t].rev - 1) = "ok"
    BY <1>5 DEF PatchDocumentCommit, Refuse, tables
  <2> QED BY <1>2, <1>3, <2>1, <2>2 DEF UpdateDocument
<1>6. CASE DocQuiet(t) \/ PatchDocumentLoad(t) \/ SaveHistory(t) \/ DeleteDocumentLoad(t)
  BY <1>3, <1>6 DEF DocQuiet, PatchDocumentLoad, SaveHistory, DeleteDocumentLoad, Refuse, tables
<1>7. CASE DeleteDocumentCommit(t) \/ DeleteProjectCommit(t)
  <2>1. \A d \in Docs : docs'[d] = docs[d] \/ docs'[d] = NoRow
    BY <1>1, <1>7 DEF DeleteDocumentCommit, DeleteProjectCommit, Refuse, tables, Without
  <2> QED BY <1>3, <2>1
<1> QED BY <1>1, <1>4, <1>5, <1>6, <1>7 DEF DocWork

(* A document stays in its project: what a step does to a known one. *)
LEMMA DocStays ==
    ASSUME TaskOK, DocInv, NEW t \in Tasks, Frame(t), NEW d \in Docs, DocKnown(d), docs'[d] # NoRow
    PROVE  docs[d] # NoRow /\ docs'[d].project = docs[d].project
<1>1. DOMAIN docs = Docs /\ (DocWork(t) \/ DocQuiet(t))
  BY DEF DocInv, DocsOK, Frame
<1>2. CASE CreateDocumentInsert(t)
  <2>1. req[t].doc # d
    BY <1>2 DEF CreateDocumentInsert, At, DocKnown, Past
  <2>2. docs'[d] = docs[d]
    BY <1>1, <1>2, <2>1 DEF CreateDocumentInsert, Refuse, tables
  <2> QED BY <2>2
<1>3. CASE PatchDocumentCommit(t)
  <2>1. CASE docs' = docs
    BY <2>1
  <2>2. CASE docs' = [docs EXCEPT ![req[t].doc] = row[t]] /\ UpdateDocument(req[t].doc, row[t], row[t].rev - 1) = "ok"
    <3>1. docs[req[t].doc] # NoRow
      BY <2>2 DEF UpdateDocument
    <3>2. row[t].project = docs[req[t].doc].project
      BY <1>3, <3>1 DEF PatchDocumentCommit, DocInv, SavesOK, OwnDoc
    <3> QED BY <1>1, <2>2, <3>1, <3>2
  <2> QED BY <1>3, <2>1, <2>2 DEF PatchDocumentCommit, Refuse, tables
<1>4. CASE DocQuiet(t) \/ PatchDocumentLoad(t) \/ SaveHistory(t) \/ DeleteDocumentLoad(t)
  BY <1>4 DEF DocQuiet, PatchDocumentLoad, SaveHistory, DeleteDocumentLoad, Refuse, tables
<1>5. CASE DeleteDocumentCommit(t) \/ DeleteProjectCommit(t)
  <2>1. docs'[d] = docs[d] \/ docs'[d] = NoRow
    BY <1>1, <1>5 DEF DeleteDocumentCommit, DeleteProjectCommit, Refuse, tables, Without
  <2> QED BY <2>1
<1> QED BY <1>1, <1>2, <1>3, <1>4, <1>5 DEF DocWork

LEMMA EntriesInit == Init => EntriesOK
<1> SUFFICES ASSUME Init PROVE EntriesOK
  OBVIOUS
<1>1. /\ req \in [Tasks -> Requests] /\ pc = [t \in Tasks |-> "received"] /\ docs = FirstDocs
      /\ projects = [p \in Projects |-> IF p \in Existing THEN [name |-> "old", entry |-> FirstEntry[p]] ELSE NoRow]
  BY DEF Init, Requests
<1>2. \A d \in Docs : FirstDocs[d] # NoRow => DocKnown(d)
  BY <1>1, RequestAssumption DEF DocKnown
<1>3. ASSUME NEW p \in Projects, projects[p] # NoRow PROVE OwnEntry(p, projects[p].entry)
  <2>1. p \in Existing /\ projects[p].entry = FirstEntry[p]
    BY <1>1, <1>3
  <2> QED BY <1>1, <1>2, <2>1, RowAssumption DEF OwnEntry
<1> QED BY <1>1, <1>3 DEF EntriesOK, At

LEMMA EntriesNext == ASSUME TaskOK, DocInv, EntriesOK, NEW t \in Tasks, Frame(t) PROVE EntriesOK'
<1>1. Shape(t) /\ (EntryWork(t) \/ EntryQuiet(t)) /\ DOMAIN projects = Projects
  BY DEF Frame, EntriesOK
<1>2. \A p, d : OwnEntry(p, d) => OwnEntry(p, d)'
  BY <1>1, KnownStays, DocStays DEF OwnEntry
<1>3. req' = req /\ \A u \in Tasks \ {t} : pc'[u] = pc[u] /\ row'[u] = row[u]
  BY <1>1 DEF Shape
<1>4. \A u \in Tasks : req[u].project \in Projects
  BY AppAssumption DEF TaskOK
<1>5. ASSUME NEW u \in Tasks, u # t, At(u, "patch_project", "commit")' PROVE OwnEntry(req[u].project, row[u].entry)
  BY <1>3, <1>5 DEF At, EntriesOK
<1>6. ASSUME DOMAIN projects' = Projects,
             \A p \in Projects : projects'[p] # NoRow => OwnEntry(p, projects'[p].entry),
             At(t, "patch_project", "commit")' => OwnEntry(req[t].project, row'[t].entry)
      PROVE  EntriesOK'
  <2>1. ASSUME NEW p \in Projects, projects'[p] # NoRow PROVE OwnEntry(p, projects[p].entry)'
    BY <1>2, <1>6, <2>1 DEF OwnEntry, DocKnown, Past
  <2>2. ASSUME NEW u \in Tasks, At(u, "patch_project", "commit")' PROVE OwnEntry(req[u].project, row[u].entry)'
    <3>1. OwnEntry(req[u].project, row'[u].entry)
      BY <1>3, <1>5, <1>6, <2>2
    <3>2. PICK p, d : p = req[u].project /\ d = row'[u].entry
      OBVIOUS
    <3>3. OwnEntry(p, d)'
      BY <1>2, <3>1, <3>2
    <3> QED BY <1>3, <3>2, <3>3 DEF OwnEntry, DocKnown, Past
  <2> QED BY <1>6, <2>1, <2>2 DEF EntriesOK
<1>7. \A p : OwnEntry(p, NoRow)
  BY DEF OwnEntry
<1>8. CASE EntryQuiet(t)
  BY <1>1, <1>3, <1>6, <1>8 DEF EntryQuiet, Calm, EntriesOK, At
<1>9. CASE CreateProject(t)
  <2>1. DOMAIN projects' = Projects /\ req[t].op = "create_project"
    BY <1>1, <1>9 DEF CreateProject, At, Refuse, tables
  <2>2. \A p \in Projects : projects'[p] = projects[p] \/ projects'[p] = [name |-> req[t].name, entry |-> NoRow]
    BY <1>1, <1>9 DEF CreateProject, Refuse, tables
  <2> QED BY <1>3, <1>6, <1>7, <2>1, <2>2 DEF EntriesOK, At
<1>10. CASE PatchProjectLoad(t)
  <2>1. projects' = projects /\ req[t].op = "patch_project" /\ req[t] \in Requests
    BY <1>10 DEF PatchProjectLoad, At, Refuse, tables, TaskOK
  <2>2. ASSUME pc'[t] = "commit" PROVE OwnEntry(req[t].project, row'[t].entry)
    <3> DEFINE q == req[t]
               new == [f \in {"name", "entry"} |-> IF f \in DOMAIN q.set THEN q.set[f] ELSE projects[q.project][f]]
    <3>1. /\ row' = [row EXCEPT ![t] = new] /\ Found(projects[q.project]) = "ok"
          /\ "entry" \in DOMAIN q.set => ForProject(q.project, docs[q.set.entry]) = "ok"
      BY <1>10, <2>2 DEF PatchProjectLoad, At, Refuse, Reply, Read, Then, TaskOK
    <3>2. row'[t].entry = IF "entry" \in DOMAIN q.set THEN q.set.entry ELSE projects[q.project].entry
      BY <3>1 DEF TaskOK
    <3>3. CASE "entry" \in DOMAIN q.set
      <4>1. q.set.entry \in Docs /\ docs[q.set.entry] # NoRow /\ docs[q.set.entry].project = q.project
        BY <2>1, <3>1, <3>3, RequestAssumption DEF ForProject
      <4> QED BY <3>2, <3>3, <4>1 DEF OwnEntry, DocInv, DocsOK, Revision
    <3>4. CASE "entry" \notin DOMAIN q.set
      BY <1>4, <3>1, <3>2, <3>4 DEF EntriesOK, Found
    <3> QED BY <3>3, <3>4
  <2> QED BY <1>1, <1>3, <1>6, <2>1, <2>2 DEF EntriesOK, At
<1>11. CASE PatchProjectCommit(t)
  <2>1. /\ req[t].op = "patch_project" /\ pc[t] = "commit" /\ pc'[t] = "done"
        /\ projects' = projects \/ projects' = [projects EXCEPT ![req[t].project] = row[t]]
    BY <1>11 DEF PatchProjectCommit, At, Refuse, Reply, tables, TaskOK
  <2>2. OwnEntry(req[t].project, row[t].entry)
    BY <2>1 DEF EntriesOK, At
  <2> QED BY <1>1, <1>3, <1>6, <2>1, <2>2 DEF EntriesOK, At
<1>12. CASE DeleteProjectCommit(t)
  <2>1. /\ req[t].op = "delete_project" /\ DOMAIN projects' = Projects
        /\ \A p \in Projects : projects'[p] = projects[p] \/ projects'[p] = NoRow
    BY <1>1, <1>12 DEF DeleteProjectCommit, At, Refuse, tables
  <2> QED BY <1>3, <1>6, <2>1 DEF EntriesOK, At
<1>13. CASE DeleteDocumentCommit(t)
  <2>1. /\ req[t].op = "delete_document" /\ DOMAIN projects' = Projects
        /\ \A p \in Projects : \/ projects'[p] = projects[p]
                               \/ projects'[p] = [projects[p] EXCEPT !.entry = NoRow]
    BY <1>1, <1>13 DEF DeleteDocumentCommit, At, Refuse, tables
  <2>2. ASSUME NEW p \in Projects, projects'[p] = [projects[p] EXCEPT !.entry = NoRow], projects'[p] # projects[p]
        PROVE  projects'[p].entry = NoRow
    BY <2>2
  <2> QED BY <1>3, <1>6, <1>7, <2>1, <2>2 DEF EntriesOK, At
<1> QED BY <1>1, <1>8, <1>9, <1>10, <1>11, <1>12, <1>13 DEF EntryWork

-----------------------------------------------------------------------------
(* References and full texts. *)

LEMMA RefInit == Init => RefInv
<1> SUFFICES ASSUME Init PROVE RefInv
  OBVIOUS
<1>1. /\ req \in [Tasks -> Requests] /\ pc = [t \in Tasks |-> "received"]
      /\ refs = FirstRefs /\ fulltexts = FirstTexts /\ blobs = FirstTexts
  BY DEF Init, Requests
<1>2. \A r \in Refs : FirstRefs[r] # NoRow => RefKnown(r)
  BY <1>1, RequestAssumption DEF RefKnown
<1>3. RefsOK
  BY <1>1, <1>2, RowAssumption DEF RefsOK
<1>4. \A t \in Tasks : RefTask(t) /\ Halves(t)
  BY <1>1 DEF RefTask, Halves, At
<1>5. DanglingOnlyByRace
  BY <1>1 DEF DanglingOnlyByRace
<1> QED BY <1>3, <1>4, <1>5 DEF RefInv

(* What the other tasks know survives a step that moves no known reference *)
(* to another project and undoes a half of their work only by a race.      *)
LEMMA RefOthers ==
    ASSUME TaskOK, RefInv, NEW t \in Tasks, Shape(t),
           \A r \in Refs : RefKnown(r) /\ refs'[r] # NoRow => refs[r] # NoRow /\ refs'[r].project = refs[r].project,
           raced \subseteq raced',
           \A u \in Tasks \ {t} :
             /\ At(u, "delete_fulltext", "more") /\ fulltexts'[req[u].ref] # fulltexts[req[u].ref] =>
                  fulltexts'[req[u].ref] = NoRow \/ req[u].ref \in raced'
             /\ At(u, "put_fulltext", "commit") /\ blobs'[req[u].ref] # blobs[req[u].ref] =>
                  \/ blobs'[req[u].ref] # NoRow \/ req[u].ref \in raced' \/ refs[req[u].ref] = NoRow,
           NEW u \in Tasks \ {t}
    PROVE  RefTask(u)' /\ Halves(u)'
<1>1. RefTask(u) /\ Halves(u) /\ \A r : RefKnown(r) => RefKnown(r)'
  BY KnownStays DEF RefInv
<1>2. req' = req /\ pc'[u] = pc[u] /\ row'[u] = row[u]
  BY DEF Shape
<1>3. req[u].op \in RefOps => req[u].ref \in Refs
  BY RequestAssumption DEF TaskOK
<1>4. \A r, p : OwnRef(r, p) => OwnRef(r, p)'
  BY <1>1 DEF OwnRef
<1>5. \A r, p : OwnRef(r, p) /\ refs[r] = NoRow => refs'[r] = NoRow
  BY DEF OwnRef
<1>6. PICK r, p : r = req[u].ref /\ p = req[u].project
  OBVIOUS
<1>7. req[u].op \in LoadedOps /\ pc[u] \in {"load", "commit", "more"} => OwnRef(r, p) /\ OwnRef(r, p)'
  BY <1>1, <1>4, <1>6 DEF RefTask
<1>8. At(u, "delete_reference", "more") => refs'[r] = NoRow
  BY <1>1, <1>5, <1>6, <1>7 DEF RefTask, At, LoadedOps
<1>9. At(u, "delete_project", "commit") => \A s \in row[u] : OwnRef(s, p)'
  BY <1>1, <1>4, <1>6 DEF RefTask
<1>10. At(u, "delete_project", "more") => \A s \in row[u] : OwnRef(s, p)' /\ refs'[s] = NoRow
  BY <1>1, <1>4, <1>5, <1>6 DEF RefTask
<1>11. RefTask(u)'
  <2>1. At(u, "patch_reference", "load") => row[u] \in RefRow /\ row[u].project = req[u].project
    BY <1>1 DEF RefTask
  <2>2. (req[u].op \in LoadedOps /\ pc[u] \in {"load", "commit", "more"} => OwnRef(req[u].ref, req[u].project))'
    BY <1>2, <1>6, <1>7 DEF OwnRef, RefKnown, Past
  <2>3. (At(u, "delete_project", "commit") => \A s \in row[u] : OwnRef(s, req[u].project))'
    BY <1>2, <1>6, <1>9 DEF OwnRef, RefKnown, Past, At
  <2>4. (At(u, "delete_project", "more") => \A s \in row[u] : OwnRef(s, req[u].project) /\ refs[s] = NoRow)'
    BY <1>2, <1>6, <1>10 DEF OwnRef, RefKnown, Past, At
  <2> QED BY <1>2, <1>6, <1>8, <2>1, <2>2, <2>3, <2>4 DEF RefTask, At
<1>12. Halves(u)'
  <2>1. At(u, "put_fulltext", "commit") /\ refs[r] = NoRow => refs'[r] = NoRow
    BY <1>5, <1>7 DEF At, LoadedOps
  <2> QED BY <1>1, <1>2, <1>6, <2>1 DEF Halves, At
<1> QED BY <1>11, <1>12

(* Steps that only read. *)
LEMMA RefSame ==
    ASSUME TaskOK, RefInv, NEW t \in Tasks, Shape(t), UNCHANGED <<refs, fulltexts, blobs, raced>>,
           RefTask(t)', Halves(t)'
    PROVE  RefInv'
<1>1. \A r : RefKnown(r) => RefKnown(r)'
  BY KnownStays
<1>2. RefsOK'
  BY <1>1 DEF RefInv, RefsOK
<1>3. \A u \in Tasks \ {t} : RefTask(u)' /\ Halves(u)'
  BY RefOthers
<1>4. DanglingOnlyByRace'
  BY DEF RefInv, DanglingOnlyByRace
<1> QED BY <1>2, <1>3, <1>4 DEF RefInv

LEMMA RefLoads ==
    ASSUME TaskOK, RefInv, NEW t \in Tasks, Shape(t),
           PatchReferenceLoad(t) \/ DeleteReferenceLoad(t) \/ PutFulltextLoad(t) \/ DeleteFulltextLoad(t)
    PROVE  RefInv'
<1>0. PICK r, p : r = req[t].ref /\ p = req[t].project
  OBVIOUS
<1>1. UNCHANGED <<refs, fulltexts, blobs, raced>> /\ req[t].op \in LoadedOps
  BY DEF PatchReferenceLoad, DeleteReferenceLoad, PutFulltextLoad, DeleteFulltextLoad, ReferenceForProject, At, Refuse, tables, LoadedOps
<1>2. \/ pc'[t] = "done"
      \/ pc'[t] = "load" /\ ForProject(p, refs[r]) = "ok"
  BY <1>0 DEF PatchReferenceLoad, DeleteReferenceLoad, PutFulltextLoad, DeleteFulltextLoad, ReferenceForProject, Refuse, Reply, Read, Goto, Then, TaskOK
<1>3. req' = req /\ req[t] \in Requests /\ r \in Refs
  BY <1>0, <1>1, RequestAssumption DEF Shape, TaskOK, LoadedOps, RefOps
<1>4. pc'[t] = "load" => refs[r] # NoRow /\ refs[r].project = p /\ refs[r] \in RefRow /\ RefKnown(r)
  BY <1>2, <1>3 DEF ForProject, RefInv, RefsOK
<1>5. \A s : RefKnown(s) => RefKnown(s)'
  BY KnownStays
<1>6. req[t].op = "patch_reference" /\ pc'[t] = "load" => row'[t] \in RefRow /\ row'[t].project = p
  <2> SUFFICES ASSUME req[t].op = "patch_reference", pc'[t] = "load" PROVE row'[t] \in RefRow /\ row'[t].project = p
    OBVIOUS
  <2> DEFINE new(f) == IF f \in DOMAIN req[t].set THEN req[t].set[f] ELSE refs[r][f]
  <2>1. PatchReferenceLoad(t)
    BY DEF DeleteReferenceLoad, PutFulltextLoad, DeleteFulltextLoad, ReferenceForProject, At
  <2>2. row' = [row EXCEPT ![t] = [project |-> refs[r].project, title |-> new("title"), doi |-> new("doi")]]
    BY <1>0, <2>1 DEF PatchReferenceLoad, ReferenceForProject, Refuse, Reply, Read, TaskOK
  <2>3. new("title") \in Titles /\ new("doi") \in Dois
    BY <1>3, <1>4, RequestAssumption DEF RefRow
  <2> QED BY <1>4, <2>2, <2>3 DEF TaskOK, RefRow
<1>7. RefTask(t)'
  BY <1>0, <1>1, <1>2, <1>3, <1>4, <1>5, <1>6 DEF RefTask, OwnRef, RefKnown, Past, At, LoadedOps
<1>8. Halves(t)'
  BY <1>2 DEF Halves, At
<1> QED BY <1>1, <1>7, <1>8, RefSame

LEMMA RefReads ==
    ASSUME TaskOK, RefInv, NEW t \in Tasks, Shape(t), RefQuiet(t) \/ DeleteProjectLoad(t) PROVE RefInv'
<1>1. req' = req /\ req[t] \in Requests /\ \A s : RefKnown(s) => RefKnown(s)'
  BY KnownStays DEF Shape, TaskOK
<1>2. CASE RefQuiet(t)
  <2>1. req[t].op \in LoadedOps \cup {"delete_project"} => pc'[t] \in {"admitted", "done"}
    BY <1>2 DEF RefQuiet, Calm
  <2>2. RefTask(t)' /\ Halves(t)'
    BY <1>1, <2>1 DEF RefTask, Halves, At, LoadedOps
  <2> QED BY <1>2, <2>2, RefSame DEF RefQuiet
<1>3. CASE DeleteProjectLoad(t)
  <2>1. UNCHANGED <<refs, fulltexts, blobs, raced>> /\ req[t].op = "delete_project"
    BY <1>3 DEF DeleteProjectLoad, At, Refuse, tables
  <2>2. PICK p : p = req[t].project
    OBVIOUS
  <2>3. \/ pc'[t] = "done"
        \/ pc'[t] = "commit" /\ row'[t] = {r \in Refs : refs[r] # NoRow /\ refs[r].project = p}
    BY <1>3, <2>2 DEF DeleteProjectLoad, Refuse, Reply, Read, Goto, TaskOK
  <2>4. pc'[t] = "commit" => \A r \in row'[t] : r \in Refs /\ RefKnown(r)' /\ refs'[r].project = p
    BY <1>1, <2>1, <2>3 DEF RefInv, RefsOK
  <2>5. RefTask(t)' /\ Halves(t)'
    BY <1>1, <2>1, <2>2, <2>3, <2>4 DEF RefTask, Halves, OwnRef, RefKnown, Past, At, LoadedOps
  <2> QED BY <2>1, <2>5, RefSame
<1> QED BY <1>2, <1>3

LEMMA RefRefused ==
    ASSUME TaskOK, RefInv, NEW t \in Tasks, Shape(t), NEW code, Refuse(t, code) PROVE RefInv'
<1>1. pc'[t] = "done" /\ UNCHANGED <<refs, fulltexts, blobs, raced>>
  BY DEF Refuse, Reply, tables, TaskOK
<1>2. RefTask(t)' /\ Halves(t)'
  BY <1>1 DEF RefTask, Halves, At
<1> QED BY <1>1, <1>2, RefSame

(* Changes of the references' own table. *)
LEMMA RefWrites ==
    ASSUME TaskOK, RefInv, NEW t \in Tasks, Shape(t),
           CreateReferenceInsert(t) \/ PatchReferenceCommit(t) \/ DeleteReferenceCommit(t)
    PROVE  RefInv'
<1>0. PICK r, p : r = req[t].ref /\ p = req[t].project
  OBVIOUS
<1>1. CASE \E code : Refuse(t, code)
  BY <1>1, RefRefused
<1>2. CASE ~\E code : Refuse(t, code)
  <2>1. req' = req /\ req[t] \in Requests /\ (\A s : RefKnown(s) => RefKnown(s)')
    BY KnownStays DEF Shape, TaskOK
  <2>2. r \in Refs /\ req[t].op \in {"create_reference", "patch_reference", "delete_reference"}
    BY <1>0, <2>1, RequestAssumption DEF CreateReferenceInsert, PatchReferenceCommit, DeleteReferenceCommit, At, RefOps
  <2>3. DOMAIN refs = Refs /\ DOMAIN fulltexts = Refs /\ NoRow \notin RefRow
    BY RequestAssumption DEF RefInv, RefsOK
  <2>4. CASE CreateReferenceInsert(t)
    <3> DEFINE v == [project |-> req[t].project, title |-> req[t].set.title, doi |-> req[t].set.doi]
    <3>1. /\ req[t].op = "create_reference" /\ pc[t] = "admitted" /\ refs[r] = NoRow
          /\ refs' = [refs EXCEPT ![r] = v] /\ pc'[t] = "done" /\ UNCHANGED <<fulltexts, blobs, raced>>
      BY <1>0, <1>2, <2>4 DEF CreateReferenceInsert, At, Reply, TaskOK
    <3>2. v \in RefRow
      BY <2>1, <3>1, AppAssumption, RequestAssumption DEF RefRow
    <3> HIDE DEF v
    <3>3. ~RefKnown(r) /\ RefKnown(r)'
      <4>1. ~RefKnown(r)
        BY <1>0, <3>1 DEF RefKnown, Past
      <4>2. \A u \in Tasks \ {t} : ~(req[u].op = "create_reference" /\ req[u].ref = r)
        BY <1>0, <3>1, Creators
      <4> QED BY <2>1, <3>1, <4>1, <4>2 DEF RefKnown, Past
    <3>4. \A s \in Refs : refs'[s] = IF s = r THEN v ELSE refs[s]
      BY <2>3, <3>1
    <3>5. RefsOK'
      BY <2>1, <2>3, <3>1, <3>2, <3>3, <3>4 DEF RefInv, RefsOK
    <3>6. \A u \in Tasks \ {t} : RefTask(u)' /\ Halves(u)'
      BY <3>1, <3>3, <3>4, RefOthers
    <3>7. RefTask(t)' /\ Halves(t)' /\ DanglingOnlyByRace'
      BY <3>1 DEF RefTask, Halves, At, RefInv, DanglingOnlyByRace
    <3> QED BY <3>5, <3>6, <3>7 DEF RefInv
  <2>5. CASE PatchReferenceCommit(t)
    <3>1. /\ At(t, "patch_reference", "load") /\ UpdateReference(r, row[t]) = "ok"
          /\ refs' = [refs EXCEPT ![r] = row[t]] /\ pc'[t] = "done" /\ UNCHANGED <<fulltexts, blobs, raced>>
      BY <1>0, <1>2, <2>5 DEF PatchReferenceCommit, Reply, TaskOK
    <3>2. refs[r] # NoRow /\ OwnRef(r, p) /\ row[t] \in RefRow /\ row[t].project = p
      BY <1>0, <3>1 DEF UpdateReference, RefInv, RefTask, At, LoadedOps
    <3>3. \A s \in Refs : refs'[s] = IF s = r THEN row[t] ELSE refs[s]
      BY <2>3, <3>1
    <3>4. RefsOK'
      BY <2>1, <2>3, <3>1, <3>2, <3>3 DEF RefInv, RefsOK
    <3>5. \A s \in Refs : refs'[s] # NoRow => refs[s] # NoRow /\ refs'[s].project = refs[s].project
      BY <3>2, <3>3 DEF OwnRef
    <3>6. \A u \in Tasks \ {t} : RefTask(u)' /\ Halves(u)'
      BY <3>1, <3>5, RefOthers
    <3>7. RefTask(t)' /\ Halves(t)' /\ DanglingOnlyByRace'
      BY <3>1 DEF RefTask, Halves, At, RefInv, DanglingOnlyByRace
    <3> QED BY <3>4, <3>6, <3>7 DEF RefInv
  <2>6. CASE DeleteReferenceCommit(t)
    <3>1. /\ At(t, "delete_reference", "load") /\ refs' = [refs EXCEPT ![r] = NoRow]
          /\ fulltexts' = [fulltexts EXCEPT ![r] = NoRow] /\ pc'[t] = "more" /\ UNCHANGED <<blobs, raced>>
      BY <1>0, <1>2, <2>6 DEF DeleteReferenceCommit, Goto, TaskOK
    <3>2. OwnRef(r, p)
      BY <1>0, <3>1 DEF RefInv, RefTask, At, LoadedOps
    <3>3. \A s \in Refs : /\ refs'[s] = IF s = r THEN NoRow ELSE refs[s]
                          /\ fulltexts'[s] = IF s = r THEN NoRow ELSE fulltexts[s]
      BY <2>3, <3>1
    <3>4. RefsOK'
      BY <2>1, <2>3, <3>1, <3>3 DEF RefInv, RefsOK
    <3>5. \A u \in Tasks : req[u].op \in RefOps => req[u].ref \in Refs
      BY RequestAssumption DEF TaskOK
    <3>6. \A u \in Tasks \ {t} : RefTask(u)' /\ Halves(u)'
      BY <3>1, <3>3, <3>5, RefOthers DEF At, RefOps
    <3>7. RefTask(t)'
      BY <1>0, <2>1, <2>2, <3>1, <3>2, <3>3 DEF RefTask, OwnRef, RefKnown, Past, At, LoadedOps
    <3>8. Halves(t)' /\ DanglingOnlyByRace'
      BY <2>1, <3>1, <3>3 DEF Halves, At, RefInv, DanglingOnlyByRace
    <3> QED BY <3>4, <3>6, <3>7, <3>8 DEF RefInv
  <2> QED BY <2>4, <2>5, <2>6
<1> QED BY <1>1, <1>2

(* The two halves of an upload: the blob, then the row. *)
LEMMA RefUploads ==
    ASSUME TaskOK, RefInv, NEW t \in Tasks, Shape(t), PutFulltextBlob(t) \/ PutFulltextRow(t) PROVE RefInv'
<1>0. PICK r, p : r = req[t].ref /\ p = req[t].project
  OBVIOUS
<1>1. req' = req /\ req[t].op = "put_fulltext" /\ (\A s : RefKnown(s) => RefKnown(s)') /\ t # NoRow
  BY KnownStays, RequestAssumption DEF Shape, PutFulltextBlob, PutFulltextRow, At
<1>2. r \in Refs /\ \A u \in Tasks : req[u].op \in RefOps => req[u].ref \in Refs
  BY <1>0, <1>1, RequestAssumption DEF TaskOK, RefOps
<1>3. OwnRef(r, p) /\ RefsOK /\ DanglingOnlyByRace /\ \A u \in Tasks : Halves(u)
  BY <1>0, <1>1 DEF RefInv, RefTask, LoadedOps, PutFulltextBlob, PutFulltextRow, At
<1>4. CASE PutFulltextBlob(t)
  <2>1. blobs' = [blobs EXCEPT ![r] = t] /\ pc'[t] = "commit" /\ UNCHANGED <<refs, fulltexts, raced>>
    BY <1>0, <1>4 DEF PutFulltextBlob, Goto, tables, TaskOK
  <2>2. DOMAIN blobs' = Refs /\ \A s \in Refs : blobs'[s] = IF s = r THEN t ELSE blobs[s]
    BY <1>2, <1>3, <2>1 DEF RefsOK
  <2>3. RefsOK' /\ DanglingOnlyByRace'
    BY <1>1, <1>3, <2>1, <2>2 DEF RefsOK, DanglingOnlyByRace
  <2>4. \A u \in Tasks \ {t} : RefTask(u)' /\ Halves(u)'
    BY <1>1, <1>2, <2>1, <2>2, RefOthers DEF At, RefOps
  <2>5. RefTask(t)' /\ Halves(t)'
    BY <1>0, <1>1, <1>2, <1>3, <2>1, <2>2 DEF RefTask, Halves, OwnRef, RefKnown, Past, At, LoadedOps
  <2> QED BY <2>3, <2>4, <2>5 DEF RefInv
<1>5. CASE PutFulltextRow(t) /\ \E code : Refuse(t, code)
  BY <1>5, RefRefused
<1>6. CASE PutFulltextRow(t) /\ ~\E code : Refuse(t, code)
  <2>1. /\ At(t, "put_fulltext", "commit") /\ PutFulltext(r) = "ok"
        /\ fulltexts' = [fulltexts EXCEPT ![r] = t] /\ pc'[t] = "done" /\ UNCHANGED <<refs, blobs>>
        /\ raced' = IF Detaching(r) THEN raced \cup {r} ELSE raced
    BY <1>0, <1>6 DEF PutFulltextRow, Reply, TaskOK
  <2>2. refs[r] # NoRow /\ raced \subseteq raced' /\ (Detaching(r) => r \in raced')
    BY <2>1 DEF PutFulltext, Found
  <2>3. DOMAIN fulltexts' = Refs /\ \A s \in Refs : fulltexts'[s] = IF s = r THEN t ELSE fulltexts[s]
    BY <1>2, <1>3, <2>1 DEF RefsOK
  <2>4. RefsOK'
    BY <1>1, <1>3, <2>1, <2>2, <2>3 DEF RefsOK
  <2>5. blobs[r] # NoRow \/ r \in raced
    BY <1>0, <1>3, <2>1, <2>2 DEF Halves
  <2>6. DanglingOnlyByRace'
    BY <1>3, <2>1, <2>2, <2>3, <2>5 DEF DanglingOnlyByRace
  <2>7. \A u \in Tasks \ {t} : At(u, "delete_fulltext", "more") /\ req[u].ref = r => r \in raced'
    BY <2>2 DEF At, Detaching
  <2>8. \A u \in Tasks \ {t} : RefTask(u)' /\ Halves(u)'
    BY <1>2, <2>1, <2>2, <2>3, <2>7, RefOthers DEF At, RefOps
  <2>9. RefTask(t)' /\ Halves(t)'
    BY <2>1 DEF RefTask, Halves, At
  <2> QED BY <2>4, <2>6, <2>8, <2>9 DEF RefInv
<1> QED BY <1>4, <1>5, <1>6

(* The two halves of a deletion: the row, then the blob. *)
LEMMA RefDetaches ==
    ASSUME TaskOK, RefInv, NEW t \in Tasks, Shape(t), DeleteFulltextRow(t) \/ DeleteBlob(t) PROVE RefInv'
<1>0. PICK r, p : r = req[t].ref /\ p = req[t].project
  OBVIOUS
<1>1. req' = req /\ req[t].op \in {"delete_fulltext", "delete_reference"} /\ (\A s : RefKnown(s) => RefKnown(s)')
  BY KnownStays DEF Shape, DeleteFulltextRow, DeleteBlob, At
<1>2. r \in Refs /\ \A u \in Tasks : req[u].op \in RefOps => req[u].ref \in Refs
  BY <1>0, <1>1, RequestAssumption DEF TaskOK, RefOps
<1>3. /\ OwnRef(r, p) /\ RefsOK /\ DanglingOnlyByRace /\ RefTask(t) /\ Halves(t)
  BY <1>0, <1>1 DEF RefInv, RefTask, LoadedOps, DeleteFulltextRow, DeleteBlob, At
<1>4. CASE DeleteFulltextRow(t) /\ \E code : Refuse(t, code)
  BY <1>4, RefRefused
<1>5. CASE DeleteFulltextRow(t) /\ ~\E code : Refuse(t, code)
  <2>1. /\ req[t].op = "delete_fulltext" /\ fulltexts' = [fulltexts EXCEPT ![r] = NoRow]
        /\ pc'[t] = "more" /\ UNCHANGED <<refs, blobs, raced>>
    BY <1>0, <1>5 DEF DeleteFulltextRow, At, Goto, TaskOK
  <2>2. DOMAIN fulltexts' = Refs /\ \A s \in Refs : fulltexts'[s] = IF s = r THEN NoRow ELSE fulltexts[s]
    BY <1>2, <1>3, <2>1 DEF RefsOK
  <2>3. RefsOK' /\ DanglingOnlyByRace'
    BY <1>1, <1>3, <2>1, <2>2 DEF RefsOK, DanglingOnlyByRace
  <2>4. \A u \in Tasks \ {t} : RefTask(u)' /\ Halves(u)'
    BY <1>2, <2>1, <2>2, RefOthers DEF At, RefOps
  <2>5. RefTask(t)' /\ Halves(t)'
    BY <1>0, <1>1, <1>2, <1>3, <2>1, <2>2 DEF RefTask, Halves, OwnRef, RefKnown, Past, At, LoadedOps
  <2> QED BY <2>3, <2>4, <2>5 DEF RefInv
<1>6. CASE DeleteBlob(t)
  <2> DEFINE uploading == \E u \in Tasks : req[u].op = "put_fulltext" /\ req[u].ref = r /\ pc[u] = "commit"
  <2>1. /\ pc[t] = "more" /\ pc'[t] = "done" /\ UNCHANGED <<refs, fulltexts>>
        /\ \/ blobs' = [blobs EXCEPT ![r] = NoRow] /\ raced' = IF uploading THEN raced \cup {r} ELSE raced
           \/ UNCHANGED <<blobs, raced>>
    BY <1>0, <1>6 DEF DeleteBlob, Reply, tables, TaskOK
  <2>2. RefTask(t)' /\ Halves(t)'
    BY <2>1 DEF RefTask, Halves, At
  <2>3. CASE UNCHANGED <<blobs, raced>>
    BY <2>1, <2>2, <2>3, RefSame
  <2>4. CASE blobs' = [blobs EXCEPT ![r] = NoRow] /\ raced' = IF uploading THEN raced \cup {r} ELSE raced
    <3>1. raced \subseteq raced' /\ (uploading => r \in raced')
      BY <2>4
    <3>2. DOMAIN blobs' = Refs /\ \A s \in Refs : blobs'[s] = IF s = r THEN NoRow ELSE blobs[s]
      BY <1>2, <1>3, <2>4 DEF RefsOK
    <3>3. RefsOK'
      BY <1>1, <1>3, <2>1, <3>2 DEF RefsOK
    <3>4. fulltexts[r] = NoRow \/ r \in raced
      BY <1>0, <1>1, <1>2, <1>3, <2>1 DEF RefTask, Halves, At, RefsOK
    <3>5. DanglingOnlyByRace'
      BY <1>3, <2>1, <3>1, <3>2, <3>4 DEF DanglingOnlyByRace
    <3>6. \A u \in Tasks \ {t} : At(u, "put_fulltext", "commit") /\ req[u].ref = r => r \in raced'
      BY <3>1 DEF At
    <3>7. \A u \in Tasks \ {t} : RefTask(u)' /\ Halves(u)'
      BY <1>2, <2>1, <3>1, <3>2, <3>6, RefOthers DEF At, RefOps
    <3> QED BY <2>2, <3>3, <3>5, <3>7 DEF RefInv
  <2> QED BY <2>1, <2>3, <2>4
<1> QED BY <1>4, <1>5, <1>6

(* The end of a project: its rows, then its blobs. *)
LEMMA RefCascade ==
    ASSUME TaskOK, RefInv, NEW t \in Tasks, Shape(t), DeleteProjectCommit(t) \/ DeleteProjectBlobs(t)
    PROVE  RefInv'
<1>0. PICK p : p = req[t].project
  OBVIOUS
<1>1. req' = req /\ req[t].op = "delete_project" /\ (\A s : RefKnown(s) => RefKnown(s)')
  BY KnownStays DEF Shape, DeleteProjectCommit, DeleteProjectBlobs, At
<1>2. \A u \in Tasks : req[u].op \in RefOps => req[u].ref \in Refs
  BY RequestAssumption DEF TaskOK
<1>3. RefsOK /\ DanglingOnlyByRace /\ RefTask(t)
  BY DEF RefInv
<1>4. CASE DeleteProjectCommit(t) /\ \E code : Refuse(t, code)
  BY <1>4, RefRefused
<1>5. CASE DeleteProjectCommit(t) /\ ~\E code : Refuse(t, code)
  <2>1. /\ pc[t] = "commit" /\ pc'[t] = "more" /\ row' = row /\ UNCHANGED <<blobs, raced>>
        /\ refs' = Without(refs, OfProject(refs, p)) /\ fulltexts' = Without(fulltexts, OfProject(refs, p))
    BY <1>0, <1>5 DEF DeleteProjectCommit, At, Goto, TaskOK
  <2>2. /\ DOMAIN refs' = Refs /\ DOMAIN fulltexts' = Refs
        /\ \A s \in Refs : LET gone == refs[s] # NoRow /\ refs[s].project = p IN
             /\ refs'[s] = (IF gone THEN NoRow ELSE refs[s])
             /\ fulltexts'[s] = (IF gone THEN NoRow ELSE fulltexts[s])
    BY <1>3, <2>1 DEF RefsOK, Without, OfProject
  <2>3. RefsOK' /\ DanglingOnlyByRace'
    BY <1>1, <1>3, <2>1, <2>2 DEF RefsOK, DanglingOnlyByRace
  <2>4. \A u \in Tasks \ {t} : RefTask(u)' /\ Halves(u)'
    <3>1. \A s \in Refs : refs'[s] # NoRow => refs[s] # NoRow /\ refs'[s].project = refs[s].project
      BY <2>2
    <3>2. \A s \in Refs : fulltexts'[s] = NoRow \/ fulltexts'[s] = fulltexts[s]
      BY <2>2
    <3> QED BY <1>2, <2>1, <3>1, <3>2, RefOthers DEF At, RefOps
  <2>5. \A s \in row[t] : s \in Refs /\ RefKnown(s)' /\ refs'[s] = NoRow
    BY <1>0, <1>1, <1>3, <2>1, <2>2 DEF RefTask, OwnRef, At
  <2>6. RefTask(t)' /\ Halves(t)'
    BY <1>1, <2>1, <2>5 DEF RefTask, Halves, OwnRef, RefKnown, Past, At, LoadedOps
  <2> QED BY <2>3, <2>4, <2>6 DEF RefInv
<1>6. CASE DeleteProjectBlobs(t)
  <2>1. pc[t] = "more" /\ UNCHANGED <<refs, fulltexts, raced>>
    BY <1>6 DEF DeleteProjectBlobs, At, tables
  <2>2. \A s \in row[t] : s \in Refs /\ RefKnown(s) /\ refs[s] = NoRow
    BY <1>1, <1>3, <2>1 DEF RefTask, OwnRef, At
  <2>3. row'[t] \subseteq row[t]
    BY <1>6 DEF DeleteProjectBlobs, Reply, TaskOK
  <2>4. pc'[t] \in {"done", "more"}
    BY <1>6, <2>1 DEF DeleteProjectBlobs, Reply, TaskOK
  <2>5. DOMAIN blobs' = Refs /\ \A s \in Refs : blobs'[s] = blobs[s] \/ s \in row[t]
    BY <1>3, <1>6 DEF DeleteProjectBlobs, RefsOK
  <2>6. RefTask(t)' /\ Halves(t)'
    BY <1>1, <2>1, <2>2, <2>3, <2>4 DEF RefTask, Halves, OwnRef, RefKnown, Past, At, LoadedOps
  <2>7. RefsOK' /\ DanglingOnlyByRace'
    BY <1>1, <1>3, <2>1, <2>2, <2>5 DEF RefsOK, DanglingOnlyByRace
  <2>8. \A u \in Tasks \ {t} : RefTask(u)' /\ Halves(u)'
    BY <1>2, <2>1, <2>2, <2>5, RefOthers DEF At, RefOps
  <2> QED BY <2>6, <2>7, <2>8 DEF RefInv
<1> QED BY <1>4, <1>5, <1>6

LEMMA RefNext == ASSUME TaskOK, RefInv, NEW t \in Tasks, Frame(t) PROVE RefInv'
<1>1. Shape(t) /\ (RefWork(t) \/ RefQuiet(t))
  BY DEF Frame
<1> QED BY <1>1, RefReads, RefLoads, RefWrites, RefUploads, RefDetaches, RefCascade DEF RefWork, FileStep

-----------------------------------------------------------------------------
(* Memberships and share links. *)

LEMMA LinkInit == Init => LinkInv
<1> SUFFICES ASSUME Init PROVE LinkInv
  OBVIOUS
<1>1. /\ req \in [Tasks -> Requests] /\ pc = [t \in Tasks |-> "received"]
      /\ links = FirstLinks /\ members = FirstMembers
  BY DEF Init, Requests
<1>2. LinksOK
  BY <1>1, RequestAssumption, RowAssumption DEF LinksOK, LinkKnown, Given
<1>3. \A t \in Tasks : LinkTask(t)
  BY <1>1 DEF LinkTask, At
<1>4. MembersOK
  BY <1>1, RowAssumption DEF MembersOK, RolesGranted, Rightful
<1> QED BY <1>2, <1>3, <1>4 DEF LinkInv

(* A step that gives no role and no known link to another project. *)
LEMMA LinkMoves ==
    ASSUME TaskOK, LinkInv, NEW t \in Tasks, Shape(t), LinksOK', LinkTask(t)',
           \A k \in Links : LinkKnown(k) /\ links'[k] # NoRow => links[k] # NoRow /\ links'[k].project = links[k].project,
           members' \in [Projects -> [Names -> MembershipRoles \cup {NoRole}]],
           \A p \in Projects, s \in Names : members'[p][s] \in {members[p][s], NoRole} \/ Rightful(p, s, members'[p][s])
    PROVE  LinkInv'
<1>1. req' = req /\ \A u \in Tasks \ {t} : pc'[u] = pc[u] /\ row'[u] = row[u]
  BY DEF Shape
<1>2. \A k : LinkKnown(k) => LinkKnown(k)'
  BY KnownStays
<1>3. ASSUME NEW u \in Tasks \ {t} PROVE LinkTask(u)'
  <2>1. LinkTask(u)
    BY DEF LinkInv
  <2>2. PICK k, p : k = req[u].link /\ p = req[u].project
    OBVIOUS
  <2>3. At(u, "delete_share_link", "commit") => k \in Links
    BY <2>2, RequestAssumption DEF TaskOK, At, LinkOps
  <2>4. At(u, "delete_share_link", "commit") => LinkKnown(k)' /\ (links'[k] # NoRow => links'[k].project = p)
    BY <1>2, <2>1, <2>2, <2>3 DEF LinkTask, OwnLink
  <2>5. (At(u, "delete_share_link", "commit") => OwnLink(u))'
    BY <1>1, <2>2, <2>4 DEF OwnLink, LinkKnown, Past, At
  <2> QED BY <1>1, <2>1, <2>5 DEF LinkTask, Clamped, Given, At
<1>4. MembersOK'
  <2>1. \A p \in Projects, s \in Names : members'[p][s] # NoRole => Rightful(p, s, members'[p][s])
    BY DEF LinkInv, MembersOK, RolesGranted
  <2>2. \A p, s, role : Rightful(p, s, role) => Rightful(p, s, role)'
    BY <1>1 DEF Rightful, Given
  <2>3. ASSUME NEW p \in Projects, NEW s \in Names PROVE (members[p][s] # NoRole => Rightful(p, s, members[p][s]))'
    <3>1. PICK role : role = members'[p][s]
      OBVIOUS
    <3>2. role # NoRole => Rightful(p, s, role)'
      BY <2>1, <2>2, <3>1
    <3> QED BY <3>1, <3>2 DEF Rightful
  <2>4. RolesGranted'
    BY <2>3 DEF RolesGranted
  <2> QED BY <2>4 DEF MembersOK
<1> QED BY <1>3, <1>4 DEF LinkInv

(* Steps that leave the table of links alone. *)
LEMMA LinkKept ==
    ASSUME TaskOK, LinkInv, NEW t \in Tasks, Shape(t), links' = links, LinkTask(t)',
           members' \in [Projects -> [Names -> MembershipRoles \cup {NoRole}]],
           \A p \in Projects, s \in Names :
             members'[p][s] \in {members[p][s], NoRole} \/ Rightful(p, s, members'[p][s])
    PROVE  LinkInv'
<1>1. req' = req /\ \A k : LinkKnown(k) => LinkKnown(k)'
  BY KnownStays DEF Shape
<1>2. LinksOK'
  BY <1>1 DEF LinkInv, LinksOK, Given
<1> QED BY <1>2, LinkMoves

LEMMA LinkRefused ==
    ASSUME TaskOK, LinkInv, NEW t \in Tasks, Shape(t), pc'[t] = "done", UNCHANGED <<members, links>> PROVE LinkInv'
<1>1. LinkTask(t)'
  BY DEF LinkTask, At
<1> QED BY <1>1, LinkKept DEF LinkInv, MembersOK

(* A role is written for one subject of one project. *)
LEMMA RoleWritten ==
    ASSUME TaskOK, LinkInv, NEW t \in Tasks, Shape(t), links' = links, pc'[t] \in {"more", "done"},
           NEW p \in Projects, NEW s \in Names, NEW role \in MembershipRoles \cup {NoRole},
           members' = [members EXCEPT ![p][s] = role], role = NoRole \/ Rightful(p, s, role)
    PROVE  LinkInv'
<1>1. members' \in [Projects -> [Names -> MembershipRoles \cup {NoRole}]]
  BY DEF LinkInv, MembersOK
<1>2. \A x \in Projects, y \in Names : members'[x][y] = IF x = p /\ y = s THEN role ELSE members[x][y]
  BY DEF LinkInv, MembersOK
<1>3. LinkTask(t)'
  BY DEF LinkTask, At
<1> QED BY <1>1, <1>2, <1>3, LinkKept

LEMMA MemberSteps ==
    ASSUME TaskOK, LinkInv, NEW t \in Tasks, Shape(t),
           CreateProjectOwner(t) \/ AddMember(t) \/ AddMemberCommit(t) \/ RemoveMemberCommit(t)
    PROVE  LinkInv'
<1>0. /\ req[t] \in Requests /\ req' = req /\ SubjectOf[req[t].user] \in Names /\ req[t].project \in Projects
      /\ members \in [Projects -> [Names -> MembershipRoles \cup {NoRole}]]
  BY AppAssumption DEF TaskOK, Shape, LinkInv, MembersOK
<1>1. CASE \E code : Refuse(t, code)
  BY <1>1, LinkRefused DEF Refuse, Reply, tables, TaskOK
<1>2. CASE CreateProjectOwner(t) /\ ~\E code : Refuse(t, code)
  <2>1. /\ req[t].op = "create_project" /\ pc'[t] = "done" /\ links' = links
        /\ members' = [members EXCEPT ![req[t].project][SubjectOf[req[t].user]] = "owner"]
    BY <1>2 DEF CreateProjectOwner, At, Reply, TaskOK
  <2>2. Rightful(req[t].project, SubjectOf[req[t].user], "owner")
    BY <1>0, <2>1, RequestAssumption DEF Rightful
  <2> QED BY <1>0, <2>1, <2>2, RoleWritten DEF MembershipRoles
<1>3. CASE AddMember(t) /\ ~\E code : Refuse(t, code)
  <2>1. UNCHANGED <<members, links>> /\ req[t].op = "add_member" /\ req[t].role # "owner"
    BY <1>3 DEF AddMember, At, tables, Then, If
  <2>2. LinkTask(t)'
    BY <1>0, <2>1 DEF LinkTask, At
  <2> QED BY <1>0, <2>1, <2>2, LinkKept
<1>4. CASE AddMemberCommit(t) /\ ~\E code : Refuse(t, code)
  <2>1. /\ At(t, "add_member", "commit") /\ pc'[t] = "more" /\ links' = links
        /\ members' = [members EXCEPT ![req[t].project][req[t].subject] = req[t].role]
    BY <1>4 DEF AddMemberCommit, Goto, TaskOK
  <2>2. req[t].subject \in Names /\ req[t].role \in MembershipRoles
    BY <1>0, <2>1, RequestAssumption DEF At
  <2>3. Rightful(req[t].project, req[t].subject, req[t].role)
    BY <2>1 DEF Rightful, LinkInv, LinkTask, At
  <2> QED BY <1>0, <2>1, <2>2, <2>3, RoleWritten
<1>5. CASE RemoveMemberCommit(t) /\ ~\E code : Refuse(t, code)
  <2>1. /\ req[t].op = "remove_member" /\ pc'[t] = "more" /\ links' = links
        /\ members' = [members EXCEPT ![req[t].project][req[t].subject] = NoRole]
    BY <1>5 DEF RemoveMemberCommit, At, Goto, TaskOK
  <2>2. req[t].subject \in Names
    BY <1>0, <2>1, RequestAssumption
  <2> QED BY <1>0, <2>1, <2>2, RoleWritten
<1> QED BY <1>1, <1>2, <1>3, <1>4, <1>5

(* The rank of what is granted. *)
LEMMA GrantedClamp ==
    ASSUME NEW k, links[k] \in LinkRow, NEW u \in Users
    PROVE  /\ Granted(k, u) \in MembershipRoles /\ Rank[Granted(k, u)] <= Rank[links[k].role]
           /\ Granted(k, u) = "read-only" \/ Rank[Granted(k, u)] <= Rank[IdpRole[u]]
<1>1. links[k].role \in MembershipRoles /\ IdpRole[u] \in {"none", "read-only", "reviewer", "author"}
  BY AppAssumption DEF LinkRow
<1>2. Rank["owner"] = 3 /\ Rank["author"] = 2 /\ Rank["reviewer"] = 1 /\ Rank["read-only"] = 0
  BY DEF Rank, MembershipRoles
<1> QED BY <1>1, <1>2 DEF Granted, MembershipRoles

(* Redeeming a link. *)
LEMMA RedeemSteps ==
    ASSUME TaskOK, LinkInv, NEW t \in Tasks, Shape(t),
           RedeemShareLink(t) \/ RedeemReadsMembership(t) \/ RedeemCommit(t)
    PROVE  LinkInv'
<1>0. /\ req[t] \in Requests /\ req' = req /\ req[t].op = "redeem_share_link" /\ req[t].user \in Users
      /\ SubjectOf[req[t].user] \in Names /\ members \in [Projects -> [Names -> MembershipRoles \cup {NoRole}]]
  BY AppAssumption DEF TaskOK, Shape, LinkInv, MembersOK, RedeemShareLink, RedeemReadsMembership, RedeemCommit, At
<1>1. PICK k : k = req[t].link /\ k \in Links
  BY <1>0, RequestAssumption DEF LinkOps
<1>2. LinkTask(t) /\ links' = links
  BY DEF LinkInv, RedeemShareLink, RedeemReadsMembership, RedeemCommit, Refuse, tables
<1>3. CASE \E code : Refuse(t, code)
  BY <1>3, LinkRefused DEF Refuse, Reply, tables, TaskOK
<1>4. CASE RedeemShareLink(t) /\ ~\E code : Refuse(t, code)
  <2> DEFINE new == [link |-> links[k], role |-> Granted(k, req[t].user)]
  <2>1. links[k] # NoRow /\ row' = [row EXCEPT ![t] = new] /\ pc' = [pc EXCEPT ![t] = "load"] /\ members' = members
    BY <1>1, <1>4 DEF RedeemShareLink, Read, Goto, tables
  <2>2. row'[t] = new /\ pc'[t] = "load"
    BY <2>1 DEF TaskOK
  <2>3. links[k] \in LinkRow /\ links[k] \in Given(k)
    BY <1>1, <2>1 DEF LinkInv, LinksOK
  <2>4. /\ Granted(k, req[t].user) \in MembershipRoles /\ Rank[Granted(k, req[t].user)] <= Rank[links[k].role]
        /\ Granted(k, req[t].user) = "read-only" \/ Rank[Granted(k, req[t].user)] <= Rank[IdpRole[req[t].user]]
    BY <1>0, <2>3, GrantedClamp
  <2>5. new \in RedeemRow /\ new.link = links[k] /\ new.role = Granted(k, req[t].user)
    BY <2>3, <2>4 DEF RedeemRow
  <2> HIDE DEF new
  <2>6. Clamped(t)'
    BY <1>0, <1>1, <2>1, <2>2, <2>3, <2>4, <2>5 DEF Clamped, Given
  <2>7. LinkTask(t)'
    BY <1>0, <2>2, <2>5, <2>6 DEF LinkTask, At
  <2> QED BY <1>0, <1>2, <2>1, <2>7, LinkKept
<1>5. CASE RedeemReadsMembership(t)
  <2>1. row[t] \in RedeemRow /\ Clamped(t) /\ members' = members
    BY <1>2, <1>5 DEF RedeemReadsMembership, LinkTask, At, tables
  <2> DEFINE old == members[row[t].link.project][SubjectOf[req[t].user]]
             new == [link |-> row[t].link, role |-> row[t].role, old |-> old]
  <2>2. CASE pc'[t] = "done"
    BY <1>2, <2>1, <2>2, LinkRefused
  <2>3. CASE pc'[t] # "done"
    <3>1. row'[t] = new /\ pc'[t] = "commit"
      BY <1>5, <2>3 DEF RedeemReadsMembership, Reply, Read, Goto, TaskOK
    <3>2. row[t].link \in LinkRow /\ row[t].role \in MembershipRoles /\ old \in MembershipRoles \cup {NoRole}
      BY <1>0, <2>1 DEF RedeemRow, LinkRow
    <3>3. new \in UpgradeRow /\ new.link = row[t].link /\ new.role = row[t].role
      BY <3>2 DEF UpgradeRow
    <3> HIDE DEF new
    <3>4. LinkTask(t)'
      BY <1>0, <2>1, <3>1, <3>3 DEF LinkTask, Clamped, Given, At
    <3> QED BY <1>0, <1>2, <2>1, <3>4, LinkKept
  <2> QED BY <2>2, <2>3
<1>6. CASE RedeemCommit(t) /\ ~\E code : Refuse(t, code)
  <2>1. row[t] \in UpgradeRow /\ Clamped(t)
    BY <1>2, <1>6 DEF RedeemCommit, LinkTask, At
  <2>2. /\ members' = [members EXCEPT ![row[t].link.project][SubjectOf[req[t].user]] = row[t].role]
        /\ pc'[t] = "more"
    BY <1>6 DEF RedeemCommit, Goto, TaskOK
  <2>3. row[t].link.project \in Projects /\ row[t].role \in MembershipRoles
    BY <2>1 DEF UpgradeRow, LinkRow
  <2>4. Rightful(row[t].link.project, SubjectOf[req[t].user], row[t].role)
    BY <1>0, <2>1 DEF Rightful, Clamped
  <2> QED BY <1>0, <1>2, <2>2, <2>3, <2>4, RoleWritten
<1> QED BY <1>3, <1>4, <1>5, <1>6

(* The table of links. *)
LEMMA LinkSteps ==
    ASSUME TaskOK, LinkInv, NEW t \in Tasks, Shape(t),
           CreateShareLink(t) \/ RevokeShareLink(t) \/ RevokeShareLinkCommit(t)
    PROVE  LinkInv'
<1>0. /\ req[t] \in Requests /\ req' = req /\ req[t].op \in {"create_share_link", "delete_share_link"}
      /\ members \in [Projects -> [Names -> MembershipRoles \cup {NoRole}]] /\ members' = members
  BY DEF TaskOK, Shape, LinkInv, MembersOK, CreateShareLink, RevokeShareLink, RevokeShareLinkCommit, At, Refuse, tables
<1>1. PICK k, p : k = req[t].link /\ p = req[t].project /\ k \in Links /\ p \in Projects
  BY <1>0, RequestAssumption, AppAssumption DEF LinkOps
<1>2. LinksOK /\ \A j : LinkKnown(j) => LinkKnown(j)'
  BY KnownStays DEF LinkInv
<1>3. CASE \E code : Refuse(t, code)
  BY <1>3, LinkRefused DEF Refuse, Reply, tables, TaskOK
<1>4. CASE CreateShareLink(t) /\ ~\E code : Refuse(t, code)
  <2> DEFINE v == [project |-> req[t].project, role |-> req[t].role]
  <2>1. /\ req[t].op = "create_share_link" /\ pc[t] = "admitted" /\ links[k] = NoRow
        /\ links' = [links EXCEPT ![k] = v] /\ pc'[t] = "more"
    BY <1>1, <1>4 DEF CreateShareLink, At, Goto, TaskOK
  <2>2. v \in LinkRow /\ v \in Given(k)
    BY <1>0, <1>1, <2>1, RequestAssumption DEF LinkRow, Given
  <2> HIDE DEF v
  <2>3. ~LinkKnown(k) /\ LinkKnown(k)'
    <3>1. ~LinkKnown(k)
      BY <1>1, <2>1 DEF LinkKnown, Past
    <3>2. \A u \in Tasks \ {t} : ~(req[u].op = "create_share_link" /\ req[u].link = k)
      BY <1>1, <2>1, Creators
    <3> QED BY <1>0, <2>1, <3>1, <3>2 DEF LinkKnown, Past
  <2>4. DOMAIN links' = Links /\ \A j \in Links : links'[j] = IF j = k THEN v ELSE links[j]
    BY <1>1, <1>2, <2>1 DEF LinksOK
  <2>5. \A j : Given(j)' = Given(j)
    BY <1>0 DEF Given
  <2>6. LinksOK'
    BY <1>2, <2>2, <2>3, <2>4, <2>5 DEF LinksOK
  <2>7. LinkTask(t)'
    BY <2>1 DEF LinkTask, At
  <2> QED BY <1>0, <2>3, <2>4, <2>6, <2>7, LinkMoves
<1>5. CASE RevokeShareLink(t) /\ ~\E code : Refuse(t, code)
  <2>1. links' = links /\ ForProject(p, links[k]) = "ok" /\ req[t].op = "delete_share_link"
    BY <1>1, <1>5 DEF RevokeShareLink, At, tables, Then
  <2>2. links[k] # NoRow /\ links[k].project = p
    BY <2>1 DEF ForProject
  <2>3. LinkKnown(k)'
    BY <1>1, <1>2, <2>2 DEF LinksOK
  <2>4. LinkTask(t)'
    BY <1>0, <1>1, <2>1, <2>2, <2>3 DEF LinkTask, OwnLink, LinkKnown, Past, At
  <2> QED BY <1>0, <2>1, <2>4, LinkKept
<1>6. CASE RevokeShareLinkCommit(t) /\ ~\E code : Refuse(t, code)
  <2>1. links' = [links EXCEPT ![k] = NoRow] /\ pc'[t] = "more"
    BY <1>1, <1>6 DEF RevokeShareLinkCommit, Goto, TaskOK
  <2>2. DOMAIN links' = Links /\ \A j \in Links : links'[j] = IF j = k THEN NoRow ELSE links[j]
    BY <1>1, <1>2, <2>1 DEF LinksOK
  <2>3. \A j : Given(j)' = Given(j)
    BY <1>0 DEF Given
  <2>4. LinksOK' /\ LinkTask(t)'
    BY <1>2, <2>1, <2>2, <2>3 DEF LinksOK, LinkTask, At
  <2> QED BY <1>0, <2>2, <2>4, LinkMoves
<1> QED BY <1>3, <1>4, <1>5, <1>6

LEMMA LinkNext == ASSUME TaskOK, LinkInv, NEW t \in Tasks, Frame(t) PROVE LinkInv'
<1>1. Shape(t) /\ (LinkWork(t) \/ LinkQuiet(t)) /\ req' = req
  BY DEF Frame, Shape
<1>2. /\ members \in [Projects -> [Names -> MembershipRoles \cup {NoRole}]]
      /\ LinksOK /\ \A k : LinkKnown(k) => LinkKnown(k)'
  BY <1>1, KnownStays DEF LinkInv, MembersOK
<1>3. CASE LinkQuiet(t)
  <2>1. UNCHANGED <<members, links>> /\ (req[t].op \in LinkOps \cup {"add_member"} => pc'[t] \in {"admitted", "done"})
    BY <1>3 DEF LinkQuiet, Calm
  <2>2. LinkTask(t)'
    BY <1>1, <2>1 DEF LinkTask, At, LinkOps
  <2> QED BY <1>1, <1>2, <2>1, <2>2, LinkKept
<1>4. CASE AuditAccess(t)
  <2>1. UNCHANGED <<members, links>> /\ pc'[t] = "done"
    BY <1>4 DEF AuditAccess, AppendAudit, Reply, TaskOK
  <2> QED BY <1>1, <2>1, LinkRefused
<1>5. CASE DeleteProjectCommit(t) /\ \E code : Refuse(t, code)
  BY <1>1, <1>5, LinkRefused DEF Refuse, Reply, tables, TaskOK
<1>6. CASE DeleteProjectCommit(t) /\ ~\E code : Refuse(t, code)
  <2>1. PICK p : p = req[t].project /\ p \in Projects
    BY AppAssumption DEF TaskOK
  <2>2. /\ members' = [members EXCEPT ![p] = [s \in Names |-> NoRole]] /\ pc'[t] = "more"
        /\ links' = Without(links, OfProject(links, p)) /\ req[t].op = "delete_project"
    BY <1>6, <2>1 DEF DeleteProjectCommit, At, Goto, TaskOK
  <2>3. members' \in [Projects -> [Names -> MembershipRoles \cup {NoRole}]]
    BY <1>2, <2>2
  <2>4. \A x \in Projects, s \in Names : members'[x][s] \in {members[x][s], NoRole}
    BY <1>2, <2>2
  <2>5. DOMAIN links' = Links /\ \A k \in Links : links'[k] = links[k] \/ links'[k] = NoRow
    BY <1>2, <2>2 DEF LinksOK, Without
  <2>6. \A j : Given(j)' = Given(j)
    BY <1>1 DEF Given
  <2>7. LinksOK' /\ LinkTask(t)'
    BY <1>1, <1>2, <2>2, <2>5, <2>6 DEF LinksOK, LinkTask, At
  <2> QED BY <1>1, <2>3, <2>4, <2>5, <2>7, LinkMoves
<1> QED BY <1>1, <1>3, <1>4, <1>5, <1>6, MemberSteps, RedeemSteps, LinkSteps DEF LinkWork

-----------------------------------------------------------------------------
(* Builds. *)

(* A request to the compiler, and one with a bibliography more. *)
CompileRequest(r) ==
    /\ DOMAIN r = {"entry", "view", "marked", "sources"}
    /\ \A p \in DOMAIN r.sources : DOMAIN r.sources[p] = {"of", "redline", "bib", "import"}

WithRefs(r, b) ==
    /\ DOMAIN b = DOMAIN r /\ b.entry = r.entry /\ b.view = r.view /\ b.marked = r.marked
    /\ DOMAIN r.sources \subseteq DOMAIN b.sources
    /\ \A p \in DOMAIN b.sources : DOMAIN b.sources[p] = {"of", "redline", "bib", "import"}
    /\ \A p \in DOMAIN r.sources : /\ b.sources[p].of = r.sources[p].of
                                   /\ b.sources[p].redline = r.sources[p].redline
                                   /\ b.sources[p].import = r.sources[p].import
    /\ \A p \in DOMAIN b.sources \ DOMAIN r.sources : b.sources[p].redline = FALSE /\ b.sources[p].import = FALSE

(* The steps of prepare_project_sources, one after the other. *)
LEMMA BibliographyInjected ==
    ASSUME NEW r, NEW references, CompileRequest(r) PROVE WithRefs(r, InjectBibliography(r, references))
<1>0. PICK b : b = InjectBibliography(r, references)
  OBVIOUS
<1> USE DEF CompileRequest
<1> SUFFICES WithRefs(r, b)
  BY <1>0
<1> DEFINE path == RefsIn[DirOf[r.entry]]
           inserted == [p \in DOMAIN r.sources \cup {path} |-> IF p = path THEN Generated ELSE r.sources[p]]
           g == [p \in DOMAIN inserted |->
                    IF p = r.entry THEN [inserted[p] EXCEPT !.bib = TRUE] ELSE inserted[p]]
<1>1. CASE references = {} \/ path \in DOMAIN r.sources
  <2>1. b = r
    BY <1>0, <1>1 DEF InjectBibliography
  <2> QED BY <2>1 DEF WithRefs
<1>2. CASE ~(references = {} \/ path \in DOMAIN r.sources)
  <2>1. b = [r EXCEPT !.sources = g]
    BY <1>0, <1>2 DEF InjectBibliography
  <2>2. b.sources = g /\ b.entry = r.entry /\ b.view = r.view /\ b.marked = r.marked /\ DOMAIN b = DOMAIN r
    BY <2>1
  <2>3. DOMAIN g = DOMAIN r.sources \cup {path} /\ inserted[path] = Generated
    OBVIOUS
  <2>4. \A p \in DOMAIN g : g[p] = IF p = r.entry THEN [inserted[p] EXCEPT !.bib = TRUE] ELSE inserted[p]
    OBVIOUS
  <2>5. \A p \in DOMAIN r.sources : inserted[p] = r.sources[p]
    BY <1>2
  <2> HIDE DEF g, inserted
  <2>6. \A p \in DOMAIN r.sources : /\ g[p].of = r.sources[p].of /\ g[p].redline = r.sources[p].redline
                                    /\ g[p].import = r.sources[p].import
                                    /\ DOMAIN g[p] = {"of", "redline", "bib", "import"}
    <3> SUFFICES ASSUME NEW p \in DOMAIN r.sources
                 PROVE  /\ g[p].of = r.sources[p].of /\ g[p].redline = r.sources[p].redline
                        /\ g[p].import = r.sources[p].import
                        /\ DOMAIN g[p] = {"of", "redline", "bib", "import"}
      OBVIOUS
    <3>1. g[p] = r.sources[p] \/ g[p] = [r.sources[p] EXCEPT !.bib = TRUE]
      BY <2>3, <2>4, <2>5
    <3> QED BY <3>1
  <2>7. g[path].redline = FALSE /\ g[path].import = FALSE /\ DOMAIN g[path] = {"of", "redline", "bib", "import"}
    <3>1. g[path] = Generated \/ g[path] = [Generated EXCEPT !.bib = TRUE]
      BY <2>3, <2>4
    <3> QED BY <3>1 DEF Generated
  <2> QED BY <2>2, <2>3, <2>6, <2>7 DEF WithRefs
<1> QED BY <1>1, <1>2

(* Every source with markers imports review.typ, and the file is there. *)
LEMMA ReviewInjected ==
    ASSUME NEW r, DOMAIN r = {"entry", "view", "marked", "sources"},
           \A p \in DOMAIN r.sources :
             /\ DOMAIN r.sources[p] = {"of", "redline", "bib", "import"}
             /\ r.sources[p].import = FALSE /\ (r.sources[p].redline => r.view = "redline")
    PROVE  LET b == InjectRedlineReview(r) IN
           /\ Prepared(b) /\ b.entry = r.entry /\ DOMAIN r.sources \subseteq DOMAIN b.sources
           /\ \A p \in DOMAIN r.sources : b.sources[p].of = r.sources[p].of
<1> DEFINE b == InjectRedlineReview(r)
           importing == {p \in MarkedSources(r) : p # ReviewIn[DirOf[p]]}
           added == {ReviewIn[DirOf[p]] : p \in importing} \ DOMAIN r.sources
           g == [p \in DOMAIN r.sources \cup added |->
                    CASE p \in added -> Generated
                      [] p \in importing -> [r.sources[p] EXCEPT !.import = TRUE]
                      [] OTHER -> r.sources[p]]
<1>1. CASE r.view # "redline"
  <2>1. b = r
    BY <1>1 DEF InjectRedlineReview
  <2>2. Prepared(r)
    BY <1>1 DEF Prepared
  <2> QED BY <2>1, <2>2
<1>2. CASE r.view = "redline"
  <2>1. b = [r EXCEPT !.sources = g]
    BY <1>2 DEF InjectRedlineReview
  <2>2. b.sources = g /\ b.entry = r.entry
    BY <2>1
  <2>3. importing \subseteq DOMAIN r.sources /\ added \cap DOMAIN r.sources = {}
    BY DEF MarkedSources
  <2>4. DOMAIN g = DOMAIN r.sources \cup added /\ \A p \in added : g[p] = Generated
    <3>1. DOMAIN g = DOMAIN r.sources \cup added
      OBVIOUS
    <3>2. \A p \in added : g[p] = Generated
      BY <2>3
    <3> QED BY <3>1, <3>2
  <2>5. \A p \in DOMAIN r.sources : g[p] = IF p \in importing THEN [r.sources[p] EXCEPT !.import = TRUE] ELSE r.sources[p]
    BY <2>3
  <2>6. \A p \in importing : ReviewIn[DirOf[p]] \in DOMAIN g
    BY <2>4
  <2>7. \A p \in DOMAIN r.sources : r.sources[p].redline =>
          p \in importing \/ p = ReviewIn[DirOf[p]] \/ p \notin Typst
    BY DEF MarkedSources
  <2> HIDE DEF g, b, importing, added
  <2>8. \A p \in DOMAIN r.sources : /\ g[p].of = r.sources[p].of /\ g[p].redline = r.sources[p].redline
                                    /\ IF p \in importing THEN g[p].import = TRUE ELSE g[p].import = FALSE
    BY <2>5
  <2>9. \A p \in added : g[p].redline = FALSE /\ g[p].import = FALSE
    BY <2>4 DEF Generated
  <2>10. Prepared(b)
    BY <2>2, <2>4, <2>6, <2>7, <2>8, <2>9 DEF Prepared
  <2> QED BY <2>2, <2>4, <2>8, <2>10 DEF b
<1> QED BY <1>1, <1>2

LEMMA SourcesPrepared ==
    ASSUME NEW entry, NEW view, NEW ds, NEW references
    PROVE  LET b == PrepareProjectSources(entry, view, ds, references) IN
           /\ Prepared(b) /\ b.entry = entry
           /\ OnePath(ds) => \A d \in ds : b.sources[d.path].of = d.id
<1> DEFINE paths == {d.path : d \in ds}
           at(p) == CHOOSE d \in ds : d.path = p
           r == [entry |-> entry, view |-> view, marked |-> {d.path : d \in {d \in ds : d.marked}},
                 sources |-> [p \in paths |-> ProjectedSource(at(p), view)]]
           m == InjectBibliography(r, references)
           b == InjectRedlineReview(m)
<1>1. PrepareProjectSources(entry, view, ds, references) = b
  BY DEF PrepareProjectSources
<1>2. /\ DOMAIN r = {"entry", "view", "marked", "sources"} /\ r.entry = entry /\ r.view = view
      /\ r.sources = [p \in paths |-> ProjectedSource(at(p), view)]
  OBVIOUS
<1>3. \A p \in paths : at(p) \in ds /\ at(p).path = p
  OBVIOUS
<1> HIDE DEF at
<1>4. ASSUME NEW p \in DOMAIN r.sources
      PROVE  /\ DOMAIN r.sources[p] = {"of", "redline", "bib", "import"} /\ r.sources[p].import = FALSE
             /\ r.sources[p].of = at(p).id /\ (r.sources[p].redline => view = "redline")
  BY <1>2 DEF ProjectedSource
<1>5. ASSUME OnePath(ds), NEW d \in ds PROVE d.path \in DOMAIN r.sources /\ r.sources[d.path].of = d.id
  <2>1. d.path \in paths /\ DOMAIN r.sources = paths
    BY <1>2
  <2>2. at(d.path) = d
    BY <1>3, <1>5, <2>1 DEF OnePath
  <2> QED BY <1>4, <2>1, <2>2
<1> HIDE DEF r
<1>6. /\ DOMAIN m = {"entry", "view", "marked", "sources"} /\ m.entry = entry /\ m.view = view
      /\ DOMAIN r.sources \subseteq DOMAIN m.sources
      /\ \A p \in DOMAIN r.sources : m.sources[p].of = r.sources[p].of
      /\ \A p \in DOMAIN m.sources :
           /\ DOMAIN m.sources[p] = {"of", "redline", "bib", "import"}
           /\ m.sources[p].import = FALSE /\ (m.sources[p].redline => m.view = "redline")
  <2>1. CompileRequest(r)
    BY <1>2, <1>4 DEF CompileRequest
  <2>2. WithRefs(r, m)
    BY <2>1, BibliographyInjected
  <2> HIDE DEF m
  <2> QED BY <1>2, <1>4, <2>2 DEF WithRefs
<1> HIDE DEF m
<1>7. /\ Prepared(b) /\ b.entry = entry /\ DOMAIN r.sources \subseteq DOMAIN b.sources
      /\ \A p \in DOMAIN r.sources : b.sources[p].of = r.sources[p].of
  <2>1. \A p \in DOMAIN m.sources :
          /\ DOMAIN m.sources[p] = {"of", "redline", "bib", "import"}
          /\ m.sources[p].import = FALSE /\ (m.sources[p].redline => m.view = "redline")
    BY <1>6
  <2>2. /\ Prepared(b) /\ b.entry = m.entry /\ DOMAIN m.sources \subseteq DOMAIN b.sources
        /\ \A p \in DOMAIN m.sources : b.sources[p].of = m.sources[p].of
    BY <1>6, <2>1, ReviewInjected
  <2> QED BY <1>6, <2>2
<1> HIDE DEF b
<1> QED BY <1>1, <1>5, <1>7

LEMMA BuildInit == Init => BuildInv
<1> SUFFICES ASSUME Init PROVE BuildInv
  OBVIOUS
<1>1. pc = [t \in Tasks |-> "received"] /\ resp = [t \in Tasks |-> ""]
  BY DEF Init
<1> QED BY <1>1 DEF BuildInv, BuildTask, BuildsComplete, At

LEMMA BuildOthers ==
    ASSUME NEW t \in Tasks, Shape(t), NEW u \in Tasks \ {t}, BuildTask(u) PROVE BuildTask(u)'
<1>1. req' = req /\ pc'[u] = pc[u] /\ row'[u] = row[u]
  BY DEF Shape
<1>2. Wanted(u)' = Wanted(u)
  BY <1>1 DEF Wanted, Cited
<1>3. (req[u].op \in {"project_preview", "api_compile"} /\ pc[u] = "build" => Prepared(row[u]))'
  BY <1>1 DEF BuildTask, Prepared
<1>4. (req[u].op = "export_project" /\ pc[u] \in {"fetch", "blob"} =>
         /\ DOMAIN row[u] = {"docs", "refs", "todo", "next", "pdfs", "missing"} /\ OnePath(row[u].docs)
         /\ row[u].todo \cup row[u].pdfs \cup row[u].missing \cup
              (IF pc[u] = "blob" THEN {row[u].next} ELSE {}) = Wanted(u))'
  BY <1>1, <1>2 DEF BuildTask, OnePath
<1>5. (At(u, "export_project", "built") =>
         LET b == row[u].request IN
         /\ Prepared(b) /\ b.entry \in DOMAIN b.sources /\ row[u].pdfs = Wanted(u)
         /\ \A d \in row[u].docs : b.sources[d.path].of = d.id)'
  BY <1>1, <1>2 DEF BuildTask, Prepared, At
<1> QED BY <1>3, <1>4, <1>5 DEF BuildTask

(* A step that answers no build. *)
LEMMA BuildGoesOn ==
    ASSUME TaskOK, BuildInv, NEW t \in Tasks, Shape(t), BuildTask(t)', resp'[t] # "ok" \/ req[t].op \notin BuildOps
    PROVE  BuildInv'
<1>1. req' = req /\ \A u \in Tasks \ {t} : pc'[u] = pc[u] /\ row'[u] = row[u] /\ resp'[u] = resp[u]
  BY DEF Shape
<1>2. \A u \in Tasks \ {t} : BuildTask(u)'
  BY BuildOthers DEF BuildInv
<1>3. \A u \in Tasks \ {t} : Complete(u) => Complete(u)'
  BY <1>1 DEF Complete, Built, Cited
<1>4. BuildsComplete'
  BY <1>1, <1>3 DEF BuildInv, BuildsComplete, BuildOps
<1> QED BY <1>2, <1>4 DEF BuildInv

(* A step that answers one. *)
LEMMA BuildEnds ==
    ASSUME TaskOK, BuildInv, NEW t \in Tasks, Shape(t), pc'[t] = "done", row' = row, req[t].op \in BuildOps,
           LET b == Built(t) IN
           /\ Prepared(b) /\ b.entry \in DOMAIN b.sources
           /\ req[t].op = "export_project" => /\ \A d \in row[t].docs : b.sources[d.path].of = d.id
                                              /\ row[t].pdfs = Wanted(t)
    PROVE  BuildInv'
<1>1. req' = req /\ \A u \in Tasks \ {t} : pc'[u] = pc[u] /\ row'[u] = row[u] /\ resp'[u] = resp[u]
  BY DEF Shape
<1>2. \A u \in Tasks \ {t} : BuildTask(u)'
  BY BuildOthers DEF BuildInv
<1>3. BuildTask(t)'
  BY DEF BuildTask, At
<1>4. BuildsComplete'
  <2>1. Complete(t)
    BY DEF Complete, Built, Prepared, Wanted
  <2>2. \A u \in Tasks : Complete(u) => Complete(u)'
    BY <1>1 DEF Complete, Built, Cited
  <2> QED BY <1>1, <2>1, <2>2 DEF BuildInv, BuildsComplete
<1> QED BY <1>2, <1>3, <1>4 DEF BuildInv

LEMMA BuildRefused ==
    ASSUME TaskOK, BuildInv, NEW t \in Tasks, Shape(t), pc'[t] = "done", resp'[t] # "ok" PROVE BuildInv'
<1>1. BuildTask(t)'
  BY DEF BuildTask, At
<1> QED BY <1>1, BuildGoesOn

(* The answer of a handler that is still at work. *)
LEMMA BuildReads ==
    ASSUME TaskOK, BuildInv, NEW t \in Tasks, Shape(t), pc'[t] # "done", BuildTask(t)' PROVE BuildInv'
<1>1. resp'[t] # "ok"
  BY DEF Shape, TaskOK
<1> QED BY <1>1, BuildGoesOn

LEMMA PreviewSteps ==
    ASSUME TaskOK, BuildInv, NEW t \in Tasks, Shape(t),
           PreviewLoad(t) \/ PreviewCapture(t) \/ PreviewBuild(t) \/ ApiCompile(t) \/ ApiCompileBuild(t)
    PROVE  BuildInv'
<1>0. req' = req /\ req[t].op \in {"project_preview", "api_compile"} /\ BuildTask(t)
  BY DEF Shape, BuildInv, PreviewLoad, PreviewCapture, PreviewBuild, ApiCompile, ApiCompileBuild, At
<1>1. CASE \E code : Refuse(t, code)
  BY <1>1, BuildRefused DEF Refuse, Reply, TaskOK
<1>2. CASE PreviewLoad(t) /\ ~\E code : Refuse(t, code)
  <2>1. pc'[t] = "load"
    BY <1>2 DEF PreviewLoad, Read, Goto, TaskOK
  <2> QED BY <1>0, <2>1, BuildReads DEF BuildTask, At
<1>3. CASE (PreviewCapture(t) \/ ApiCompile(t)) /\ ~\E code : Refuse(t, code)
  <2>1. pc'[t] = "build"
    BY <1>3 DEF PreviewCapture, ApiCompile, Read, Goto, TaskOK
  <2>2. PICK x : x = row'[t] /\ Prepared(x)
    <3>1. CASE PreviewCapture(t)
      <4>1. PICK live \in LiveOf(req[t].project) :
              row'[t] = PrepareProjectSources(PreviewEntry(Gathered(req[t].project, live), row[t].entry), req[t].view,
                            WithDraft(Gathered(req[t].project, live), req[t]), row[t].refs)
        BY <1>3, <3>1 DEF PreviewCapture, Read, TaskOK
      <4> QED BY <4>1, SourcesPrepared
    <3>2. CASE ApiCompile(t)
      <4> DEFINE q == req[t]
                 own == {[id |-> NoDoc, path |-> p, body |-> q.body, marked |-> q.marked] : p \in q.paths}
      <4>1. row'[t] = PrepareProjectSources(q.entry, q.view, own, OfRefs(q.project))
        BY <1>3, <3>2 DEF ApiCompile, Read, TaskOK
      <4> HIDE DEF own
      <4> QED BY <4>1, SourcesPrepared
    <3> QED BY <1>3, <3>1, <3>2
  <2>3. Prepared(row[t])'
    BY <2>2 DEF Prepared
  <2> QED BY <1>0, <2>1, <2>3, BuildReads DEF BuildTask, At
<1>4. CASE PreviewBuild(t)
  <2>1. pc[t] = "build" /\ pc'[t] = "done" /\ row' = row /\ resp'[t] = Compile(row[t]) /\ req[t].op = "project_preview"
    BY <1>4 DEF PreviewBuild, At, Reply, TaskOK
  <2>2. Prepared(row[t]) /\ Built(t) = row[t]
    BY <1>0, <2>1 DEF BuildTask, Built
  <2>3. CASE resp'[t] = "ok"
    BY <1>0, <2>1, <2>2, <2>3, BuildEnds DEF Compile, If, BuildOps
  <2> QED BY <2>1, <2>3, BuildRefused
<1>5. CASE ApiCompileBuild(t)
  <2>1. pc[t] = "build" /\ pc'[t] = "done" /\ row' = row /\ Compile(row[t]) = "ok" /\ req[t].op = "api_compile"
    BY <1>5 DEF ApiCompileBuild, AppendAudit, At, Reply, TaskOK
  <2>2. Prepared(row[t]) /\ Built(t) = row[t]
    BY <1>0, <2>1 DEF BuildTask, Built
  <2> QED BY <1>0, <2>1, <2>2, BuildEnds DEF Compile, If, BuildOps
<1> QED BY <1>1, <1>2, <1>3, <1>4, <1>5

(* A list of a project's documents names a path once. *)
LEMMA GatheredOnce ==
    ASSUME PathsOK, NEW p, NEW live PROVE OnePath(Gathered(p, live))
<1> SUFFICES ASSUME NEW d \in Gathered(p, live), NEW e \in Gathered(p, live), d.path = e.path PROVE d = e
  BY DEF OnePath
<1> DEFINE f(x) == [id |-> x, path |-> docs[x].path,
                    body |-> IF live[x] = NoRow THEN docs[x].body ELSE live[x].body,
                    marked |-> live[x] # NoRow /\ live[x].marked]
<1>1. PICK x \in OfDocs(p) : d = f(x)
  BY DEF Gathered
<1>2. PICK y \in OfDocs(p) : e = f(y)
  BY DEF Gathered
<1>3. d.path = docs[x].path /\ e.path = docs[y].path
  BY <1>1, <1>2
<1>4. x = y
  BY <1>3 DEF OfDocs, PathsOK
<1> QED BY <1>1, <1>2, <1>4

LEMMA ExportSteps ==
    ASSUME TaskOK, PathsOK, BuildInv, NEW t \in Tasks, Shape(t),
           ExportCheck(t) \/ ExportGather(t) \/ ExportFetchRow(t) \/ ExportFetchBlob(t) \/ ExportBuild(t) \/ ExportAudit(t)
    PROVE  BuildInv'
<1>0. req' = req /\ req[t].op = "export_project" /\ BuildTask(t)
  BY DEF Shape, BuildInv, ExportCheck, ExportGather, ExportFetchRow, ExportFetchBlob, ExportBuild, ExportAudit, At
<1>1. CASE \E code : Refuse(t, code)
  BY <1>1, BuildRefused DEF Refuse, Reply, TaskOK
<1>2. CASE ExportCheck(t) /\ ~\E code : Refuse(t, code)
  <2>1. pc'[t] = "load"
    BY <1>2 DEF ExportCheck, Read, Goto, TaskOK
  <2> QED BY <1>0, <2>1, BuildReads DEF BuildTask, At
<1>3. CASE ExportGather(t)
  <2>1. PICK live \in LiveOf(req[t].project) :
          Read(t, [docs |-> Gathered(req[t].project, live), refs |-> row[t].refs,
                   todo |-> IF req[t].fulltexts THEN Cited(Gathered(req[t].project, live), row[t].refs) ELSE {},
                   next |-> NoDoc, pdfs |-> {}, missing |-> {}], "fetch")
    BY <1>3 DEF ExportGather
  <2>2. PICK ds, rs, wanted : /\ ds = Gathered(req[t].project, live) /\ rs = row[t].refs
                              /\ wanted = IF req[t].fulltexts THEN Cited(ds, rs) ELSE {}
    OBVIOUS
  <2>3. OnePath(ds)
    BY <2>2, GatheredOnce
  <2>4. /\ row'[t] = [docs |-> ds, refs |-> rs, todo |-> wanted, next |-> NoDoc, pdfs |-> {}, missing |-> {}]
        /\ pc'[t] = "fetch"
    BY <2>1, <2>2 DEF Read, Goto, TaskOK
  <2>5. /\ row'[t].docs = ds /\ row'[t].refs = rs /\ row'[t].todo = wanted /\ row'[t].pdfs = {}
        /\ row'[t].missing = {} /\ DOMAIN row'[t] = {"docs", "refs", "todo", "next", "pdfs", "missing"}
    BY <2>4
  <2>6. Wanted(t)' = wanted
    BY <1>0, <2>2, <2>5 DEF Wanted, Cited
  <2>7. BuildTask(t)'
    BY <1>0, <2>3, <2>4, <2>5, <2>6 DEF BuildTask, At, OnePath
  <2> QED BY <2>4, <2>7, BuildReads
<1>4. ASSUME req[t].op = "export_project", pc'[t] \in {"fetch", "blob"},
             DOMAIN row'[t] = {"docs", "refs", "todo", "next", "pdfs", "missing"},
             row'[t].docs = row[t].docs, row'[t].refs = row[t].refs, OnePath(row[t].docs),
             row'[t].todo \cup row'[t].pdfs \cup row'[t].missing \cup
               (IF pc'[t] = "blob" THEN {row'[t].next} ELSE {}) = Wanted(t)
      PROVE  BuildInv'
  <2>1. Wanted(t)' = Wanted(t)
    BY <1>0, <1>4 DEF Wanted, Cited
  <2>2. BuildTask(t)'
    BY <1>0, <1>4, <2>1 DEF BuildTask, At, OnePath
  <2> QED BY <1>4, <2>2, BuildReads
<1>5. CASE ExportFetchRow(t)
  <2>1. /\ pc[t] = "fetch" /\ DOMAIN row[t] = {"docs", "refs", "todo", "next", "pdfs", "missing"}
        /\ OnePath(row[t].docs) /\ row[t].todo \cup row[t].pdfs \cup row[t].missing = Wanted(t)
    BY <1>0, <1>5 DEF ExportFetchRow, At, BuildTask
  <2>2. PICK r \in row[t].todo :
          \/ Read(t, [row[t] EXCEPT !.todo = @ \ {r}, !.missing = @ \cup {r}], "fetch")
          \/ Read(t, [row[t] EXCEPT !.todo = @ \ {r}, !.next = r], "blob")
    BY <1>5 DEF ExportFetchRow
  <2>3. CASE Read(t, [row[t] EXCEPT !.todo = @ \ {r}, !.missing = @ \cup {r}], "fetch")
    <3>1. row'[t] = [row[t] EXCEPT !.todo = @ \ {r}, !.missing = @ \cup {r}] /\ pc'[t] = "fetch"
      BY <2>3 DEF Read, Goto, TaskOK
    <3>2. /\ DOMAIN row'[t] = DOMAIN row[t] /\ row'[t].docs = row[t].docs /\ row'[t].refs = row[t].refs
          /\ row'[t].todo = row[t].todo \ {r} /\ row'[t].pdfs = row[t].pdfs
          /\ row'[t].missing = row[t].missing \cup {r}
      BY <2>1, <3>1
    <3>3. row'[t].todo \cup row'[t].pdfs \cup row'[t].missing = Wanted(t)
      BY <2>1, <2>2, <3>2
    <3> QED BY <1>0, <1>4, <2>1, <3>1, <3>2, <3>3
  <2>4. CASE Read(t, [row[t] EXCEPT !.todo = @ \ {r}, !.next = r], "blob")
    <3>1. row'[t] = [row[t] EXCEPT !.todo = @ \ {r}, !.next = r] /\ pc'[t] = "blob"
      BY <2>4 DEF Read, Goto, TaskOK
    <3>2. /\ DOMAIN row'[t] = DOMAIN row[t] /\ row'[t].docs = row[t].docs /\ row'[t].refs = row[t].refs
          /\ row'[t].todo = row[t].todo \ {r} /\ row'[t].pdfs = row[t].pdfs
          /\ row'[t].missing = row[t].missing /\ row'[t].next = r
      BY <2>1, <3>1
    <3>3. row'[t].todo \cup row'[t].pdfs \cup row'[t].missing \cup {row'[t].next} = Wanted(t)
      BY <2>1, <2>2, <3>2
    <3> QED BY <1>0, <1>4, <2>1, <3>1, <3>2, <3>3
  <2> QED BY <2>2, <2>3, <2>4
<1>6. CASE ExportFetchBlob(t)
  <2>1. /\ pc[t] = "blob" /\ DOMAIN row[t] = {"docs", "refs", "todo", "next", "pdfs", "missing"}
        /\ OnePath(row[t].docs) /\ row[t].todo \cup row[t].pdfs \cup row[t].missing \cup {row[t].next} = Wanted(t)
    BY <1>0, <1>6 DEF ExportFetchBlob, At, BuildTask
  <2>2. CASE Reply(t, "unavailable")
    BY <2>2, BuildRefused DEF Reply, TaskOK
  <2>3. CASE Read(t, [row[t] EXCEPT !.pdfs = @ \cup {row[t].next}], "fetch")
    <3>1. row'[t] = [row[t] EXCEPT !.pdfs = @ \cup {row[t].next}] /\ pc'[t] = "fetch"
      BY <2>3 DEF Read, Goto, TaskOK
    <3>2. /\ DOMAIN row'[t] = DOMAIN row[t] /\ row'[t].docs = row[t].docs /\ row'[t].refs = row[t].refs
          /\ row'[t].todo = row[t].todo /\ row'[t].pdfs = row[t].pdfs \cup {row[t].next}
          /\ row'[t].missing = row[t].missing
      BY <2>1, <3>1
    <3>3. row'[t].todo \cup row'[t].pdfs \cup row'[t].missing = Wanted(t)
      BY <2>1, <3>2
    <3> QED BY <1>0, <1>4, <2>1, <3>1, <3>2, <3>3
  <2> QED BY <1>6, <2>2, <2>3 DEF ExportFetchBlob
<1>7. CASE ExportBuild(t) /\ ~\E code : Refuse(t, code)
  <2> DEFINE request == PrepareProjectSources(req[t].entry, req[t].view, row[t].docs, row[t].refs)
  <2>1. /\ pc[t] = "fetch" /\ row[t].todo = {} /\ row[t].missing = {} /\ Compile(request) = "ok"
        /\ Read(t, [docs |-> row[t].docs, refs |-> row[t].refs, pdfs |-> row[t].pdfs, request |-> request], "built")
    BY <1>7 DEF ExportBuild, At, Then, If
  <2>2. OnePath(row[t].docs) /\ row[t].pdfs = Wanted(t)
    BY <1>0, <2>1 DEF BuildTask
  <2>3. PICK b : b = request
    OBVIOUS
  <2>4. Prepared(b) /\ b.entry \in DOMAIN b.sources /\ \A d \in row[t].docs : b.sources[d.path].of = d.id
    <3>1. Prepared(request) /\ \A d \in row[t].docs : request.sources[d.path].of = d.id
      BY <2>2, SourcesPrepared
    <3> QED BY <2>1, <2>3, <3>1 DEF Compile, If
  <2>5. row'[t] = [docs |-> row[t].docs, refs |-> row[t].refs, pdfs |-> row[t].pdfs, request |-> b] /\ pc'[t] = "built"
    BY <2>1, <2>3 DEF Read, Goto, TaskOK
  <2> HIDE DEF request
  <2>6. /\ row'[t].docs = row[t].docs /\ row'[t].refs = row[t].refs /\ row'[t].pdfs = row[t].pdfs
        /\ row'[t].request = b
    BY <2>5
  <2>7. Wanted(t)' = Wanted(t)
    BY <1>0, <2>6 DEF Wanted, Cited
  <2>8. BuildTask(t)'
    BY <1>0, <2>2, <2>4, <2>5, <2>6, <2>7 DEF BuildTask, At, Prepared
  <2> QED BY <2>5, <2>8, BuildReads
<1>8. CASE ExportAudit(t)
  <2>1. pc[t] = "built" /\ pc'[t] = "done" /\ row' = row
    BY <1>8 DEF ExportAudit, AppendAudit, Reply, TaskOK
  <2> QED BY <1>0, <2>1, BuildEnds DEF BuildTask, At, Built, BuildOps
<1> QED BY <1>1, <1>2, <1>3, <1>5, <1>6, <1>7, <1>8

LEMMA BuildNext == ASSUME TaskOK, PathsOK, BuildInv, NEW t \in Tasks, Frame(t) PROVE BuildInv'
<1>1. Shape(t) /\ (BuildStep(t) \/ BuildQuiet(t)) /\ req' = req
  BY DEF Frame, Shape
<1>2. CASE BuildQuiet(t)
  <2>1. req[t].op \in BuildOps => pc'[t] \in {"admitted", "done"} /\ resp'[t] # "ok"
    BY <1>2 DEF BuildQuiet, Calm
  <2>2. BuildTask(t)'
    BY <1>1, <2>1 DEF BuildTask, At, BuildOps
  <2> QED BY <1>1, <2>1, <2>2, BuildGoesOn
<1> QED BY <1>1, <1>2, PreviewSteps, ExportSteps DEF BuildStep

-----------------------------------------------------------------------------
(* The inductive invariant. *)

LEMMA AppInit == Init => AppInv
BY TaskInit, DocInit, PathsInit, EntriesInit, RefInit, LinkInit, BuildInit DEF AppInv

LEMMA AppNext == AppInv /\ [Next]_vars => AppInv'
<1> SUFFICES ASSUME AppInv, [Next]_vars PROVE AppInv'
  OBVIOUS
<1>1. CASE Next
  <2>1. PICK t \in Tasks : Step(t)
    BY <1>1 DEF Next
  <2>2. TaskOK /\ DocInv /\ PathsOK /\ EntriesOK /\ RefInv /\ LinkInv /\ BuildInv
    BY DEF AppInv
  <2>3. Frame(t) /\ Shape(t)
    BY <2>1, <2>2, StepFrame DEF Frame
  <2>4. TaskOK'
    BY <2>2, <2>3, TaskNext
  <2>5. DocInv' /\ PathsOK' /\ EntriesOK'
    BY <2>2, <2>3, DocNext, PathsNext, EntriesNext
  <2>6. RefInv' /\ LinkInv' /\ BuildInv'
    BY <2>2, <2>3, RefNext, LinkNext, BuildNext
  <2> QED BY <2>4, <2>5, <2>6 DEF AppInv
<1>2. CASE UNCHANGED vars
  <2>0. /\ req' = req /\ pc' = pc /\ row' = row /\ resp' = resp
        /\ projects' = projects /\ members' = members /\ docs' = docs /\ revs' = revs
        /\ refs' = refs /\ fulltexts' = fulltexts /\ links' = links
        /\ audited' = audited /\ written' = written /\ blobs' = blobs /\ raced' = raced
    BY <1>2 DEF vars, taskVars, tables
  <2>1. TaskOK'
    BY <2>0 DEF AppInv, TaskOK
  <2>2. DocInv'
    BY <2>0 DEF AppInv, DocInv, DocsOK, SavesOK, DeletesOK, CopiesOK, HistoryFaithful, OwnDoc, DocKnown, Past, Revision, At
  <2>3. PathsOK' /\ EntriesOK'
    BY <2>0 DEF AppInv, PathsOK, EntriesOK, OwnEntry, DocKnown, Past, At
  <2>4. RefInv'
    BY <2>0 DEF AppInv, RefInv, RefsOK, RefTask, Halves, DanglingOnlyByRace, OwnRef, RefKnown, Past, At
  <2>5. LinkInv'
    BY <2>0 DEF AppInv, LinkInv, LinksOK, LinkTask, MembersOK, RolesGranted, Rightful, Given, OwnLink, Clamped, LinkKnown, Past, At
  <2>6. BuildInv'
    <3>0. (\A t \in Tasks : BuildTask(t)) /\ BuildsComplete
      BY DEF AppInv, BuildInv
    <3>1. ASSUME NEW t \in Tasks PROVE BuildTask(t)'
      <4>1. BuildTask(t)
        BY <3>0
      <4>2. Wanted(t)' = Wanted(t) /\ \A op, at : At(t, op, at)' <=> At(t, op, at)
        BY <2>0 DEF Wanted, At
      <4> QED BY <2>0, <4>1, <4>2 DEF BuildTask
    <3>2. \A t \in Tasks : Complete(t) => Complete(t)'
      <4> TAKE t \in Tasks
      <4>1. Built(t)' = Built(t)
        BY <2>0 DEF Built
      <4> QED BY <2>0, <4>1 DEF Complete
    <3>3. BuildsComplete'
      BY <2>0, <3>0, <3>2 DEF BuildsComplete
    <3> QED BY <3>1, <3>3 DEF BuildInv
  <2> QED BY <2>1, <2>2, <2>3, <2>4, <2>5, <2>6 DEF AppInv
<1> QED BY <1>1, <1>2

-----------------------------------------------------------------------------
(* What the properties ask of a step. *)

LEMMA SaveStep ==
    ASSUME TaskOK, DocInv, NEW t \in Tasks, Frame(t), NEW d \in Docs,
           docs[d] # NoRow, docs'[d] # NoRow, docs'[d] # docs[d]
    PROVE  /\ Moves(t) /\ req[t].op = "patch_document" /\ req[t].doc = d
           /\ docs'[d].rev = docs[d].rev + 1
           /\ \A f \in {"path", "title", "body"} \ DOMAIN req[t].set : docs'[d][f] = docs[d][f]
<1>1. DOMAIN docs = Docs /\ (DocWork(t) \/ DocQuiet(t))
  BY DEF DocInv, DocsOK, Frame
<1>2. CASE CreateDocumentInsert(t)
  BY <1>1, <1>2 DEF CreateDocumentInsert, Refuse, tables
<1>3. CASE DocQuiet(t) \/ PatchDocumentLoad(t) \/ SaveHistory(t) \/ DeleteDocumentLoad(t)
  BY <1>3 DEF DocQuiet, PatchDocumentLoad, SaveHistory, DeleteDocumentLoad, Refuse, tables
<1>4. CASE DeleteDocumentCommit(t) \/ DeleteProjectCommit(t)
  BY <1>1, <1>4 DEF DeleteDocumentCommit, DeleteProjectCommit, Refuse, tables, Without
<1>5. CASE PatchDocumentCommit(t)
  <2>1. /\ At(t, "patch_document", "commit") /\ docs' = [docs EXCEPT ![req[t].doc] = row[t]] /\ pc'[t] = "more"
        /\ UpdateDocument(req[t].doc, row[t], row[t].rev - 1) = "ok"
    BY <1>5 DEF PatchDocumentCommit, Goto, Refuse, tables, TaskOK
  <2>2. req[t].doc = d /\ docs'[d] = row[t] /\ docs[d].rev = row[t].rev - 1
    BY <1>1, <2>1 DEF UpdateDocument
  <2>3. row[t].rev \in Nat /\ \A f \in {"path", "title", "body"} \ DOMAIN req[t].set : row[t][f] = docs[d][f]
    BY <2>1, <2>2 DEF DocInv, SavesOK
  <2> QED BY <2>1, <2>2, <2>3 DEF Moves, At
<1> QED BY <1>1, <1>2, <1>3, <1>4, <1>5 DEF DocWork

Own(x, p) == x = NoRow \/ x.project = p

LEMMA DocsKept ==
    ASSUME TaskOK, DocInv, NEW t \in Tasks, Frame(t), NEW d \in Docs, docs'[d] # docs[d]
    PROVE  Own(docs[d], Target(t)) /\ Own(docs'[d], Target(t))
<1>1. DOMAIN docs = Docs /\ (DocWork(t) \/ DocQuiet(t))
  BY DEF DocInv, DocsOK, Frame
<1>2. CASE CreateDocumentInsert(t)
  <2>1. /\ req[t].op = "create_document" /\ docs[req[t].doc] = NoRow
        /\ \A e \in Docs : docs'[e] # docs[e] => e = req[t].doc /\ docs'[e].project = req[t].project
    BY <1>1, <1>2 DEF CreateDocumentInsert, At, Refuse, tables
  <2> QED BY <2>1 DEF Own, Target
<1>3. CASE PatchDocumentCommit(t)
  <2>1. At(t, "patch_document", "commit") /\ docs' = [docs EXCEPT ![req[t].doc] = row[t]]
    BY <1>3 DEF PatchDocumentCommit, Refuse, tables
  <2>2. row[t].project = req[t].project /\ Own(docs[req[t].doc], req[t].project)
    BY <2>1 DEF DocInv, SavesOK, OwnDoc, Own
  <2>3. d = req[t].doc /\ docs'[d] = row[t]
    BY <1>1, <2>1
  <2> QED BY <2>1, <2>2, <2>3 DEF Own, Target, At
<1>4. CASE DocQuiet(t) \/ PatchDocumentLoad(t) \/ SaveHistory(t) \/ DeleteDocumentLoad(t)
  BY <1>4 DEF DocQuiet, PatchDocumentLoad, SaveHistory, DeleteDocumentLoad, Refuse, tables
<1>5. CASE DeleteDocumentCommit(t)
  <2>1. At(t, "delete_document", "commit") /\ docs' = [docs EXCEPT ![req[t].doc] = NoRow]
    BY <1>5 DEF DeleteDocumentCommit, Refuse, tables
  <2>2. Own(docs[req[t].doc], req[t].project)
    BY <2>1 DEF DocInv, DeletesOK, OwnDoc, Own
  <2>3. d = req[t].doc /\ docs'[d] = NoRow
    BY <1>1, <2>1
  <2> QED BY <2>1, <2>2, <2>3 DEF Own, Target, At
<1>6. CASE DeleteProjectCommit(t)
  <2>1. req[t].op = "delete_project" /\ docs' = Without(docs, OfProject(docs, req[t].project))
    BY <1>6 DEF DeleteProjectCommit, At, Refuse, tables
  <2>2. d \in OfProject(docs, req[t].project) /\ docs'[d] = NoRow
    BY <1>1, <2>1 DEF Without
  <2> QED BY <2>1, <2>2 DEF Own, Target, OfProject
<1> QED BY <1>1, <1>2, <1>3, <1>4, <1>5, <1>6 DEF DocWork

LEMMA RefsKept ==
    ASSUME TaskOK, RefInv, NEW t \in Tasks, Frame(t), NEW r \in Refs
    PROVE  /\ refs'[r] # refs[r] => Own(refs[r], Target(t)) /\ Own(refs'[r], Target(t))
           /\ fulltexts'[r] # fulltexts[r] => Own(refs[r], Target(t))
<1>1. DOMAIN refs = Refs /\ DOMAIN fulltexts = Refs /\ RefTask(t) /\ (RefWork(t) \/ RefQuiet(t))
  BY DEF RefInv, RefsOK, Frame
<1>2. CASE CreateReferenceInsert(t)
  <2>1. /\ req[t].op = "create_reference" /\ fulltexts' = fulltexts
        /\ \A s \in Refs : refs'[s] # refs[s] => refs[s] = NoRow /\ refs'[s].project = req[t].project
    BY <1>1, <1>2 DEF CreateReferenceInsert, At, Refuse, tables
  <2> QED BY <2>1 DEF Own, Target
<1>3. CASE PatchReferenceCommit(t)
  <2>1. /\ At(t, "patch_reference", "load") /\ fulltexts' = fulltexts
        /\ refs' = [refs EXCEPT ![req[t].ref] = row[t]] \/ refs' = refs
    BY <1>3 DEF PatchReferenceCommit, Refuse, tables
  <2>2. OwnRef(req[t].ref, req[t].project) /\ row[t].project = req[t].project
    BY <1>1, <2>1 DEF RefTask, At, LoadedOps
  <2> QED BY <1>1, <2>1, <2>2 DEF Own, Target, OwnRef, At
<1>4. CASE DeleteReferenceCommit(t) \/ PutFulltextRow(t) \/ DeleteFulltextRow(t)
  <2>1. /\ req[t].op \in LoadedOps /\ pc[t] \in {"load", "commit", "more"}
        /\ \A s \in Refs : refs'[s] \in {refs[s], NoRow}
        /\ \A s \in Refs : refs'[s] # refs[s] \/ fulltexts'[s] # fulltexts[s] => s = req[t].ref
    BY <1>1, <1>4 DEF DeleteReferenceCommit, PutFulltextRow, DeleteFulltextRow, At, Refuse, tables, LoadedOps
  <2>2. OwnRef(req[t].ref, req[t].project)
    BY <1>1, <2>1 DEF RefTask
  <2> QED BY <2>1, <2>2 DEF Own, Target, OwnRef, LoadedOps
<1>5. CASE DeleteProjectCommit(t)
  <2>1. /\ req[t].op = "delete_project"
        /\ \/ UNCHANGED <<refs, fulltexts>>
           \/ /\ refs' = Without(refs, OfProject(refs, req[t].project))
              /\ fulltexts' = Without(fulltexts, OfProject(refs, req[t].project))
    BY <1>5 DEF DeleteProjectCommit, At, Refuse, tables
  <2>2. r \notin OfProject(refs, req[t].project) => refs'[r] = refs[r] /\ fulltexts'[r] = fulltexts[r]
    BY <1>1, <2>1 DEF Without
  <2>3. refs'[r] \in {refs[r], NoRow}
    BY <1>1, <2>1 DEF Without
  <2> QED BY <2>1, <2>2, <2>3 DEF Own, Target, OfProject
<1>6. CASE \/ RefQuiet(t) \/ PatchReferenceLoad(t) \/ DeleteReferenceLoad(t) \/ PutFulltextLoad(t)
           \/ PutFulltextBlob(t) \/ DeleteFulltextLoad(t) \/ DeleteBlob(t) \/ DeleteProjectLoad(t) \/ DeleteProjectBlobs(t)
  BY <1>6 DEF RefQuiet, PatchReferenceLoad, DeleteReferenceLoad, PutFulltextLoad, PutFulltextBlob,
     DeleteFulltextLoad, DeleteBlob, DeleteProjectLoad, DeleteProjectBlobs, ReferenceForProject, Refuse, tables
<1> QED BY <1>1, <1>2, <1>3, <1>4, <1>5, <1>6 DEF RefWork, FileStep

LEMMA LinksKept ==
    ASSUME TaskOK, LinkInv, NEW t \in Tasks, Frame(t)
    PROVE  /\ \A k \in Links : links'[k] # links[k] => Own(links[k], Target(t)) /\ Own(links'[k], Target(t))
           /\ \A p \in Projects \ {Target(t)} : members'[p] = members[p]
<1>1. /\ DOMAIN links = Links /\ LinkTask(t) /\ (LinkWork(t) \/ LinkQuiet(t))
      /\ members \in [Projects -> [Names -> MembershipRoles \cup {NoRole}]]
  BY DEF LinkInv, LinksOK, MembersOK, Frame
<1>2. CASE CreateShareLink(t)
  <2>1. /\ req[t].op = "create_share_link" /\ members' = members
        /\ \A k \in Links : links'[k] # links[k] => links[k] = NoRow /\ links'[k].project = req[t].project
    BY <1>1, <1>2 DEF CreateShareLink, At, Refuse, tables
  <2> QED BY <2>1 DEF Own, Target
<1>3. CASE RevokeShareLinkCommit(t)
  <2>1. /\ At(t, "delete_share_link", "commit") /\ members' = members
        /\ \A k \in Links : links'[k] # links[k] => links'[k] = NoRow /\ k = req[t].link
    BY <1>1, <1>3 DEF RevokeShareLinkCommit, At, Refuse, tables
  <2>2. OwnLink(t)
    BY <1>1, <2>1 DEF LinkTask
  <2> QED BY <2>1, <2>2 DEF Own, OwnLink, Target, At
<1>4. CASE DeleteProjectCommit(t)
  <2>1. /\ req[t].op = "delete_project"
        /\ \/ UNCHANGED <<links, members>>
           \/ /\ links' = Without(links, OfProject(links, req[t].project))
              /\ members' = [members EXCEPT ![req[t].project] = [s \in Names |-> NoRole]]
    BY <1>4 DEF DeleteProjectCommit, At, Refuse, tables
  <2>2. \A k \in Links : links'[k] # links[k] => k \in OfProject(links, req[t].project) /\ links'[k] = NoRow
    BY <1>1, <2>1 DEF Without
  <2> QED BY <1>1, <2>1, <2>2 DEF Own, Target, OfProject
<1>5. CASE CreateProjectOwner(t) \/ AddMemberCommit(t) \/ RemoveMemberCommit(t)
  <2>1. /\ req[t].op # "redeem_share_link" /\ links' = links
        /\ \A p \in Projects : p # req[t].project => members'[p] = members[p]
    BY <1>1, <1>5 DEF CreateProjectOwner, AddMemberCommit, RemoveMemberCommit, At, Refuse, tables
  <2> QED BY <2>1 DEF Target
<1>6. CASE RedeemCommit(t)
  <2>1. /\ At(t, "redeem_share_link", "commit") /\ links' = links
        /\ \A p \in Projects : p # row[t].link.project => members'[p] = members[p]
    BY <1>1, <1>6 DEF RedeemCommit, Refuse, tables
  <2>2. row[t] # NoRow
    BY <1>1, <2>1, RequestAssumption DEF LinkTask
  <2> QED BY <2>1, <2>2 DEF Target, At
<1>7. CASE \/ LinkQuiet(t) \/ AddMember(t) \/ RevokeShareLink(t) \/ RedeemShareLink(t)
           \/ RedeemReadsMembership(t) \/ AuditAccess(t)
  BY <1>7 DEF LinkQuiet, AddMember, RevokeShareLink, RedeemShareLink, RedeemReadsMembership, AuditAccess, AppendAudit, Refuse, tables
<1> QED BY <1>1, <1>2, <1>3, <1>4, <1>5, <1>6, <1>7 DEF LinkWork

LEMMA ProjectsKept ==
    ASSUME TaskOK, DocInv, EntriesOK, NEW t \in Tasks, Frame(t), NEW p \in Projects, p # Target(t)
    PROVE  projects'[p] = projects[p]
<1>1. DOMAIN projects = Projects /\ (EntryWork(t) \/ EntryQuiet(t))
  BY DEF EntriesOK, Frame
<1>2. CASE CreateProject(t) \/ PatchProjectCommit(t) \/ DeleteProjectCommit(t)
  <2>1. req[t].op # "redeem_share_link" /\ (p # req[t].project => projects'[p] = projects[p])
    BY <1>1, <1>2 DEF CreateProject, PatchProjectCommit, DeleteProjectCommit, At, Refuse, tables
  <2> QED BY <2>1 DEF Target
<1>3. CASE PatchProjectLoad(t) \/ EntryQuiet(t)
  BY <1>3 DEF PatchProjectLoad, EntryQuiet, Refuse, tables
<1>4. CASE DeleteDocumentCommit(t)
  <2>1. /\ At(t, "delete_document", "commit")
        /\ \/ projects' = projects
           \/ /\ docs[req[t].doc] # NoRow
              /\ (projects[p] # NoRow /\ projects[p].entry = req[t].doc) \/ projects'[p] = projects[p]
    BY <1>4 DEF DeleteDocumentCommit, Refuse, tables
  <2>2. req[t].doc \in Docs
    BY <2>1, RequestAssumption DEF TaskOK, DocOps, At
  <2>3. docs[req[t].doc] # NoRow => docs[req[t].doc].project = req[t].project
    BY <2>1 DEF DocInv, DeletesOK, OwnDoc
  <2>4. projects[p] # NoRow /\ projects[p].entry = req[t].doc /\ docs[req[t].doc] # NoRow => docs[req[t].doc].project = p
    BY <2>2, AppAssumption DEF EntriesOK, OwnEntry
  <2> QED BY <2>1, <2>3, <2>4 DEF Target, At
<1> QED BY <1>1, <1>2, <1>3, <1>4 DEF EntryWork

(* Only a read answers a request to read. *)
LEMMA ReadsAnswered ==
    ASSUME TaskOK, NEW t \in Tasks, Step(t), req[t].op \in Reads, resp'[t] = "ok"
    PROVE  ReadCode(req[t]) = "ok" /\ row'[t] = Returned(req[t])
<1>1. CASE ReadRows(t)
  BY <1>1 DEF ReadRows, Refuse, Reply, TaskOK
<1>2. CASE ProjectAcl(t)
  BY <1>2 DEF ProjectAcl, Goto, Reply, TaskOK
<1>3. CASE Fail(t)
  BY <1>3 DEF Fail, Reply, TaskOK
<1>4. CASE ProjectStep(t)
  BY <1>4 DEF ProjectStep, CreateProject, CreateProjectOwner, PatchProjectLoad, PatchProjectCommit, DeleteProjectLoad,
     DeleteProjectCommit, DeleteProjectBlobs, AddMember, AddMemberCommit, RemoveMember, RemoveMemberCommit, CreateShareLink,
     RevokeShareLink, RevokeShareLinkCommit, RedeemShareLink, RedeemReadsMembership, RedeemCommit, AuthorizeSyncDocument,
     AuthorizeReadsMembership, AuditAccess, At, Reads
<1>5. CASE DocumentStep(t) /\ ~ReadRows(t)
  BY <1>5 DEF DocumentStep, CreateDocumentInsert, PatchDocumentLoad, PatchDocumentCommit, SaveHistory, DeleteDocumentLoad,
     DeleteDocumentCommit, ListProjects, At, Reads
<1>6. CASE FileStep(t)
  BY <1>6 DEF FileStep, CreateReferenceInsert, PatchReferenceLoad, PatchReferenceCommit, DeleteReferenceLoad,
     DeleteReferenceCommit, PutFulltextLoad, PutFulltextBlob, PutFulltextRow, DeleteFulltextLoad, DeleteFulltextRow,
     DeleteBlob, ReferenceForProject, At, Reads
<1>7. CASE BuildStep(t)
  BY <1>7 DEF BuildStep, PreviewLoad, PreviewCapture, PreviewBuild, ApiCompile, ApiCompileBuild, ExportCheck, ExportGather,
     ExportFetchRow, ExportFetchBlob, ExportBuild, ExportAudit, At, Reads
<1> QED BY <1>1, <1>2, <1>3, <1>4, <1>5, <1>6, <1>7 DEF Step

(* What is looked up through a project is of that project. *)
LEMMA ReadsOwn ==
    ASSUME TaskOK, DocInv, NEW t \in Tasks, req[t].op \in Reads, ReadCode(req[t]) = "ok"
    PROVE  Returned(req[t]) \subseteq {req[t].project}
<1> DEFINE q == req[t]
<1>1. q \in Requests /\ revs \subseteq written /\ \A d : docs[d] # NoRow =>
        \A w \in written : w.doc = d => w.project = docs[d].project
  BY DEF TaskOK, DocInv, DocsOK, HistoryFaithful
<1>2. CASE q.op \in {"get_project", "list_members", "get_my_membership"}
  BY <1>2 DEF Returned
<1>3. CASE q.op = "get_document"
  <2>1. ForProject(q.project, docs[q.doc]) = "ok"
    BY <1>3 DEF ReadCode, Then
  <2> QED BY <1>3, <2>1 DEF Returned, ProjectsOf, ForProject
<1>4. CASE q.op = "list_document_history"
  <2>1. ForProject(q.project, docs[q.doc]) = "ok"
    BY <1>4 DEF ReadCode, Then
  <2>2. docs[q.doc] # NoRow /\ docs[q.doc].project = q.project
    BY <2>1 DEF ForProject
  <2> QED BY <1>1, <1>4, <2>2 DEF Returned
<1>5. CASE q.op = "get_document_revision"
  <2>1. ForProject(q.project, docs[q.doc]) = "ok" /\ q.of = q.doc
    BY <1>5 DEF ReadCode, RevisionFor, Then, If
  <2>2. docs[q.doc] # NoRow /\ docs[q.doc].project = q.project
    BY <2>1 DEF ForProject
  <2> QED BY <1>1, <1>5, <2>1, <2>2 DEF Returned
<1>6. CASE q.op \in {"get_reference", "get_fulltext"}
  <2>1. ForProject(q.project, refs[q.ref]) = "ok"
    BY <1>6 DEF ReadCode, Then
  <2> QED BY <1>6, <2>1 DEF Returned, ProjectsOf, ForProject
<1>7. CASE q.op = "list_documents"
  BY <1>7 DEF Returned, ProjectsOf
<1>8. CASE q.op = "list_references"
  BY <1>8 DEF Returned, ProjectsOf
<1>9. CASE q.op = "list_fulltexts"
  BY <1>9 DEF Returned, ProjectsOf
<1>10. CASE q.op = "list_share_links"
  BY <1>10 DEF Returned, ProjectsOf
<1>11. CASE q.op = "list_audit"
  BY <1>11 DEF Returned
<1> QED BY <1>2, <1>3, <1>4, <1>5, <1>6, <1>7, <1>8, <1>9, <1>10, <1>11 DEF Reads

LEMMA OtherProjectsStep ==
    ASSUME AppInv, NEW s \in Tasks, Step(s), NEW t \in Tasks, Moves(t)
    PROVE  LET own(x) == x = NoRow \/ x.project = Target(t)
               kept(f, g) == \A x \in DOMAIN f : f[x] = g[x] \/ (own(f[x]) /\ own(g[x]))
           IN  /\ kept(docs, docs') /\ kept(refs, refs') /\ kept(links, links')
               /\ \A p \in Projects \ {Target(t)} : projects'[p] = projects[p] /\ members'[p] = members[p]
               /\ \A r \in Refs : fulltexts'[r] # fulltexts[r] => own(refs[r])
               /\ req[t].op \in Reads /\ resp'[t] = "ok" => row'[t] \subseteq {Target(t)}
<1>1. TaskOK /\ DocInv /\ EntriesOK /\ RefInv /\ LinkInv /\ Frame(s)
  BY StepFrame DEF AppInv
<1>2. s = t
  BY <1>1 DEF Frame, Shape, Moves
<1>3. DOMAIN docs = Docs /\ DOMAIN refs = Refs /\ DOMAIN links = Links
  BY <1>1 DEF DocInv, DocsOK, RefInv, RefsOK, LinkInv, LinksOK
<1>4. \A d \in Docs : docs'[d] = docs[d] \/ (Own(docs[d], Target(t)) /\ Own(docs'[d], Target(t)))
  BY <1>1, <1>2, DocsKept
<1>5. \A r \in Refs : /\ refs'[r] = refs[r] \/ (Own(refs[r], Target(t)) /\ Own(refs'[r], Target(t)))
                      /\ fulltexts'[r] # fulltexts[r] => Own(refs[r], Target(t))
  BY <1>1, <1>2, RefsKept
<1>6. /\ \A k \in Links : links'[k] = links[k] \/ (Own(links[k], Target(t)) /\ Own(links'[k], Target(t)))
      /\ \A p \in Projects \ {Target(t)} : members'[p] = members[p]
  BY <1>1, <1>2, LinksKept
<1>7. \A p \in Projects \ {Target(t)} : projects'[p] = projects[p]
  BY <1>1, <1>2, ProjectsKept
<1>8. req[t].op \in Reads /\ resp'[t] = "ok" => row'[t] \subseteq {Target(t)}
  BY <1>1, <1>2, ReadsAnswered, ReadsOwn DEF Target, Reads
<1> QED BY <1>3, <1>4, <1>5, <1>6, <1>7, <1>8 DEF Own

-----------------------------------------------------------------------------
(* The theorems. *)

(* Whatever the requests and however their handlers interleave and fail,   *)
(* every handler's row is related to the tables as AppInv says.            *)
THEOREM AppCorrect == Spec => []AppInv
BY AppInit, AppNext, PTL DEF Spec

(* The history of a document holds only bodies it had at that revision     *)
(* (save_document_revision runs after the commit it belongs to).           *)
THEOREM HistoryIsFaithful == Spec => []HistoryFaithful
<1>1. AppInv => HistoryFaithful
  BY DEF AppInv, DocInv
<1> QED BY <1>1, AppCorrect, PTL

(* Nobody holds a role that was not given: redeem_share_link grants no     *)
(* more than the link and the token, add_member no ownership.              *)
THEOREM RolesAreGranted == Spec => []RolesGranted
<1>1. AppInv => RolesGranted
  BY DEF AppInv, LinkInv, MembersOK
<1> QED BY <1>1, AppCorrect, PTL

(* A row of a full text without its blob needs an upload that overlapped   *)
(* the deletion (put_fulltext, delete_fulltext).                           *)
THEOREM DanglingNeedsRace == Spec => []DanglingOnlyByRace
<1>1. AppInv => DanglingOnlyByRace
  BY DEF AppInv, RefInv
<1> QED BY <1>1, AppCorrect, PTL

(* What the compiler was given is complete, whatever changed between the   *)
(* calls that read the project (prepare_project_sources, export_project).  *)
THEOREM BuildsAreComplete == Spec => []BuildsComplete
<1>1. AppInv => BuildsComplete
  BY DEF AppInv, BuildInv
<1> QED BY <1>1, AppCorrect, PTL

(* No save takes back a field that another request changed since the row   *)
(* was read (update_document compares the revision).                       *)
THEOREM SavesDoNotInterfere == Spec => SavesKeepOthers
<1>1. AppInv /\ [Next]_vars =>
        [\A d \in Docs : docs[d] # NoRow /\ docs'[d] # NoRow /\ docs'[d] # docs[d] =>
         \E t \in Tasks :
           /\ Moves(t) /\ req[t].op = "patch_document" /\ req[t].doc = d
           /\ docs'[d].rev = docs[d].rev + 1
           /\ \A f \in {"path", "title", "body"} \ DOMAIN req[t].set : docs'[d][f] = docs[d][f]]_vars
  <2> SUFFICES ASSUME AppInv, Next, NEW d \in Docs, docs[d] # NoRow, docs'[d] # NoRow, docs'[d] # docs[d]
               PROVE \E t \in Tasks :
                       /\ Moves(t) /\ req[t].op = "patch_document" /\ req[t].doc = d
                       /\ docs'[d].rev = docs[d].rev + 1
                       /\ \A f \in {"path", "title", "body"} \ DOMAIN req[t].set : docs'[d][f] = docs[d][f]
    OBVIOUS
  <2>1. PICK t \in Tasks : Step(t)
    BY DEF Next
  <2> QED BY <2>1, StepFrame, SaveStep DEF AppInv
<1> QED BY <1>1, AppCorrect, PTL DEF Spec, SavesKeepOthers

(* A request changes and returns rows of its own project only              *)
(* (document_for_project, reference_for_project, the share link's row).    *)
THEOREM ProjectsDoNotInterfere == Spec => OtherProjectsKept
<1>1. AppInv /\ [Next]_vars =>
        [\A t \in Tasks : Moves(t) =>
         LET own(x) == x = NoRow \/ x.project = Target(t)
             kept(f, g) == \A x \in DOMAIN f : f[x] = g[x] \/ (own(f[x]) /\ own(g[x]))
         IN  /\ kept(docs, docs') /\ kept(refs, refs') /\ kept(links, links')
             /\ \A p \in Projects \ {Target(t)} : projects'[p] = projects[p] /\ members'[p] = members[p]
             /\ \A r \in Refs : fulltexts'[r] # fulltexts[r] => own(refs[r])
             /\ req[t].op \in Reads /\ resp'[t] = "ok" => row'[t] \subseteq {Target(t)}]_vars
  <2> SUFFICES ASSUME AppInv, Next, NEW t \in Tasks, Moves(t)
      PROVE LET own(x) == x = NoRow \/ x.project = Target(t)
                kept(f, g) == \A x \in DOMAIN f : f[x] = g[x] \/ (own(f[x]) /\ own(g[x]))
            IN  /\ kept(docs, docs') /\ kept(refs, refs') /\ kept(links, links')
                /\ \A p \in Projects \ {Target(t)} : projects'[p] = projects[p] /\ members'[p] = members[p]
                /\ \A r \in Refs : fulltexts'[r] # fulltexts[r] => own(refs[r])
                /\ req[t].op \in Reads /\ resp'[t] = "ok" => row'[t] \subseteq {Target(t)}
    OBVIOUS
  <2>1. PICK s \in Tasks : Step(s)
    BY DEF Next
  <2> QED BY <2>1, OtherProjectsStep
<1> QED BY <1>1, AppCorrect, PTL DEF Spec, OtherProjectsKept
=============================================================================
