-------------------------------- MODULE App ---------------------------------
(***************************************************************************)
(* The app service: the requests of several clients, handled concurrently  *)
(* over one database and one object store.  Each task handles one request; *)
(* a step is one database transaction or one call of another service.      *)
(***************************************************************************)
EXTENDS AppProjects, AppDocuments, AppFiles, AppBuilds

CONSTANTS Titles, Dois      \* what a reference may be called, and its DOI

(* Rows of the tables, and what a redemption has read. *)
RefRow == [project : Projects, title : Titles, doi : Dois]
LinkRow == [project : Projects, role : MembershipRoles]
RedeemRow == [link : LinkRow, role : MembershipRoles]
UpgradeRow == [link : LinkRow, role : MembershipRoles, old : MembershipRoles \cup {NoRole}]

(* What a request names. *)
DocOps == {"create_document", "patch_document", "delete_document", "get_document",
           "list_document_history", "get_document_revision", "authorize_sync_document"}
RefOps == {"create_reference", "patch_reference", "delete_reference", "put_fulltext",
           "delete_fulltext", "get_reference", "get_fulltext"}
LinkOps == {"create_share_link", "delete_share_link", "redeem_share_link"}

(* Requests are what the routes parse, new ids are uuids and tokens that   *)
(* were never used, and the rows at the start are ones the service wrote.  *)
ASSUME RequestAssumption ==
    /\ NoRow \notin Tasks \cup Refs \cup Links
    /\ NoRow \notin RefRow /\ NoRow \notin RedeemRow /\ NoRow \notin UpgradeRow
    /\ \A q \in Requests :
         /\ q.op \in DocOps => q.doc \in Docs
         /\ q.op \in RefOps => q.ref \in Refs
         /\ q.op \in LinkOps => q.link \in Links
         /\ q.op \in {"add_member", "remove_member"} => q.subject \in Names
         /\ q.op \in {"add_member", "create_share_link"} => q.role \in MembershipRoles
         /\ q.op = "create_project" => SubjectOf[q.user] = Creator[q.project]
         /\ q.op = "patch_project" /\ "entry" \in DOMAIN q.set => q.set.entry \in Docs
         /\ q.op \in {"create_reference", "patch_reference"} =>
              /\ "title" \in DOMAIN q.set => q.set.title \in Titles
              /\ "doi" \in DOMAIN q.set => q.set.doi \in Dois
         /\ q.op = "create_reference" => {"title", "doi"} \subseteq DOMAIN q.set
         /\ q.op = "create_document" => FirstDocs[q.doc] = NoRow
         /\ q.op = "create_reference" => FirstRefs[q.ref] = NoRow
         /\ q.op = "create_share_link" => FirstLinks[q.link] = NoRow

ASSUME RowAssumption ==
    /\ FirstMembers \in [Projects -> [Names -> MembershipRoles \cup {NoRole}]]
    /\ FirstRefs \in [Refs -> RefRow \cup {NoRow}] /\ FirstLinks \in [Links -> LinkRow \cup {NoRow}]
    /\ DOMAIN FirstTexts = Refs /\ \A r \in Refs : FirstTexts[r] # NoRow => FirstRefs[r] # NoRow
    /\ DOMAIN FirstDocs = Docs
    /\ \A d \in Docs : FirstDocs[d] # NoRow => FirstDocs[d].rev \in Nat
    /\ \A d, e \in Docs : d # e /\ FirstDocs[d] # NoRow /\ FirstDocs[e] # NoRow =>
         FirstDocs[d].project # FirstDocs[e].project \/ FirstDocs[d].path # FirstDocs[e].path
    /\ \A p \in Existing : FirstEntry[p] # NoRow =>
         /\ FirstEntry[p] \in Docs /\ FirstDocs[FirstEntry[p]] # NoRow
         /\ FirstDocs[FirstEntry[p]].project = p

(* The ids of what a request creates are new. *)
NewId(q) ==
    CASE q.op = "create_project"    -> q.project
      [] q.op = "create_document"   -> q.doc
      [] q.op = "create_reference"  -> q.ref
      [] q.op = "create_share_link" -> q.link
      [] OTHER -> NoRow

FreshIds(f) == \A t, u \in Tasks : t # u /\ NewId(f[t]) # NoRow => NewId(f[t]) # NewId(f[u])

Init ==
    /\ \E W \in Workloads : req \in {f \in [Tasks -> W] : FreshIds(f)}
    /\ pc = [t \in Tasks |-> "received"]
    /\ row = [t \in Tasks |-> NoRow]
    /\ resp = [t \in Tasks |-> ""]
    /\ projects = [p \in Projects |-> IF p \in Existing THEN [name |-> "old", entry |-> FirstEntry[p]] ELSE NoRow]
    /\ members = FirstMembers
    /\ docs = FirstDocs
    /\ revs = {Revision(d, FirstDocs[d]) : d \in {d \in Docs : FirstDocs[d] # NoRow}}
    /\ refs = FirstRefs
    /\ fulltexts = FirstTexts
    /\ links = FirstLinks
    /\ audited = {}
    /\ blobs = FirstTexts
    /\ written = revs
    /\ raced = {}

Step(t) == ProjectAcl(t) \/ Fail(t) \/ ProjectStep(t) \/ DocumentStep(t) \/ FileStep(t) \/ BuildStep(t)

Next == \E t \in Tasks : Step(t)

Spec == Init /\ [][Next]_vars
-----------------------------------------------------------------------------
(* Properties. *)

(* The step is one of task t. *)
Moves(t) == pc'[t] # pc[t] \/ row'[t] # row[t]

(* A save of a document changes only the fields its request names and      *)
(* moves the revision by one, whatever was saved since the row was read:   *)
(* the compare-and-swap of update_document (patch_document).               *)
SavesKeepOthers ==
    [][\A d \in Docs : docs[d] # NoRow /\ docs'[d] # NoRow /\ docs'[d] # docs[d] =>
         \E t \in Tasks :
           /\ Moves(t) /\ req[t].op = "patch_document" /\ req[t].doc = d
           /\ docs'[d].rev = docs[d].rev + 1
           /\ \A f \in {"path", "title", "body"} \ DOMAIN req[t].set : docs'[d][f] = docs[d][f]]_vars

(* The history of a document holds only bodies the document really had at  *)
(* that revision, and a revision number stands for one body, although the  *)
(* copy is inserted after the save it belongs to (save_document_revision). *)
HistoryFaithful ==
    /\ revs \subseteq written
    /\ \A a, b \in written : a.doc = b.doc /\ a.rev = b.rev => a.body = b.body

(* A request changes and returns rows of no project but its own: every     *)
(* handler loads the row it works on through the project of its path.      *)
OtherProjectsKept ==
    [][\A t \in Tasks : Moves(t) =>
         LET own(x) == x = NoRow \/ x.project = Target(t)
             kept(f, g) == \A x \in DOMAIN f : f[x] = g[x] \/ (own(f[x]) /\ own(g[x]))
         IN  /\ kept(docs, docs') /\ kept(refs, refs') /\ kept(links, links')
             /\ \A p \in Projects \ {Target(t)} : projects'[p] = projects[p] /\ members'[p] = members[p]
             /\ \A r \in Refs : fulltexts'[r] # fulltexts[r] => own(refs[r])
             /\ req[t].op \in Reads /\ resp'[t] = "ok" => row'[t] \subseteq {Target(t)}]_vars

(* The rows a share link had or may get. *)
Given(k) ==
    {FirstLinks[k]} \cup
    {[project |-> req[u].project, role |-> req[u].role] : u \in
        {u \in Tasks : req[u].op = "create_share_link" /\ req[u].link = k}}

(* Somebody gave the role to the subject. *)
Rightful(p, s, role) ==
    \/ role = FirstMembers[p][s]
    \/ role = "owner" /\ s = Creator[p]
    \/ \E t \in Tasks : /\ req[t].op = "add_member" /\ req[t].project = p
                        /\ req[t].subject = s /\ req[t].role = role /\ role # "owner"
    \/ \E t \in Tasks : /\ req[t].op = "redeem_share_link" /\ SubjectOf[req[t].user] = s
                        /\ \E x \in Given(req[t].link) \ {NoRow} : x.project = p /\ Rank[role] <= Rank[x.role]
                        /\ role = "read-only" \/ Rank[role] <= Rank[IdpRole[req[t].user]]

(* Every role somebody holds was given by the creation of the project, by  *)
(* a manager's add_member, or by a share link of at least that role to a   *)
(* user whose token carries at least that role (redeem_share_link).        *)
RolesGranted ==
    \A p \in Projects, s \in Names : members[p][s] # NoRole => Rightful(p, s, members[p][s])

(* A full text's row has its blob, unless an upload of it overlapped its   *)
(* deletion: the rows are written after and deleted before their blobs     *)
(* (put_fulltext, delete_fulltext, delete_reference, delete_project).      *)
DanglingOnlyByRace ==
    \A r \in Refs : fulltexts[r] # NoRow /\ blobs[r] = NoRow => r \in raced

(* What a request handed to the compile service. *)
Built(t) == IF req[t].op = "export_project" THEN row[t].request ELSE row[t]

(* It has its entry, every document that was gathered under its own path,  *)
(* an import in every source with redline markers, and, for an export with *)
(* full texts, the PDF of every cited reference.                           *)
Complete(t) ==
    LET b == Built(t) IN
    /\ b.entry \in DOMAIN b.sources
    /\ \A p \in DOMAIN b.sources : b.sources[p].redline =>
          b.sources[p].import \/ p = ReviewIn[DirOf[p]] \/ p \notin Typst
    /\ \A p \in DOMAIN b.sources : b.sources[p].import => ReviewIn[DirOf[p]] \in DOMAIN b.sources
    /\ req[t].op = "export_project" =>
          /\ \A d \in row[t].docs : b.sources[d.path].of = d.id
          /\ req[t].fulltexts => row[t].pdfs = Cited(row[t].docs, row[t].refs)

(* A build that succeeds is complete, although the project is read in      *)
(* several calls (export_project, project_preview, api_compile).           *)
BuildsComplete ==
    \A t \in Tasks :
      resp[t] = "ok" /\ req[t].op \in {"project_preview", "export_project", "api_compile"} => Complete(t)
=============================================================================
