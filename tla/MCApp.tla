------------------------------- MODULE MCApp --------------------------------
(* Three requests at a time over two projects of different owners. *)
EXTENDS App, TLC

CONSTANTS t1, t2, t3, p1, p2, p3, d1, d2, d3, r1, r2, r3, k1, k2, ann, bea, cy,
          annSub, beaSub, beaName, cySub, main, aux, review, refsYml, b0, b1, b2, first

MCSymmetry == Permutations(Tasks)

MCTasks == {t1, t2, t3}
MCProjects == {p1, p2, p3}
MCDocs == {d1, d2, d3}
MCRefs == {r1, r2, r3}
MCLinks == {k1, k2}
MCUsers == {ann, bea, cy}
MCNames == {annSub, beaSub, beaName, cySub}

MCSubjectOf == (ann :> annSub) @@ (bea :> beaSub) @@ (cy :> cySub)
MCUsernameOf == (ann :> NoName) @@ (bea :> beaName) @@ (cy :> NoName)
MCIdpRole == (ann :> "author") @@ (bea :> "reviewer") @@ (cy :> "author")
MCCreator == (p1 :> annSub) @@ (p2 :> cySub) @@ (p3 :> annSub)
MCExisting == {p1, p2}
MCFirstEntry == [p \in MCProjects |-> IF p = p1 THEN d1 ELSE NoRow]

(* bea is a reviewer of p1 under her user name. *)
MCFirstMembers ==
    [p \in MCProjects |-> [s \in MCNames |->
        CASE p = p1 /\ s = annSub  -> "owner"
          [] p = p1 /\ s = beaName -> "reviewer"
          [] p = p2 /\ s = cySub   -> "owner"
          [] OTHER -> NoRole]]

Doc(p, path, body) == [project |-> p, path |-> path, title |-> "old", body |-> body, rev |-> 0]
MCFirstDocs == (d1 :> Doc(p1, main, b0)) @@ (d2 :> Doc(p2, main, b0)) @@ (d3 :> NoRow)

Ref(p, doi) == [project |-> p, title |-> "old", doi |-> doi]
MCFirstRefs == (r1 :> Ref(p1, "x")) @@ (r2 :> Ref(p2, "x")) @@ (r3 :> NoRow)
MCFirstTexts == [r \in MCRefs |-> IF r = r1 THEN first ELSE NoRow]
MCFirstLinks == (k1 :> [project |-> p1, role |-> "author"]) @@ (k2 :> NoRow)

MCPaths == {main, aux, review, refsYml}
MCTypst == {main, aux, review}
MCDirOf == [p \in MCPaths |-> "root"]
MCOrderOf == (main :> 2) @@ (aux :> 1) @@ (review :> 4) @@ (refsYml :> 3)
MCRefsIn == "root" :> refsYml
MCReviewIn == "root" :> review
MCCiting == [b \in {b0, b1, b2} |-> IF b = b0 THEN {} ELSE {r1, r3}]
MCWithBibliography == {b2}
MCLiveStates == {NoRow, [body |-> b1, marked |-> TRUE]}

-----------------------------------------------------------------------------
(* Requests. *)

Base(op, u, p) == [op |-> op, user |-> u, project |-> p]

Access == {
    Base("create_project", ann, p3) @@ [name |-> "new"],
    Base("add_member", ann, p1) @@ [subject |-> cySub, role |-> "reviewer"],
    Base("add_member", ann, p1) @@ [subject |-> beaSub, role |-> "owner"],
    Base("remove_member", ann, p1) @@ [subject |-> cySub],
    Base("remove_member", bea, p1) @@ [subject |-> beaSub],
    Base("create_share_link", ann, p1) @@ [link |-> k2, role |-> "read-only"],
    Base("create_share_link", cy, p2) @@ [link |-> k2, role |-> "reviewer"],
    Base("delete_share_link", ann, p1) @@ [link |-> k1],
    Base("delete_share_link", cy, p2) @@ [link |-> k1],
    Base("redeem_share_link", bea, p1) @@ [link |-> k1],
    Base("redeem_share_link", cy, p1) @@ [link |-> k1],
    Base("redeem_share_link", cy, p1) @@ [link |-> k2],
    Base("authorize_sync_document", cy, p1) @@ [doc |-> d1],
    Base("list_projects", bea, p1), Base("list_members", bea, p1),
    Base("list_share_links", ann, p1), Base("get_my_membership", bea, p1),
    Base("delete_project", ann, p1)}

Documents == {
    Base("create_document", ann, p1) @@ [doc |-> d3, set |-> [path |-> aux, title |-> "new", body |-> b1]],
    Base("patch_document", ann, p1) @@ [doc |-> d1, expected |-> NoRow, set |-> [title |-> "t"]],
    Base("patch_document", ann, p1) @@ [doc |-> d1, expected |-> NoRow, set |-> [body |-> b1]],
    Base("patch_document", ann, p1) @@ [doc |-> d1, expected |-> 0, set |-> [path |-> aux, body |-> b2]],
    Base("patch_document", ann, p1) @@ [doc |-> d3, expected |-> NoRow, set |-> [path |-> main]],
    Base("patch_document", ann, p1) @@ [doc |-> d2, expected |-> NoRow, set |-> [body |-> b1]],
    Base("delete_document", ann, p1) @@ [doc |-> d1],
    Base("delete_document", ann, p1) @@ [doc |-> d2],
    Base("patch_project", ann, p1) @@ [set |-> [entry |-> d3]],
    Base("patch_project", ann, p1) @@ [set |-> [name |-> "new"]],
    Base("get_document", bea, p1) @@ [doc |-> d1],
    Base("get_document", bea, p1) @@ [doc |-> d2],
    Base("get_document_revision", bea, p1) @@ [doc |-> d1, of |-> d3],
    Base("get_document_revision", bea, p1) @@ [doc |-> d1, of |-> d2],
    Base("list_document_history", bea, p1) @@ [doc |-> d1], Base("get_project", bea, p1),
    Base("list_documents", bea, p1), Base("list_audit", bea, p1),
    Base("delete_project", ann, p1)}

Files == {
    Base("create_reference", ann, p1) @@ [ref |-> r3, set |-> [title |-> "new", doi |-> "y"]],
    Base("patch_reference", ann, p1) @@ [ref |-> r1, set |-> [title |-> "t"]],
    Base("patch_reference", ann, p1) @@ [ref |-> r3, set |-> [doi |-> "x"]],
    Base("patch_reference", ann, p1) @@ [ref |-> r2, set |-> [title |-> "t"]],
    Base("delete_reference", ann, p1) @@ [ref |-> r1],
    Base("put_fulltext", ann, p1) @@ [ref |-> r1, pdf |-> TRUE],
    Base("put_fulltext", ann, p1) @@ [ref |-> r3, pdf |-> TRUE],
    Base("put_fulltext", ann, p1) @@ [ref |-> r1, pdf |-> FALSE],
    Base("delete_fulltext", ann, p1) @@ [ref |-> r1],
    Base("get_reference", bea, p1) @@ [ref |-> r1], Base("get_fulltext", bea, p1) @@ [ref |-> r1],
    Base("list_references", bea, p1), Base("list_fulltexts", bea, p1), Base("delete_project", ann, p1),
    Base("export_project", ann, p1) @@ [entry |-> main, view |-> "redline", fulltexts |-> TRUE]}

Builds == {
    Base("delete_document", ann, p1) @@ [doc |-> d1],
    Base("create_document", ann, p1) @@ [doc |-> d3, set |-> [path |-> review, title |-> "n", body |-> b2]],
    Base("create_reference", ann, p1) @@ [ref |-> r3, set |-> [title |-> "new", doi |-> "y"]],
    Base("delete_reference", ann, p1) @@ [ref |-> r1],
    Base("patch_project", ann, p1) @@ [set |-> [entry |-> d3]],
    Base("export_project", bea, p1) @@ [entry |-> main, view |-> "proposed", fulltexts |-> FALSE],
    Base("export_project", ann, p1) @@ [entry |-> main, view |-> "redline", fulltexts |-> TRUE],
    Base("project_preview", bea, p1) @@ [view |-> "redline", draft |-> NoDoc, body |-> b0, marked |-> FALSE],
    Base("project_preview", ann, p1) @@ [view |-> "redline", draft |-> d1, body |-> b2, marked |-> TRUE],
    Base("api_compile", bea, p1) @@
        [entry |-> aux, paths |-> {aux, review}, view |-> "redline", body |-> b1, marked |-> TRUE],
    Base("api_compile", cy, p1) @@
        [entry |-> main, paths |-> {aux}, view |-> "public", body |-> b1, marked |-> FALSE]}

MCWorkloads == {Access, Documents, Files, Builds}
=============================================================================
