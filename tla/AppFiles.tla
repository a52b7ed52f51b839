------------------------------ MODULE AppFiles ------------------------------
(***************************************************************************)
(* The handlers of references and their full texts in                      *)
(* services/app/src/lib.rs.  A full text is a row of the database and a    *)
(* PDF in the object store under the reference's id, written and removed   *)
(* by separate calls.                                                      *)
(***************************************************************************)
EXTENDS AppStore

CreateReferenceInsert(t) ==
    /\ At(t, "create_reference", "admitted")
    /\ LET q == req[t]
           v == [project |-> q.project, title |-> q.set.title, doi |-> q.set.doi]
           code == Then(If(Permitted(q.user, "manage"), "forbidden"), CreateReference(q.ref, v)) IN
       \/ Refuse(t, code)
       \/ /\ code = "ok" /\ refs[q.ref] = NoRow
          /\ refs' = [refs EXCEPT ![q.ref] = v] /\ InsertAudit(t) /\ Reply(t, "ok")
          /\ UNCHANGED <<projects, members, docs, revs, fulltexts, links, written, blobs, raced>>

(* The first half of every handler of one reference: the reference is      *)
(* looked up and the rest of the request checked.                          *)
ReferenceForProject(t, op, check, what) ==
    /\ At(t, op, "admitted")
    /\ LET code == Then(If(Permitted(req[t].user, "manage"), "forbidden"),
                   Then(ForProject(req[t].project, refs[req[t].ref]), check)) IN
       \/ Refuse(t, code)
       \/ code = "ok" /\ Read(t, what, "load") /\ UNCHANGED <<tables, blobs, raced>>

(* The supplied fields are merged into the row that was read ... *)
PatchReferenceLoad(t) ==
    LET old == refs[req[t].ref]
        new(f) == IF f \in DOMAIN req[t].set THEN req[t].set[f] ELSE old[f]
    IN  ReferenceForProject(t, "patch_reference", "ok",
            [project |-> old.project, title |-> new("title"), doi |-> new("doi")])

(* ... and the whole row is written back. *)
PatchReferenceCommit(t) ==
    /\ At(t, "patch_reference", "load")
    /\ LET r == req[t].ref IN
       \/ Refuse(t, UpdateReference(r, row[t]))
       \/ /\ UpdateReference(r, row[t]) = "ok"
          /\ refs' = [refs EXCEPT ![r] = row[t]] /\ InsertAudit(t) /\ Reply(t, "ok")
          /\ UNCHANGED <<projects, members, docs, revs, fulltexts, links, written, blobs, raced>>

DeleteReferenceLoad(t) ==
    ReferenceForProject(t, "delete_reference", "ok", row[t])

(* The full text's row cascades. *)
DeleteReferenceCommit(t) ==
    /\ At(t, "delete_reference", "load")
    /\ LET r == req[t].ref IN
       \/ Refuse(t, DeleteReference(r))
       \/ /\ DeleteReference(r) = "ok"
          /\ refs' = [refs EXCEPT ![r] = NoRow]
          /\ fulltexts' = [fulltexts EXCEPT ![r] = NoRow]
          /\ InsertAudit(t) /\ Goto(t, "more")
          /\ UNCHANGED <<row, projects, members, docs, revs, links, written, blobs, raced>>

-----------------------------------------------------------------------------
(* Full texts. *)

(* What is uploaded must be a PDF of the declared size. *)
PutFulltextLoad(t) ==
    ReferenceForProject(t, "put_fulltext", If(req[t].pdf, "bad"), row[t])

(* Mutant: a failure of the object store is only logged. *)
PutFulltextBlobLossy(t) ==
    /\ At(t, "put_fulltext", "load")
    /\ blobs' \in {blobs, [blobs EXCEPT ![req[t].ref] = t]} /\ Goto(t, "commit")
    /\ UNCHANGED <<row, tables, raced>>

PutFulltextBlob(t) ==
    /\ At(t, "put_fulltext", "load")
    /\ blobs' = [blobs EXCEPT ![req[t].ref] = t] /\ Goto(t, "commit")
    /\ UNCHANGED <<row, tables, raced>>

(* A deletion of the full text that is between its row and its blob. *)
Detaching(r) == \E u \in Tasks : req[u].op = "delete_fulltext" /\ req[u].ref = r /\ pc[u] = "more"

PutFulltextRow(t) ==
    /\ At(t, "put_fulltext", "commit")
    /\ LET r == req[t].ref IN
       \/ Refuse(t, PutFulltext(r))
       \/ /\ PutFulltext(r) = "ok"
          /\ fulltexts' = [fulltexts EXCEPT ![r] = t] /\ InsertAudit(t) /\ Reply(t, "ok")
          /\ raced' = IF Detaching(r) THEN raced \cup {r} ELSE raced
          /\ UNCHANGED <<projects, members, docs, revs, refs, links, written, blobs>>

DeleteFulltextLoad(t) ==
    ReferenceForProject(t, "delete_fulltext", "ok", row[t])

DeleteFulltextRow(t) ==
    /\ At(t, "delete_fulltext", "load")
    /\ LET r == req[t].ref IN
       \/ Refuse(t, DeleteFulltext(r))
       \/ /\ DeleteFulltext(r) = "ok"
          /\ fulltexts' = [fulltexts EXCEPT ![r] = NoRow] /\ InsertAudit(t) /\ Goto(t, "more")
          /\ UNCHANGED <<row, projects, members, docs, revs, refs, links, written, blobs, raced>>

(* The blob goes last, best effort: a failure is only logged. *)
DeleteBlob(t) ==
    /\ req[t].op \in {"delete_reference", "delete_fulltext"} /\ pc[t] = "more"
    /\ LET r == req[t].ref
           uploading == \E u \in Tasks :
                req[u].op = "put_fulltext" /\ req[u].ref = r /\ pc[u] = "commit"
       IN  \/ /\ blobs' = [blobs EXCEPT ![r] = NoRow]
              /\ raced' = IF uploading THEN raced \cup {r} ELSE raced
           \/ UNCHANGED <<blobs, raced>>
    /\ Reply(t, "ok") /\ UNCHANGED tables

FileStep(t) ==
    \/ CreateReferenceInsert(t) \/ PatchReferenceLoad(t) \/ PatchReferenceCommit(t)
    \/ DeleteReferenceLoad(t) \/ DeleteReferenceCommit(t)
    \/ PutFulltextLoad(t) \/ PutFulltextBlob(t) \/ PutFulltextRow(t)
    \/ DeleteFulltextLoad(t) \/ DeleteFulltextRow(t) \/ DeleteBlob(t)
=============================================================================
