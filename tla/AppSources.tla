----------------------------- MODULE AppSources -----------------------------
(***************************************************************************)
(* The sources a build of a project is made of: the pure part of previews  *)
(* and exports in services/app/src/lib.rs.  A source is a record of what   *)
(* the preparation looks for in its text: the document it comes from       *)
(* ("generated" for a file the service adds), whether it has redline       *)
(* markers, a call of #bibliography, and the import of review.typ.         *)
(***************************************************************************)
EXTENDS Naturals, FiniteSets

CONSTANTS
    Paths,          \* virtual paths of the project's files
    DirOf, OrderOf, \* per path: its directory, its place in the order of strings
    Typst,          \* the paths that end in .typ
    RefsIn, ReviewIn,   \* per directory: the path of its refs.yml and review.typ
    MainPath,       \* main.typ
    Citing,         \* per body: the references it cites
    WithBibliography,   \* the bodies that call #bibliography( themselves
    NoDoc

Views == {"baseline", "proposed", "redline", "public"}

ASSUME SourcesAssumption ==
    /\ Typst \subseteq Paths /\ MainPath \in Paths
    /\ \A d \in {DirOf[p] : p \in Paths} :
         /\ RefsIn[d] \in Paths \ Typst /\ DirOf[RefsIn[d]] = d
         /\ ReviewIn[d] \in Typst /\ DirOf[ReviewIn[d]] = d
    /\ \A p, q \in Paths : OrderOf[p] = OrderOf[q] => p = q

(* projected_source, then the headings: only the redline view of a source  *)
(* with suggestions has markers.                                           *)
ProjectedSource(doc, view) ==
    [of |-> doc.id, redline |-> view = "redline" /\ doc.marked,
     bib |-> doc.body \in WithBibliography, import |-> FALSE]

Generated == [of |-> NoDoc, redline |-> FALSE, bib |-> FALSE, import |-> FALSE]

(* The auto-generated refs.yml beside the entry, unless there is a file of *)
(* that name; then the entry calls it unless it calls one.                 *)
InjectBibliography(r, references) ==
    LET path == RefsIn[DirOf[r.entry]]
        inserted == [p \in DOMAIN r.sources \cup {path} |-> IF p = path THEN Generated ELSE r.sources[p]]
    IN  IF references = {} \/ path \in DOMAIN r.sources THEN r
        ELSE [r EXCEPT !.sources =
                [p \in DOMAIN inserted |->
                    IF p = r.entry THEN [inserted[p] EXCEPT !.bib = TRUE] ELSE inserted[p]]]

(* Mutant: only the entry is looked at. *)
MarkedEntry(r) == {p \in DOMAIN r.sources : p = r.entry /\ r.sources[p].redline}

(* Every source with markers imports review.typ from its own directory,    *)
(* which is added where the project has none.                              *)
MarkedSources(r) ==
    {p \in DOMAIN r.sources :
        /\ p = r.entry \/ p \in Typst \/ p \in r.marked
        /\ r.sources[p].redline}

InjectRedlineReview(r) ==
    IF r.view # "redline" THEN r
    ELSE LET importing == {p \in MarkedSources(r) : p # ReviewIn[DirOf[p]]}
             added == {ReviewIn[DirOf[p]] : p \in importing} \ DOMAIN r.sources
         IN  [r EXCEPT !.sources =
                [p \in DOMAIN r.sources \cup added |->
                    CASE p \in added -> Generated
                      [] p \in importing -> [r.sources[p] EXCEPT !.import = TRUE]
                      [] OTHER -> r.sources[p]]]

(* docs: the gathered documents, records with id, path, body and marked. *)
PrepareProjectSources(entry, view, docs, references) ==
    LET paths == {d.path : d \in docs}
        at(p) == CHOOSE d \in docs : d.path = p
    IN  InjectRedlineReview(InjectBibliography(
            [entry |-> entry, view |-> view, marked |-> {d.path : d \in {d \in docs : d.marked}},
             sources |-> [p \in paths |-> ProjectedSource(at(p), view)]], references))

(* The entry of a preview: the project's, else main.typ, else the first. *)
PreviewEntry(docs, entry) ==
    CASE \E d \in docs : d.id = entry      -> (CHOOSE d \in docs : d.id = entry).path
      [] \E d \in docs : d.path = MainPath -> MainPath
      [] OTHER -> (CHOOSE d \in docs : \A e \in docs : OrderOf[d.path] <= OrderOf[e.path]).path

(* The references a document cites that the project has: one PDF each. *)
Cited(docs, references) == UNION {Citing[d.body] : d \in docs} \cap references
=============================================================================
