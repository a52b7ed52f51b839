---------------------------- MODULE References ------------------------------
(***************************************************************************)
(* The reference library and its export: deduplication, numbering, the     *)
(* files of a bibliography and their validation (crates/nisaba-references) *)
(* and the project archive (crates/nisaba-export).  A path is a sequence   *)
(* of components; a full text is [contents] and a file [path, contents].   *)
(***************************************************************************)
EXTENDS Ris, FiniteSets

CONSTANTS
    IdOrder,        \* the ids in ascending order
    MaxEntries      \* 65535: the entries of a ZIP

ASSUME ReferencesAssumption ==
    /\ IdOrder \in Seq(Range(IdOrder))
    /\ \A i, j \in DOMAIN IdOrder : IdOrder[i] = IdOrder[j] => i = j

IdLess(a, b) == \E i, j \in DOMAIN IdOrder : i < j /\ IdOrder[i] = a /\ IdOrder[j] = b

-----------------------------------------------------------------------------
(* deduplicate *)

DedupKeys(m) ==
    <<<<"title", DedupTitle(m.title)>>>>
    \o (IF m.doi = None THEN <<>> ELSE <<<<"doi", NormalizeDoi(m.doi)>>>>)
    \o (IF m.pmid = None THEN <<>> ELSE <<<<"pmid", NormalizePmid(m.pmid)>>>>)

(* Mutant: the attachment of a duplicate is dropped. *)
MergeRecord(kept, entry) ==
    LET new == SelectSeq(entry.unknown, LAMBDA x : x \notin Range(kept.unknown))
    IN  [kept EXCEPT !.unknown = @ \o new, !.provenance = @ \o entry.provenance]

AddTag(tags, x) == IF x \in Range(tags) THEN tags ELSE Append(tags, x)

AddTags(tags, more) ==
    LET all[n \in 0..Len(more)] == IF n = 0 THEN tags ELSE AddTag(all[n - 1], more[n])
    IN  all[Len(more)]

(* Tags that are new, the full text if there is none, all provenance. *)
MergeInto(kept, entry) ==
    [kept EXCEPT !.unknown = AddTags(@, entry.unknown),
                 !.fulltext = IF @ = None THEN entry.fulltext ELSE @,
                 !.provenance = @ \o entry.provenance]

(* keys maps a key to the place of the first entry that brought it; those  *)
(* of an entry that is merged are not added.                               *)
TakeEntry(acc, entry) ==
    LET own == DedupKeys(entry.metadata)
        known == {k \in DOMAIN own : own[k] \in DOMAIN acc.keys}
        first == CHOOSE k \in known : \A j \in known : k <= j
        place == Len(acc.result) + 1
    IN  IF known # {} THEN [acc EXCEPT !.result[acc.keys[own[first]]] = MergeInto(@, entry)]
        ELSE [result |-> Append(acc.result, entry),
              keys |-> [k \in DOMAIN acc.keys \cup Range(own) |->
                          IF k \in Range(own) THEN place ELSE acc.keys[k]]]

Deduplicate(entries) ==
    LET taken[n \in 0..Len(entries)] ==
            IF n = 0 THEN [result |-> <<>>, keys |-> [k \in {} |-> 0]]
            ELSE TakeEntry(taken[n - 1], entries[n])
    IN  taken[Len(entries)].result

-----------------------------------------------------------------------------
(* number_bibliography: by first citation, the uncited last, then by id. *)

IdsOf(entries) == {entries[k].id : k \in DOMAIN entries}

Numberable(b) == Range(b.citations) \subseteq IdsOf(b.entries)

FirstCited(b, id) ==
    IF \E k \in DOMAIN b.citations : b.citations[k] = id
    THEN CHOOSE k \in DOMAIN b.citations : b.citations[k] = id /\ \A j \in 1..k - 1 : b.citations[j] # id
    ELSE Len(b.citations) + 1

IdsDiffer(b) == \A j, k \in DOMAIN b.entries : j # k => b.entries[j].id # b.entries[k].id

(* Mutant: in the order of the library. *)
NumberById(b) ==
    [id \in IdsOf(b.entries) |->
        Cardinality({k \in DOMAIN b.entries : b.entries[k].id = id \/ IdLess(b.entries[k].id, id)})]

(* The entries are numbered in order, and the last of an id gives it its   *)
(* number.                                                                 *)
NumberBibliography(b) ==
    LET before(x, y) == \/ FirstCited(b, x) < FirstCited(b, y)
                        \/ FirstCited(b, x) = FirstCited(b, y) /\ IdLess(x, y)
    IN  [id \in IdsOf(b.entries) |->
            Cardinality({k \in DOMAIN b.entries : b.entries[k].id = id \/ before(b.entries[k].id, id)})]

(* safe_filename_component: what is not allowed becomes "_"; trimmed. *)
SafeFilenameComponent(value, fallback) ==
    LET safe == [i \in 1..Len(value) |-> IF value[i] \in {"/", "\\", ".", ",", ":", ";", "\n"} THEN "_" ELSE value[i]]
        used == {i \in 1..Len(safe) : safe[i] # "_"}
    IN  IF used = {} THEN fallback
        ELSE SubSeq(safe, CHOOSE i \in used : \A j \in used : i <= j, CHOOSE i \in used : \A j \in used : j <= i)

(* fulltext_filename: number, first author and year. *)
FulltextFilename(number, m) ==
    LET p == IF m.authors = <<>> THEN [family |-> None, literal |-> None] ELSE m.authors[1]
        author == CASE p.family # None -> p.family
                    [] p.family = None /\ p.literal # None -> p.literal
                    [] OTHER -> <<"UnknownAuthor">>
    IN  <<number>> \o SafeFilenameComponent(author, <<"UnknownAuthor">>)
        \o (IF m.issued = None THEN <<"0000">> ELSE m.issued[1])

-----------------------------------------------------------------------------
(* ExportManifest::build *)

HasText(e) == e.fulltext # None /\ e.fulltext # <<>>

Digits(n) == <<ToString(n)>>

FulltextPath(b, numbers, e) ==
    <<SafeFilenameComponent(b.directory, <<"UnknownAuthor">>), <<"full-text">>,
      FulltextFilename(ToString(numbers[e.id]), e.metadata)>>

RisPath(b) == <<SafeFilenameComponent(b.directory, <<"UnknownAuthor">>), <<"references.ris">>>>

BuildManifest(b) ==
    LET numbers == NumberBibliography(b)
        missing == {e \in Range(b.entries) : e.id \in Range(b.citations) /\ ~HasText(e)}
        ris == ExportRis(b.entries, LAMBDA id : Digits(numbers[id]))
        attached(e) == IF e.fulltext = None THEN <<>>
                       ELSE <<[path |-> FulltextPath(b, numbers, e), contents |-> e.fulltext]>>
    IN  IF ~Numberable(b) \/ missing # {} \/ ~ris.ok THEN [ok |-> FALSE]
        ELSE [ok |-> TRUE,
              files |-> <<[path |-> RisPath(b), contents |-> ris.lines]>>
                        \o FlattenSeq([k \in 1..Len(b.entries) |-> attached(b.entries[k])])]

(* validate_export: the files are read again, whoever built them. *)
FileAt(files, path) == {files[k] : k \in {k \in DOMAIN files : files[k].path = path}}

RisErrors(b, files, numbers, records, imported) ==
    LET numbered(r) == HasTag(r, "AN") /\ HasTag(r, "RN")
        inRis == {<<Get(records[k], {"AN"}), Get(records[k], {"RN"})>> : k \in {k \in DOMAIN records : numbered(records[k])}}
        expected == {FulltextPath(b, numbers, e) : e \in Range(b.entries)}
        cited(e) == e.id \in Range(b.citations)
        wrong == [missingText |-> \E e \in Range(b.entries) : cited(e) /\ ~HasText(e),
                  number |-> \E e \in Range(b.entries) : <<e.id, Digits(numbers[e.id])>> \notin inRis,
                  missingFile |-> \E e \in Range(b.entries) :
                                    cited(e) /\ FileAt(files, FulltextPath(b, numbers, e)) = {},
                  missingId |-> \E e \in Range(b.entries) : e.id \notin IdsOf(imported.entries),
                  duplicate |-> Cardinality(expected) # Len(b.entries),
                  unexpected |-> \E k \in DOMAIN files :
                                    files[k].path[2] = <<"full-text">> /\ files[k].path \notin expected]
    IN  IF ~imported.ok THEN {"invalidRis"} ELSE {error \in DOMAIN wrong : wrong[error]}

ExportErrors(b, files) ==
    LET found == FileAt(files, RisPath(b))
        lines == (CHOOSE f \in found : TRUE).contents
    IN  IF ~Numberable(b) THEN {"numbering"}
        ELSE IF found = {} THEN {"missingRis"}
        ELSE RisErrors(b, files, NumberBibliography(b), Parse(lines).records, ImportRis(lines))

-----------------------------------------------------------------------------
(* nisaba-export *)

(* safe_path: relative, without empty or dotted components. *)
SafePath(path) ==
    path # <<>> /\ \A i \in DOMAIN path :
        path[i] # <<>> /\ path[i] \notin {<<".">>, <<"..">>} /\ Range(path[i]) \cap {"\\", ":", "\n"} = {}

PdfFilename(date, name) ==
    SafeFilenameComponent(date, <<"unnamed">>) \o SafeFilenameComponent(name, <<"unnamed">>)

(* finish_archive: the files, each path once. *)
FinishArchive(files) ==
    IF Cardinality({files[k].path : k \in DOMAIN files}) # Len(files) THEN [error |-> "duplicate"]
    ELSE [error |-> "none", files |-> files]

(* The PDF, the sources, and the files of every bibliography, each of      *)
(* which has to be built and to pass its validation before the next.       *)
AddBibliographies(input, built) ==
    LET pdf == [path |-> <<PdfFilename(input.date, input.name)>>, contents |-> input.pdf]
        sources == [k \in 1..Len(input.documents) |->
                      [path |-> <<<<"documents">>>> \o input.documents[k].path,
                       contents |-> input.documents[k].source]]
        bad == {k \in DOMAIN built : ~built[k].ok \/ ExportErrors(input.bibliographies[k], built[k].files) # {}}
        first == CHOOSE k \in bad : \A j \in bad : k <= j
    IN  IF bad # {} THEN [error |-> IF built[first].ok THEN "validation" ELSE "reference"]
        ELSE FinishArchive(<<pdf>> \o sources \o FlattenSeq([k \in 1..Len(built) |-> built[k].files]))

(* build_project_archive: the sources' paths and the PDF are looked at first. *)
BuildArchive(input) ==
    IF \E k \in DOMAIN input.documents : ~SafePath(input.documents[k].path) THEN [error |-> "path"]
    ELSE IF input.pdf # <<"%PDF-">> THEN [error |-> "pdf"]
    ELSE AddBibliographies(input, [k \in 1..Len(input.bibliographies) |-> BuildManifest(input.bibliographies[k])])

(* write_zip: every path again, and the number of entries. *)
WriteZip(files) ==
    (\A k \in DOMAIN files : SafePath(files[k].path)) /\ Len(files) <= MaxEntries
=============================================================================
