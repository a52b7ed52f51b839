-------------------------------- MODULE Ris ---------------------------------
(***************************************************************************)
(* RIS import and export (crates/nisaba-references/src/lib.rs).  A file is *)
(* a sequence of lines, already told apart the way RisRecord::parse does:  *)
(*   "tag"    TAG - value, the tag in upper case and the value trimmed     *)
(*   "more"   a line that begins with blanks, its text trimmed             *)
(*   "blank"  and "bad", a line of no such shape                           *)
(* A value is a sequence of words and of the separators the code looks     *)
(* for; "\n" is a line break inside a value.  An id is a value too.        *)
(***************************************************************************)
EXTENDS Integers, Sequences, SequencesExt, Functions

CONSTANTS
    Numbers,        \* the words that parse as numbers
    Lower,          \* per word: its lower case
    StableHash(_),  \* of a title
    ImportId(_)     \* import-{index}

None == <<"none">>

Tag(tag, value) == [tag |-> tag, value |-> value]
Line(tag, value) == [kind |-> "tag", tag |-> tag, value |-> value]

(* RisRecord::parse: a continuation joins the tag before it, a record      *)
(* begins with TY and has to be closed by ER.                              *)
ParseLine(acc, line) ==
    CASE ~acc.ok \/ line.kind = "blank" \/ (line.kind = "more" /\ line.value = <<>>) -> acc
      [] acc.ok /\ line.kind = "more" /\ line.value # <<>> /\ acc.current # <<>> ->
            [acc EXCEPT !.current[Len(acc.current)].value = @ \o line.value]
      [] acc.ok /\ line.kind = "tag" /\ line.tag = "ER" ->
            [acc EXCEPT !.records = Append(@, Append(acc.current, Tag("ER", line.value))), !.current = <<>>]
      [] acc.ok /\ line.kind = "tag" /\ line.tag # "ER" /\ (line.tag = "TY" \/ acc.current # <<>>) ->
            [acc EXCEPT !.current = Append(@, Tag(line.tag, line.value))]
      [] OTHER -> [acc EXCEPT !.ok = FALSE]

Parse(lines) ==
    LET end == FoldLeft(ParseLine, [ok |-> TRUE, records |-> <<>>, current |-> <<>>], lines)
    IN  [ok |-> end.ok /\ end.current = <<>>, records |-> end.records]

(* RisRecord::write_all: one line per tag, line breaks turned to blanks. *)
OneLine(value) == SelectSeq(value, LAMBDA word : word # "\n")

(* Mutant: only the first line is looked at. *)
HasTagFirst(record, tag) == record # <<>> /\ record[1].tag = tag

HasTag(record, tag) == \E k \in DOMAIN record : record[k].tag = tag

WriteAll(records) ==
    LET body(record) == LET kept == SelectSeq(record, LAMBDA x : x.tag # "ER")
                        IN  [k \in 1..Len(kept) |-> Line(kept[k].tag, OneLine(kept[k].value))]
        lines(record) == body(record) \o <<Line("ER", <<>>), [kind |-> "blank"]>>
    IN  [ok |-> \A k \in DOMAIN records : HasTag(records[k], "TY"),
         lines |-> FlattenSeq([k \in 1..Len(records) |-> lines(records[k])])]

-----------------------------------------------------------------------------
(* Values. *)

(* The value up to the first separator, and what follows it. *)
SplitAt(value, separators) ==
    IF \E i \in DOMAIN value : value[i] \in separators
    THEN LET i == CHOOSE i \in DOMAIN value :
                    value[i] \in separators /\ \A j \in 1..i - 1 : value[j] \notin separators
         IN  [found |-> TRUE, before |-> SubSeq(value, 1, i - 1), after |-> SubSeq(value, i + 1, Len(value))]
    ELSE [found |-> FALSE, before |-> value, after |-> <<>>]

NonEmpty(value) == IF value = <<>> THEN None ELSE value

InLower(value) == [i \in 1..Len(value) |-> IF value[i] \in DOMAIN Lower THEN Lower[value[i]] ELSE value[i]]

(* The value without its leading prefixes, each as often as it is there,   *)
(* in the order given.                                                     *)
TrimStart(value, prefixes) ==
    LET drop(v, prefix) == LET n == CHOOSE n \in 0..Len(v) :
                                      /\ \A i \in 1..n : v[i] = prefix
                                      /\ n < Len(v) => v[n + 1] # prefix
                           IN  SubSeq(v, n + 1, Len(v))
    IN  FoldLeft(drop, value, prefixes)

NormalizeDoi(value) == InLower(TrimStart(value, <<"https://doi.org/", "http://doi.org/", "doi:">>))

NormalizePmid(value) == TrimStart(value, <<"P", "M", "I", "D", ":">>)

DedupTitle(value) == InLower(SelectSeq(value, LAMBDA word : word \notin {",", ";", ":", "-", "/", "\n"}))

(* parse_person: "Family, Given" or "Given ... Family". *)
ParsePerson(value) ==
    LET halves == SplitAt(value, {","})
    IN  CASE halves.found -> [family |-> NonEmpty(halves.before), given |-> NonEmpty(halves.after), literal |-> None]
          [] ~halves.found /\ value = <<>> -> [family |-> None, given |-> None, literal |-> None]
          [] OTHER -> [family |-> <<Last(value)>>, given |-> NonEmpty(Front(value)), literal |-> None]

(* Person::display_name *)
DisplayName(p) ==
    CASE p.literal # None -> p.literal
      [] p.literal = None /\ p.family # None /\ p.given # None -> p.family \o <<",">> \o p.given
      [] p.literal = None /\ p.family # None /\ p.given = None -> p.family
      [] p.literal = None /\ p.family = None /\ p.given # None -> p.given
      [] OTHER -> <<"UnknownAuthor">>

(* parse_date: year, month and day; of a month or a day that is no number  *)
(* nothing is kept.                                                        *)
ParseDate(value) ==
    LET year == SplitAt(value, {"-", "/", "."})
        month == SplitAt(year.after, {"-", "/", "."})
        day == SplitAt(month.after, {"-", "/", "."})
        number(v) == IF Len(v) = 1 /\ v[1] \in Numbers THEN v ELSE None
    IN  IF number(year.before) = None THEN None
        ELSE <<year.before, number(month.before), number(day.before)>>

(* parse_provenance: search, database and date, from "key: value" parts; a *)
(* part without a key ends it.                                             *)
ParseProvenance(value) ==
    LET parts[v \in Seq(STRING)] ==
            LET rest == SplitAt(v, {";"}) IN <<rest.before>> \o (IF rest.found THEN parts[rest.after] ELSE <<>>)
        all == parts[value]
        key(k) == InLower(SplitAt(all[k], {":"}).before)
        last(keys) == LET at == {k \in DOMAIN all : key(k) \in keys}
                      IN  IF at = {} THEN None
                          ELSE SplitAt(all[CHOOSE k \in at : \A j \in at : j <= k], {":"}).after
        found == <<last({<<"search">>}), last({<<"database">>, <<"db">>}),
                   last({<<"search", "date">>, <<"date">>})>>
    IN  IF (\A k \in DOMAIN all : SplitAt(all[k], {":"}).found) /\ \A f \in DOMAIN found : found[f] # None
        THEN found ELSE None

-----------------------------------------------------------------------------
(* import_ris *)

(* The tags that hold one value each; the first is the one written. *)
SimpleTags ==
    [container |-> <<"T2", "JF", "JO">>, publisher |-> <<"PB">>, abstract |-> <<"AB">>, language |-> <<"LA">>,
     volume |-> <<"VL">>, issue |-> <<"IS">>, url |-> <<"UR">>]

KnownRisTags ==
    {"TY", "ER", "AU", "A1", "TI", "T1", "T2", "JF", "JO", "PY", "Y1", "DA", "DP", "VL", "IS", "SP",
     "EP", "DO", "UR", "AN", "RN", "AB", "LA", "PB", "KW", "PMID"}

Get(record, tags) ==
    LET at == {k \in DOMAIN record : record[k].tag \in tags}
    IN  IF at = {} THEN None ELSE record[CHOOSE k \in at : \A j \in at : k <= j].value

GetAll(record, tags, read(_)) ==
    LET kept == SelectSeq(record, LAMBDA x : x.tag \in tags) IN [k \in 1..Len(kept) |-> read(kept[k].value)]

CslType(value) ==
    CASE value \in {<<"JOUR">>, <<"EJOUR">>} -> "article-journal"
      [] value \in {<<"BOOK">>, <<"EBK">>} -> "book"
      [] value = <<"RPRT">> -> "report"
      [] value = <<"CHAP">> -> "chapter"
      [] OTHER -> "document"

RisType(type) == CASE type = "book" -> <<"BOOK">> [] type = "chapter" -> <<"CHAP">>
                   [] type = "report" -> <<"RPRT">> [] OTHER -> <<"JOUR">>

Pages(first, last) ==
    CASE first # None /\ last # None -> first \o <<"-">> \o last
      [] first # None /\ last = None -> first
      [] OTHER -> last

(* metadata_from_ris, for a record that has a title *)
MetadataFromRis(record) ==
    [title |-> Get(record, {"TI", "T1"}),
     authors |-> GetAll(record, {"AU", "A1"}, ParsePerson),
     issued |-> LET date == Get(record, {"PY", "Y1", "DA", "DP"}) IN IF date = None THEN None ELSE ParseDate(date),
     pages |-> Pages(Get(record, {"SP"}), Get(record, {"EP"})),
     doi |-> LET doi == Get(record, {"DO"}) IN IF doi = None THEN None ELSE NormalizeDoi(doi),
     pmid |-> LET pmid == Get(record, {"PMID"})
                  note == Get(record, {"M3"})
              IN  IF pmid = None /\ note # None /\ Range(note) \subseteq Numbers THEN note ELSE pmid,
     keywords |-> GetAll(record, {"KW"}, LAMBDA v : v),
     type |-> LET type == Get(record, {"TY"}) IN IF type = None THEN None ELSE <<CslType(type)>>,
     simple |-> [f \in DOMAIN SimpleTags |-> Get(record, Range(SimpleTags[f]))]]

ValidId(id) == id # <<>> /\ \A i \in DOMAIN id : id[i] \notin {"/", "\\"}

(* The AN tag, else the DOI, else the title; what is no id, the index. *)
IdFromRis(record, metadata, index) ==
    LET an == Get(record, {"AN"})
        id == CASE an # None -> an
                [] an = None /\ metadata.doi # None -> <<"doi:">> \o metadata.doi
                [] OTHER -> StableHash(DedupTitle(metadata.title))
    IN  IF ValidId(id) THEN id ELSE ImportId(index)

Entry(record, metadata, index) ==
    [id |-> IdFromRis(record, metadata, index), metadata |-> metadata, fulltext |-> None,
     unknown |-> SelectSeq(record, LAMBDA x : x.tag \notin KnownRisTags),
     provenance |-> SelectSeq(GetAll(record, {"N1"}, ParseProvenance), LAMBDA p : p # None)]

(* import_ris: every record needs a title. *)
ImportRecords(parsed) ==
    IF parsed.ok /\ \A k \in DOMAIN parsed.records : Get(parsed.records[k], {"TI", "T1"}) # None
    THEN [ok |-> TRUE, entries |-> [k \in 1..Len(parsed.records) |->
            Entry(parsed.records[k], MetadataFromRis(parsed.records[k]), k)]]
    ELSE [ok |-> FALSE, entries |-> <<>>]

ImportRis(lines) == ImportRecords(Parse(lines))

-----------------------------------------------------------------------------
(* export_ris *)

Opt(tag, value) == IF value = None THEN <<>> ELSE <<Tag(tag, value)>>

Simple(m, field) == Opt(SimpleTags[field][1], m.simple[field])

ProvenanceNote(p) ==
    <<"database", "search", ":">> \o p[1] \o <<";", "database", ":">> \o p[2] \o
    <<";", "search", "date", ":">> \o p[3]

(* to_ris_record, for an entry with a title; number is a value or None *)
ToRisRecord(entry, number) ==
    LET m == entry.metadata
        pages == IF m.pages = None THEN [found |-> FALSE] ELSE SplitAt(m.pages, {"-"})
    IN  <<Tag("TY", RisType(IF m.type = None THEN "article-journal" ELSE m.type[1]))>>
        \o [k \in 1..Len(m.authors) |-> Tag("AU", DisplayName(m.authors[k]))]
        \o <<Tag("TI", m.title)>> \o Simple(m, "container") \o Simple(m, "publisher") \o Simple(m, "abstract")
        \o [k \in 1..Len(m.keywords) |-> Tag("KW", m.keywords[k])] \o Simple(m, "language")
        \o (IF m.issued = None THEN <<>> ELSE <<Tag("PY", m.issued[1])>>)
        \o Simple(m, "volume") \o Simple(m, "issue") \o Opt("DO", m.doi) \o Opt("PMID", m.pmid) \o Simple(m, "url")
        \o (IF m.pages = None THEN <<>> ELSE <<Tag("SP", pages.before)>>)
        \o (IF pages.found THEN <<Tag("EP", pages.after)>> ELSE <<>>)
        \o SelectSeq(entry.unknown, LAMBDA x : x.tag \notin {"TY", "ER"})
        \o (IF HasTag(entry.unknown, "N1") THEN <<>>
            ELSE [k \in 1..Len(entry.provenance) |-> Tag("N1", ProvenanceNote(entry.provenance[k]))])
        \o <<Tag("AN", entry.id)>> \o Opt("RN", number)

(* numbers is a function from ids to values, None for no number. *)
ExportRis(entries, numberOf(_)) ==
    LET written == WriteAll([k \in 1..Len(entries) |-> ToRisRecord(entries[k], numberOf(entries[k].id))])
    IN  [ok |-> written.ok /\ \A k \in DOMAIN entries : entries[k].metadata.title # <<>>, lines |-> written.lines]
=============================================================================
