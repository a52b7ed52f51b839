------------------------------ MODULE Library -------------------------------
(***************************************************************************)
(* The pure functions of the libraries, called with one request each:      *)
(* comparing milestones and redlining (crates/nisaba-core), projecting the *)
(* open suggestions (services/app), converting offsets, and importing,     *)
(* deduplicating, citing and exporting references (nisaba-references,      *)
(* nisaba-export).                                                         *)
(***************************************************************************)
EXTENDS CoreDiff, CoreRedline, ReviewState, References, Citations

CONSTANTS
    Chars,                          \* the characters of compared texts
    Compared, Redlined, Reviewed,   \* the requests, one set per function
    Files, Duplicated, Archived, Sources, Calls, Encoded

Pos == INSTANCE CorePositions

ReviewItem ==
    [kind : STRING, status : STRING, orphaned : BOOLEAN, change : STRING, at : MarkIds,
     from : 0..MaxPosition, to : 0..MaxPosition,
     fromCursor : 0..MaxPosition \cup {NoCursor}, toCursor : 0..MaxPosition \cup {NoCursor}]

IsSeq(s) == s \in Seq(Range(s))

(* Entries like the given ones. *)
EntriesLike(es) ==
    [id : {es[k].id : k \in DOMAIN es}, metadata : {es[k].metadata : k \in DOMAIN es},
     fulltext : {es[k].fulltext : k \in DOMAIN es},
     unknown : Seq(UNION {Range(es[k].unknown) : k \in DOMAIN es}),
     provenance : Seq(UNION {Range(es[k].provenance) : k \in DOMAIN es})]

ASSUME LibraryAssumption ==
    /\ \A r \in Encoded : r \in [op : {"convert"}, text : Seq(Pos!Char), start : Nat, end : Nat]
    /\ \A r \in Reviewed : r.op = "review" /\ IsSeq(r.text) /\ r.items \in Seq(ReviewItem)
    /\ \A r \in Duplicated : r.op = "dedup" /\ r.entries \in Seq(EntriesLike(r.entries))
    /\ \A r \in Compared : r \in [op : {"compare"}, old : Seq(Chars), new : Seq(Chars)]
    /\ \A r \in Redlined :
         /\ r.op = "redline" /\ IsSeq(r.text)
         /\ \A m \in {r.style.insertOpen, r.style.insertClose, r.style.deleteOpen, r.style.deleteClose,
                      r.style.replacedOpen, r.style.replacedClose} : IsSeq(m)
    /\ \A r \in Files : r.op = "import"
    /\ \A r \in Archived :
         /\ r.op = "archive" /\ IsSeq(r.input.documents) /\ IsSeq(r.input.bibliographies)
         /\ \A k \in DOMAIN r.input.bibliographies :
              LET b == r.input.bibliographies[k] IN IsSeq(b.entries) /\ IsSeq(b.citations)
    /\ \A r \in Sources : r.op = "cite"
    /\ \A r \in Calls : r.op = "cite"

VARIABLES request, answer

libraryVars == <<request, answer>>

NotYet == [op |-> "none"]

LibraryInit ==
    /\ \/ request \in Compared \/ request \in Redlined \/ request \in Reviewed
       \/ request \in Files \/ request \in Duplicated \/ request \in Archived
       \/ request \in Sources \/ request \in Calls \/ request \in Encoded
    /\ answer = NotYet

Asks(op) == request.op = op /\ answer = NotYet

Answer(value) == answer' = value /\ UNCHANGED request

(* compare_milestones of two milestones with at most one document; an      *)
(* empty one stands for its absence.                                       *)
Compare ==
    /\ Asks("compare")
    /\ LET milestone(text) == [d \in IF text = <<>> THEN {} ELSE {"main"} |-> text]
           changes(found) == IF found = <<>> THEN <<>> ELSE found["main"]
       IN  Answer([op |-> "compare", changes |->
                     changes(CompareMilestones(milestone(request.old), milestone(request.new), Chars))])

(* redline_with_report, refused by RedlineStyle::validate before. *)
RenderRedline ==
    /\ Asks("redline") /\ ValidStyle(request.style)
    /\ Answer([op |-> "redline", text |-> Redline(request.text, request.marks, request.style)])

ProjectSource ==
    /\ Asks("review")
    /\ Answer([op |-> "review",
               views |-> [v \in DOMAIN Hidden |->
                            Project(request.text, ReviewMarks(request.items, Len(request.text)), v)]])

(* import_ris, then export_ris of what came out of it. *)
Import ==
    /\ Asks("import")
    /\ LET reply(read, written) ==
               Answer([op |-> "import", ok |-> read.ok /\ written.ok, entries |-> read.entries,
                       again |-> ImportRis(written.lines)])
           export(read) == reply(read, ExportRis(read.entries, LAMBDA id : None))
       IN  export(ImportRis(request.lines))

Dedup == Asks("dedup") /\ Answer([op |-> "dedup", entries |-> Deduplicate(request.entries)])

(* build_project_archive, then write_zip. *)
Archive ==
    /\ Asks("archive")
    /\ LET reply(archive) == Answer([op |-> "archive", archive |-> archive,
                                     zip |-> archive.error = "none" /\ WriteZip(archive.files)])
       IN  reply(BuildArchive(request.input))

(* Position::to_byte, to_utf16 and back, and slice_chars. *)
Convert ==
    /\ Asks("convert")
    /\ Answer([op |-> "convert",
               bytes |-> [p \in 0..Len(request.text) + 1 |-> Pos!ToByte(request.text, p)],
               units |-> [p \in 0..Len(request.text) + 1 |-> Pos!ToUtf16(request.text, p)],
               ofByte |-> [b \in 0..Pos!ByteLen(request.text) + 1 |-> Pos!FromByte(request.text, b)],
               ofUnit |-> [u \in 0..Pos!UnitLen(request.text) + 1 |-> Pos!FromUtf16(request.text, u)],
               slice |-> Pos!SliceChars(request.text, request.start, request.end)])

Cite == Asks("cite") /\ Answer([op |-> "cite", found |-> ExtractCitations(request.source)])

LibraryNext == Compare \/ RenderRedline \/ ProjectSource \/ Import \/ Dedup \/ Archive \/ Cite \/ Convert

LibrarySpec == LibraryInit /\ [][LibraryNext]_libraryVars
-----------------------------------------------------------------------------
(* Two conversions undo each other. *)
Inverses(to, from, text) ==
    /\ \A p \in 0..Len(text) : from[to[p]] = p
    /\ \A x \in DOMAIN from : from[x] # -1 => to[from[x]] = x
    /\ to[Len(text) + 1] = -1

(* Offsets and positions are inverse to each other where both exist: an    *)
(* offset inside a character or past the end has no position, and a slice  *)
(* is the characters between its ends (to_byte, to_utf16, from_byte,       *)
(* from_utf16, slice_chars).                                               *)
OffsetsExact ==
    answer.op = "convert" =>
        /\ Inverses(answer.bytes, answer.ofByte, request.text)
        /\ Inverses(answer.units, answer.ofUnit, request.text)
        /\ answer.slice.found <=> request.start <= request.end /\ request.end <= Len(request.text)
        /\ answer.slice.found => answer.slice.text = SubSeq(request.text, request.start + 1, request.end)

(* The sides of a comparison. *)
Side(changes, op) ==
    FlattenSeq([k \in 1..Len(changes) |-> IF changes[k].op \in {"equal", op} THEN changes[k].text ELSE <<>>])

(* The length of the longest common subsequence, by definition. *)
LcsLength(a, b) ==
    LET lcs[p \in (0..Len(a)) \X (0..Len(b))] ==
            LET i == p[1]
                j == p[2]
            IN  IF i = 0 \/ j = 0 THEN 0
                ELSE IF a[i] = b[j] THEN lcs[<<i - 1, j - 1>>] + 1
                ELSE Larger(lcs[<<i - 1, j>>], lcs[<<i, j - 1>>])
    IN  lcs[<<Len(a), Len(b)>>]

(* A comparison loses nothing and invents nothing: what is kept and what   *)
(* is deleted make the old text, what is kept and what is inserted the new *)
(* one, in runs that alternate, whatever tier a region is refined to and   *)
(* wherever a limit stops the refinement; and at the last tier the runs    *)
(* that are kept are as long as they can be (diff_seq, diff_region).       *)
DiffFaithful ==
    answer.op = "compare" =>
        /\ Side(answer.changes, "delete") = request.old
        /\ Side(answer.changes, "insert") = request.new
        /\ \A k \in 1..Len(answer.changes) - 1 : answer.changes[k].op # answer.changes[k + 1].op
        /\ Len(request.old) <= DiffWorkLimit \div (1 + Len(request.new)) =>
             LET a == SplitChars(request.old)
                 b == SplitChars(request.new)
                 ops == DiffSeq(a, b, Seq(Chars))
             IN  Consumed(ops, "equal", Len(ops)) = LcsLength(a, b)

(* A redline keeps every character and, with markers that nest, never      *)
(* breaks the nesting of a text that nests, however the marks cut brackets *)
(* and math apart: a span that cannot be wrapped is left between two       *)
(* markers that are complete (classify_inline_safety, emit_change).        *)
RedlineSafe ==
    answer.op = "redline" =>
        /\ Nested(request.text) /\ StyleNests(request.style) => Nested(answer.text)
        /\ Taken(request.text, 0, answer.text) = Len(request.text)

(* "It never turns compilable source into non-compilable source", with any *)
(* style that validate accepts: that does not hold, since validate counts  *)
(* each kind of bracket on its own (redline.rs, RedlineStyle::validate).   *)
ValidStylesNest ==
    answer.op = "redline" /\ Nested(request.text) => Nested(answer.text)

(* An open suggestion hides the i-th character in the view. *)
HiddenBy(i, view) ==
    \E k \in DOMAIN request.items :
        LET x == request.items[k] IN
        /\ x.kind = "suggestion" /\ x.status = "open" /\ ~x.orphaned
        /\ x.change \in {"insert", "delete"} \cap Hidden[view]
        /\ (IF x.fromCursor = NoCursor THEN x.from ELSE x.fromCursor) < i
        /\ i <= (IF x.toCursor = NoCursor THEN x.to ELSE x.toCursor)

(* The k-th character of the view is the k-th that is not hidden. *)
Shows(view) ==
    LET shown == {i \in 1..Len(request.text) : ~HiddenBy(i, view)}
        place(k) == CHOOSE i \in shown : Cardinality(shown \cap 1..i) = k
    IN  answer.views[view] = [k \in 1..Cardinality(shown) |-> request.text[place(k)]]

(* What is compiled for a view is the text without exactly the characters  *)
(* that an open suggestion hides there, provided no two of them have the   *)
(* same creation time (projected_source knows a mark by it).               *)
ReviewViews ==
    answer.op = "review" /\ (\A j, k \in DOMAIN request.items :
                                j # k => request.items[j].at # request.items[k].at)
        => \A view \in DOMAIN Hidden : Shows(view)

(* What RIS can hold of an entry: a date is its year and a type one of     *)
(* four.  Authors and the DOI are compared on their own.                   *)
Kept(e) ==
    [e EXCEPT !.metadata.issued = IF @ = None THEN None ELSE @[1],
              !.metadata.type = IF @ = None THEN None ELSE RisType(@[1]),
              !.metadata.authors = <<>>, !.metadata.doi = None]

(* One word, or something on both sides of the first comma.  Any other     *)
(* name is read as another one: "World Health Organization" with nothing   *)
(* after its comma becomes "Organization, World Health" (parse_person).    *)
NameStands(name) ==
    /\ name[1] # ","
    /\ Len(name) = 1 \/ \E i \in 2..Len(name) - 1 : name[i] = ","

(* A DOI without a prefix.  One that came with two prefixes, or with an    *)
(* upper-case one, still has one when it is written (normalize_doi).       *)
DoiStands(doi) == doi = <<>> \/ doi[1] \notin {"https://doi.org/", "http://doi.org/", "doi:"}

SameEntry(was, is) ==
    /\ Kept(is) = Kept(was)
    /\ Len(is.metadata.authors) = Len(was.metadata.authors)
    /\ \A k \in DOMAIN was.metadata.authors :
         LET name == DisplayName(was.metadata.authors[k])
         IN  NameStands(name) => DisplayName(is.metadata.authors[k]) = name
    /\ LET doi == was.metadata.doi
       IN  doi = None \/ DoiStands(doi) => is.metadata.doi = doi

(* An entry that was imported and exported is imported as the same entry:  *)
(* the id, the order and repetitions of the tags the library does not      *)
(* know, its provenance, and every name and DOI that stands as it is       *)
(* written survive (import_ris, to_ris_record, write_all).                 *)
RisRoundTrip ==
    answer.op = "import" /\ answer.ok =>
        /\ answer.again.ok
        /\ Len(answer.again.entries) = Len(answer.entries)
        /\ \A k \in DOMAIN answer.entries : SameEntry(answer.entries[k], answer.again.entries[k])

ShareKey(a, b) == Range(DedupKeys(a.metadata)) \cap Range(DedupKeys(b.metadata)) # {}

(* What is kept of some entries is the first of them, with the tags and    *)
(* the provenance of all and the first full text that one of them has.     *)
MergeOf(kept, entries, members) ==
    /\ \E first \in members :
         /\ \A i \in members : first <= i
         /\ kept.id = entries[first].id /\ kept.metadata = entries[first].metadata
    /\ Range(kept.unknown) = UNION {Range(entries[i].unknown) : i \in members}
    /\ Range(kept.provenance) = UNION {Range(entries[i].provenance) : i \in members}
    /\ \/ kept.fulltext = None /\ \A i \in members : entries[i].fulltext = None
       \/ \E i \in members :
            /\ kept.fulltext = entries[i].fulltext /\ kept.fulltext # None
            /\ \A j \in members : entries[j].fulltext # None => i <= j

(* Deduplication finds each entry a home, an entry that is kept and shares *)
(* a key with it, and keeps of the entries of one home exactly what        *)
(* MergeOf says: no tag and no provenance is lost or moved to another      *)
(* entry, an attachment is lost only to an earlier one of the same home,   *)
(* and nothing is kept that had no entry.  No two that are kept share a    *)
(* key (deduplicate).                                                      *)
DedupLossless ==
    answer.op = "dedup" =>
        /\ \A j, k \in DOMAIN answer.entries : j # k => ~ShareKey(answer.entries[j], answer.entries[k])
        /\ \E home \in [DOMAIN request.entries -> DOMAIN answer.entries] :
             /\ \A i \in DOMAIN request.entries : ShareKey(request.entries[i], answer.entries[home[i]])
             /\ \A k \in DOMAIN answer.entries :
                  MergeOf(answer.entries[k], request.entries, {i \in DOMAIN request.entries : home[i] = k})

(* "Any matching DOI, PMID, or normalized title is enough to merge two     *)
(* records" (deduplicate): that does not hold for the keys of an entry     *)
(* that was itself merged.                                                 *)
MatchesMerge ==
    answer.op = "dedup" =>
        \A j, k \in DOMAIN request.entries :
            ShareKey(request.entries[j], request.entries[k]) =>
                \E kept \in Range(answer.entries) :
                    Range(request.entries[j].provenance) \cup Range(request.entries[k].provenance)
                        \subseteq Range(kept.provenance)

(* The validation, which reads the files and the RIS again, never refuses  *)
(* what the builder built, unless an id is there twice, and the archive    *)
(* takes its paths (validate_export after ExportManifest::build, write_zip *)
(* after finish_archive).                                                  *)
ExportAccepted ==
    answer.op = "archive" =>
        /\ (\A b \in Range(request.input.bibliographies) : IdsDiffer(b)) => answer.archive.error # "validation"
        /\ answer.archive.error = "none" => answer.zip

(* What the library writes it reads again: an exported file as the entries *)
(* it was made of, an export as one that its validation accepts.           *)
ReadsItsOwn == RisRoundTrip /\ ExportAccepted

(* An export that is not refused numbers the cited references by first     *)
(* citation, from 1 without a gap if no id is there twice, and has the     *)
(* full text of each of them under its number (number_bibliography,        *)
(* ExportManifest::build).                                                 *)
CitedTextsExported ==
    answer.op = "archive" /\ answer.archive.error = "none" =>
        \A k \in DOMAIN request.input.bibliographies :
            LET b == request.input.bibliographies[k]
                numbers == NumberBibliography(b)
                cited == Range(b.citations)
            IN  /\ IdsDiffer(b) => {numbers[id] : id \in cited} = 1..Cardinality(cited)
                /\ \A x, y \in cited : numbers[x] < numbers[y] => FirstCited(b, x) < FirstCited(b, y)
                /\ \A e \in Range(b.entries) : e.id \in cited =>
                     \E f \in Range(answer.archive.files) :
                       f.contents = e.fulltext /\ HasText(e) /\ f.path = FulltextPath(b, numbers, e)

(* What a source cites, by reading it byte after byte: its mentions, and   *)
(* what its call says if the call is not in a comment, a string or raw     *)
(* text.  request.call is the place of the call, 0 for none; request.keys  *)
(* are the places of the keys written in it, request.error what is wrong   *)
(* with it.                                                                *)
Cited ==
    LET calls == request.call # 0 /\ StateBefore(request.source, request.call).in = "text"
        places == Mentions(request.source) \cup IF calls THEN request.keys ELSE {}
    IN  IF calls /\ request.error # NoError THEN [error |-> request.error, places |-> <<>>]
        ELSE [error |-> NoError, places |-> SetToSortSeq(places, <)]

(* The citations found are the mentions and the keys of the calls outside  *)
(* comments, strings and raw text, however these nest, overlap or are left *)
(* open; named arguments are no keys, and a call that is not closed or has *)
(* a key with a path separator is an error (extract_citations).  This is   *)
(* said of calls whose arguments hold no comment and no content block.     *)
CitationsExact == answer.op = "cite" /\ request.holds = "keys" => answer.found = Cited

(* "Comments (including nested block comments), quoted strings, and raw    *)
(* blocks ... are ignored" (extract_citations): that does not hold for the *)
(* comments between the arguments of a call, which are read as arguments.  *)
CommentsIgnored == answer.op = "cite" /\ request.holds = "comment" => answer.found = Cited

(* "Named arguments (form: "prose", style: ...) are not keys and are       *)
(* skipped" (extract_citations): that does not hold for a content block    *)
(* with a comma, whose rest is read as the next argument.                  *)
NamedArgumentsSkipped == answer.op = "cite" /\ request.holds = "content" => answer.found = Cited
=============================================================================
