----------------------------- MODULE MCLibrary ------------------------------
(* The requests Library is checked with. *)
EXTENDS Library

MCChars == {"a", "b", " ", "\n"}

MCCompared ==
    [op : {"compare"}, old : SeqOf(MCChars, 3), new : SeqOf(MCChars, 3)] \cup
    {[op |-> "compare", old |-> <<"a", "b", " ", "a", "\n", "b">>, new |-> n] :
        n \in SeqOf({"a", " ", "\n"}, 5)}

(* Marks that cut texts of brackets and math apart. *)
Cuts == [start : {0, 1}, end : {2, 3, 5}, kind : {"insert", "delete"}, at : {0}] \cup
        {[start |-> 2, end |-> 4, kind |-> "delete", at |-> 0], NoMark}

OtherStyle ==
    [DefaultStyle EXCEPT !.insertOpen = <<"#text", "(", ")", "[", "+", "[", "]">>, !.insertClose = <<"+", "]">>]
BadStyle == [DefaultStyle EXCEPT !.deleteOpen = <<"#del", "(", "[">>]
CrossedStyle == [DefaultStyle EXCEPT !.replacedOpen = <<"#rep-open", "(", "[", ")", "]">>]

MCRedlined ==
    [op : {"redline"}, text : {t \in [1..4 -> {"a", "[", "]", "(", ")", "$"}] : Nested(t)},
     marks : {NoMarks} \cup {[NoMarks EXCEPT ![1] = m, ![2] = n] : m, n \in Cuts},
     style : {DefaultStyle, OtherStyle, BadStyle, CrossedStyle}]

Item == [kind |-> "suggestion", status |-> "open", orphaned |-> FALSE, change |-> "insert",
         from |-> 0, to |-> 2, fromCursor |-> NoCursor, toCursor |-> NoCursor, at |-> 1]
Items == {[Item EXCEPT !.change = c, !.from = f, !.at = t] : c \in {"insert", "delete"}, f \in {0, 1}, t \in {1, 2}}
         \cup {[Item EXCEPT !.change = "delete", !.to = 9], [Item EXCEPT !.fromCursor = 2, !.toCursor = 3, !.at = 3],
               [Item EXCEPT !.toCursor = 0], [Item EXCEPT !.orphaned = TRUE], [Item EXCEPT !.status = "rejected"],
               [Item EXCEPT !.kind = "comment"], [Item EXCEPT !.change = "none"]}

MCReviewed == [op : {"review"}, text : {<<"a", "b", "c">>}, items : SeqOf(Items, 3)]

-----------------------------------------------------------------------------
MCNumbers == {"2020", "5", "7"}
MCLower == ("Trial" :> "trial") @@ ("X" :> "x") @@ ("Search" :> "search") @@ ("DOI:" :> "doi:")
MCHash(title) == <<"ref-">> \o title
MCImportId(index) == <<"import-", ToString(index)>>

Doi == <<"https://doi.org/", "10", "/", "X">>
Note == <<"Search", ":", "s", ";", "db", ":", "m", ";", "date", ":", "5">>

Pool == {Line("TY", <<"EBK">>), Line("TI", <<"A", "Trial">>), Line("AU", <<"Doe", ",", "J">>), Line("A1", <<"J", "R", "Doe">>),
         Line("AU", <<"World", "Health", "Organization", ",">>), Line("AU", <<",", "J", "R">>),
         Line("DO", <<"doi:", "https://doi.org/", "10", "/", "X">>), Line("DO", <<"DOI:", "10", "/", "X">>),
         Line("DA", <<"2020", "-", "5">>), Line("SP", <<"5", "-", "7">>), Line("EP", <<"7">>), Line("DO", Doi),
         Line("M3", <<"7">>), Line("N1", Note), Line("N1", <<"read">>), Line("QZ", <<"v">>), Line("AN", <<"id", "/">>),
         Line("AN", <<"id">>), Line("RN", <<"5">>), Line("JF", <<"J">>), Line("KW", <<>>),
         [kind |-> "more", value |-> <<"more">>], [kind |-> "blank"], [kind |-> "bad"]}

First == <<Line("TY", <<"JOUR">>), Line("TI", <<"A", "Trial", ":">>)>>
Ended == <<Line("ER", <<>>)>>

MCFiles ==
    {[op |-> "import", lines |-> First \o middle \o Ended] : middle \in SeqOf(Pool, 3)} \cup
    {[op |-> "import", lines |-> First \o <<x>> \o Ended \o First \o <<y>> \o Ended] : x, y \in Pool} \cup
    {[op |-> "import", lines |-> lines] : lines \in SeqOf({Line("TI", <<"A">>), Line("TY", <<"JOUR">>), Ended[1],
                                                           [kind |-> "more", value |-> <<"more">>]}, 3)}

Blank1 == ImportRis(First \o Ended).entries[1]
Ref(id, title, doi, pmid, text) ==
    [Blank1 EXCEPT !.id = id, !.metadata.title = title, !.metadata.doi = doi, !.metadata.pmid = pmid, !.fulltext = text]

Searched(e, n) == [e EXCEPT !.provenance = <<<<<<n>>, <<"m">>, <<"5">>>>>>, !.unknown = <<Tag("QZ", <<n>>), Tag("N2", <<"v">>)>>]

Found == {Searched(Ref(<<"id">>, t, d, p, f), "n1") :
            t \in {<<"A", "Trial">>, <<"B">>}, d \in {None, Doi}, p \in {None, <<"P", "M", "I", "D", ":", "7">>},
            f \in {None, <<"pdf1">>}}
FoundToo == {Searched(Ref(<<"ix">>, t, d, p, f), "n2") :
            t \in {<<"A", "trial", ",">>, <<"C">>}, d \in {None, <<"doi:", "10", "/", "x">>}, p \in {None, <<"7">>},
            f \in {None, <<"pdf2">>}}

MCDuplicated ==
    {[op |-> "dedup", entries |-> es] : es \in {<<x, y>> : x \in Found, y \in FoundToo} \cup
        {<<x, y, Searched([z EXCEPT !.id = <<"iy">>], "n3")>> : x \in Found, y \in FoundToo, z \in FoundToo}}

-----------------------------------------------------------------------------
MCIdOrder == <<<<"ia">>, <<"ib">>, <<"ic">>>>

Named(e, family) == [e EXCEPT !.metadata.authors = <<[family |-> family, given |-> None, literal |-> None]>>]

Attached == {None, <<>>, <<"pdf1">>}
Bibliographies ==
    [directory : {<<"main", ".", "typ">>},
     entries : {<<Named(Ref(<<"ic">>, <<"A", "\n", "B">>, None, None, f), <<"Doe">>), Ref(<<"ia">>, t, Doi, None, <<"pdf2">>),
                  Named(Ref(<<"ib">>, <<"C">>, None, None, g), <<"/", ".", "Doe">>)>> : f, g \in Attached,
                t \in {<<"B">>, <<>>}} \cup
              {<<Ref(<<"ia">>, <<"A">>, None, None, f), Ref(<<"ib">>, <<"B">>, None, None, f),
                 Named(Ref(<<"ia">>, <<"C">>, None, None, f), name)>> : f \in Attached, name \in {<<"Doe">>, <<"UnknownAuthor">>}},
     citations : SeqOf({<<"ia">>, <<"ib">>, <<"ic">>, <<"ix">>}, 3)]

Input == [date |-> <<"2020", "-", "5">>, name |-> <<"P">>, pdf |-> <<"%PDF-">>,
          documents |-> <<[path |-> <<<<"main">>>>, source |-> <<"s">>]>>, bibliographies |-> <<>>]

MCArchived ==
    {[op |-> "archive", input |-> [Input EXCEPT !.bibliographies = <<b>>]] : b \in Bibliographies} \cup
    {[op |-> "archive", input |-> [Input EXCEPT !.pdf = <<>>]],
     [op |-> "archive", input |-> [Input EXCEPT !.documents = @ \o <<[path |-> <<<<"..">>, <<"x">>>>, source |-> <<>>]>>]],
     [op |-> "archive", input |-> [Input EXCEPT !.bibliographies =
        LET b == [directory |-> <<"d">>, entries |-> <<>>, citations |-> <<>>] IN <<b, b>>]]}

-----------------------------------------------------------------------------
Plain(source) == [op |-> "cite", source |-> source, call |-> 0, keys |-> {}, error |-> NoError, holds |-> "keys"]

Mentioned ==
    SeqOf({"/", "*", "@", "k", "raw"}, 6) \cup
    SeqOf({"/", "*", "\n", "\"", "\\", "@", "k", "raw", ":"}, 4) \cup
    {<<"/", "*", "/", "*">> \o s : s \in SeqOf({"*", "/", "@", "k"}, 5)} \cup
    {<<"\"">> \o s \o <<"@", "k">> : s \in SeqOf({"\\", "\"", "/", "raw", "*"}, 4)} \cup
    {<<"#cite", "k", "(", "k", ")">>, <<"#cite", "k">>}

MCSources == {Plain(s) : s \in Mentioned}

(* Arguments of a call: what is written, where its key is, 0 for none, and *)
(* whether the key is refused.                                             *)
Arg(text, key) == [text |-> text, key |-> key, error |-> NoError]
Refused(text) == [text |-> text, key |-> 0, error |-> InvalidId]

Args == {Arg(<<"<", "k", ">">>, 1), Arg(<<" ", "\"", "k", "\"">>, 2), Arg(<<"k">>, 1), Arg(<<"<", ">">>, 0),
         Arg(<<"k", ":", "\"", "k", ",", ")", "\"">>, 0), Arg(<<" ", "k", " ", ":", " ", "<", "k", ">">>, 0),
         Arg(<<"k", ":", "k">>, 0), Refused(<<"<", "k", "/", "k", ">">>), Refused(<<"\"", "\\", "\\", "\"">>)}

(* A call of some arguments and its end, and the same behind something. *)
Call(args, end, holds) ==
    LET add(acc, arg) ==
            [text |-> acc.text \o arg.text \o <<",">>,
             keys |-> IF arg.key = 0 THEN acc.keys ELSE acc.keys \cup {Len(acc.text) + arg.key},
             error |-> IF acc.error = NoError THEN arg.error ELSE acc.error]
        all == FoldLeft(add, [text |-> <<"#cite", " ", "(">>, keys |-> {}, error |-> NoError], args)
    IN  [op |-> "cite", source |-> all.text \o end, call |-> 1, keys |-> all.keys,
         error |-> IF Head(end) = ")" THEN all.error ELSE Unclosed, holds |-> holds]

Behind(before, r) ==
    [r EXCEPT !.source = before \o @, !.call = @ + Len(before), !.keys = {k + Len(before) : k \in @}]

Closed == <<")", "@", "k">>
Open == <<"@", "k">>

(* In a comment, in a string, in raw text and after each of them. *)
Before == SeqOf({"/", "*", "\"", "raw"}, 4)

SingleCalls == {Call(<<arg>>, end, "keys") : arg \in Args, end \in {Closed, Open}}

MCCalls ==
    {Call(args, Closed, "keys") : args \in SeqOf(Args, 3)} \cup
    {Behind(before, r) : before \in Before, r \in SingleCalls}

(* Arguments that hold a comment, and such that hold a content block. *)
MCCommented ==
    {Call(<<Arg(<<"/", "*", "k">> \o more \o <<"*", "/", "<", "k", ">">>, 6 + Len(more))>>, Closed, "comment") :
        more \in {<<>>, <<",", "k">>}}

MCContent == {Call(<<arg, Arg(<<"k", ":", "[", "k", ",", "k", "]">>, 0)>>, Closed, "content") : arg \in Args}

MCEncoded == [op : {"convert"}, text : SeqOf(Pos!Widths, 3), start : 0..3, end : 0..4]
=============================================================================
