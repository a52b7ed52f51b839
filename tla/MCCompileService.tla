-------------------------- MODULE MCCompileService --------------------------
EXTENDS CompileService, TLC

CONSTANTS p1, p2

PathA == <<"a">>
PathB == <<"d", "..", "b">>
Outside == <<"d", "..", "..", "a">>

MCTextBytes == [t1 |-> 1, t2 |-> 2]

Ask(p, entry, sources) ==
    [project |-> p, entry |-> entry, sources |-> sources, authorized |-> TRUE]

One == Ask(p1, PathA, PathA :> "t1")
Other == Ask(p1, PathB, (PathA :> "t2") @@ (PathB :> "t1"))

Refused ==
    {[One EXCEPT !.authorized = FALSE], Ask(p1, Outside, Outside :> "t1"),
     Ask(p1, PathB, PathA :> "t1"), Ask(p1, PathA, (PathA :> "t2") @@ (PathB :> "t2"))}

(* Two requests for the documents of one project, and one for another. *)
MCOffered == <<{One} \cup Refused, {Other}, {Ask(p2, PathA, PathA :> "t1")}>>
=============================================================================
