--------------------------- MODULE MCCoreDocument ---------------------------
EXTENDS CoreDocument

MCTexts == {<<"a", "b", "c">>}
MCFirstMarks ==
    [start : {0}, end : {1, 3}, kind : {"insert", "delete", "comment"}, at : {0}] \cup
    [start : {1}, end : {2, 4}, kind : {"insert", "delete", "comment"}, at : {1}] \cup
    {[start |-> 2, end |-> 1, kind |-> k, at |-> 0] : k \in {"delete", "comment"}} \cup
    {[start |-> 2, end |-> 3, kind |-> k, at |-> 0] : k \in {"delete", "secret"}}
MCNewMarks == {[start |-> 0, end |-> 2, kind |-> "delete", at |-> 0]}
=============================================================================
