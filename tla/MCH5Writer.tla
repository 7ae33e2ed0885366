----------------------------- MODULE MCH5Writer -----------------------------
EXTENDS H5Writer

Of(name, images, write) == [name |-> name, images |-> images, write |-> write]
In(s, start, ids, end) == [series |-> s, start |-> start, ids |-> ids, end |-> end]
Ready == In(0, FALSE, <<>>, FALSE)

\* Two written series of two files and of one, and one that is not written.
SomeSeries == <<Of("a", 3, TRUE), Of("b", 2, TRUE), Of("c", 2, FALSE)>>

\* Images in order, one beyond the announced number, END in a batch of its own.
InOrder == <<Ready, In(1, TRUE, <<0>>, FALSE), In(1, FALSE, <<1, 2>>, FALSE),
             In(1, FALSE, <<3>>, FALSE), In(1, FALSE, <<>>, TRUE)>>
\* Images out of order: a closed file is opened again.  A series not written.
Reordered == <<In(3, TRUE, <<0>>, TRUE), In(1, TRUE, <<0, 2>>, FALSE),
               In(1, FALSE, <<1>>, TRUE)>>
\* The first series ends without END.
Unended == <<In(1, TRUE, <<0, 1>>, FALSE), In(2, TRUE, <<1>>, FALSE),
             In(2, FALSE, <<0>>, TRUE), In(2, FALSE, <<0>>, FALSE)>>
SomePlans == {InOrder, Reordered, Unended}

\* Two series of one name, as two runs of a pattern without $id.
SameName == <<Of("a", 2, TRUE), Of("a", 2, TRUE)>>
Rerun == {<<In(1, TRUE, <<0, 1>>, TRUE), In(2, TRUE, <<i>>, FALSE), In(2, FALSE, <<>>, TRUE)>> :
            i \in {0, 1}}
=============================================================================
