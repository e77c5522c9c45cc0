----------------------------- MODULE MCRequests -----------------------------
(* Requests on small instances. *)
EXTENDS RequestsInv, TLC

Column(name, type) == [name |-> name, type |-> type]

\* One column that takes both kinds of numbers, and three columns in two orders.
MCSchemas ==
    {<<Column("a", "float")>>,
     <<Column("a", "int"), Column("b", "float"), Column("c", "float")>>,
     <<Column("b", "float"), Column("c", "float"), Column("a", "float")>>}

Sql(names, rows) == [via |-> "sql", names |-> names, rows |-> rows]
Api(rows)        == [via |-> "api", names |-> <<>>, rows |-> rows]

\* By name in an order that is neither schema's; by position, with integers for
\* float columns; two rows of which an integer column rejects the second.
MCInserts ==
    {Sql(<<"c", "a", "b">>, <<<<"whole", "whole", "real">>>>),
     Sql(<<>>, <<<<"whole", "whole", "whole">>>>),
     Sql(<<"a">>, <<<<"real">>, <<"whole">>>>),
     Sql(<<"a">>, <<<<"whole">>>>),
     Api(<<<<"whole", "real", "whole">>>>),
     Api(<<<<"whole">>, <<"real">>>>)}

ClientSymmetry == Permutations(Clients)
=============================================================================
