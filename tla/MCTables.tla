------------------------------ MODULE MCTables ------------------------------
(* Tables with a column of each kind and rows that fit or do not. *)
EXTENDS TablesInv

MCSchema == <<"float", "str", "vec">>

Vec == Val("vec", <<3, 4>>)

MCRows == {
    <<Val("float", 1), Val("str", <<>>), Vec>>,
    <<Val("float", 0), Val("str", <<7, 8>>), Val("vec", <<4, 3>>)>>,
    <<Val("int", 2), Val("str", <<7>>), Vec>>,                  \* an integer literal
    <<Val("float", 1), Val("str", <<7>>), Val("vec", <<3>>)>>,  \* the wrong dimension
    <<Val("float", 1), Val("int", 5), Vec>>,                    \* the wrong type
    <<Val("float", 1), Val("str", <<>>)>> }                     \* a value short
=============================================================================
