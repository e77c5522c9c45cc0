-------------------------- MODULE Requests_proofs --------------------------
(***************************************************************************)
(* Theorems about Requests for any number of clients, tables and requests,  *)
(* any schemas, any INSERTs and any memory limit: rows keep one value per   *)
(* column and of its type, values end where their clients meant them, the   *)
(* memory limit is passed by no more than one INSERT for each thread, and    *)
(* the log, which carries no types, reads back as the tables in memory.      *)
(***************************************************************************)
EXTENDS RequestsInv, NaturalFacts, FiniteSetTheorems

USE DEF NoTable

-----------------------------------------------------------------------------
(* Finite sets.                                                            *)

\* What a function makes of a finite set is finite and no larger.
LEMMA ImageOf ==
  ASSUME NEW S, IsFiniteSet(S), NEW f, DOMAIN f = S
  PROVE  /\ IsFiniteSet({f[x] : x \in S})
         /\ Cardinality({f[x] : x \in S}) <= Cardinality(S)
  <1> DEFINE T == {f[x] : x \in S}
  <1> DEFINE g == [x \in S |-> f[x]]
  <1>1. g \in Surjection(S, T)  BY DEF Surjection
  <1> QED  BY <1>1, FS_Surjection

\* The first n numbers, and what a function makes of them.
LEMMA ImageOfFirst ==
  ASSUME NEW n \in Nat, NEW f, DOMAIN f = 1..n
  PROVE  /\ IsFiniteSet({f[x] : x \in 1..n})
         /\ Cardinality({f[x] : x \in 1..n}) \in Nat
         /\ Cardinality({f[x] : x \in 1..n}) <= n
  <1>1. IsFiniteSet(1..n) /\ Cardinality(1..n) = n  BY FS_Interval
  <1> QED  BY <1>1, ImageOf, FS_CardinalityType

\* A finite set of numbers is bounded.
LEMMA FiniteBounded ==
  ASSUME NEW S \in SUBSET Nat, IsFiniteSet(S)
  PROVE  \E k \in Nat : S \subseteq 0..k
  <1> DEFINE Good == {n \in Nat : \A U \in SUBSET Nat : IsFiniteSet(U) /\ Cardinality(U) = n
                                      => \E k \in Nat : U \subseteq 0..k}
  <1>1. 0 \in Good
    <2>1. \A U \in SUBSET Nat : IsFiniteSet(U) /\ Cardinality(U) = 0 => U \subseteq 0..0
      BY FS_EmptySet
    <2> QED  BY <2>1
  <1>2. ASSUME NEW n \in Nat, n \in Good PROVE n + 1 \in Good
    <2> SUFFICES ASSUME NEW U \in SUBSET Nat, IsFiniteSet(U), Cardinality(U) = n + 1
                 PROVE  \E k \in Nat : U \subseteq 0..k
      OBVIOUS
    <2>1. U # {}  BY FS_EmptySet
    <2>2. PICK x \in U : TRUE  BY <2>1
    <2>3. IsFiniteSet(U \ {x}) /\ Cardinality(U \ {x}) = n
      <3>1. x \in U /\ IsFiniteSet(U)  BY <2>2
      <3>2. /\ IsFiniteSet(U \ {x})
            /\ Cardinality(U \ {x}) = IF x \in U THEN Cardinality(U) - 1 ELSE Cardinality(U)
        <4> HIDE DEF Good
        <4> QED  BY <3>1, FS_RemoveElement
      <3>3. Cardinality(U) = n + 1  OBVIOUS
      <3> QED  BY <3>1, <3>2, <3>3
    <2>4. PICK k \in Nat : U \ {x} \subseteq 0..k  BY <2>3, <1>2
    <2>5. CASE x <= k  BY <2>2, <2>4, <2>5
    <2>6. CASE ~(x <= k)
      <3>1. U \subseteq 0..x  BY <2>2, <2>4, <2>6
      <3> QED  BY <3>1
    <2> QED  BY <2>5, <2>6
  <1>3. Nat \subseteq Good
    <2> HIDE DEF Good
    <2> QED  BY <1>1, <1>2, Induction
  <1>4. Cardinality(S) \in Nat  BY FS_CardinalityType
  <1> QED  BY <1>3, <1>4

\* A function from the first n numbers into themselves that takes no value twice
\* takes every one.
OneToOne(n, f) == f \in [1..n -> 1..n] /\ \A i, j \in 1..n : f[i] = f[j] => i = j

LEMMA Covering ==
  ASSUME NEW n \in Nat, NEW f, OneToOne(n, f)
  PROVE  \A k \in 1..n : \E i \in 1..n : f[i] = k
  <1>1. IsFiniteSet(1..n)  BY FS_Interval
  <1>2. f \in Injection(1..n, 1..n)  BY DEF OneToOne, Injection, IsInjective
  <1>3. f \in Surjection(1..n, 1..n)  BY <1>1, <1>2, FS_Injection
  <1> QED  BY <1>3 DEF Surjection

\* A function on the first n numbers is a sequence.
LEMMA SequenceOf ==
  ASSUME NEW S, NEW n \in Nat, NEW f, f = [i \in 1..n |-> f[i]], \A i \in 1..n : f[i] \in S
  PROVE  f \in Seq(S) /\ Len(f) = n
  OBVIOUS

-----------------------------------------------------------------------------
(* The largest INSERT.                                                     *)

SizeOf(i) == Len(i.rows) * Len(i.rows[1])

\* An INSERT of the clients is a record of AllInserts.
LEMMA InsertType ==
  ASSUME NEW i \in Inserts
  PROVE  /\ i.via \in {"sql", "api"} /\ i.names \in Seq(Names)
         /\ i.rows \in Seq(Seq({"whole", "real"}))
         /\ i.via = "api" => i.names = <<>>
  BY InsertsAssumption DEF AllInserts

\* LargestInsert is a number, and no INSERT is larger.
LEMMA Largest ==
  /\ LargestInsert \in Nat
  /\ \A i \in Inserts : i.rows # <<>> => SizeOf(i) <= LargestInsert
  <1> DEFINE Some == {j \in Inserts : j.rows # <<>>}
  <1> DEFINE f == [i \in Some |-> SizeOf(i)]
  <1> DEFINE S == {0} \cup {f[i] : i \in Some}
  <1>1. IsFiniteSet(Some)  BY FiniteAssumption, FS_Subset
  <1>2. IsFiniteSet({f[i] : i \in Some})  BY <1>1, ImageOf
  <1>3. IsFiniteSet(S)
    <2> HIDE DEF S, f, Some
    <2> SUFFICES IsFiniteSet({0} \cup {f[i] : i \in Some})  BY DEF S
    <2> QED  BY <1>2, FS_Singleton, FS_Union
  <1>4. \A i \in Some : SizeOf(i) \in Nat
    <2> SUFFICES ASSUME NEW i \in Some PROVE SizeOf(i) \in Nat  OBVIOUS
    <2>1. i.rows \in Seq(Seq({"whole", "real"})) /\ i.rows # <<>>  BY InsertType
    <2>2. Len(i.rows) \in Nat /\ i.rows[1] \in Seq({"whole", "real"})  BY <2>1
    <2>3. Len(i.rows[1]) \in Nat  BY <2>2
    <2> QED  BY <2>2, <2>3 DEF SizeOf
  <1>5. S \in SUBSET Nat
    <2>1. \A i \in Some : f[i] = SizeOf(i)  OBVIOUS
    <2> HIDE DEF f
    <2> QED  BY <1>4, <2>1
  <1>6. PICK k \in Nat : S \subseteq 0..k  BY <1>3, <1>5, FiniteBounded
  <1>7. Max(S) \in S /\ \A x \in S : x <= Max(S)
    <2>1. 0 \in S  OBVIOUS
    <2> HIDE DEF S
    <2> QED  BY <1>6, <2>1, MaxOf
  <1>8. LargestInsert = Max(S)
    <2>1. {SizeOf(i) : i \in Some} = {f[i] : i \in Some}  OBVIOUS
    <2> QED  BY <2>1 DEF LargestInsert, SizeOf
  <1>9. \A i \in Some : SizeOf(i) \in S  OBVIOUS
  <1> QED  BY <1>5, <1>7, <1>8, <1>9

-----------------------------------------------------------------------------
(* Schemas and values.                                                     *)

\* Types and names of a schema.
LEMMA SchemaType ==
  ASSUME NEW s \in Schemas
  PROVE  /\ s \in Seq(Columns) /\ Len(s) \in Nat
         /\ \A i \in 1..Len(s) : s[i] \in Columns /\ s[i].name \in Names /\ s[i].type \in Types
         /\ \A i, j \in 1..Len(s) : s[i].name = s[j].name => i = j
         /\ Len(ColumnNames(s)) = Len(s)
         /\ \A i \in 1..Len(s) : ColumnNames(s)[i] = s[i].name
  <1>1. s \in Seq(Columns) /\ \A i, j \in 1..Len(s) : s[i].name = s[j].name => i = j
    BY SchemasAssumption
  <1>2. Len(s) \in Nat /\ \A i \in 1..Len(s) : s[i] \in Columns  BY <1>1
  <1>3. \A i \in 1..Len(s) : s[i].name \in Names /\ s[i].type \in Types  BY <1>2 DEF Columns
  <1>4. Len(ColumnNames(s)) = Len(s) /\ \A i \in 1..Len(s) : ColumnNames(s)[i] = s[i].name
    BY <1>2 DEF ColumnNames
  <1> QED  BY <1>1, <1>2, <1>3, <1>4

\* The columns a row is meant for are columns of the schema, in the order in which
\* the statement names them.
LEMMA TargetsOf ==
  ASSUME NEW insert \in Inserts, NEW s \in Schemas, Planned(insert, s)
  PROVE  /\ Len(Targets(insert, s))
                = IF insert.names = <<>> THEN Len(s) ELSE Len(insert.names)
         /\ \A i \in 1..Len(Targets(insert, s)) :
               /\ Targets(insert, s)[i].name
                     = IF insert.names = <<>> THEN s[i].name ELSE insert.names[i]
               /\ Targets(insert, s)[i].name \in Names
               /\ Targets(insert, s)[i].type \in Types
  <1>1. CASE insert.names = <<>>  BY <1>1, SchemaType DEF Targets
  <1>2. CASE insert.names # <<>>
    <2>1. insert.names \in Seq(Names) /\ Len(insert.names) \in Nat
      BY InsertType
    <2>2. \A i \in 1..Len(insert.names) :
             IndexOf(s, insert.names[i]) \in 1..Len(s) /\ s[IndexOf(s, insert.names[i])].name = insert.names[i]
      BY DEF Planned, Has, IndexOf
    <2>3. Targets(insert, s) = [i \in 1..Len(insert.names) |-> s[IndexOf(s, insert.names[i])]]
      BY <1>2 DEF Targets
    <2>4. Len(Targets(insert, s)) = Len(insert.names)  BY <2>1, <2>3
    <2>5. \A i \in 1..Len(insert.names) : Targets(insert, s)[i] = s[IndexOf(s, insert.names[i])]
      BY <2>3
    <2> QED  BY <1>2, <2>2, <2>4, <2>5, SchemaType
  <1> QED  BY <1>1, <1>2

\* A planned INSERT brings rows of cells for the columns it names, or for all, and
\* no more of them than the largest INSERT.
LEMMA PlannedRows ==
  ASSUME NEW insert \in Inserts, NEW s \in Schemas, Planned(insert, s), NEW number \in Nat
  PROVE  LET rows  == CellsOf(insert, s, number)
             names == IF insert.names = <<>> THEN ColumnNames(s) ELSE insert.names
         IN  /\ rows \in Seq(Row)
             /\ \A n \in 1..Len(rows) :
                  /\ MeantFor(rows[n].cells, names)
                  /\ Len(rows) * Len(rows[n].cells) <= LargestInsert
  <1> DEFINE rows    == CellsOf(insert, s, number)
             names   == IF insert.names = <<>> THEN ColumnNames(s) ELSE insert.names
             targets == Targets(insert, s)
             Value(n, i) == IF insert.via = "sql" THEN Literal(insert.rows[n][i], targets[i].type)
                            ELSE ApiValue(insert.rows[n][i], targets[i].type)
             CellsAt(n) == [i \in 1..Len(targets) |-> [meant |-> targets[i].name, type |-> Value(n, i)]]
  <1>1. insert.rows \in Seq(Seq({"whole", "real"})) /\ Len(insert.rows) \in Nat
    BY InsertType
  <1>2. Len(targets) \in Nat
    BY TargetsOf, SchemaType, InsertType
  <1>3. \A i \in 1..Len(targets) : targets[i].name \in Names /\ targets[i].type \in Types
    BY TargetsOf
  <1>4. Len(rows) = Len(insert.rows)
    BY <1>1 DEF CellsOf
  <1>5. \A n \in 1..Len(insert.rows) :
           rows[n] = [of |-> <<number, n>>, spoiled |-> FALSE, cells |-> CellsAt(n)]
    BY DEF CellsOf
  <1>6. \A n, i : i \in 1..Len(targets) => Value(n, i) \in Types
    BY <1>3 DEF Literal, ApiValue, Types
  <1>7. \A n : CellsAt(n) \in Seq(Cell) /\ Len(CellsAt(n)) = Len(targets)
    <2> SUFFICES ASSUME NEW n
                 PROVE  CellsAt(n) \in Seq(Cell) /\ Len(CellsAt(n)) = Len(targets)
      OBVIOUS
    <2>1. \A i \in 1..Len(targets) : [meant |-> targets[i].name, type |-> Value(n, i)] \in Cell
      <3> HIDE DEF Value, targets
      <3> QED  BY <1>3, <1>6 DEF Cell
    <2> HIDE DEF Value, targets
    <2> QED  BY <1>2, <2>1
  <1>8. \A n : \A i \in 1..Len(targets) : CellsAt(n)[i].meant = targets[i].name
    OBVIOUS
  <1> HIDE DEF CellsAt, Value
  <1>9. rows \in Seq(Row)
    <2>1. \A n \in 1..Len(insert.rows) : rows[n] \in Row
      <3> SUFFICES ASSUME NEW n \in 1..Len(insert.rows) PROVE rows[n] \in Row  OBVIOUS
      <3>1. n \in Nat  BY <1>1
      <3>2. rows[n] = [of |-> <<number, n>>, spoiled |-> FALSE, cells |-> CellsAt(n)]  BY <1>5
      <3> HIDE DEF rows
      <3> QED  BY <1>7, <3>1, <3>2 DEF Row
    <2>2. rows = [n \in 1..Len(insert.rows) |-> rows[n]]  BY DEF CellsOf
    <2> HIDE DEF rows
    <2> QED  BY <1>1, <2>1, <2>2, SequenceOf
  <1>10. \A n \in 1..Len(rows) : Len(rows[n].cells) = Len(targets)
                                /\ \A i \in 1..Len(targets) : rows[n].cells[i].meant = targets[i].name
    <2> SUFFICES ASSUME NEW n \in 1..Len(rows)
                 PROVE  /\ Len(rows[n].cells) = Len(targets)
                        /\ \A i \in 1..Len(targets) : rows[n].cells[i].meant = targets[i].name
      OBVIOUS
    <2> HIDE DEF rows, targets
    <2>1. n \in 1..Len(insert.rows)  BY <1>4
    <2>2. rows[n] = [of |-> <<number, n>>, spoiled |-> FALSE, cells |-> CellsAt(n)]
      BY <1>5, <2>1
    <2>3. rows[n].cells = CellsAt(n)  BY <2>2
    <2> QED  BY <1>7, <1>8, <2>3
  <1>11. \A n \in 1..Len(rows) : MeantFor(rows[n].cells, names)
    <2>1. Len(targets) = Len(names)  BY TargetsOf, SchemaType
    <2>2. \A i \in 1..Len(targets) : targets[i].name = names[i]  BY TargetsOf, SchemaType
    <2> HIDE DEF rows, targets, names
    <2> QED  BY <1>10, <2>1, <2>2 DEF MeantFor
  <1>12. \A n \in 1..Len(rows) : Len(rows) * Len(rows[n].cells) <= LargestInsert
    <2> SUFFICES ASSUME NEW n \in 1..Len(rows)
                 PROVE  Len(rows) * Len(rows[n].cells) <= LargestInsert
      OBVIOUS
    <2>1. 1 \in 1..Len(insert.rows) /\ insert.rows # <<>>  BY <1>1, <1>4
    <2>2. Len(insert.rows[1]) = Len(targets)  BY <2>1 DEF Planned
    <2>3. SizeOf(insert) = Len(rows) * Len(targets)  BY <1>4, <2>2 DEF SizeOf
    <2>4. Len(rows[n].cells) = Len(targets)  BY <1>10
    <2> HIDE DEF rows, targets
    <2> QED  BY <2>1, <2>3, <2>4, Largest
  <1> QED  BY <1>9, <1>11, <1>12

\* Every column has a name in the statement's list: as many names as columns, all of
\* them columns and none twice.
LEMMA NamesCover ==
  ASSUME NEW s \in Schemas, NEW names \in Seq(Names), Reorderable(names, s)
  PROVE  \A i \in 1..Len(s) : \E j \in 1..Len(names) : names[j] = s[i].name
  <1> DEFINE k == Len(names)
             f == [j \in 1..k |-> IndexOf(s, names[j])]
  <1>1. k \in Nat /\ Len(s) = k  BY DEF Reorderable
  <1>2. \A j \in 1..k : IndexOf(s, names[j]) \in 1..k /\ s[IndexOf(s, names[j])].name = names[j]
    BY <1>1 DEF Reorderable, Has, IndexOf
  <1>3. f \in [1..k -> 1..k]  BY <1>2
  <1>4. \A i, j \in 1..k : f[i] = f[j] => i = j
    <2>1. \A i, j \in 1..k : IndexOf(s, names[i]) = IndexOf(s, names[j]) => names[i] = names[j]
      BY <1>2
    <2>2. \A i, j \in 1..k : names[i] = names[j] => i = j  BY DEF Reorderable
    <2> QED  BY <2>1, <2>2
  <1>5. \A i \in 1..k : \E j \in 1..k : f[j] = i
    <2> HIDE DEF f, k
    <2>1. OneToOne(k, f)  BY <1>3, <1>4 DEF OneToOne
    <2> QED  BY <1>1, <2>1, Covering, SMTT(30)
  <1> SUFFICES ASSUME NEW i \in 1..k PROVE \E j \in 1..k : names[j] = s[i].name  BY <1>1
  <1>6. PICK j \in 1..k : f[j] = i  BY <1>5
  <1>7. IndexOf(s, names[j]) = i  BY <1>6
  <1> QED  BY <1>2, <1>7

\* Reordering finds a value for every column.
LEMMA ReorderedRow ==
  ASSUME NEW s \in Schemas, NEW names \in Seq(Names), Reorderable(names, s),
         NEW cells \in Seq(Cell), MeantFor(cells, names)
  PROVE  /\ Reordered(cells, names, s) \in Seq(Cell)
         /\ Len(Reordered(cells, names, s)) = Len(cells)
         /\ MeantFor(Reordered(cells, names, s), ColumnNames(s))
  <1> DEFINE k == Len(names)
             Pick(i) == CHOOSE j \in 1..k : names[j] = s[i].name
             new == Reordered(cells, names, s)
  <1>1. k \in Nat /\ Len(s) = k /\ Len(cells) = k
    BY DEF Reorderable, MeantFor
  <1>2. \A i \in 1..k : \E j \in 1..k : names[j] = s[i].name  BY <1>1, NamesCover
  <1>3. \A i \in 1..k : Pick(i) \in 1..k /\ names[Pick(i)] = s[i].name
    BY <1>2
  <1>4. new = [i \in 1..k |-> cells[Pick(i)]]  BY <1>1 DEF Reordered
  <1> HIDE DEF Pick
  <1>5. \A j \in 1..k : cells[j] \in Cell /\ cells[j].meant = names[j]  BY <1>1 DEF MeantFor
  <1>6. \A i \in 1..k : new[i] \in Cell /\ new[i].meant = s[i].name
    <2>1. \A i \in 1..k : new[i] = cells[Pick(i)]  BY <1>4
    <2> QED  BY <1>3, <1>5, <2>1
  <1> HIDE DEF new, k
  <1>7. new \in Seq(Cell) /\ Len(new) = k
    <2>1. new = [i \in 1..k |-> new[i]]  BY <1>4
    <2> QED  BY <1>1, <1>6, <2>1
  <1>8. MeantFor(new, ColumnNames(s))
    BY <1>1, <1>6, <1>7, SchemaType DEF MeantFor
  <1> QED  BY <1>1, <1>7, <1>8 DEF new

\* Every column takes its value of a row that fits.
LEMMA StoredWhole ==
  ASSUME NEW s \in Schemas, NEW row \in Row, RowFits(row.cells, s)
  PROVE  Stored(row, s)
            = [row EXCEPT !.cells = [i \in 1..Len(s) |-> [row.cells[i] EXCEPT !.type = s[i].type]]]
  <1> DEFINE S == {n \in 0..Len(s) : \A i \in 1..n : Fits(row.cells[i], s[i].type)}
  <1>1. Len(s) \in Nat  BY SchemaType
  <1>2. Len(s) \in S  BY <1>1 DEF RowFits
  <1>3. Max(S) = Len(s)
    <2>1. S \in SUBSET (0..Len(s)) /\ S # {}  BY <1>2
    <2>2. Max(S) \in S /\ \A x \in S : x <= Max(S)
      <3> HIDE DEF S
      <3> QED  BY <1>1, <2>1, MaxOf
    <2>3. Max(S) \in 0..Len(s) /\ Len(s) <= Max(S)  BY <1>2, <2>1, <2>2
    <2> HIDE DEF S
    <2> QED  BY <1>1, <2>3
  <1>4. Stored(row, s) = [row EXCEPT !.cells = [i \in 1..Max(S) |-> [row.cells[i] EXCEPT !.type = s[i].type]]]
    BY DEF Stored, Row
  <1> HIDE DEF S
  <1> QED  BY <1>3, <1>4

\* A row that fits is stored as a whole: every cell gets its column's type and stays
\* in its place.
LEMMA StoredRow ==
  ASSUME NEW s \in Schemas, NEW row \in Row, RowFits(row.cells, s),
         ~row.spoiled => MeantFor(row.cells, ColumnNames(s))
  PROVE  Stored(row, s) \in Row /\ RowOK(Stored(row, s), s)
  <1> DEFINE new == [i \in 1..Len(s) |-> [row.cells[i] EXCEPT !.type = s[i].type]]
  <1>1. row.cells \in Seq(Cell) /\ row.of \in Nat \X Nat /\ row.spoiled \in BOOLEAN
    BY DEF Row
  <1>2. Len(s) \in Nat /\ Len(row.cells) = Len(s)  BY SchemaType DEF RowFits
  <1>3. \A i \in 1..Len(s) : row.cells[i] \in Cell /\ s[i].type \in Types
    BY <1>1, <1>2, SchemaType
  <1>4. Stored(row, s) = [row EXCEPT !.cells = new]  BY StoredWhole
  <1>5. \A i \in 1..Len(s) : new[i] \in Cell /\ new[i].type = s[i].type
                              /\ new[i].meant = row.cells[i].meant
    <2> SUFFICES ASSUME NEW i \in 1..Len(s)
                 PROVE  new[i] \in Cell /\ new[i].type = s[i].type /\ new[i].meant = row.cells[i].meant
      OBVIOUS
    <2>1. new[i] = [row.cells[i] EXCEPT !.type = s[i].type]  OBVIOUS
    <2>2. row.cells[i] \in Cell /\ s[i].type \in Types  BY <1>3
    <2> HIDE DEF new
    <2> QED  BY <2>1, <2>2 DEF Cell
  <1>6. new \in Seq(Cell) /\ Len(new) = Len(s)
    <2>1. new = [i \in 1..Len(s) |-> new[i]]  OBVIOUS
    <2> HIDE DEF new
    <2> QED  BY <1>2, <1>5, <2>1
  <1> HIDE DEF new
  <1>7. /\ Stored(row, s) \in Row /\ Stored(row, s).cells = new
        /\ Stored(row, s).spoiled = row.spoiled
    BY <1>1, <1>4, <1>6 DEF Row
  <1>8. ~row.spoiled => MeantFor(new, ColumnNames(s))
    <2> SUFFICES ASSUME ~row.spoiled PROVE MeantFor(new, ColumnNames(s))  OBVIOUS
    <2>1. \A i \in 1..Len(s) : row.cells[i].meant = ColumnNames(s)[i]
      BY <1>2 DEF MeantFor
    <2> QED  BY <1>5, <1>6, <2>1, SchemaType DEF MeantFor
  <1> QED  BY <1>5, <1>6, <1>7, <1>8 DEF RowOK

-----------------------------------------------------------------------------
(* Cells and memory.                                                       *)

\* Every table there ever was is one, with a schema and finitely many rows.
LEMMA HeapType ==
  ASSUME Typed, TablesOK, NEW h \in 1..Len(heap)
  PROVE  /\ Len(heap) \in Nat /\ heap[h] \in [schema : Schemas, rows : SUBSET Row]
         /\ heap[h].schema \in Schemas /\ heap[h].rows \in SUBSET Row
         /\ IsFiniteSet(heap[h].rows) /\ Cardinality(heap[h].rows) \in Nat
         /\ \A row \in heap[h].rows : RowOK(row, heap[h].schema)
  <1>1. Len(heap) \in Nat /\ heap[h] \in [schema : Schemas, rows : SUBSET Row]
    <2> DEFINE T == [schema : Schemas, rows : SUBSET Row]
    <2>1. heap \in Seq(T)  BY DEF Typed
    <2> HIDE DEF T
    <2>2. Len(heap) \in Nat /\ heap[h] \in T  BY <2>1
    <2> QED  BY <2>2 DEF T
  <1>2. TableOK(heap[h])  BY DEF TablesOK
  <1>3. IsFiniteSet(heap[h].rows) /\ Cardinality(heap[h].rows) \in Nat
    BY <1>2, FS_CardinalityType DEF TableOK
  <1> QED  BY <1>1, <1>2, <1>3 DEF TableOK

\* A name that exists points to a table.
LEMMA ExistingHandle ==
  ASSUME Typed, NEW t \in Existing
  PROVE  t \in Tables /\ tables[t] \in 1..Len(heap)
  BY DEF Typed, Existing

\* The cells of one table with the rows R and the schema s.
CellsOfTable(t, R, s) == {t} \X (R \X DOMAIN s)

\* There are as many as rows times columns.
LEMMA TableCells ==
  ASSUME NEW t, NEW R, IsFiniteSet(R), NEW s \in Schemas
  PROVE  /\ IsFiniteSet(CellsOfTable(t, R, s))
         /\ Cardinality(CellsOfTable(t, R, s)) = Cardinality(R) * Len(s)
         /\ Cardinality(CellsOfTable(t, R, s)) \in Nat
  <1>1. Len(s) \in Nat /\ DOMAIN s = 1..Len(s)  BY SchemaType
  <1>2. IsFiniteSet(DOMAIN s) /\ Cardinality(DOMAIN s) = Len(s)
    <2>1. /\ IsFiniteSet(1..Len(s))
          /\ Cardinality(1..Len(s)) = IF 1 > Len(s) THEN 0 ELSE Len(s) - 1 + 1
      BY <1>1, FS_Interval, SMTT(30)
    <2>2. Cardinality(1..Len(s)) = Len(s)  BY <1>1, <2>1
    <2> QED  BY <1>1, <2>1, <2>2
  <1>3. /\ IsFiniteSet(R \X DOMAIN s)
        /\ Cardinality(R \X DOMAIN s) = Cardinality(R) * Len(s)
    BY <1>2, FS_Product
  <1>4. IsFiniteSet({t}) /\ Cardinality({t}) = 1  BY FS_Singleton
  <1>5. /\ IsFiniteSet({t} \X (R \X DOMAIN s))
        /\ Cardinality({t} \X (R \X DOMAIN s)) = 1 * (Cardinality(R) * Len(s))
    BY <1>3, <1>4, FS_Product
  <1>6. Cardinality(R \X DOMAIN s) \in Nat  BY <1>3, FS_CardinalityType
  <1>7. 1 * (Cardinality(R) * Len(s)) = Cardinality(R) * Len(s)  BY <1>3, <1>6
  <1> QED  BY <1>3, <1>5, <1>6, <1>7 DEF CellsOfTable

\* What some of the existing tables hold is a number.
LEMMA UsedType ==
  ASSUME Typed, TablesOK, NEW some \in SUBSET Existing
  PROVE  IsFiniteSet(CellsIn(some)) /\ Used(some) \in Nat
  <1> DEFINE f == [t \in some |-> {t} \X (heap[tables[t]].rows \X DOMAIN SchemaOf(t))]
  <1>1. IsFiniteSet(some)
    <2>1. some \in SUBSET Tables  BY DEF Existing
    <2> QED  BY <2>1, FiniteAssumption, FS_Subset
  <1>2. IsFiniteSet({f[t] : t \in some})
    <2>1. DOMAIN f = some  OBVIOUS
    <2> HIDE DEF f
    <2> QED  BY <1>1, <2>1, ImageOf
  <1>3. \A t \in some : IsFiniteSet(f[t])
    <2> SUFFICES ASSUME NEW t \in some PROVE IsFiniteSet(f[t])  OBVIOUS
    <2>1. tables[t] \in 1..Len(heap)  BY ExistingHandle
    <2>2. heap[tables[t]].schema \in Schemas /\ IsFiniteSet(heap[tables[t]].rows)
      BY <2>1, HeapType
    <2>3. IsFiniteSet(CellsOfTable(t, heap[tables[t]].rows, heap[tables[t]].schema))
      BY <2>2, TableCells
    <2> QED  BY <2>3 DEF CellsOfTable, SchemaOf
  <1>4. IsFiniteSet(UNION {f[t] : t \in some})
    <2> HIDE DEF f
    <2> QED  BY <1>2, <1>3, FS_UNION
  <1>5. CellsIn(some) = UNION {f[t] : t \in some}  BY DEF CellsIn
  <1>6. IsFiniteSet(CellsIn(some))  BY <1>4, <1>5
  <1> QED  BY <1>6, FS_CardinalityType DEF Used

\* Taking a table away takes as many cells away as it has: the step of the walk.
LEMMA UsedWithout ==
  ASSUME Typed, TablesOK, NEW some \in SUBSET Existing, NEW t \in some
  PROVE  /\ Size(tables[t]) \in Nat
         /\ Used(some) = Used(some \ {t}) + Size(tables[t])
  <1> DEFINE A == CellsIn(some \ {t})
             B == CellsOfTable(t, heap[tables[t]].rows, heap[tables[t]].schema)
  <1>1. tables[t] \in 1..Len(heap)  BY ExistingHandle
  <1>2. heap[tables[t]].schema \in Schemas /\ IsFiniteSet(heap[tables[t]].rows)
    BY <1>1, HeapType
  <1>3. /\ IsFiniteSet(B) /\ Cardinality(B) = Size(tables[t]) /\ Cardinality(B) \in Nat
    BY <1>2, TableCells DEF Size
  <1>4. IsFiniteSet(A) /\ Cardinality(A) \in Nat
    <2>1. some \ {t} \in SUBSET Existing  OBVIOUS
    <2> QED  BY <2>1, UsedType DEF Used
  <1>5. CellsIn(some) = A \cup B
    <2>1. some = (some \ {t}) \cup {t}  OBVIOUS
    <2> QED  BY <2>1 DEF CellsIn, CellsOfTable, SchemaOf
  <1>6. A \cap B = {}  BY DEF CellsIn, CellsOfTable
  <1>7. Cardinality(A \cup B) = Cardinality(A) + Cardinality(B) - Cardinality(A \cap B)
    <2> HIDE DEF A, B
    <2> QED  BY <1>3, <1>4, FS_Union
  <1>8. Cardinality(A \cap B) = 0  BY <1>6, FS_EmptySet
  <1> HIDE DEF A, B
  <1> QED  BY <1>3, <1>4, <1>5, <1>7, <1>8 DEF A, Used

\* The smaller of two numbers, so many times, is smaller.
LEMMA TimesMonotone ==
  ASSUME NEW a \in Nat, NEW b \in Nat, NEW l \in Nat, a <= b
  PROVE  a * l \in Nat /\ b * l \in Nat /\ a * l <= b * l
  <1> DEFINE d == b - a
  <1>1. d \in Nat /\ b = a + d  OBVIOUS
  <1> HIDE DEF d
  <1>2. b * l = a * l + d * l  BY <1>1
  <1>3. a * l \in Nat /\ d * l \in Nat  BY <1>1
  <1> QED  BY <1>2, <1>3

\* The threads that may insert are finitely many, never more than all.
LEMMA MayInsertType ==
  ASSUME NEW S \in SUBSET Clients
  PROVE  /\ Cardinality(S) \in Nat /\ Cardinality(Clients) \in Nat
         /\ Cardinality(S) <= Cardinality(Clients)
         /\ Cardinality(S) * LargestInsert \in Nat
         /\ Cardinality(S) * LargestInsert <= Cardinality(Clients) * LargestInsert
  <1>1. IsFiniteSet(S) /\ Cardinality(S) <= Cardinality(Clients)
    BY FiniteAssumption, FS_Subset
  <1>2. Cardinality(S) \in Nat /\ Cardinality(Clients) \in Nat
    BY <1>1, FiniteAssumption, FS_CardinalityType
  <1> QED  BY <1>1, <1>2, TimesMonotone, Largest

\* Fewer threads need less room, one thread less a whole INSERT less.
LEMMA FewerThreads ==
  ASSUME NEW S \in SUBSET Clients, NEW T \in SUBSET S
  PROVE  /\ Cardinality(T) * LargestInsert <= Cardinality(S) * LargestInsert
         /\ \A c \in S \ T :
               Cardinality(T) * LargestInsert + LargestInsert <= Cardinality(S) * LargestInsert
  <1>1. IsFiniteSet(S)  BY FiniteAssumption, FS_Subset
  <1>2. Cardinality(S) \in Nat /\ Cardinality(T) \in Nat  BY MayInsertType
  <1>3. Cardinality(T) <= Cardinality(S)  BY <1>1, FS_Subset
  <1>4. \A c \in S \ T : Cardinality(T) + 1 <= Cardinality(S)
    <2>1. \A c \in S \ T : Cardinality(S) # Cardinality(T)  BY <1>1, FS_Subset
    <2> QED  BY <1>2, <1>3, <2>1
  <1>5. ASSUME NEW a \in Nat, NEW l \in Nat
        PROVE  (a + 1) * l = a * l + l
    OBVIOUS
  <1>6. \A c \in S \ T : (Cardinality(T) + 1) * LargestInsert <= Cardinality(S) * LargestInsert
    <2>1. Cardinality(T) + 1 \in Nat  BY <1>2
    <2> QED  BY <1>2, <1>4, <2>1, TimesMonotone, Largest
  <1>7. Cardinality(T) * LargestInsert <= Cardinality(S) * LargestInsert
    BY <1>2, <1>3, TimesMonotone, Largest
  <1> QED  BY <1>2, <1>5, <1>6, <1>7, Largest

-----------------------------------------------------------------------------
(* Steps of one thread that leave the tables as they are.                  *)

\* c goes to place with the request o, of which it knows there what it must, and
\* does not become one more thread that may insert, or there is room for all.
LEMMA ThreadStep ==
  ASSUME IInv, tables' = tables, heap' = heap,
         NEW c \in Clients, NEW place \in Places, NEW o \in Ops,
         pc' = [pc EXCEPT ![c] = place], op' = [op EXCEPT ![c] = o],
         issued' \in 0..MaxRequests, conflicted' \in BOOLEAN, leftover' \in BOOLEAN,
         ThreadOK(place, o),
         \/ MayPass(place, o) => MayPass(pc[c], op[c])
         \/ Limit # 0 => Used(Existing) < Limit
  PROVE  IInv'
  <1>1. Typed /\ NamesApart /\ TablesOK /\ ThreadsOK /\ RoomLeft  BY DEF IInv
  <1>2. /\ pc \in [Clients -> Places] /\ op \in [Clients -> Ops]
        /\ pc' \in [Clients -> Places] /\ op' \in [Clients -> Ops]
        /\ pc'[c] = place /\ op'[c] = o
        /\ \A d \in Clients \ {c} : pc'[d] = pc[d] /\ op'[d] = op[d]
    BY <1>1 DEF Typed
  <1>3. Typed'  BY <1>1, <1>2 DEF Typed
  <1>4. NamesApart' /\ TablesOK'  BY <1>1 DEF NamesApart, TablesOK, TableOK, RowOK
  <1>5. Existing' = Existing  BY DEF Existing
  <1>6. \A d \in Clients : ThreadOK(pc'[d], op'[d])  BY <1>1, <1>2 DEF ThreadsOK
  <1>7. ThreadsOK'
    BY <1>5, <1>6 DEF ThreadsOK, ThreadOK, WalkOK, HandleOK, ValuesMeant, RequestBounded, SchemaOf
  <1>8. \A some : Used(some)' = Used(some)  BY DEF Used, CellsIn, SchemaOf
  <1>9. RoomLeft'
    <2> SUFFICES ASSUME Limit # 0
                 PROVE  Used(Existing) + Cardinality(MayInsert') * LargestInsert
                          <= (Limit - 1) + Cardinality(Clients) * LargestInsert
      BY <1>5, <1>8 DEF RoomLeft
    <2>1. Used(Existing) \in Nat  BY <1>1, UsedType
    <2>2. Limit \in Nat /\ LargestInsert \in Nat  BY LimitAssumption, Largest
    <2>3. \A p, r : MayPass(p, r)' = MayPass(p, r)  BY <1>8 DEF MayPass
    <2>4. MayInsert' = {d \in Clients : MayPass(pc'[d], op'[d])}
      BY <2>3 DEF MayInsert
    <2>5. MayInsert' \in SUBSET Clients  BY <2>4
    <2>6. CASE Used(Existing) < Limit
      <3>1. Cardinality(MayInsert') * LargestInsert <= Cardinality(Clients) * LargestInsert
        BY <2>5, MayInsertType
      <3>2. Cardinality(MayInsert') * LargestInsert \in Nat  BY <2>5, MayInsertType
      <3>3. Cardinality(Clients) * LargestInsert \in Nat  BY MayInsertType
      <3> QED  BY <2>1, <2>2, <2>6, <3>1, <3>2, <3>3
    <2>7. CASE MayPass(place, o) => MayPass(pc[c], op[c])
      <3>1. MayInsert' \in SUBSET MayInsert
        <4> SUFFICES ASSUME NEW d \in Clients, MayPass(pc'[d], op'[d])
                     PROVE  MayPass(pc[d], op[d])
          BY <2>4 DEF MayInsert
        <4>1. CASE d = c  BY <1>2, <2>7, <4>1
        <4>2. CASE d # c  BY <1>2, <4>2
        <4> QED  BY <4>1, <4>2
      <3>2. MayInsert \in SUBSET Clients  BY DEF MayInsert
      <3>3. Cardinality(MayInsert') * LargestInsert <= Cardinality(MayInsert) * LargestInsert
        BY <3>1, <3>2, FewerThreads
      <3>4. Cardinality(MayInsert') * LargestInsert \in Nat
            /\ Cardinality(MayInsert) * LargestInsert \in Nat
            /\ Cardinality(Clients) * LargestInsert \in Nat
        BY <2>5, <3>2, MayInsertType
      <3>5. Used(Existing) + Cardinality(MayInsert) * LargestInsert
              <= (Limit - 1) + Cardinality(Clients) * LargestInsert
        BY <1>1 DEF RoomLeft
      <3> QED  BY <2>1, <2>2, <3>3, <3>4, <3>5
    <2> QED  BY <2>6, <2>7
  <1> QED  BY <1>3, <1>4, <1>7, <1>9 DEF IInv

\* Room stays when neither the tables nor the threads that may insert grow, and when
\* the tables grow by no more than an INSERT of a thread that may insert no more.
LEMMA RoomShrinks ==
  ASSUME IInv, NEW S \in SUBSET MayInsert, MayInsert' = S,
         Used(Existing)' \in Nat,
         \/ Used(Existing)' <= Used(Existing)
         \/ /\ Used(Existing)' <= Used(Existing) + LargestInsert
            /\ \E c \in MayInsert : c \notin S
  PROVE  RoomLeft'
  <1> DEFINE before == Cardinality(MayInsert) * LargestInsert
             after  == Cardinality(S) * LargestInsert
             all    == Cardinality(Clients) * LargestInsert
  <1> SUFFICES ASSUME Limit # 0
               PROVE  Used(Existing)' + after <= (Limit - 1) + all
    BY DEF RoomLeft
  <1>1. Used(Existing) + before <= (Limit - 1) + all  BY DEF IInv, RoomLeft
  <1>2. MayInsert \in SUBSET Clients /\ S \in SUBSET Clients  BY DEF MayInsert
  <1>3. before \in Nat /\ after \in Nat /\ all \in Nat  BY <1>2, MayInsertType
  <1>4. Used(Existing) \in Nat /\ Limit \in Nat /\ LargestInsert \in Nat
    BY UsedType, Largest, LimitAssumption DEF IInv
  <1>5. after <= before /\ \A c \in MayInsert \ S : after + LargestInsert <= before
    BY <1>2, FewerThreads
  <1> HIDE DEF before, after, all
  <1>6. CASE Used(Existing)' <= Used(Existing)
    <2> DEFINE u1 == Used(Existing)'
               u0 == Used(Existing)
    <2>1. u1 \in Nat /\ u0 \in Nat /\ u1 <= u0 /\ u0 + before <= (Limit - 1) + all
      BY <1>1, <1>4, <1>6
    <2> HIDE DEF u1, u0
    <2> QED  BY <1>3, <1>4, <1>5, <2>1 DEF u1
  <1>7. CASE Used(Existing)' <= Used(Existing) + LargestInsert /\ \E c \in MayInsert : c \notin S
    <2> DEFINE u1 == Used(Existing)'
               u0 == Used(Existing)
    <2>1. u1 \in Nat /\ u0 \in Nat /\ u1 <= u0 + LargestInsert /\ u0 + before <= (Limit - 1) + all
      BY <1>1, <1>4, <1>7
    <2>2. after + LargestInsert <= before  BY <1>5, <1>7
    <2> HIDE DEF u1, u0
    <2> QED  BY <1>3, <1>4, <2>1, <2>2 DEF u1
  <1> QED  BY <1>6, <1>7

\* The request nobody makes, at a place where it is done with.
LEMMA NoOpOK ==
  /\ NoOp \in Ops
  /\ ThreadOK("idle", NoOp) /\ ~MayPass("idle", NoOp)
  <1>1. (CHOOSE t \in Tables : TRUE) \in Tables  BY ClientsAssumption
  <1>2. NoOp \in Ops  BY <1>1 DEF NoOp, Ops
  <1>3. NoOp.todo = {} /\ NoOp.rows = <<>>  BY DEF NoOp
  <1>4. ThreadOK("idle", NoOp)
    BY <1>3 DEF ThreadOK, WalkOK, HandleOK, ValuesMeant, RequestBounded, Inserting, InOrder
  <1> QED  BY <1>2, <1>4 DEF MayPass

\* A request that ends, with an answer or an error.
LEMMA FinishStep ==
  ASSUME IInv, tables' = tables, heap' = heap, NEW c \in Clients, Finish(c),
         issued' = issued, conflicted' = conflicted, leftover' \in BOOLEAN
  PROVE  IInv'
  <1>1. "idle" \in Places  BY DEF Places
  <1>2. issued' \in 0..MaxRequests /\ conflicted' \in BOOLEAN  BY DEF IInv, Typed
  <1> QED  BY <1>1, <1>2, NoOpOK, ThreadStep DEF Finish

\* What is known of a thread and its request.
LEMMA ThreadType ==
  ASSUME IInv, NEW c \in Clients
  PROVE  /\ pc[c] \in Places /\ op[c] \in Ops /\ ThreadOK(pc[c], op[c])
         /\ op[c].rows \in Seq(Row) /\ Len(op[c].rows) \in Nat
         /\ \A n \in 1..Len(op[c].rows) : op[c].rows[n] \in Row
         /\ pc \in [Clients -> Places] /\ op \in [Clients -> Ops]
         /\ issued \in 0..MaxRequests /\ conflicted \in BOOLEAN /\ leftover \in BOOLEAN
  <1>1. /\ pc \in [Clients -> Places] /\ op \in [Clients -> Ops] /\ ThreadsOK
        /\ issued \in 0..MaxRequests /\ conflicted \in BOOLEAN /\ leftover \in BOOLEAN
    BY DEF IInv, Typed
  <1>2. pc[c] \in Places /\ op[c] \in Ops /\ ThreadOK(pc[c], op[c])  BY <1>1 DEF ThreadsOK
  <1>3. op[c].rows \in Seq(Row)  BY <1>2 DEF Ops
  <1>4. Len(op[c].rows) \in Nat /\ \A n \in 1..Len(op[c].rows) : op[c].rows[n] \in Row
    <2> DEFINE rows == op[c].rows
    <2>1. rows \in Seq(Row)  BY <1>3
    <2> HIDE DEF rows
    <2>2. Len(rows) \in Nat /\ \A n \in 1..Len(rows) : rows[n] \in Row  BY <2>1
    <2> QED  BY <2>2 DEF rows
  <1> QED  BY <1>1, <1>2, <1>3, <1>4

\* A request with another value in a field or two is a request.
LEMMA OpWithRows ==
  ASSUME NEW o \in Ops, NEW rows \in Seq(Row), NEW n, n = [o EXCEPT !.rows = rows]
  PROVE  /\ n \in Ops /\ n.rows = rows
         /\ n.table = o.table /\ n.todo = o.todo /\ n.spoiled = o.spoiled /\ n.handle = o.handle
  <1> DEFINE R == Seq(Row)
             N == Seq(Names)
             T == SUBSET Tables
  <1>1. o \in [kind : {"none", "create", "drop", "insert"}, table : Tables, names : N, rows : R,
               handle : Nat, todo : T, sum : Nat, number : Nat, spoiled : BOOLEAN]
    BY DEF Ops
  <1>2. rows \in R  OBVIOUS
  <1> HIDE DEF R, N, T
  <1>3. n \in [kind : {"none", "create", "drop", "insert"}, table : Tables, names : N, rows : R,
               handle : Nat, todo : T, sum : Nat, number : Nat, spoiled : BOOLEAN]
    BY <1>1, <1>2
  <1>4. /\ n.rows = rows
        /\ n.table = o.table /\ n.todo = o.todo /\ n.spoiled = o.spoiled /\ n.handle = o.handle
    BY <1>1
  <1> QED  BY <1>3, <1>4 DEF Ops, R, N, T

\* A request that counts up a table of its walk, or begins or ends the walk.
WithCount(o, todo, sum) == [[o EXCEPT !.todo = todo] EXCEPT !.sum = sum]

\* It is a request and the same in everything else.
LEMMA OpWithCount ==
  ASSUME NEW o \in Ops, NEW todo \in SUBSET Tables, NEW sum \in Nat,
         NEW n, n = WithCount(o, todo, sum)
  PROVE  /\ n \in Ops /\ n.todo = todo /\ n.sum = sum
         /\ n.table = o.table /\ n.rows = o.rows /\ n.spoiled = o.spoiled /\ n.handle = o.handle
  <1> DEFINE R == Seq(Row)
             N == Seq(Names)
             T == SUBSET Tables
  <1>1. o \in [kind : {"none", "create", "drop", "insert"}, table : Tables, names : N, rows : R,
               handle : Nat, todo : T, sum : Nat, number : Nat, spoiled : BOOLEAN]
    BY DEF Ops
  <1>2. todo \in T  OBVIOUS
  <1> HIDE DEF R, N, T
  <1>3. n \in [kind : {"none", "create", "drop", "insert"}, table : Tables, names : N, rows : R,
               handle : Nat, todo : T, sum : Nat, number : Nat, spoiled : BOOLEAN]
    BY <1>1, <1>2 DEF WithCount
  <1>4. /\ n.todo = todo /\ n.sum = sum
        /\ n.table = o.table /\ n.rows = o.rows /\ n.spoiled = o.spoiled /\ n.handle = o.handle
    BY <1>1 DEF WithCount
  <1> QED  BY <1>3, <1>4 DEF Ops, R, N, T

\* A request that has looked up its table.
LEMMA OpWithHandle ==
  ASSUME NEW o \in Ops, NEW handle \in Nat, NEW n, n = [o EXCEPT !.handle = handle]
  PROVE  /\ n \in Ops /\ n.handle = handle
         /\ n.table = o.table /\ n.rows = o.rows /\ n.spoiled = o.spoiled /\ n.todo = o.todo
  <1> DEFINE R == Seq(Row)
             N == Seq(Names)
             T == SUBSET Tables
  <1>1. o \in [kind : {"none", "create", "drop", "insert"}, table : Tables, names : N, rows : R,
               handle : Nat, todo : T, sum : Nat, number : Nat, spoiled : BOOLEAN]
    BY DEF Ops
  <1> HIDE DEF R, N, T
  <1>3. n \in [kind : {"none", "create", "drop", "insert"}, table : Tables, names : N, rows : R,
               handle : Nat, todo : T, sum : Nat, number : Nat, spoiled : BOOLEAN]
    BY <1>1
  <1>4. /\ n.handle = handle
        /\ n.table = o.table /\ n.rows = o.rows /\ n.spoiled = o.spoiled /\ n.todo = o.todo
    BY <1>1
  <1> QED  BY <1>3, <1>4 DEF Ops, R, N, T

\* A request whose table somebody changed under it.
LEMMA OpSpoiled ==
  ASSUME NEW o \in Ops, NEW n, n = [o EXCEPT !.spoiled = TRUE]
  PROVE  /\ n \in Ops /\ n.spoiled = TRUE /\ n.handle = o.handle /\ n.names = o.names
         /\ n.table = o.table /\ n.rows = o.rows /\ n.todo = o.todo /\ n.sum = o.sum
  <1> DEFINE R == Seq(Row)
             N == Seq(Names)
             T == SUBSET Tables
  <1>1. o \in [kind : {"none", "create", "drop", "insert"}, table : Tables, names : N, rows : R,
               handle : Nat, todo : T, sum : Nat, number : Nat, spoiled : BOOLEAN]
    BY DEF Ops
  <1> HIDE DEF R, N, T
  <1>3. n \in [kind : {"none", "create", "drop", "insert"}, table : Tables, names : N, rows : R,
               handle : Nat, todo : T, sum : Nat, number : Nat, spoiled : BOOLEAN]
    BY <1>1
  <1>4. /\ n.spoiled = TRUE /\ n.handle = o.handle /\ n.names = o.names
        /\ n.table = o.table /\ n.rows = o.rows /\ n.todo = o.todo /\ n.sum = o.sum
    BY <1>1
  <1> QED  BY <1>3, <1>4 DEF Ops, R, N, T

\* The schema of a table that exists.
LEMMA SchemaOfType ==
  ASSUME IInv, NEW t \in Existing
  PROVE  /\ t \in Tables /\ tables[t] \in 1..Len(heap) /\ SchemaOf(t) \in Schemas
         /\ heap[tables[t]].schema = SchemaOf(t)
  BY ExistingHandle, HeapType DEF IInv, SchemaOf

-----------------------------------------------------------------------------
(* INSERT, up to the insertion.                                            *)

\* c goes to place with the same request.
LEMMA Onward ==
  ASSUME IInv, tables' = tables, heap' = heap, NEW c \in Clients, NEW place \in Places,
         Goes(c, place), op' = op, issued' = issued, conflicted' = conflicted,
         leftover' = leftover, ThreadOK(place, op[c]),
         MayPass(place, op[c]) => MayPass(pc[c], op[c])
  PROVE  IInv'
  <1>1. op' = [op EXCEPT ![c] = op[c]]  BY ThreadType
  <1>2. op[c] \in Ops /\ issued' \in 0..MaxRequests /\ conflicted' \in BOOLEAN /\ leftover' \in BOOLEAN
    BY ThreadType
  <1> QED  BY <1>1, <1>2, ThreadStep DEF Goes

\* The request a planned INSERT becomes.
Asks(t, names, rows, number) ==
    [NoOp EXCEPT !.kind = "insert", !.table = t, !.names = names, !.rows = rows, !.number = number]

\* It is a request, with the rows and the names of the INSERT.
LEMMA PlannedOp ==
  ASSUME NEW t \in Tables, NEW names \in Seq(Names), NEW rows \in Seq(Row), NEW number \in Nat,
         NEW o, o = Asks(t, names, rows, number)
  PROVE  /\ o \in Ops /\ o.table = t /\ o.names = names /\ o.rows = rows /\ o.todo = {}
  <1> DEFINE R == Seq(Row)
             N == Seq(Names)
             T == SUBSET Tables
             r1 == [NoOp EXCEPT !.kind = "insert"]
             r2 == [r1 EXCEPT !.table = t]
             r3 == [r2 EXCEPT !.names = names]
             r4 == [r3 EXCEPT !.rows = rows]
             r5 == [r4 EXCEPT !.number = number]
             All == [kind : {"none", "create", "drop", "insert"}, table : Tables, names : N, rows : R,
                     handle : Nat, todo : T, sum : Nat, number : Nat, spoiled : BOOLEAN]
  <1>1. NoOp \in All /\ NoOp.todo = {}  BY NoOpOK DEF Ops, NoOp
  <1>2. names \in N /\ rows \in R  OBVIOUS
  <1>3. o = r5  BY DEF Asks
  <1> HIDE DEF R, N, T
  <1>4. r1 \in All /\ r1.todo = {}  BY <1>1
  <1> HIDE DEF r1
  <1>5. r2 \in All /\ r2.todo = {} /\ r2.table = t  BY <1>4
  <1> HIDE DEF r2
  <1>6. r3 \in All /\ r3.todo = {} /\ r3.table = t /\ r3.names = names  BY <1>2, <1>5
  <1> HIDE DEF r3
  <1>7. r4 \in All /\ r4.todo = {} /\ r4.table = t /\ r4.names = names /\ r4.rows = rows
    BY <1>2, <1>6
  <1> HIDE DEF r4
  <1>8. r5 \in All /\ r5.todo = {} /\ r5.table = t /\ r5.names = names /\ r5.rows = rows
    BY <1>7
  <1> QED  BY <1>3, <1>8 DEF Ops, R, N, T

\* The rows of a planned INSERT are meant for the columns it names or for those of its
\* table, and no INSERT of the clients is larger than the largest.
LEMMA PlanInsertKeeps ==
  ASSUME IInv, NEW c \in Clients, NEW t \in Tables, NEW i \in Inserts, PlanInsert(c, t, i)
  PROVE  IInv'
  <1> DEFINE rows == CellsOf(i, SchemaOf(t), issued + 1)
             o == Asks(t, i.names, rows, issued + 1)
             place == IF i.names = <<>> THEN "limit" ELSE "reorder"
  <1>1. /\ op' = [op EXCEPT ![c] = o] /\ pc' = [pc EXCEPT ![c] = place]
        /\ tables' = tables /\ heap' = heap /\ leftover' = leftover
        /\ tables[t] # 0 /\ Planned(i, SchemaOf(t))
        /\ issued < MaxRequests /\ issued' = issued + 1
        /\ pc[c] = "idle"
    BY DEF PlanInsert, Serve, Goes, Asks
  <1>2. conflicted' \in BOOLEAN
    <2> DEFINE P == \E d \in Clients :
                      /\ pc[d] # "idle" /\ op[d].table = t
                      /\ FALSE \/ op[d].kind # "insert"
    <2>1. conflicted' = (conflicted \/ P)
      <3>1. Serve(c, t, FALSE)  BY DEF PlanInsert
      <3> QED  BY <3>1, Zenon DEF Serve
    <2> QED  BY <2>1 DEF IInv, Typed
  <1>3. issued \in Nat /\ issued' \in 0..MaxRequests /\ leftover' \in BOOLEAN
    BY <1>1, ThreadType, LimitAssumption
  <1>4. t \in Existing  BY <1>1 DEF Existing
  <1>5. SchemaOf(t) \in Schemas  BY <1>4, SchemaOfType
  <1> DEFINE names == IF i.names = <<>> THEN ColumnNames(SchemaOf(t)) ELSE i.names
  <1>6. /\ rows \in Seq(Row)
        /\ \A n \in 1..Len(rows) : /\ MeantFor(rows[n].cells, names)
                                   /\ Len(rows) * Len(rows[n].cells) <= LargestInsert
    <2> DEFINE s == SchemaOf(t)
               k == issued + 1
    <2>1. s \in Schemas /\ k \in Nat /\ Planned(i, s)  BY <1>1, <1>3, <1>5
    <2> HIDE DEF s, k
    <2>2. /\ CellsOf(i, s, k) \in Seq(Row)
          /\ \A n \in 1..Len(CellsOf(i, s, k)) :
                /\ MeantFor(CellsOf(i, s, k)[n].cells, IF i.names = <<>> THEN ColumnNames(s) ELSE i.names)
                /\ Len(CellsOf(i, s, k)) * Len(CellsOf(i, s, k)[n].cells) <= LargestInsert
      BY <2>1, PlannedRows
    <2> QED  BY <2>2 DEF s, k
  <1> HIDE DEF rows
  <1>7. /\ o \in Ops /\ o.table = t /\ o.names = i.names /\ o.rows = rows /\ o.todo = {}
    <2>1. /\ i.names \in Seq(Names) /\ rows \in Seq(Row) /\ issued + 1 \in Nat
      BY <1>3, <1>6, InsertType
    <2> QED  BY <2>1, PlannedOp
  <1> HIDE DEF o
  <1>8. place \in Places /\ place \in {"limit", "reorder"}  BY DEF Places
  <1>9. ThreadOK(place, o)
    <2>1. WalkOK(place, o)  BY <1>7 DEF WalkOK
    <2>2. HandleOK(place, o)  BY <1>4, <1>7, <1>8 DEF HandleOK
    <2>3. ValuesMeant(place, o)
      <3>1. CASE i.names = <<>>
        <4>1. place = "limit" /\ names = ColumnNames(SchemaOf(t))  BY <3>1
        <4> HIDE DEF place, names
        <4> QED  BY <1>6, <1>7, <4>1 DEF ValuesMeant
      <3>2. CASE i.names # <<>>
        <4>1. place = "reorder" /\ names = i.names  BY <3>2
        <4> HIDE DEF place, names
        <4> QED  BY <1>6, <1>7, <4>1 DEF ValuesMeant, InOrder
      <3> QED  BY <3>1, <3>2
    <2>4. RequestBounded(place, o)  BY <1>6, <1>7 DEF RequestBounded
    <2> QED  BY <2>1, <2>2, <2>3, <2>4 DEF ThreadOK
  <1>10. ~MayPass(place, o)  BY <1>8 DEF MayPass
  <1> QED  BY <1>1, <1>2, <1>3, <1>7, <1>8, <1>9, <1>10, ThreadStep

\* A named INSERT finds the columns of its table, or fails; its size stays.
LEMMA ReorderKeeps ==
  ASSUME IInv, NEW c \in Clients, Reorder(c)
  PROVE  IInv'
  <1> DEFINE t == op[c].table
             s == SchemaOf(t)
             rows == [n \in 1..Len(op[c].rows) |->
                        [op[c].rows[n] EXCEPT !.cells = Reordered(@, op[c].names, s)]]
             o == [op[c] EXCEPT !.rows = rows]
  <1>1. /\ pc[c] = "reorder"
        /\ tables' = tables /\ heap' = heap /\ leftover' = leftover
        /\ issued' = issued /\ conflicted' = conflicted
    BY DEF Reorder
  <1>2. CASE ~(tables[t] # NoTable /\ Reorderable(op[c].names, s))
    <2>1. Finish(c)  BY <1>2 DEF Reorder
    <2>2. leftover' \in BOOLEAN  BY <1>1, ThreadType
    <2> QED  BY <1>1, <2>1, <2>2, FinishStep
  <1>3. CASE tables[t] # NoTable /\ Reorderable(op[c].names, s)
    <2>1. op' = [op EXCEPT ![c].rows = rows] /\ pc' = [pc EXCEPT ![c] = "limit"]
      BY <1>3 DEF Reorder, Goes
    <2>12. op' = [op EXCEPT ![c] = o]
      <3> HIDE DEF rows
      <3> QED  BY <2>1, ThreadType
    <2>2. op[c].table \in Tables /\ op[c].names \in Seq(Names)  BY ThreadType DEF Ops
    <2>3. t \in Existing /\ s \in Schemas  BY <1>3, <2>2, SchemaOfType DEF Existing
    <2>4. \A n \in 1..Len(op[c].rows) :
            /\ op[c].rows[n] \in Row /\ op[c].rows[n].cells \in Seq(Cell)
            /\ MeantFor(op[c].rows[n].cells, op[c].names)
            /\ Len(op[c].rows) * Len(op[c].rows[n].cells) <= LargestInsert
      <3>1. ValuesMeant(pc[c], op[c]) /\ RequestBounded(pc[c], op[c])  BY ThreadType DEF ThreadOK
      <3>2. \A n \in 1..Len(op[c].rows) : op[c].rows[n] \in Row  BY ThreadType
      <3> QED  BY <1>1, <3>1, <3>2 DEF ValuesMeant, RequestBounded, Inserting, Row
    <2>5. \A n \in 1..Len(op[c].rows) :
            LET new == Reordered(op[c].rows[n].cells, op[c].names, s) IN
            /\ new \in Seq(Cell) /\ Len(new) = Len(op[c].rows[n].cells)
            /\ MeantFor(new, ColumnNames(s))
      BY <1>3, <2>2, <2>3, <2>4, ReorderedRow
    <2>6. \A n \in 1..Len(op[c].rows) :
            /\ rows[n] \in Row
            /\ rows[n].cells = Reordered(op[c].rows[n].cells, op[c].names, s)
      <3> SUFFICES ASSUME NEW n \in 1..Len(op[c].rows)
                   PROVE  /\ rows[n] \in Row
                          /\ rows[n].cells = Reordered(op[c].rows[n].cells, op[c].names, s)
        OBVIOUS
      <3>1. rows[n] = [op[c].rows[n] EXCEPT !.cells = Reordered(op[c].rows[n].cells, op[c].names, s)]
        OBVIOUS
      <3>2. Reordered(op[c].rows[n].cells, op[c].names, s) \in Seq(Cell)  BY <2>5
      <3>3. op[c].rows[n] \in Row  BY <2>4
      <3> HIDE DEF rows
      <3> QED  BY <3>1, <3>2, <3>3 DEF Row
    <2>7. rows \in Seq(Row) /\ Len(rows) = Len(op[c].rows)
      <3>1. Len(op[c].rows) \in Nat  BY ThreadType
      <3> DEFINE m == Len(op[c].rows)
      <3>2. rows = [n \in 1..m |-> rows[n]]  OBVIOUS
      <3>3. \A n \in 1..m : rows[n] \in Row  BY <2>6
      <3> HIDE DEF rows, m
      <3>4. m \in Nat  BY <3>1 DEF m
      <3>5. rows \in Seq(Row) /\ Len(rows) = m  BY <3>2, <3>3, <3>4, SequenceOf
      <3> QED  BY <3>5 DEF m
    <2> HIDE DEF rows
    <2>8. /\ o \in Ops /\ o.rows = rows /\ o.table = op[c].table /\ o.todo = op[c].todo
          /\ o.spoiled = op[c].spoiled
      BY <2>7, ThreadType, OpWithRows
    <2> HIDE DEF o
    <2>9. ThreadOK("limit", o)
      <3>1. WalkOK(pc[c], op[c]) /\ HandleOK(pc[c], op[c])  BY ThreadType DEF ThreadOK
      <3>2. WalkOK("limit", o)  BY <1>1, <2>8, <3>1 DEF WalkOK
      <3>3. HandleOK("limit", o)  BY <2>3, <2>8 DEF HandleOK
      <3>4. ValuesMeant("limit", o)
        BY <2>5, <2>6, <2>7, <2>8 DEF ValuesMeant
      <3>5. RequestBounded("limit", o)
        BY <2>4, <2>5, <2>6, <2>7, <2>8 DEF RequestBounded
      <3> QED  BY <3>2, <3>3, <3>4, <3>5 DEF ThreadOK
    <2>10. ~MayPass("limit", o) /\ "limit" \in Places  BY DEF MayPass, Places
    <2>11. issued' \in 0..MaxRequests /\ conflicted' \in BOOLEAN /\ leftover' \in BOOLEAN
      BY <1>1, ThreadType
    <2> QED  BY <1>1, <2>1, <2>12, <2>8, <2>9, <2>10, <2>11, ThreadStep
  <1> QED  BY <1>2, <1>3

\* A thread that knows what it must at one place of the check knows it at the next.
LEMMA WithinCheck ==
  ASSUME IInv, NEW c \in Clients, pc[c] \in {"limit", "sum"}, NEW place \in {"sum", "lookup"},
         NEW o \in Ops, o.rows = op[c].rows, o.table = op[c].table, o.spoiled = op[c].spoiled,
         o.todo \subseteq Existing, place # "sum" => o.todo = {}
  PROVE  ThreadOK(place, o)
  <1>1. /\ HandleOK(pc[c], op[c]) /\ ValuesMeant(pc[c], op[c]) /\ RequestBounded(pc[c], op[c])
    BY ThreadType DEF ThreadOK
  <1>2. WalkOK(place, o)  BY DEF WalkOK
  <1>3. HandleOK(place, o)  BY <1>1 DEF HandleOK, Inserting, InOrder
  <1>4. ValuesMeant(place, o)  BY <1>1 DEF ValuesMeant, InOrder
  <1>5. RequestBounded(place, o)  BY <1>1 DEF RequestBounded, Inserting, InOrder
  <1> QED  BY <1>2, <1>3, <1>4, <1>5 DEF ThreadOK

\* A walk that begins would pass the check only with room for every thread.
LEMMA BeginSumKeeps ==
  ASSUME IInv, NEW c \in Clients, BeginSum(c)
  PROVE  IInv'
  <1> DEFINE o == [op[c] EXCEPT !.todo = Existing, !.sum = 0]
  <1>1. /\ pc[c] = "limit" /\ Limit # 0 /\ tables' = tables /\ heap' = heap
        /\ issued' = issued /\ conflicted' = conflicted /\ leftover' = leftover
        /\ pc' = [pc EXCEPT ![c] = "sum"] /\ op' = [op EXCEPT ![c] = o]
    BY ThreadType DEF BeginSum, Goes
  <1>2. Existing \in SUBSET Tables  BY DEF Existing
  <1>3. /\ o \in Ops /\ o.rows = op[c].rows /\ o.table = op[c].table
        /\ o.spoiled = op[c].spoiled /\ o.todo = Existing /\ o.sum = 0
    <2>1. op[c] \in Ops /\ Existing \in SUBSET Tables /\ 0 \in Nat  BY <1>2, ThreadType
    <2>2. o = WithCount(op[c], Existing, 0)  BY DEF WithCount
    <2> HIDE DEF o
    <2> QED  BY <2>1, <2>2, OpWithCount
  <1> HIDE DEF o
  <1>4. ThreadOK("sum", o)  BY <1>1, <1>3, WithinCheck
  <1>5. MayPass("sum", o) => Used(Existing) < Limit
    <2>1. Used(Existing) \in Nat  BY UsedType DEF IInv
    <2> QED  BY <1>3, <2>1 DEF MayPass
  <1>6. "sum" \in Places  BY DEF Places
  <1>7. issued' \in 0..MaxRequests /\ conflicted' \in BOOLEAN /\ leftover' \in BOOLEAN
    BY <1>1, ThreadType
  <1> QED  BY <1>1, <1>3, <1>4, <1>5, <1>6, <1>7, ThreadStep

\* What is counted and what is still to be counted stay the same together.
LEMMA SumTableKeeps ==
  ASSUME IInv, NEW c \in Clients, NEW t \in Tables, SumTable(c, t)
  PROVE  IInv'
  <1> DEFINE o == [op[c] EXCEPT !.todo = @ \ {t}, !.sum = @ + Size(tables[t])]
  <1>1. /\ pc[c] = "sum" /\ t \in op[c].todo /\ tables' = tables /\ heap' = heap
        /\ issued' = issued /\ conflicted' = conflicted /\ leftover' = leftover
        /\ pc' = pc /\ op' = [op EXCEPT ![c] = o]
    BY ThreadType DEF SumTable
  <1>2. op[c].todo \in SUBSET Existing /\ op[c].todo \in SUBSET Tables /\ op[c].sum \in Nat
    BY ThreadType DEF ThreadOK, WalkOK, Ops
  <1>3. Size(tables[t]) \in Nat /\ Used(op[c].todo) = Used(op[c].todo \ {t}) + Size(tables[t])
    BY <1>1, <1>2, UsedWithout DEF IInv
  <1>4. /\ o \in Ops /\ o.rows = op[c].rows /\ o.table = op[c].table
        /\ o.spoiled = op[c].spoiled /\ o.todo = op[c].todo \ {t}
        /\ o.sum = op[c].sum + Size(tables[t])
    <2> DEFINE todo == op[c].todo \ {t}
               sum  == op[c].sum + Size(tables[t])
    <2>1. todo \in SUBSET Tables /\ sum \in Nat /\ op[c] \in Ops  BY <1>2, <1>3, ThreadType
    <2>2. o = WithCount(op[c], todo, sum)  BY DEF WithCount
    <2> HIDE DEF o, todo, sum
    <2>3. /\ o \in Ops /\ o.rows = op[c].rows /\ o.table = op[c].table
          /\ o.spoiled = op[c].spoiled /\ o.todo = todo /\ o.sum = sum
      BY <2>1, <2>2, OpWithCount
    <2> QED  BY <2>3 DEF todo, sum
  <1> HIDE DEF o
  <1>5. ThreadOK("sum", o)  BY <1>1, <1>2, <1>4, WithinCheck
  <1>6. Used(op[c].todo \ {t}) \in Nat
    <2>1. op[c].todo \ {t} \in SUBSET Existing  BY <1>2
    <2> QED  BY <2>1, UsedType DEF IInv
  <1>7. MayPass("sum", o) => MayPass(pc[c], op[c])
    BY <1>1, <1>2, <1>3, <1>4, <1>6 DEF MayPass
  <1>8. pc' = [pc EXCEPT ![c] = "sum"] /\ "sum" \in Places  BY <1>1, ThreadType DEF Places
  <1>9. issued' \in 0..MaxRequests /\ conflicted' \in BOOLEAN /\ leftover' \in BOOLEAN
    BY <1>1, ThreadType
  <1> QED  BY <1>1, <1>4, <1>5, <1>7, <1>8, <1>9, ThreadStep

\* A thread that passes the check would have passed it before its last look as well.
LEMMA CheckLimitKeeps ==
  ASSUME IInv, NEW c \in Clients, CheckLimit(c)
  PROVE  IInv'
  <1> DEFINE o == [op[c] EXCEPT !.sum = 0]
  <1>1. /\ pc[c] \in {"limit", "sum"} /\ op[c].todo = {}
        /\ pc[c] = "limit" => Limit = 0
        /\ tables' = tables /\ heap' = heap
        /\ issued' = issued /\ conflicted' = conflicted /\ leftover' = leftover
    BY ThreadType DEF CheckLimit, ThreadOK, WalkOK
  <1>2. CASE Limit # 0 /\ LimitReached(op[c].sum)
    <2>1. Finish(c)  BY <1>2 DEF CheckLimit
    <2>2. leftover' \in BOOLEAN  BY <1>1, ThreadType
    <2> QED  BY <1>1, <2>1, <2>2, FinishStep
  <1>3. CASE ~(Limit # 0 /\ LimitReached(op[c].sum))
    <2>1. pc' = [pc EXCEPT ![c] = "lookup"] /\ op' = [op EXCEPT ![c] = o]
      BY <1>3, ThreadType DEF CheckLimit, Goes
    <2>2. /\ o \in Ops /\ o.rows = op[c].rows /\ o.table = op[c].table
          /\ o.spoiled = op[c].spoiled /\ o.todo = {}
      BY <1>1, ThreadType DEF Ops
    <2> HIDE DEF o
    <2>3. ThreadOK("lookup", o)  BY <1>1, <2>2, WithinCheck
    <2>4. CASE Limit # 0
      <3>1. pc[c] = "sum"  BY <1>1, <2>4
      <3>2. Used({}) = 0
        <4>1. CellsIn({}) = {}  BY DEF CellsIn
        <4> QED  BY <4>1, FS_EmptySet DEF Used
      <3>3. op[c].sum \in Nat /\ Limit \in Nat  BY ThreadType, LimitAssumption DEF Ops
      <3>4. op[c].sum < Limit  BY <1>3, <2>4, <3>3 DEF LimitReached
      <3>5. MayPass(pc[c], op[c])  BY <1>1, <3>1, <3>2, <3>3, <3>4 DEF MayPass
      <3> QED
        <4>1. "lookup" \in Places  BY DEF Places
        <4>2. issued' \in 0..MaxRequests /\ conflicted' \in BOOLEAN /\ leftover' \in BOOLEAN
          BY <1>1, ThreadType
        <4> QED  BY <1>1, <2>1, <2>2, <2>3, <3>5, <4>1, <4>2, ThreadStep
    <2>5. CASE Limit = 0
      <3>1. "lookup" \in Places  BY DEF Places
      <3>2. issued' \in 0..MaxRequests /\ conflicted' \in BOOLEAN /\ leftover' \in BOOLEAN
        BY <1>1, ThreadType
      <3> QED  BY <1>1, <2>1, <2>2, <2>3, <2>5, <3>1, <3>2, ThreadStep
    <2> QED  BY <2>4, <2>5
  <1> QED  BY <1>2, <1>3

\* The handle is that of the table with the name; a thread nobody spoiled planned for it.
LEMMA LookupHandleKeeps ==
  ASSUME IInv, NEW c \in Clients, LookupHandle(c)
  PROVE  IInv'
  <1> DEFINE t == op[c].table
             o == [op[c] EXCEPT !.handle = tables[t]]
  <1>1. /\ pc[c] = "lookup" /\ tables' = tables /\ heap' = heap
        /\ issued' = issued /\ conflicted' = conflicted /\ leftover' = leftover
    BY DEF LookupHandle
  <1>2. issued' \in 0..MaxRequests /\ conflicted' \in BOOLEAN /\ leftover' \in BOOLEAN
    BY <1>1, ThreadType
  <1>3. CASE tables[t] = NoTable
    <2>1. Finish(c)  BY <1>3 DEF LookupHandle
    <2> QED  BY <1>1, <1>2, <2>1, FinishStep
  <1>4. CASE tables[t] # NoTable
    <2>1. pc' = [pc EXCEPT ![c] = "push"] /\ op' = [op EXCEPT ![c] = o]
      BY <1>4, ThreadType DEF LookupHandle, Goes
    <2>2. t \in Existing  BY <1>4, ThreadType DEF Existing, Ops
    <2>3. tables[t] \in 1..Len(heap) /\ Len(heap) \in Nat
      <3>1. Typed  BY DEF IInv
      <3>2. Len(heap) \in Nat  BY <3>1 DEF Typed
      <3> QED  BY <2>2, <3>1, <3>2, ExistingHandle
    <2>4. /\ o \in Ops /\ o.rows = op[c].rows /\ o.table = t /\ o.spoiled = op[c].spoiled
          /\ o.todo = op[c].todo /\ o.handle = tables[t]
      <3>1. tables[t] \in Nat /\ op[c] \in Ops  BY <2>3, ThreadType
      <3> QED  BY <3>1, OpWithHandle
    <2> HIDE DEF o
    <2>5. ThreadOK("push", o)
      <3>1. WalkOK(pc[c], op[c]) /\ ValuesMeant(pc[c], op[c]) /\ RequestBounded(pc[c], op[c])
        BY ThreadType DEF ThreadOK
      <3>2. WalkOK("push", o)  BY <1>1, <2>4, <3>1 DEF WalkOK
      <3>3. HandleOK("push", o)  BY <2>2, <2>3, <2>4 DEF HandleOK
      <3>4. ValuesMeant("push", o)  BY <1>1, <2>4, <3>1 DEF ValuesMeant, InOrder
      <3>5. RequestBounded("push", o)  BY <1>1, <2>4, <3>1 DEF RequestBounded, Inserting, InOrder
      <3> QED  BY <3>2, <3>3, <3>4, <3>5 DEF ThreadOK
    <2>6. MayPass(pc[c], op[c]) /\ "push" \in Places  BY <1>1 DEF MayPass, Places
    <2> QED  BY <1>1, <1>2, <2>1, <2>4, <2>5, <2>6, ThreadStep
  <1> QED  BY <1>3, <1>4

\* A request that is encoded, or fails, will insert no more.
LEMMA EncodeKeeps ==
  ASSUME IInv, NEW c \in Clients, Encode(c)
  PROVE  IInv'
  <1>1. /\ pc[c] = "encode" /\ tables' = tables /\ heap' = heap
        /\ issued' = issued /\ conflicted' = conflicted
        /\ \/ Goes(c, "append") /\ op' = op /\ leftover' = leftover
           \/ Finish(c) /\ leftover' = TRUE
    BY DEF Encode
  <1>2. CASE Finish(c) /\ leftover' = TRUE
    <2>1. leftover' \in BOOLEAN  BY <1>2
    <2> QED  BY <1>1, <1>2, <2>1, FinishStep
  <1>3. CASE Goes(c, "append") /\ op' = op /\ leftover' = leftover
    <2>1. WalkOK(pc[c], op[c])  BY ThreadType DEF ThreadOK
    <2>2. ThreadOK("append", op[c])
      BY <1>1, <2>1 DEF ThreadOK, WalkOK, HandleOK, ValuesMeant, RequestBounded, Inserting, InOrder
    <2>3. ~MayPass("append", op[c]) /\ "append" \in Places  BY DEF MayPass, Places
    <2> QED  BY <1>1, <1>3, <2>2, <2>3, Onward
  <1> QED  BY <1>1, <1>2, <1>3

\* A record in the log ends the request.
LEMMA AppendWalKeeps ==
  ASSUME IInv, NEW c \in Clients, AppendWal(c)
  PROVE  IInv'
  <1>1. /\ tables' = tables /\ heap' = heap /\ Finish(c)
        /\ issued' = issued /\ conflicted' = conflicted /\ leftover' = leftover
    BY DEF AppendWal
  <1>2. leftover' \in BOOLEAN  BY <1>1, ThreadType
  <1> QED  BY <1>1, <1>2, FinishStep

\* A record that could not be written ends it as well.
LEMMA AppendFailsKeeps ==
  ASSUME IInv, NEW c \in Clients, AppendFails(c)
  PROVE  IInv'
  <1>1. /\ tables' = tables /\ heap' = heap /\ Finish(c)
        /\ issued' = issued /\ conflicted' = conflicted /\ leftover' = TRUE
    BY DEF AppendFails
  <1>2. leftover' \in BOOLEAN  BY <1>1
  <1> QED  BY <1>1, <1>2, FinishStep

-----------------------------------------------------------------------------
(* CREATE and DROP.                                                        *)

\* A step of c that creates or drops t while nobody walks over the tables: whoever
\* has looked at t is spoiled, and everything else stays where it was.
LEMMA CatalogueStep ==
  ASSUME IInv, NEW c \in Clients, NEW t \in Tables, NEW o \in Ops, o.todo = {}, CatalogueFree,
         Spoil(c, t, o), Goes(c, "append"),
         Typed', NamesApart', TablesOK',
         Len(heap) \in Nat, Len(heap') \in Nat, Len(heap) <= Len(heap'),
         \A u \in Existing \ {t} :
            u \in Existing' /\ tables'[u] = tables[u] /\ SchemaOf(u)' = SchemaOf(u),
         Used(Existing)' \in Nat, Used(Existing)' <= Used(Existing)
  PROVE  IInv'
  <1>1. /\ pc'[c] = "append" /\ op'[c] = o
        /\ \A d \in Clients \ {c} :
              /\ pc'[d] = pc[d]
              /\ op'[d] = IF op[d].table = t /\ pc[d] # "idle"
                          THEN [op[d] EXCEPT !.spoiled = TRUE] ELSE op[d]
    BY ThreadType DEF Spoil, Goes
  <1>2. \A d \in Clients : pc[d] # "sum" /\ op[d].todo = {}
    BY ThreadType DEF CatalogueFree, ThreadOK, WalkOK
  <1>3. ASSUME NEW d \in Clients, d # c
        PROVE  /\ op'[d].handle = op[d].handle /\ op'[d].names = op[d].names
               /\ op'[d].table = op[d].table /\ op'[d].rows = op[d].rows
               /\ op'[d].todo = {}
               /\ ~op'[d].spoiled => ~op[d].spoiled /\ (op[d].table # t \/ pc[d] = "idle")
    <2>1. op[d] \in Ops  BY ThreadType
    <2>2. CASE op[d].table = t /\ pc[d] # "idle"
      <3>1. op'[d] = [op[d] EXCEPT !.spoiled = TRUE]  BY <1>1, <1>3, <2>2
      <3> QED  BY <1>2, <2>1, <3>1, OpSpoiled
    <2>3. CASE ~(op[d].table = t /\ pc[d] # "idle")
      <3>1. op'[d] = op[d]  BY <1>1, <1>3, <2>3
      <3> QED  BY <1>2, <2>3, <3>1
    <2> QED  BY <2>2, <2>3
  <1>4. ASSUME NEW d \in Clients, d # c
        PROVE  /\ pc'[d] = "push" => op'[d].handle \in 1..Len(heap')
               /\ pc'[d] \in Inserting /\ ~op'[d].spoiled
                    => /\ op'[d].table \in Existing'
                       /\ tables'[op'[d].table] = tables[op[d].table]
                       /\ SchemaOf(op[d].table)' = SchemaOf(op[d].table)
                       /\ op[d].table \in Existing
               /\ pc'[d] = "push" /\ ~op'[d].spoiled => op'[d].handle = tables'[op'[d].table]
    <2>1. pc'[d] = pc[d]  BY <1>1, <1>4
    <2>2. HandleOK(pc[d], op[d])  BY ThreadType DEF ThreadOK
    <2>3. pc[d] = "push" => op'[d].handle \in 1..Len(heap')
      BY <1>3, <1>4, <2>2 DEF HandleOK
    <2>4. "idle" \notin Inserting /\ "push" \in Inserting  BY DEF Inserting, InOrder
    <2>5. pc[d] \in Inserting /\ ~op'[d].spoiled => op[d].table \in Existing \ {t}
      BY <1>3, <1>4, <2>2, <2>4 DEF HandleOK
    <2>6. pc[d] \in Inserting /\ ~op'[d].spoiled
            => /\ op'[d].table \in Existing'
               /\ tables'[op'[d].table] = tables[op[d].table]
               /\ SchemaOf(op[d].table)' = SchemaOf(op[d].table)
      BY <1>3, <1>4, <2>5
    <2>7. pc[d] = "push" /\ ~op'[d].spoiled => op'[d].handle = tables'[op'[d].table]
      BY <1>3, <1>4, <2>2, <2>4, <2>6 DEF HandleOK
    <2> QED  BY <2>1, <2>3, <2>5, <2>6, <2>7
  <1>5. ASSUME NEW d \in Clients
        PROVE  WalkOK(pc[d], op[d])'
    <2>1. op'[d].todo = {}  BY <1>1, <1>3
    <2> QED  BY <2>1 DEF WalkOK
  <1>6. ASSUME NEW d \in Clients
        PROVE  HandleOK(pc[d], op[d])'
    <2>1. CASE d = c  BY <1>1, <2>1 DEF HandleOK, Inserting, InOrder
    <2>2. CASE d # c  BY <1>4, <2>2 DEF HandleOK
    <2> QED  BY <2>1, <2>2
  <1>7. ASSUME NEW d \in Clients
        PROVE  ValuesMeant(pc[d], op[d])'
    <2>1. CASE d = c  BY <1>1, <2>1 DEF ValuesMeant, InOrder
    <2>2. CASE d # c
      <3>1. ValuesMeant(pc[d], op[d])  BY ThreadType DEF ThreadOK
      <3>2. pc'[d] = pc[d]  BY <1>1, <2>2
      <3>3. op'[d].names = op[d].names /\ op'[d].table = op[d].table /\ op'[d].rows = op[d].rows
        BY <1>3, <2>2
      <3>4. pc[d] \in InOrder /\ ~op'[d].spoiled
              => SchemaOf(op[d].table)' = SchemaOf(op[d].table) /\ ~op[d].spoiled
        BY <1>3, <1>4, <2>2, <3>2 DEF Inserting
      <3>5. \A n \in 1..Len(op'[d].rows) :
              /\ pc'[d] = "reorder" => MeantFor(op'[d].rows[n].cells, op'[d].names)
              /\ pc'[d] \in InOrder /\ ~op'[d].spoiled
                   => MeantFor(op'[d].rows[n].cells, ColumnNames(SchemaOf(op[d].table)))
        BY <3>1, <3>2, <3>3, <3>4 DEF ValuesMeant
      <3>6. SchemaOf(op[d].table)' = heap'[tables'[op'[d].table]].schema  BY <3>3 DEF SchemaOf
      <3>7. pc'[d] \in InOrder /\ ~op'[d].spoiled
              => heap'[tables'[op'[d].table]].schema = SchemaOf(op[d].table)
        BY <3>2, <3>4, <3>6
      <3> QED  BY <3>5, <3>7 DEF ValuesMeant, SchemaOf
    <2> QED  BY <2>1, <2>2
  <1>8. ASSUME NEW d \in Clients
        PROVE  RequestBounded(pc[d], op[d])'
    <2>1. CASE d = c  BY <1>1, <2>1 DEF RequestBounded, Inserting, InOrder
    <2>2. CASE d # c
      <3>1. RequestBounded(pc[d], op[d])  BY ThreadType DEF ThreadOK
      <3> QED  BY <1>1, <1>3, <2>2, <3>1 DEF RequestBounded
    <2> QED  BY <2>1, <2>2
  <1>9. ThreadsOK'  BY <1>5, <1>6, <1>7, <1>8 DEF ThreadsOK, ThreadOK
  <1>10. RoomLeft'
    <2>1. MayInsert' \in SUBSET MayInsert
      <3> SUFFICES ASSUME NEW d \in Clients, MayPass(pc[d], op[d])'
                   PROVE  MayPass(pc[d], op[d])
        BY DEF MayInsert
      <3>1. pc'[d] \in {"lookup", "push", "sum"}  BY DEF MayPass
      <3>2. d # c  BY <1>1, <3>1
      <3>3. pc[d] \in {"lookup", "push"}  BY <1>1, <1>2, <3>1, <3>2
      <3> QED  BY <3>3 DEF MayPass
    <2>2. MayInsert \in SUBSET Clients  BY DEF MayInsert
    <2> QED  BY <2>1, <2>2, RoomShrinks
  <1> QED  BY <1>9, <1>10 DEF IInv

\* What a request counts up when it is taken up.
LEMMA ServeType ==
  ASSUME IInv, NEW c, NEW t, NEW ddl \in BOOLEAN, Serve(c, t, ddl)
  PROVE  issued' \in 0..MaxRequests /\ conflicted' \in BOOLEAN
  <1>1. issued \in Nat /\ issued < MaxRequests /\ issued' = issued + 1
    BY LimitAssumption DEF IInv, Typed, Serve
  <1> DEFINE P == \E d \in Clients : /\ pc[d] # "idle" /\ op[d].table = t
                                     /\ ddl \/ op[d].kind # "insert"
  <1>2. conflicted' = (conflicted \/ P)  BY Zenon DEF Serve
  <1>3. conflicted \in BOOLEAN  BY DEF IInv, Typed
  <1>4. conflicted' \in BOOLEAN
    <2> HIDE DEF P
    <2> QED  BY <1>2, <1>3
  <1>5. issued' \in 0..MaxRequests  BY <1>1, LimitAssumption
  <1> QED  BY <1>4, <1>5

\* The request of a CREATE or DROP.
LEMMA DdlOp ==
  ASSUME NEW kind \in {"create", "drop"}, NEW t \in Tables, NEW handle \in Nat
  PROVE  /\ [NoOp EXCEPT !.kind = kind, !.table = t, !.handle = handle] \in Ops
         /\ [NoOp EXCEPT !.kind = kind, !.table = t, !.handle = handle].todo = {}
         /\ [NoOp EXCEPT !.kind = kind, !.table = t] \in Ops
         /\ [NoOp EXCEPT !.kind = kind, !.table = t].todo = {}
         /\ [NoOp EXCEPT !.kind = kind, !.table = t].kind = kind
         /\ [NoOp EXCEPT !.kind = kind, !.table = t].table = t
  <1> DEFINE R == Seq(Row)
             N == Seq(Names)
             T == SUBSET Tables
             r1 == [NoOp EXCEPT !.kind = kind]
             r2 == [r1 EXCEPT !.table = t]
             r3 == [r2 EXCEPT !.handle = handle]
             All == [kind : {"none", "create", "drop", "insert"}, table : Tables, names : N, rows : R,
                     handle : Nat, todo : T, sum : Nat, number : Nat, spoiled : BOOLEAN]
  <1>1. NoOp \in All /\ NoOp.todo = {}  BY NoOpOK DEF Ops, NoOp
  <1>2. /\ [NoOp EXCEPT !.kind = kind, !.table = t, !.handle = handle] = r3
        /\ [NoOp EXCEPT !.kind = kind, !.table = t] = r2
    OBVIOUS
  <1> HIDE DEF R, N, T
  <1>3. r1 \in All /\ r1.todo = {} /\ r1.kind = kind  BY <1>1
  <1> HIDE DEF r1
  <1>4. r2 \in All /\ r2.todo = {} /\ r2.kind = kind /\ r2.table = t  BY <1>3
  <1> HIDE DEF r2
  <1>5. /\ r3 \in All /\ r3.todo = {} /\ r3.kind = kind /\ r3.table = t
        /\ r3.handle = handle
    BY <1>4
  <1> HIDE DEF r3
  <1> QED  BY <1>2, <1>4, <1>5 DEF Ops, R, N, T

\* A new table is empty: no cell is added, and no name gets the table of another.
LEMMA CreateTableKeeps ==
  ASSUME IInv, NEW c \in Clients, NEW t \in Tables, NEW s \in Schemas, CreateTable(c, t, s)
  PROVE  IInv'
  <1> DEFINE T == [schema : Schemas, rows : SUBSET Row]
             new == [schema |-> s, rows |-> {}]
             n == Len(heap)
             o == [NoOp EXCEPT !.kind = "create", !.table = t, !.handle = n + 1]
  <1>1. /\ Serve(c, t, TRUE) /\ CatalogueFree /\ tables[t] = 0
        /\ heap' = Append(heap, new) /\ tables' = [tables EXCEPT ![t] = n + 1]
        /\ Spoil(c, t, o) /\ Goes(c, "append") /\ leftover' = leftover
    BY DEF CreateTable
  <1>2. issued' \in 0..MaxRequests /\ conflicted' \in BOOLEAN  BY <1>1, ServeType
  <1>3. Typed /\ NamesApart /\ TablesOK  BY DEF IInv
  <1>4. heap \in Seq(T) /\ n \in Nat /\ new \in T
    <2>1. heap \in Seq(T) /\ new \in T  BY <1>3 DEF Typed
    <2> HIDE DEF T, new
    <2> QED  BY <2>1
  <1>5. o \in Ops /\ o.todo = {}
    <2> DEFINE k == n + 1
    <2>1. k \in Nat  BY <1>4, SMTT(30)
    <2> HIDE DEF k
    <2>2. /\ [NoOp EXCEPT !.kind = "create", !.table = t, !.handle = k] \in Ops
          /\ [NoOp EXCEPT !.kind = "create", !.table = t, !.handle = k].todo = {}
      BY <2>1, DdlOp
    <2> QED  BY <2>2 DEF k
  <1>6. /\ heap' \in Seq(T) /\ Len(heap') = n + 1 /\ heap'[n + 1] = new
        /\ \A h \in 1..n : heap'[h] = heap[h]
    <2> HIDE DEF T, new
    <2> QED  BY <1>1, <1>4
  <1>7. tables \in [Tables -> 0..n]  BY <1>3 DEF Typed
  <1>8. /\ tables' \in [Tables -> 0..n + 1] /\ tables'[t] = n + 1
        /\ \A u \in Tables \ {t} : tables'[u] = tables[u] /\ tables[u] \in 0..n
    BY <1>1, <1>4, <1>7
  <1>9. Typed'
    <2>1. pc' \in [Clients -> Places]
      <3>1. "append" \in Places  BY DEF Places
      <3> QED  BY <1>1, <3>1, ThreadType DEF Goes
    <2>2. op' \in [Clients -> Ops]
      <3>1. \A d \in Clients : [op[d] EXCEPT !.spoiled = TRUE] \in Ops  BY ThreadType, OpSpoiled
      <3>2. \A d \in Clients : op[d] \in Ops  BY ThreadType
      <3> HIDE DEF o
      <3> QED  BY <1>1, <1>5, <3>1, <3>2 DEF Spoil
    <2>3. leftover' \in BOOLEAN  BY <1>1, <1>3 DEF Typed
    <2> QED  BY <1>2, <1>6, <1>8, <2>1, <2>2, <2>3 DEF Typed
  <1>10. NamesApart'
    <2> SUFFICES ASSUME NEW u \in Tables, NEW v \in Tables, tables'[u] = tables'[v], tables'[u] # 0
                 PROVE  u = v
      BY DEF NamesApart
    <2>1. CASE u = t \/ v = t  BY <1>4, <1>8, <2>1
    <2>2. CASE u # t /\ v # t  BY <1>3, <1>8, <2>2 DEF NamesApart
    <2> QED  BY <2>1, <2>2
  <1>11. TablesOK'
    <2> SUFFICES ASSUME NEW h \in 1..n + 1 PROVE TableOK(heap'[h])
      BY <1>6 DEF TablesOK, TableOK, RowOK
    <2>1. CASE h = n + 1
      <3>1. heap'[h].rows = {}  BY <1>6, <2>1
      <3> QED  BY <3>1, FS_EmptySet DEF TableOK
    <2>2. CASE h # n + 1
      <3>1. h \in 1..n  BY <1>4, <2>2
      <3> QED  BY <1>3, <1>6, <3>1 DEF TablesOK
    <2> QED  BY <2>1, <2>2
  <1>12. Existing' = Existing \cup {t} /\ t \notin Existing
    BY <1>1, <1>4, <1>8 DEF Existing
  <1>13. \A u \in Existing : /\ u \in Existing' /\ u \in Tables \ {t} /\ tables'[u] = tables[u]
                             /\ tables[u] \in 1..n /\ heap'[tables'[u]] = heap[tables[u]]
    <2> SUFFICES ASSUME NEW u \in Existing
                 PROVE  /\ u \in Existing' /\ u \in Tables \ {t} /\ tables'[u] = tables[u]
                        /\ tables[u] \in 1..n /\ heap'[tables'[u]] = heap[tables[u]]
      OBVIOUS
    <2>1. u \in Tables \ {t}  BY <1>12 DEF Existing
    <2>2. tables[u] \in 1..n  BY <1>3, ExistingHandle
    <2> QED  BY <1>6, <1>8, <1>12, <2>1, <2>2
  <1>14. CellsIn(Existing)' = CellsIn(Existing)
    <2>1. heap'[tables'[t]].rows = {}  BY <1>6, <1>8
    <2>2. CellsIn(Existing)'
            = UNION {{u} \X (heap'[tables'[u]].rows \X DOMAIN heap'[tables'[u]].schema) : u \in Existing'}
      BY DEF CellsIn, SchemaOf
    <2>3. {t} \X (heap'[tables'[t]].rows \X DOMAIN heap'[tables'[t]].schema) = {}  BY <2>1
    <2> DEFINE A(u) == {u} \X (heap'[tables'[u]].rows \X DOMAIN heap'[tables'[u]].schema)
               B(u) == {u} \X (heap[tables[u]].rows \X DOMAIN heap[tables[u]].schema)
    <2>4. \A u \in Existing : A(u) = B(u)  BY <1>13
    <2>5. A(t) = {}  BY <2>3
    <2>6. CellsIn(Existing) = UNION {B(u) : u \in Existing}  BY DEF CellsIn, SchemaOf
    <2>7. CellsIn(Existing)' = UNION {A(u) : u \in Existing'}  BY <2>2
    <2> HIDE DEF A, B
    <2>8. UNION {A(u) : u \in Existing \cup {t}} = UNION {B(u) : u \in Existing}
      BY <2>4, <2>5
    <2> QED  BY <1>12, <2>6, <2>7, <2>8
  <1>15. Used(Existing)' = Used(Existing) /\ Used(Existing) \in Nat
    BY <1>3, <1>14, UsedType DEF Used
  <1>16. \A u \in Existing \ {t} :
            u \in Existing' /\ tables'[u] = tables[u] /\ SchemaOf(u)' = SchemaOf(u)
    BY <1>13 DEF SchemaOf
  <1>17. Len(heap') \in Nat /\ Len(heap) <= Len(heap')  BY <1>4, <1>6
  <1> HIDE DEF o, n
  <1>18. Len(heap) \in Nat  BY <1>4 DEF n
  <1> QED  BY <1>1, <1>5, <1>9, <1>10, <1>11, <1>15, <1>16, <1>17, <1>18, CatalogueStep

\* A dropped table takes its cells with it.
LEMMA DropTableKeeps ==
  ASSUME IInv, NEW c \in Clients, NEW t \in Tables, DropTable(c, t)
  PROVE  IInv'
  <1> DEFINE o == [NoOp EXCEPT !.kind = "drop", !.table = t]
  <1>1. /\ Serve(c, t, TRUE) /\ CatalogueFree /\ tables[t] # 0
        /\ heap' = heap /\ tables' = [tables EXCEPT ![t] = 0]
        /\ Spoil(c, t, o) /\ Goes(c, "append") /\ leftover' = leftover
    BY DEF DropTable
  <1>2. issued' \in 0..MaxRequests /\ conflicted' \in BOOLEAN  BY <1>1, ServeType
  <1>3. Typed /\ NamesApart /\ TablesOK  BY DEF IInv
  <1>4. Len(heap) \in Nat
    <2> DEFINE T == [schema : Schemas, rows : SUBSET Row]
    <2>1. heap \in Seq(T)  BY <1>3, SMTT(30) DEF Typed
    <2> HIDE DEF T
    <2> QED  BY <2>1
  <1>5. o \in Ops /\ o.todo = {}  BY DdlOp
  <1>6. tables \in [Tables -> 0..Len(heap)]  BY <1>3 DEF Typed
  <1>7. /\ tables' \in [Tables -> 0..Len(heap)] /\ tables'[t] = 0
        /\ \A u \in Tables \ {t} : tables'[u] = tables[u]
    BY <1>1, <1>4, <1>6
  <1>8. Typed'
    <2>1. pc' \in [Clients -> Places]
      <3>1. "append" \in Places  BY DEF Places
      <3> QED  BY <1>1, <3>1, ThreadType DEF Goes
    <2>2. op' \in [Clients -> Ops]
      <3>1. \A d \in Clients : [op[d] EXCEPT !.spoiled = TRUE] \in Ops  BY ThreadType, OpSpoiled
      <3>2. \A d \in Clients : op[d] \in Ops  BY ThreadType
      <3> HIDE DEF o
      <3> QED  BY <1>1, <1>5, <3>1, <3>2 DEF Spoil
    <2>3. leftover' \in BOOLEAN  BY <1>1, <1>3 DEF Typed
    <2> QED  BY <1>1, <1>2, <1>3, <1>7, <2>1, <2>2, <2>3 DEF Typed
  <1>9. NamesApart'  BY <1>3, <1>7 DEF NamesApart
  <1>10. TablesOK'  BY <1>1, <1>3 DEF TablesOK, TableOK, RowOK
  <1>11. Existing' = Existing \ {t}  BY <1>7 DEF Existing
  <1>12. \A u \in Existing \ {t} :
            u \in Existing' /\ tables'[u] = tables[u] /\ SchemaOf(u)' = SchemaOf(u)
    BY <1>1, <1>7, <1>11 DEF SchemaOf, Existing
  <1>13. CellsIn(Existing)' \subseteq CellsIn(Existing)
    <2> DEFINE A(u) == {u} \X (heap'[tables'[u]].rows \X DOMAIN heap'[tables'[u]].schema)
               B(u) == {u} \X (heap[tables[u]].rows \X DOMAIN heap[tables[u]].schema)
    <2>1. \A u \in Existing' : A(u) = B(u)  BY <1>1, <1>11, <1>12
    <2>2. CellsIn(Existing)' = UNION {A(u) : u \in Existing'}  BY DEF CellsIn, SchemaOf
    <2>3. CellsIn(Existing) = UNION {B(u) : u \in Existing}  BY DEF CellsIn, SchemaOf
    <2> HIDE DEF A, B
    <2> QED  BY <1>11, <2>1, <2>2, <2>3
  <1>14. /\ Used(Existing)' \in Nat /\ Used(Existing)' <= Used(Existing)
    <2>1. IsFiniteSet(CellsIn(Existing)) /\ Used(Existing) \in Nat  BY <1>3, UsedType
    <2>2. /\ IsFiniteSet(CellsIn(Existing)')
          /\ Cardinality(CellsIn(Existing)') <= Cardinality(CellsIn(Existing))
      BY <1>13, <2>1, FS_Subset
    <2>3. Cardinality(CellsIn(Existing)') \in Nat  BY <2>2, FS_CardinalityType
    <2> QED  BY <2>2, <2>3 DEF Used
  <1>15. Len(heap') \in Nat /\ Len(heap) <= Len(heap')  BY <1>1, <1>4
  <1> HIDE DEF o
  <1> QED  BY <1>1, <1>4, <1>5, <1>8, <1>9, <1>10, <1>12, <1>14, <1>15, CatalogueStep

-----------------------------------------------------------------------------
(* The insertion.                                                          *)

\* The rows that fit go in with the types of their columns, each value where it was
\* meant to be if nobody spoiled the request; what they add is room the thread had.
LEMMA InsertManyKeeps ==
  ASSUME IInv, NEW c \in Clients, InsertMany(c)
  PROVE  IInv'
  <1> DEFINE T == [schema : Schemas, rows : SUBSET Row]
             h == op[c].handle
             s == heap[h].schema
             m == Len(op[c].rows)
             rows == [n \in 1..m |-> [op[c].rows[n] EXCEPT !.spoiled = op[c].spoiled]]
             S == {n \in 0..Len(rows) : \A i \in 1..n : RowFits(rows[i].cells, s)}
             fitting == Max(S)
             new == {Stored(rows[n], s) : n \in 1..fitting}
             o == [op[c] EXCEPT !.rows = rows]
  <1>1. /\ pc[c] = "push" /\ heap' = [heap EXCEPT ![h].rows = @ \cup new]
        /\ tables' = tables /\ issued' = issued /\ conflicted' = conflicted
        /\ IF fitting = Len(rows)
           THEN Goes(c, "encode") /\ op' = [op EXCEPT ![c].rows = rows] /\ UNCHANGED leftover
           ELSE Finish(c) /\ leftover' = (leftover \/ fitting > 0)
    BY DEF InsertMany
  <1>2. Typed /\ NamesApart /\ TablesOK  BY DEF IInv
  <1>3. h \in 1..Len(heap) /\ (~op[c].spoiled => op[c].table \in Existing /\ h = tables[op[c].table])
    BY <1>1, ThreadType DEF ThreadOK, HandleOK, Inserting, InOrder
  <1>4. s \in Schemas /\ heap[h].rows \in SUBSET Row /\ IsFiniteSet(heap[h].rows)
    BY <1>2, <1>3, HeapType
  <1>5. m \in Nat  BY ThreadType
  <1>6. \A n \in 1..m :
          /\ rows[n] \in Row /\ rows[n].cells = op[c].rows[n].cells
          /\ ~rows[n].spoiled => MeantFor(rows[n].cells, ColumnNames(s))
    <2> SUFFICES ASSUME NEW n \in 1..m
                 PROVE  /\ rows[n] \in Row /\ rows[n].cells = op[c].rows[n].cells
                        /\ ~rows[n].spoiled => MeantFor(rows[n].cells, ColumnNames(s))
      OBVIOUS
    <2>1. rows[n] = [op[c].rows[n] EXCEPT !.spoiled = op[c].spoiled]  OBVIOUS
    <2>2. op[c].rows[n] \in Row /\ op[c].spoiled \in BOOLEAN  BY ThreadType DEF Ops
    <2>3. ~op[c].spoiled => MeantFor(op[c].rows[n].cells, ColumnNames(s))
      <3>1. ValuesMeant(pc[c], op[c])  BY ThreadType DEF ThreadOK
      <3>2. ~op[c].spoiled => s = SchemaOf(op[c].table)  BY <1>3 DEF SchemaOf
      <3>3. ~op[c].spoiled => MeantFor(op[c].rows[n].cells, ColumnNames(SchemaOf(op[c].table)))
        BY <1>1, <3>1 DEF ValuesMeant, InOrder
      <3> QED  BY <3>2, <3>3
    <2> HIDE DEF rows
    <2>4. rows[n] \in Row /\ rows[n].cells = op[c].rows[n].cells /\ rows[n].spoiled = op[c].spoiled
      BY <2>1, <2>2 DEF Row
    <2> QED  BY <2>3, <2>4
  <1>7. rows \in Seq(Row) /\ Len(rows) = m
    <2>1. rows = [n \in 1..m |-> rows[n]]  OBVIOUS
    <2>2. \A n \in 1..m : rows[n] \in Row  BY <1>6
    <2> HIDE DEF rows, m
    <2> QED  BY <1>5, <2>1, <2>2, SequenceOf
  <1>8. fitting \in 0..m /\ \A i \in 1..fitting : RowFits(rows[i].cells, s)
    <2>1. 0 \in S /\ S \in SUBSET (0..m)
      <3> HIDE DEF rows, m, s
      <3> QED  BY <1>5, <1>7
    <2>2. Max(S) \in S
      <3> HIDE DEF S, m
      <3> QED  BY <1>5, <2>1, MaxOf
    <2>3. \A n \in S : \A i \in 1..n : RowFits(rows[i].cells, s)
      <3> HIDE DEF rows, s
      <3> QED  OBVIOUS
    <2> HIDE DEF S, rows, s
    <2> QED  BY <2>1, <2>2, <2>3
  <1> HIDE DEF rows, S, fitting
  <1>9. \A n \in 1..fitting : /\ Stored(rows[n], s) \in Row /\ RowOK(Stored(rows[n], s), s)
                              /\ n \in 1..m
    <2> SUFFICES ASSUME NEW n \in 1..fitting
                 PROVE  /\ Stored(rows[n], s) \in Row /\ RowOK(Stored(rows[n], s), s)
                        /\ n \in 1..m
      OBVIOUS
    <2>1. n \in 1..m  BY <1>5, <1>8
    <2>2. RowFits(rows[n].cells, s)  BY <1>8
    <2> HIDE DEF m, s
    <2> QED  BY <1>4, <1>6, <2>1, <2>2, StoredRow
  <1>10. /\ new \in SUBSET Row /\ \A row \in new : RowOK(row, s)
         /\ IsFiniteSet(new) /\ Cardinality(new) \in Nat /\ Cardinality(new) <= fitting
    <2> DEFINE f == [n \in 1..fitting |-> Stored(rows[n], s)]
    <2>1. new = {f[n] : n \in 1..fitting}  OBVIOUS
    <2>2. fitting \in Nat  BY <1>5, <1>8
    <2>3. /\ IsFiniteSet({f[n] : n \in 1..fitting})
          /\ Cardinality({f[n] : n \in 1..fitting}) \in Nat
          /\ Cardinality({f[n] : n \in 1..fitting}) <= fitting
      <3>1. DOMAIN f = 1..fitting  OBVIOUS
      <3> HIDE DEF f
      <3> QED  BY <2>2, <3>1, ImageOfFirst
    <2>4. IsFiniteSet(new) /\ Cardinality(new) \in Nat /\ Cardinality(new) <= fitting
      <3> HIDE DEF new, f
      <3> QED  BY <2>1, <2>3
    <2>5. new \in SUBSET Row /\ \A row \in new : RowOK(row, s)
      <3> HIDE DEF s
      <3> QED  BY <1>9
    <2> QED  BY <2>4, <2>5
  <1>11. Cardinality(new) * Len(s) \in Nat /\ Cardinality(new) * Len(s) <= LargestInsert
    <2>1. Len(s) \in Nat  BY <1>4, SchemaType
    <2>2. CASE fitting = 0
      <3> DEFINE k == Cardinality(new)
                 l == Len(s)
      <3>1. k = 0 /\ l \in Nat
        <4> HIDE DEF new, l
        <4>1. l \in Nat  BY <2>1 DEF l
        <4>2. k = 0  BY <1>10, <2>2
        <4> QED  BY <4>1, <4>2
      <3> HIDE DEF k, l
      <3>2. k * l \in Nat /\ k * l <= LargestInsert  BY <3>1, Largest
      <3> QED  BY <3>2 DEF k, l
    <2>3. CASE fitting # 0
      <3>1. 1 \in 1..fitting /\ 1 \in 1..m  BY <1>5, <1>8, <2>3
      <3>2. Len(op[c].rows[1].cells) = Len(s)
        <4>1. RowFits(rows[1].cells, s) /\ rows[1].cells = op[c].rows[1].cells  BY <1>6, <1>8, <3>1
        <4> QED  BY <4>1 DEF RowFits
      <3>3. m * Len(s) <= LargestInsert
        <4>1. RequestBounded(pc[c], op[c])  BY ThreadType DEF ThreadOK
        <4>2. m * Len(op[c].rows[1].cells) <= LargestInsert
          BY <1>1, <3>1, <4>1 DEF RequestBounded, Inserting, InOrder
        <4> QED  BY <3>2, <4>2
      <3> DEFINE k == Cardinality(new)
                 l == Len(s)
      <3>4. k \in Nat /\ l \in Nat /\ m \in Nat /\ k <= m /\ m * l <= LargestInsert
        <4>1. k \in Nat /\ k <= fitting
          <5> HIDE DEF new
          <5> QED  BY <1>10
        <4>2. l \in Nat /\ m * l <= LargestInsert  BY <2>1, <3>3
        <4> HIDE DEF k, l, m
        <4>3. fitting \in 0..m /\ m \in Nat  BY <1>5, <1>8 DEF m
        <4> QED  BY <4>1, <4>2, <4>3
      <3> HIDE DEF k, l, m
      <3>5. k * l \in Nat /\ m * l \in Nat /\ k * l <= m * l  BY <3>4, TimesMonotone
      <3>6. k * l \in Nat /\ k * l <= LargestInsert  BY <3>4, <3>5, Largest
      <3> QED  BY <3>6 DEF k, l
    <2> QED  BY <2>2, <2>3
  <1> HIDE DEF new
  <1>12. /\ heap' \in Seq(T) /\ Len(heap') = Len(heap) /\ Len(heap) \in Nat
         /\ heap'[h].schema = s /\ heap'[h].rows = heap[h].rows \cup new
         /\ \A k \in 1..Len(heap) : /\ heap'[k].schema = heap[k].schema
                                    /\ k # h => heap'[k] = heap[k]
    <2>1. heap \in Seq(T)  BY <1>2 DEF Typed
    <2> DEFINE v == [heap[h] EXCEPT !.rows = @ \cup new]
    <2>2. heap' = [heap EXCEPT ![h] = v]
      <3> HIDE DEF T
      <3> QED  BY <1>1, <1>3, <2>1
    <2>3. heap[h] \in T  BY <1>2, <1>3, HeapType
    <2>4. v \in T /\ v.schema = s /\ v.rows = heap[h].rows \cup new
      <3>1. heap[h].rows \cup new \in SUBSET Row  BY <1>4, <1>10
      <3> QED  BY <2>3, <3>1
    <2> HIDE DEF T, v
    <2>5. heap' \in Seq(T) /\ Len(heap') = Len(heap) /\ Len(heap) \in Nat /\ heap'[h] = v
          /\ \A k \in 1..Len(heap) : k # h => heap'[k] = heap[k]
      BY <1>3, <2>1, <2>2, <2>4
    <2>6. \A k \in 1..Len(heap) : heap'[k].schema = heap[k].schema
      <3> SUFFICES ASSUME NEW k \in 1..Len(heap) PROVE heap'[k].schema = heap[k].schema
        OBVIOUS
      <3>1. CASE k = h  BY <2>4, <2>5, <3>1
      <3>2. CASE k # h  BY <2>5, <3>2
      <3> QED  BY <3>1, <3>2
    <2> QED  BY <2>4, <2>5, <2>6
  <1> HIDE DEF o, T
  <1>13. TablesOK'
    <2>1. \A k \in 1..Len(heap) : TableOK(heap'[k])
      <3> SUFFICES ASSUME NEW k \in 1..Len(heap) PROVE TableOK(heap'[k])  OBVIOUS
      <3>1. TableOK(heap[k])  BY <1>2 DEF TablesOK
      <3>2. CASE k # h
        <4>1. heap'[k] = heap[k]
          <5> HIDE DEF h, s
          <5> QED  BY <1>12, <3>2
        <4> QED  BY <3>1, <4>1
      <3>3. CASE k = h
        <4>1. IsFiniteSet(heap[h].rows \cup new)  BY <1>4, <1>10, FS_Union
        <4>2. \A row \in heap[h].rows \cup new : RowOK(row, s)
          BY <1>10, <3>1, <3>3 DEF TableOK
        <4>3. heap'[k].rows = heap[h].rows \cup new /\ heap'[k].schema = s  BY <1>12, <3>3
        <4> HIDE DEF s, h
        <4> QED  BY <4>1, <4>2, <4>3 DEF TableOK
      <3> QED  BY <3>2, <3>3
    <2> QED  BY <1>12, <2>1 DEF TablesOK, TableOK, RowOK
  <1>14. /\ Existing' = Existing
         /\ \A u \in Existing : /\ tables'[u] = tables[u] /\ tables[u] \in 1..Len(heap)
                                /\ SchemaOf(u)' = SchemaOf(u)
    <2>1. \A u \in Existing : tables[u] \in 1..Len(heap)  BY <1>2, ExistingHandle
    <2>2. Existing' = Existing  BY <1>1 DEF Existing
    <2>3. \A u \in Existing : heap'[tables'[u]].schema = heap[tables[u]].schema
      <3> HIDE DEF h, s
      <3> QED  BY <1>1, <1>12, <2>1
    <2> QED  BY <1>1, <2>1, <2>2, <2>3 DEF SchemaOf
  <1> DEFINE A(u) == {u} \X (heap'[tables'[u]].rows \X DOMAIN heap'[tables'[u]].schema)
             B(u) == {u} \X (heap[tables[u]].rows \X DOMAIN heap[tables[u]].schema)
  <1>15. /\ \A some : CellsIn(some) = UNION {B(u) : u \in some}
         /\ \A u \in Existing : /\ B(u) \subseteq A(u)
                                /\ tables[u] # h => A(u) = B(u)
                                /\ tables[u] = h => A(u) = B(u) \cup CellsOfTable(u, new, s)
    <2>1. \A some : CellsIn(some) = UNION {B(u) : u \in some}  BY DEF CellsIn, SchemaOf
    <2> SUFFICES ASSUME NEW u \in Existing
                 PROVE  /\ B(u) \subseteq A(u)
                        /\ tables[u] # h => A(u) = B(u)
                        /\ tables[u] = h => A(u) = B(u) \cup CellsOfTable(u, new, s)
      BY <2>1
    <2>2. tables'[u] = tables[u] /\ tables[u] \in 1..Len(heap)  BY <1>14
    <2>3. CASE tables[u] # h
      <3>1. heap'[tables'[u]] = heap[tables[u]]
        <4> HIDE DEF h, s
        <4> QED  BY <1>12, <2>2, <2>3
      <3> QED  BY <2>3, <3>1
    <2>4. CASE tables[u] = h
      <3>1. heap'[tables'[u]].rows = heap[tables[u]].rows \cup new  BY <1>12, <2>2, <2>4
      <3>2. heap'[tables'[u]].schema = s /\ heap[tables[u]].schema = s  BY <1>12, <2>2, <2>4
      <3> DEFINE D == DOMAIN s
                 R == heap[tables[u]].rows
      <3>3. A(u) = {u} \X ((R \cup new) \X D)  BY <3>1, <3>2
      <3>4. B(u) = {u} \X (R \X D)  BY <3>2
      <3>5. CellsOfTable(u, new, s) = {u} \X (new \X D)  BY DEF CellsOfTable
      <3> HIDE DEF A, B, D, R, s
      <3>6. A(u) = B(u) \cup CellsOfTable(u, new, s)  BY <3>3, <3>4, <3>5
      <3> QED  BY <2>4, <3>6
    <2> QED  BY <2>3, <2>4
  <1>16. PICK F : /\ IsFiniteSet(F) /\ Cardinality(F) \in Nat /\ Cardinality(F) <= LargestInsert
                  /\ \A u \in Existing : A(u) \subseteq B(u) \cup F
    <2>1. CASE \E t \in Existing : tables[t] = h
      <3>1. PICK t \in Existing : tables[t] = h  BY <2>1
      <3>2. /\ IsFiniteSet(CellsOfTable(t, new, s))
            /\ Cardinality(CellsOfTable(t, new, s)) \in Nat
            /\ Cardinality(CellsOfTable(t, new, s)) <= LargestInsert
        <4> HIDE DEF s
        <4> QED  BY <1>4, <1>10, <1>11, TableCells
      <3>3. \A u \in Existing : u # t => tables[u] # h
        BY <1>2, <1>3, <1>14, <3>1 DEF NamesApart, Existing
      <3> HIDE DEF A, B, h, s
      <3>4. \A u \in Existing : A(u) \subseteq B(u) \cup CellsOfTable(t, new, s)
        BY <1>15, <3>1, <3>3
      <3> QED  BY <3>2, <3>4
    <2>2. CASE ~ \E t \in Existing : tables[t] = h
      <3>1. IsFiniteSet({}) /\ Cardinality({}) = 0  BY FS_EmptySet
      <3> HIDE DEF A, B, h, s
      <3>2. \A u \in Existing : A(u) \subseteq B(u) \cup {}  BY <1>15, <2>2
      <3> QED  BY <3>1, <3>2, Largest
    <2> QED  BY <2>1, <2>2
  <1>17. ASSUME NEW some \in SUBSET Existing
         PROVE  /\ Used(some) \in Nat /\ Used(some)' \in Nat
                /\ Used(some) <= Used(some)'
                /\ Used(some)' <= Used(some) + LargestInsert
    <2> DEFINE X == CellsIn(some)
               Y == UNION {A(u) : u \in some}
    <2>1. CellsIn(some)' = Y  BY DEF CellsIn, SchemaOf
    <2>2. IsFiniteSet(X) /\ Cardinality(X) \in Nat  BY <1>2, UsedType DEF Used
    <2>3. X \subseteq Y /\ Y \subseteq X \cup F
      <3>1. X = UNION {B(u) : u \in some}  BY <1>15
      <3>2. \A u \in some : B(u) \subseteq A(u) /\ A(u) \subseteq B(u) \cup F  BY <1>15, <1>16
      <3> HIDE DEF A, B, X
      <3> QED  BY <3>1, <3>2
    <2> HIDE DEF X, Y
    <2>4. /\ IsFiniteSet(X \cup F)
          /\ Cardinality(X \cup F) = Cardinality(X) + Cardinality(F) - Cardinality(X \cap F)
      BY <1>16, <2>2, FS_Union
    <2>5. Cardinality(X \cap F) \in Nat
      <3>1. IsFiniteSet(X \cap F)  BY <2>2, FS_Intersection
      <3> QED  BY <3>1, FS_CardinalityType
    <2>6. IsFiniteSet(Y) /\ Cardinality(Y) <= Cardinality(X \cup F)  BY <2>3, <2>4, FS_Subset
    <2>7. Cardinality(Y) \in Nat /\ Cardinality(X) <= Cardinality(Y)
      BY <2>3, <2>6, FS_Subset, FS_CardinalityType
    <2>8. Cardinality(Y) <= Cardinality(X) + LargestInsert
      BY <1>16, <2>2, <2>4, <2>5, <2>6, <2>7, Largest
    <2>9. Used(some) = Cardinality(X) /\ Used(some)' = Cardinality(Y)  BY <2>1 DEF Used, X
    <2> QED  BY <2>2, <2>7, <2>8, <2>9
  <1> HIDE DEF A, B
  <1>18. /\ \/ pc'[c] = "encode" /\ op'[c] = o
            \/ pc'[c] = "idle" /\ op'[c] = NoOp
         /\ o \in Ops /\ o.todo = {}
         /\ \A d \in Clients \ {c} : pc'[d] = pc[d] /\ op'[d] = op[d]
         /\ pc' \in [Clients -> Places] /\ op' \in [Clients -> Ops] /\ leftover' \in BOOLEAN
    <2>1. pc \in [Clients -> Places] /\ op \in [Clients -> Ops] /\ leftover \in BOOLEAN
      BY ThreadType
    <2>2. o \in Ops /\ o.todo = {}
      <3>1. op[c] \in Ops /\ op[c].todo = {}  BY <1>1, ThreadType DEF ThreadOK, WalkOK
      <3> QED  BY <1>7, <3>1, OpWithRows DEF o
    <2>3. "encode" \in Places /\ "idle" \in Places /\ NoOp \in Ops  BY NoOpOK DEF Places
    <2>4. CASE fitting = Len(rows)
      <3>1. pc' = [pc EXCEPT ![c] = "encode"] /\ op' = [op EXCEPT ![c] = o] /\ leftover' = leftover
        BY <1>1, <2>4 DEF Goes, o
      <3> QED  BY <2>1, <2>2, <2>3, <3>1
    <2>5. CASE fitting # Len(rows)
      <3>1. pc' = [pc EXCEPT ![c] = "idle"] /\ op' = [op EXCEPT ![c] = NoOp]
            /\ leftover' = (leftover \/ fitting > 0)
        BY <1>1, <2>5 DEF Finish
      <3>2. leftover' \in BOOLEAN  BY <2>1, <3>1
      <3> QED  BY <2>1, <2>2, <2>3, <3>1, <3>2
    <2> QED  BY <2>4, <2>5
  <1>19. Typed'
    <2>1. tables' \in [Tables -> 0..Len(heap')]  BY <1>1, <1>2, <1>12 DEF Typed
    <2>2. issued' \in 0..MaxRequests /\ conflicted' \in BOOLEAN  BY <1>1, <1>2 DEF Typed
    <2> QED  BY <1>12, <1>18, <2>1, <2>2 DEF Typed, T
  <1>20. NamesApart'  BY <1>1, <1>2 DEF NamesApart
  <1>21. ThreadsOK'
    <2> SUFFICES ASSUME NEW d \in Clients
                 PROVE  /\ WalkOK(pc[d], op[d])' /\ HandleOK(pc[d], op[d])'
                        /\ ValuesMeant(pc[d], op[d])' /\ RequestBounded(pc[d], op[d])'
      BY DEF ThreadsOK, ThreadOK
    <2>1. CASE d = c
      <3>1. pc'[d] \in {"encode", "idle"} /\ op'[d].todo = {}
        BY <1>18, <2>1, NoOpOK DEF NoOp
      <3> QED
        BY <3>1 DEF WalkOK, HandleOK, ValuesMeant, RequestBounded, Inserting, InOrder
    <2>2. CASE d # c
      <3>1. /\ WalkOK(pc[d], op[d]) /\ HandleOK(pc[d], op[d])
            /\ ValuesMeant(pc[d], op[d]) /\ RequestBounded(pc[d], op[d])
        BY ThreadType DEF ThreadOK
      <3>2. pc'[d] = pc[d] /\ op'[d] = op[d]  BY <1>18, <2>2
      <3>3. WalkOK(pc[d], op[d])'  BY <1>14, <3>1, <3>2 DEF WalkOK
      <3>4. HandleOK(pc[d], op[d])'  BY <1>1, <1>12, <1>14, <3>1, <3>2 DEF HandleOK
      <3>5. ValuesMeant(pc[d], op[d])'
        <4>1. pc[d] \in InOrder /\ ~op[d].spoiled => op[d].table \in Existing
          BY <3>1 DEF HandleOK, Inserting
        <4>2. pc[d] \in InOrder /\ ~op[d].spoiled
                => heap'[tables'[op[d].table]].schema = SchemaOf(op[d].table)
          BY <1>14, <4>1 DEF SchemaOf
        <4>3. \A n \in 1..Len(op[d].rows) :
                /\ pc[d] = "reorder" => MeantFor(op[d].rows[n].cells, op[d].names)
                /\ pc[d] \in InOrder /\ ~op[d].spoiled
                     => MeantFor(op[d].rows[n].cells, ColumnNames(heap'[tables'[op[d].table]].schema))
          BY <3>1, <4>2 DEF ValuesMeant
        <4> QED  BY <3>2, <4>3 DEF ValuesMeant, SchemaOf
      <3>6. RequestBounded(pc[d], op[d])'  BY <3>1, <3>2 DEF RequestBounded
      <3> QED  BY <3>3, <3>4, <3>5, <3>6
    <2> QED  BY <2>1, <2>2
  <1>22. RoomLeft'
    <2>1. MayInsert' \in SUBSET MayInsert /\ c \in MayInsert /\ c \notin MayInsert'
      <3>1. c \in MayInsert  BY <1>1 DEF MayInsert, MayPass
      <3>2. c \notin MayInsert'  BY <1>18 DEF MayInsert, MayPass
      <3>3. ASSUME NEW d \in Clients, d # c, MayPass(pc[d], op[d])'
            PROVE  MayPass(pc[d], op[d])
        <4>1. pc'[d] = pc[d] /\ op'[d] = op[d]  BY <1>18, <3>3
        <4>2. CASE pc[d] \in {"lookup", "push"}  BY <4>2 DEF MayPass
        <4>3. CASE pc[d] \notin {"lookup", "push"}
          <5> DEFINE some == op[d].todo
                     u0 == Used(some)
                     u1 == Cardinality(CellsIn(some)')
          <5>1. pc[d] = "sum" /\ op[d].sum + u1 < Limit  BY <3>3, <4>1, <4>3 DEF MayPass, Used, CellsIn, SchemaOf
          <5>2. some \in SUBSET Existing /\ op[d].sum \in Nat
            BY ThreadType DEF ThreadOK, WalkOK, Ops
          <5>3. u0 \in Nat /\ u1 \in Nat /\ u0 <= u1
            <6>1. Used(some) \in Nat /\ Used(some)' \in Nat /\ Used(some) <= Used(some)'
              BY <1>17, <4>1, <5>2
            <6> QED  BY <4>1, <6>1 DEF Used, CellsIn, SchemaOf
          <5> HIDE DEF u0, u1
          <5>4. op[d].sum + u0 < Limit  BY <5>1, <5>2, <5>3, LimitAssumption
          <5> QED  BY <5>1, <5>4 DEF MayPass, u0
        <4> QED  BY <4>2, <4>3
      <3>4. MayInsert' = {d \in Clients : MayPass(pc[d], op[d])'}  BY DEF MayInsert
      <3> QED  BY <3>1, <3>2, <3>3, <3>4 DEF MayInsert
    <2>2. Used(Existing)' = Cardinality(CellsIn(Existing)')  BY DEF Used
    <2>3. /\ Used(Existing)' \in Nat /\ Used(Existing)' <= Used(Existing) + LargestInsert
      <3> DEFINE some == Existing
      <3>1. some \in SUBSET Existing /\ some = Existing /\ some' = Existing  BY <1>14
      <3> QED  BY <1>14, <1>17, <3>1
    <2>4. \E d \in MayInsert : d \notin MayInsert'  BY <2>1
    <2> QED  BY <2>1, <2>3, <2>4, RoomShrinks
  <1> QED  BY <1>13, <1>19, <1>20, <1>21, <1>22, SMTT(30) DEF IInv

-----------------------------------------------------------------------------
(* The theorems.                                                           *)

\* A server that starts has no tables, no requests and all the room there is.
LEMMA InitHolds ==
  ASSUME Init
  PROVE  IInv
  <1> DEFINE T == [schema : Schemas, rows : SUBSET Row]
  <1>1. /\ tables = [t \in Tables |-> 0] /\ heap = <<>>
        /\ pc = [c \in Clients |-> "idle"] /\ op = [c \in Clients |-> NoOp]
        /\ issued = 0 /\ conflicted = FALSE /\ leftover = FALSE
    BY DEF Init
  <1>2. heap \in Seq(T) /\ Len(heap) = 0
    <2> HIDE DEF T
    <2> QED  BY <1>1
  <1>3. Typed
    <2>1. pc \in [Clients -> Places]  BY <1>1 DEF Places
    <2>2. op \in [Clients -> Ops]  BY <1>1, NoOpOK
    <2>3. tables \in [Tables -> 0..Len(heap)]  BY <1>1, <1>2
    <2>4. issued \in 0..MaxRequests /\ conflicted \in BOOLEAN /\ leftover \in BOOLEAN
      <3>1. conflicted = FALSE /\ leftover = FALSE  BY DEF Init
      <3>2. conflicted \in BOOLEAN /\ leftover \in BOOLEAN  BY <3>1, Zenon
      <3>3. issued = 0  BY DEF Init
      <3>4. issued \in 0..MaxRequests  BY <3>3, LimitAssumption
      <3> QED  BY <3>2, <3>4
    <2>5. heap \in Seq([schema : Schemas, rows : SUBSET Row])  BY <1>2
    <2> QED  BY <2>1, <2>2, <2>3, <2>4, <2>5 DEF Typed
  <1>4. NamesApart  BY <1>1 DEF NamesApart
  <1>5. TablesOK  BY <1>2 DEF TablesOK
  <1>6. ThreadsOK  BY <1>1, NoOpOK DEF ThreadsOK
  <1>7. RoomLeft
    <2>1. Existing = {}  BY <1>1 DEF Existing
    <2>2. CellsIn(Existing) = {}  BY <2>1 DEF CellsIn
    <2>3. Used(Existing) = 0  BY <2>2, FS_EmptySet DEF Used
    <2>4. MayInsert = {}  BY <1>1 DEF MayInsert, MayPass
    <2>5. Cardinality(MayInsert) = 0  BY <2>4, FS_EmptySet
    <2>6. Cardinality(Clients) * LargestInsert \in Nat  BY MayInsertType
    <2> DEFINE all == Cardinality(Clients) * LargestInsert
    <2>7. all \in Nat  BY <2>6
    <2>8. Cardinality(MayInsert) * LargestInsert = 0  BY <2>5, Largest
    <2> HIDE DEF all
    <2>9. Limit # 0 => Used(Existing) + Cardinality(MayInsert) * LargestInsert <= (Limit - 1) + all
      BY <2>3, <2>7, <2>8, LimitAssumption
    <2> QED  BY <2>9 DEF RoomLeft, all
  <1> QED  BY <1>3, <1>4, <1>5, <1>6, <1>7 DEF IInv

\* What every thread knows, and the room below the limit, last through every step of
\* every request (run, run_mutation, create_table, drop_table, insert_inner, log).
LEMMA StepKeeps ==
  ASSUME IInv, [Next]_vars
  PROVE  IInv'
  <1>1. ASSUME NEW c \in Clients, NEW t \in Tables, NEW s \in Schemas, CreateTable(c, t, s)
        PROVE  IInv'
    BY <1>1, CreateTableKeeps
  <1>2. ASSUME NEW c \in Clients, NEW t \in Tables, DropTable(c, t)
        PROVE  IInv'
    BY <1>2, DropTableKeeps
  <1>3. ASSUME NEW c \in Clients, NEW t \in Tables, NEW i \in Inserts, PlanInsert(c, t, i)
        PROVE  IInv'
    BY <1>3, PlanInsertKeeps
  <1>4. ASSUME NEW c \in Clients, NEW t \in Tables, SumTable(c, t)
        PROVE  IInv'
    BY <1>4, SumTableKeeps
  <1>5. ASSUME NEW c \in Clients, Reorder(c)  PROVE IInv'  BY <1>5, ReorderKeeps
  <1>6. ASSUME NEW c \in Clients, BeginSum(c)  PROVE IInv'  BY <1>6, BeginSumKeeps
  <1>7. ASSUME NEW c \in Clients, CheckLimit(c)  PROVE IInv'  BY <1>7, CheckLimitKeeps
  <1>8. ASSUME NEW c \in Clients, LookupHandle(c)  PROVE IInv'  BY <1>8, LookupHandleKeeps
  <1>9. ASSUME NEW c \in Clients, InsertMany(c)  PROVE IInv'  BY <1>9, InsertManyKeeps
  <1>10. ASSUME NEW c \in Clients, Encode(c)  PROVE IInv'  BY <1>10, EncodeKeeps
  <1>11. ASSUME NEW c \in Clients, AppendWal(c)  PROVE IInv'  BY <1>11, AppendWalKeeps
  <1>13. ASSUME NEW c \in Clients, AppendFails(c)  PROVE IInv'  BY <1>13, AppendFailsKeeps
  <1>12. CASE UNCHANGED vars
    <2>1. /\ tables' = tables /\ heap' = heap /\ pc' = pc /\ op' = op /\ issued' = issued
          /\ conflicted' = conflicted /\ leftover' = leftover
      BY <1>12 DEF vars
    <2>2. PICK c \in Clients : TRUE  BY ClientsAssumption
    <2>3. Goes(c, pc[c])  BY <2>1, ThreadType DEF Goes
    <2>4. pc[c] \in Places /\ ThreadOK(pc[c], op[c])  BY ThreadType
    <2> QED  BY <2>1, <2>3, <2>4, Onward
  <1> QED
    BY <1>1, <1>2, <1>3, <1>4, <1>5, <1>6, <1>7, <1>8, <1>9, <1>10, <1>11, <1>12, <1>13
    DEF Next, Step, Rest

\* The inductive invariant holds throughout: every request on its way knows what it
\* must of its values, of its table and of the memory limit, however the threads of
\* the server interleave.
THEOREM RequestsInvariant == Spec => []IInv
  <1>1. Init => IInv  BY InitHolds
  <1>2. IInv /\ [Next]_vars => IInv'  BY StepKeeps
  <1> QED  BY <1>1, <1>2, PTL DEF Spec

\* Every row of every table has one value per column, of the column's type, whatever
\* the schemas its request was planned and reordered by (Table::insert).
THEOREM RequestTypes == Spec => []TypeOK
  <1>1. IInv => TypeOK
    <2> SUFFICES ASSUME IInv PROVE TypeOK  OBVIOUS
    <2>1. Typed /\ TablesOK  BY DEF IInv
    <2>2. ASSUME NEW h \in 1..Len(heap), NEW row \in heap[h].rows
          PROVE  /\ DOMAIN row.cells = DOMAIN heap[h].schema
                 /\ \A i \in DOMAIN row.cells : row.cells[i].type = heap[h].schema[i].type
      <3>1. heap[h].schema \in Schemas /\ row \in Row /\ RowOK(row, heap[h].schema)
        BY <2>1, HeapType
      <3>2. row.cells \in Seq(Cell)  BY <3>1 DEF Row
      <3> DEFINE s == heap[h].schema
                 cells == row.cells
      <3>3. s \in Seq(Columns) /\ cells \in Seq(Cell) /\ Len(cells) = Len(s)
        BY <3>1, <3>2, SchemaType DEF RowOK
      <3>4. \A i \in 1..Len(s) : cells[i].type = s[i].type  BY <3>1 DEF RowOK
      <3> HIDE DEF s, cells
      <3>5. DOMAIN cells = DOMAIN s /\ \A i \in DOMAIN cells : cells[i].type = s[i].type
        BY <3>3, <3>4
      <3> QED  BY <3>5 DEF s, cells
    <2>3. \A c \in Clients : op[c].kind \in {"none", "create", "drop", "insert"} /\ op[c].todo \subseteq Existing
      BY ThreadType DEF Ops, ThreadOK, WalkOK
    <2> QED  BY <2>1, <2>2, <2>3 DEF TypeOK, Typed, Places
  <1> QED  BY <1>1, RequestsInvariant, PTL

\* A value ends in the column its client meant it for, in whatever order the INSERT
\* names the columns, unless its table was dropped or created on the way.
THEOREM ColumnsKept == Spec => []NamedColumnsKept
  <1>1. IInv => NamedColumnsKept
    <2> SUFFICES ASSUME IInv, NEW t \in Existing, NEW row \in heap[tables[t]].rows, ~row.spoiled,
                        NEW i \in DOMAIN row.cells
                 PROVE  row.cells[i].meant = SchemaOf(t)[i].name
      BY DEF NamedColumnsKept
    <2>1. Typed /\ TablesOK  BY DEF IInv
    <2>2. tables[t] \in 1..Len(heap) /\ SchemaOf(t) \in Schemas /\ heap[tables[t]].schema = SchemaOf(t)
      BY SchemaOfType
    <2>3. row \in Row /\ RowOK(row, SchemaOf(t))  BY <2>1, <2>2, HeapType
    <2>4. row.cells \in Seq(Cell) /\ Len(row.cells) = Len(SchemaOf(t))
          /\ MeantFor(row.cells, ColumnNames(SchemaOf(t)))
      BY <2>3 DEF Row, RowOK
    <2>5. i \in 1..Len(row.cells)
      <3> DEFINE cells == row.cells
      <3>1. cells \in Seq(Cell) /\ i \in DOMAIN cells  BY <2>4
      <3> HIDE DEF cells
      <3>2. i \in 1..Len(cells)  BY <3>1
      <3> QED  BY <3>2 DEF cells
    <2>6. row.cells[i].meant = ColumnNames(SchemaOf(t))[i]  BY <2>4, <2>5 DEF MeantFor
    <2> QED  BY <2>2, <2>4, <2>5, <2>6, SchemaType
  <1> QED  BY <1>1, RequestsInvariant, PTL

\* All threads together pass the memory limit by no more than one INSERT each, although
\* each checks for itself and over tables that grow while it walks (db.rs's "stop on
\* approach").
THEOREM LimitHolds == Spec => []MemoryBounded
  <1>1. IInv => MemoryBounded
    <2> SUFFICES ASSUME IInv, Limit # 0
                 PROVE  Used(Existing) <= (Limit - 1) + Cardinality(Clients) * LargestInsert
      BY DEF MemoryBounded, Used
    <2> DEFINE all == Cardinality(Clients) * LargestInsert
               may == Cardinality(MayInsert) * LargestInsert
    <2>1. Used(Existing) + may <= (Limit - 1) + all  BY DEF IInv, RoomLeft
    <2>2. MayInsert \in SUBSET Clients  BY DEF MayInsert
    <2>3. may \in Nat /\ all \in Nat  BY <2>2, MayInsertType
    <2>4. Used(Existing) \in Nat /\ Limit \in Nat  BY UsedType, LimitAssumption DEF IInv
    <2> HIDE DEF may, all
    <2>5. Used(Existing) <= (Limit - 1) + all  BY <2>1, <2>3, <2>4
    <2> QED  BY <2>5 DEF all
  <1> QED  BY <1>1, RequestsInvariant, PTL


-----------------------------------------------------------------------------
(* Reading the log back.                                                   *)

\* What is built up to each of some records.
IsReplay(f, records) ==
    /\ DOMAIN f = 0..Len(records)
    /\ f[0] = [ok |-> TRUE, view |-> [t \in Tables |-> Absent]]
    /\ \A n \in 1..Len(records) : f[n] = Apply(f[n - 1], records[n])

\* A replay can be built record by record, and its last value is Replayed.
LEMMA ReplayExists ==
  ASSUME NEW X, NEW records \in Seq(X)
  PROVE  \E f : IsReplay(f, records) /\ Replayed(records) = f[Len(records)]
  <1> DEFINE base == [ok |-> TRUE, view |-> [t \in Tables |-> Absent]]
             Good(f, k) == /\ f = [i \in 0..k |-> f[i]] /\ f[0] = base
                           /\ \A n \in 1..k : f[n] = Apply(f[n - 1], records[n])
             S == {k \in Nat : \E f : Good(f, k)}
  <1>1. 0 \in S
    <2> DEFINE f == [i \in 0..0 |-> base]
    <2>1. f = [i \in 0..0 |-> f[i]] /\ f[0] = base /\ 1..0 = {}  OBVIOUS
    <2> HIDE DEF f, base
    <2> QED  BY <2>1
  <1>2. ASSUME NEW k \in Nat, k \in S PROVE k + 1 \in S
    <2>1. PICK f : Good(f, k)  BY <1>2
    <2> DEFINE g == [i \in 0..(k + 1) |-> IF i = k + 1 THEN Apply(f[k], records[k + 1]) ELSE f[i]]
    <2>2. g = [i \in 0..(k + 1) |-> g[i]] /\ g[k + 1] = Apply(f[k], records[k + 1])
          /\ \A i \in 0..k : g[i] = f[i]
      OBVIOUS
    <2> HIDE DEF g, base
    <2>3. ASSUME NEW n \in 1..(k + 1) PROVE g[n] = Apply(g[n - 1], records[n])
      <3>1. CASE n = k + 1
        <4>1. n - 1 = k /\ k \in 0..k  BY <3>1
        <4>2. g[n - 1] = f[k]  BY <2>2, <4>1, Zenon
        <4> QED  BY <2>2, <3>1, <4>2
      <3>2. CASE n \in 1..k
        <4>1. n - 1 \in 0..k /\ n \in 0..k  BY <3>2
        <4> QED  BY <2>1, <2>2, <3>2, <4>1
      <3> QED  BY <3>1, <3>2
    <2>4. Good(g, k + 1)  BY <2>1, <2>2, <2>3, SMTT(30)
    <2> HIDE DEF Good
    <2> QED  BY <2>4
  <1> HIDE DEF S
  <1>3. Nat \subseteq S  BY <1>1, <1>2, Induction
  <1> DEFINE n == Len(records)
  <1>4. n \in Nat  OBVIOUS
  <1>5. PICK f : Good(f, n)  BY <1>3, <1>4 DEF S
  <1> DEFINE F(h) == h = [i \in 0..n |-> IF i = 0 THEN base ELSE Apply(h[i - 1], records[i])]
  <1>6. F(f)
    <2>1. f = [i \in 0..n |-> f[i]] /\ f[0] = base
          /\ \A i \in 1..n : f[i] = Apply(f[i - 1], records[i])
      BY <1>5
    <2>2. \A i \in 0..n : f[i] = IF i = 0 THEN base ELSE Apply(f[i - 1], records[i])
      <3> HIDE DEF base, n
      <3> QED  BY <1>4, <2>1
    <2> HIDE DEF base, n
    <2> QED  BY <2>1, <2>2
  <1>7. F(CHOOSE h : F(h))
    <2> HIDE DEF F
    <2> QED  BY <1>6
  <1> DEFINE upTo == CHOOSE h : F(h)
  <1>8. Replayed(records) = upTo[n]  BY DEF Replayed
  <1> HIDE DEF upTo
  <1>9. IsReplay(upTo, records)
    <2>1. upTo = [i \in 0..n |-> IF i = 0 THEN base ELSE Apply(upTo[i - 1], records[i])]
      BY <1>7 DEF upTo
    <2>2. DOMAIN upTo = 0..n /\ upTo[0] = base
      <3> HIDE DEF base, n
      <3> QED  BY <1>4, <2>1
    <2>3. \A i \in 1..n : upTo[i] = Apply(upTo[i - 1], records[i])
      <3> HIDE DEF base, n
      <3> QED  BY <1>4, <2>1
    <2> QED  BY <2>2, <2>3 DEF IsReplay
  <1> QED  BY <1>8, <1>9

\* An empty log reads back as no tables.
LEMMA ReplayOfNothing ==
  Replayed(<<>>) = [ok |-> TRUE, view |-> [t \in Tables |-> Absent]]
  <1>1. <<>> \in Seq(Nat) /\ Len(<<>>) = 0  OBVIOUS
  <1>2. PICK f : IsReplay(f, <<>>) /\ Replayed(<<>>) = f[Len(<<>>)]  BY <1>1, ReplayExists
  <1> QED  BY <1>1, <1>2 DEF IsReplay

\* One more record in the log is one more change to what it reads back as.
LEMMA ReplayOfOneMore ==
  ASSUME NEW X, NEW records \in Seq(X), NEW record \in X
  PROVE  Replayed(Append(records, record)) = Apply(Replayed(records), record)
  <1> DEFINE n == Len(records)
             more == Append(records, record)
  <1>1. /\ n \in Nat /\ more \in Seq(X) /\ Len(more) = n + 1 /\ more[n + 1] = record
        /\ \A i \in 1..n : more[i] = records[i]
    OBVIOUS
  <1> HIDE DEF more
  <1>2. PICK f : IsReplay(f, records) /\ Replayed(records) = f[n]  BY ReplayExists
  <1>3. PICK g : IsReplay(g, more) /\ Replayed(more) = g[n + 1]  BY <1>1, ReplayExists
  <1>4. \A i \in 0..n : f[i] = g[i]
    <2>1. f[0] = g[0]  BY <1>2, <1>3 DEF IsReplay
    <2>2. ASSUME NEW i \in 1..n, f[i - 1] = g[i - 1] PROVE f[i] = g[i]
      <3>1. i \in 1..(n + 1) /\ more[i] = records[i]  BY <1>1
      <3>2. f[i] = Apply(f[i - 1], records[i])  BY <1>2 DEF IsReplay
      <3>3. g[i] = Apply(g[i - 1], more[i])  BY <1>1, <1>3, <3>1 DEF IsReplay
      <3> QED  BY <2>2, <3>1, <3>2, <3>3
    <2>3. Alike(n, f, g)  BY <2>1, <2>2 DEF Alike
    <2>4. n \in Nat  OBVIOUS
    <2> HIDE DEF n
    <2> QED  BY <2>3, <2>4, RecursionAgrees
  <1>5. g[n + 1] = Apply(g[n], record)
    <2>1. n + 1 \in 1..Len(more) /\ (n + 1) - 1 = n  BY <1>1
    <2> QED  BY <1>1, <1>3, <2>1 DEF IsReplay
  <1>6. f[n] = g[n]  BY <1>1, <1>4
  <1> QED  BY <1>2, <1>3, <1>5, <1>6 DEF more

\* Rows of one length stand one behind the other, each where its number says.
LEMMA FlatRows ==
  ASSUME NEW rows \in Seq(Row), NEW l \in Nat, \A n \in 1..Len(rows) : Len(rows[n].cells) = l
  PROVE  /\ Flat(rows) \in Seq(Cell) /\ Len(Flat(rows)) = Len(rows) * l
         /\ \A n \in 1..Len(rows), i \in 1..l : Flat(rows)[(n - 1) * l + i] = rows[n].cells[i]
  <1> DEFINE m == Len(rows)
             C == Seq(Cell)
             step == [k \in 1..m |-> [x \in C |-> x \o rows[k].cells]]
             F(h) == h = [k \in 0..m |-> IF k = 0 THEN <<>> ELSE h[k - 1] \o rows[k].cells]
             upTo == CHOOSE h : F(h)
  <1>1. m \in Nat /\ \A k \in 1..m : rows[k].cells \in C /\ Len(rows[k].cells) = l
    <2>1. \A k \in 1..m : rows[k] \in Row  OBVIOUS
    <2> QED  BY <2>1 DEF Row
  <1>2. Flat(rows) = upTo[m]  BY DEF Flat
  <1>3. \E h : F(h)
    <2>1. <<>> \in C  OBVIOUS
    <2>2. \A x \in C : \A k \in 1..m : step[k][x] = x \o rows[k].cells /\ step[k][x] \in C
      <3> SUFFICES ASSUME NEW x \in C, NEW k \in 1..m
                   PROVE  step[k][x] = x \o rows[k].cells /\ step[k][x] \in C
        OBVIOUS
      <3>1. step[k][x] = x \o rows[k].cells  OBVIOUS
      <3>2. x \o rows[k].cells \in C
        <4>1. rows[k].cells \in Seq(Cell) /\ x \in Seq(Cell)  BY <1>1
        <4> QED  BY <4>1
      <3> QED  BY <3>1, <3>2
    <2> HIDE DEF m, C, step
    <2>3. PICK h : h \in [0..m -> C] /\ Builds(h, m, <<>>, step)  BY <1>1, <2>1, <2>2, Recursion
    <2>4. \A k \in 1..m : h[k] = h[k - 1] \o rows[k].cells
      <3> SUFFICES ASSUME NEW k \in 1..m PROVE h[k] = h[k - 1] \o rows[k].cells  OBVIOUS
      <3>1. k - 1 \in 0..m  BY <1>1
      <3>2. h[k - 1] \in C  BY <2>3, <3>1
      <3> QED  BY <2>2, <2>3, <3>2 DEF Builds
    <2>5. h[0] = <<>>  BY <2>3 DEF Builds
    <2>6. \A k \in 0..m : h[k] = IF k = 0 THEN <<>> ELSE h[k - 1] \o rows[k].cells
      <3>1. \A k \in 0..m : k = 0 \/ k \in 1..m  BY <1>1
      <3>2. \A k \in 1..m : k # 0  BY <1>1
      <3> QED  BY <2>4, <2>5, <3>1, <3>2, Zenon
    <2>7. F(h)  BY <2>3, <2>6
    <2> QED  BY <2>7
  <1>4. F(upTo)
    <2> HIDE DEF F
    <2> QED  BY <1>3
  <1>5. /\ upTo[0] = <<>>
        /\ \A k \in 1..m : upTo[k] = upTo[k - 1] \o rows[k].cells
    <2> HIDE DEF upTo, m
    <2>1. m \in Nat  BY <1>1
    <2>2. upTo = [k \in 0..m |-> IF k = 0 THEN <<>> ELSE upTo[k - 1] \o rows[k].cells]
      BY <1>4
    <2>3. \A k \in 0..m : upTo[k] = IF k = 0 THEN <<>> ELSE upTo[k - 1] \o rows[k].cells
      BY <2>2, Zenon
    <2>4. 0 \in 0..m /\ \A k \in 1..m : k \in 0..m /\ k # 0  BY <2>1
    <2> QED  BY <2>3, <2>4, Zenon
  <1> DEFINE Good == {k \in Nat : k <= m =>
                         /\ upTo[k] \in C /\ Len(upTo[k]) = k * l
                         /\ \A n \in 1..k, i \in 1..l :
                               upTo[k][(n - 1) * l + i] = rows[n].cells[i]}
  <1> HIDE DEF upTo, F, m, C
  <1>6. 0 \in Good
    <2>1. <<>> \in C /\ Len(<<>>) = 0 /\ 1..0 = {} /\ 0 * l = 0  BY DEF C
    <2> QED  BY <1>5, <2>1
  <1>7. ASSUME NEW k \in Nat, k \in Good PROVE k + 1 \in Good
    <2> SUFFICES ASSUME k + 1 <= m
                 PROVE  /\ upTo[k + 1] \in C /\ Len(upTo[k + 1]) = (k + 1) * l
                        /\ \A n \in 1..(k + 1), i \in 1..l :
                              upTo[k + 1][(n - 1) * l + i] = rows[n].cells[i]
      OBVIOUS
    <2>1. k <= m /\ k + 1 \in 1..m /\ (k + 1) - 1 = k  BY <1>1
    <2> DEFINE a == upTo[k]
               b == rows[k + 1].cells
    <2>2. /\ a \in C /\ Len(a) = k * l
          /\ \A n \in 1..k, i \in 1..l : a[(n - 1) * l + i] = rows[n].cells[i]
      BY <1>7, <2>1
    <2>3. b \in C /\ Len(b) = l  BY <1>1, <2>1
    <2>4. upTo[k + 1] = a \o b  BY <1>5, <2>1
    <2> HIDE DEF a, Good
    <2>5. /\ a \o b \in C /\ Len(a \o b) = k * l + l
          /\ \A j \in 1..(k * l) : (a \o b)[j] = a[j]
          /\ \A j \in 1..l : (a \o b)[k * l + j] = b[j]
      <3> HIDE DEF b
      <3>1. a \in Seq(Cell) /\ b \in Seq(Cell) /\ Len(a) \in Nat /\ Len(b) \in Nat
        BY <2>2, <2>3 DEF C
      <3>2. /\ a \o b \in Seq(Cell) /\ Len(a \o b) = Len(a) + Len(b)
            /\ \A j \in 1..Len(a) : (a \o b)[j] = a[j]
            /\ \A j \in 1..Len(b) : (a \o b)[Len(a) + j] = b[j]
        BY <3>1
      <3> QED  BY <2>2, <2>3, <3>2 DEF C
    <2>6. (k + 1) * l = k * l + l  OBVIOUS
    <2>7. ASSUME NEW n \in 1..(k + 1), NEW i \in 1..l
          PROVE  (a \o b)[(n - 1) * l + i] = rows[n].cells[i]
      <3>1. CASE n = k + 1
        <4>1. (n - 1) * l = k * l  BY <3>1
        <4> QED  BY <2>5, <3>1, <4>1
      <3>2. CASE n \in 1..k
        <4>1. n - 1 \in Nat /\ n \in Nat /\ n <= k  BY <3>2
        <4>2. n * l \in Nat /\ k * l \in Nat /\ n * l <= k * l  BY <4>1, TimesMonotone
        <4>3. (n - 1) * l \in Nat /\ n * l = (n - 1) * l + l  BY <4>1
        <4>4. (n - 1) * l + i \in 1..(k * l)  BY <4>2, <4>3, SMTT(30)
        <4> QED  BY <2>2, <2>5, <3>2, <4>4
      <3>3. n = k + 1 \/ n \in 1..k  OBVIOUS
      <3> QED  BY <3>1, <3>2, <3>3, Zenon
    <2> QED  BY <2>4, <2>5, <2>6, <2>7, ZenonT(40)
  <1>8. m \in Good
    <2> HIDE DEF Good
    <2>1. \A k \in Nat : k \in Good  BY <1>6, <1>7, Induction
    <2> QED  BY <1>1, <2>1
  <1> QED  BY <1>1, <1>2, <1>8, SMTT(30) DEF m, C

\* Rows whose values have the types of the columns are read back as they were written.
LEMMA RowsDecoded ==
  ASSUME NEW s \in Schemas, NEW rows \in Seq(Row), \A n \in 1..Len(rows) : RowOK(rows[n], s)
  PROVE  Decodes(rows, s) /\ Decoded(rows, s) = {rows[n] : n \in 1..Len(rows)}
  <1> DEFINE l == Len(s)
             flat == Flat(rows)
  <1>1. l \in Nat /\ Len(rows) \in Nat  BY SchemaType
  <1>2. \A n \in 1..Len(rows) : Len(rows[n].cells) = l  BY DEF RowOK
  <1>3. /\ flat \in Seq(Cell) /\ Len(flat) = Len(rows) * l
        /\ \A n \in 1..Len(rows), i \in 1..l : flat[(n - 1) * l + i] = rows[n].cells[i]
    BY <1>1, <1>2, FlatRows
  <1>4. Decodes(rows, s)
    <2> DEFINE k == Len(rows) * l
    <2>1. k \in Nat  BY <1>1
    <2> HIDE DEF k
    <2>2. k <= k  BY <2>1
    <2> QED  BY <1>3, <2>2 DEF Decodes, k
  <1> DEFINE Read(n) == [i \in 1..l |-> ReadAs(flat[(n - 1) * l + i], s[i].type)]
  <1>5. ASSUME NEW n \in 1..Len(rows)
        PROVE  [rows[n] EXCEPT !.cells = Read(n)] = rows[n]
    <2>1. \A i \in 1..l : rows[n].cells[i].type = s[i].type  BY DEF RowOK
    <2>2. \A i \in 1..l : ReadAs(flat[(n - 1) * l + i], s[i].type) = rows[n].cells[i]
      BY <1>3, <2>1 DEF ReadAs
    <2>3. rows[n] \in Row /\ rows[n].cells \in Seq(Cell) /\ Len(rows[n].cells) = l
      <3>1. rows[n] \in Row  OBVIOUS
      <3> QED  BY <1>2, <3>1 DEF Row
    <2> DEFINE cells == rows[n].cells
    <2>4. cells = [i \in 1..l |-> cells[i]]
      <3>1. cells \in Seq(Cell) /\ Len(cells) = l  BY <2>3
      <3> HIDE DEF cells, l
      <3> QED  BY <3>1
    <2>5. Read(n) = cells  BY <2>2, <2>4
    <2> HIDE DEF Read, cells
    <2>6. [rows[n] EXCEPT !.cells = cells] = rows[n]
      <3> DEFINE C == Seq(Cell)
                 N == Nat \X Nat
      <3>1. rows[n] \in [of : N, spoiled : BOOLEAN, cells : C] /\ rows[n].cells = cells
        BY <2>3 DEF Row, cells
      <3> HIDE DEF C, N
      <3> QED  BY <3>1
    <2> QED  BY <2>5, <2>6
  <1>6. Decoded(rows, s) = {[rows[n] EXCEPT !.cells = Read(n)] : n \in 1..Len(rows)}
    BY DEF Decoded
  <1> HIDE DEF Read, l, flat
  <1> QED  BY <1>4, <1>5, <1>6

\* What a log that could be read says.
ReadStates == [ok : {TRUE}, view : [Tables -> ReadTables]]

\* One table of what was read has changed.
With(v, t, table) == [ok |-> TRUE, view |-> [v.view EXCEPT ![t] = table]]

\* An update of one table of it is that change.
LEMMA WithIs ==
  ASSUME NEW v \in ReadStates, NEW t, NEW table
  PROVE  [v EXCEPT !.view[t] = table] = With(v, t, table)
  <1> DEFINE w == v.view
             V == [Tables -> ReadTables]
             x == [w EXCEPT ![t] = table]
  <1>1. v \in [ok : {TRUE}, view : V]  BY DEF ReadStates
  <1> HIDE DEF w, V, x
  <1>2. v.ok = TRUE  BY <1>1
  <1>3. [v EXCEPT !.view = x] = [ok |-> v.ok, view |-> x]  BY <1>1
  <1>4. [v EXCEPT !.view = x] = [ok |-> TRUE, view |-> x]  BY <1>2, <1>3, Zenon
  <1> QED  BY <1>4 DEF With, w, x

\* The changed table is what it was changed to, and the others are what they were.
LEMMA WithTable ==
  ASSUME NEW v \in ReadStates, NEW t \in Tables, NEW table \in ReadTables
  PROVE  /\ With(v, t, table) \in ReadStates
         /\ With(v, t, table).view[t] = table
         /\ \A u \in Tables \ {t} : With(v, t, table).view[u] = v.view[u]
  BY DEF With, ReadStates

\* apply makes one change to one table, when it can.
LEMMA Applied ==
  ASSUME NEW v \in ReadStates, NEW r \in Records, NEW table \in ReadTables,
         \/ r.kind = "create" /\ table = [schema |-> r.schema, rows |-> {}]
         \/ r.kind = "drop" /\ table = Absent
         \/ /\ r.kind = "insert" /\ v.view[r.table].schema \in Schemas
            /\ \A n \in 1..Len(r.rows) : RowOK(r.rows[n], v.view[r.table].schema)
            /\ table = [schema |-> v.view[r.table].schema,
                        rows |-> v.view[r.table].rows \cup {r.rows[n] : n \in 1..Len(r.rows)}]
  PROVE  Apply(v, r) = With(v, r.table, table)
  <1> DEFINE t == r.table
             R == SUBSET Row
             S == Schemas \cup {<<>>}
             before == v.view[t]
  <1>1. t \in Tables /\ r.rows \in Seq(Row)  BY DEF Records
  <1>2. v = [ok |-> TRUE, view |-> v.view] /\ v.ok = TRUE /\ v.view \in [Tables -> ReadTables]
    BY DEF ReadStates
  <1>3. before \in [schema : S, rows : R]  BY <1>1, <1>2 DEF ReadTables
  <1>4. before = [schema |-> before.schema, rows |-> before.rows]
    <2> HIDE DEF before, S, R
    <2> QED  BY <1>3
  <1>5. CASE r.kind = "create"
    <2>1. Apply(v, r) = [v EXCEPT !.view[t] = table]  BY <1>2, <1>5 DEF Apply
    <2>2. [v EXCEPT !.view[t] = table] = With(v, t, table)  BY WithIs
    <2> QED  BY <2>1, <2>2
  <1>6. CASE r.kind = "drop"
    <2>1. Apply(v, r) = [v EXCEPT !.view[t] = table]  BY <1>2, <1>6 DEF Apply
    <2>2. [v EXCEPT !.view[t] = table] = With(v, t, table)  BY WithIs
    <2> QED  BY <2>1, <2>2
  <1>7. CASE r.kind = "insert"
    <2> DEFINE s == before.schema
               new == {r.rows[n] : n \in 1..Len(r.rows)}
    <2>1. s \in Schemas /\ s # <<>> /\ \A n \in 1..Len(r.rows) : RowOK(r.rows[n], s)
      BY <1>7, SchemasAssumption
    <2>2. Decodes(r.rows, s) /\ Decoded(r.rows, s) = new
      <3> HIDE DEF s
      <3> QED  BY <1>1, <2>1, RowsDecoded
    <2>3. Apply(v, r) = [v EXCEPT !.view[t].rows = @ \cup new]  BY <1>2, <1>7, <2>1, <2>2 DEF Apply
    <2>4. table = [schema |-> s, rows |-> before.rows \cup new]  BY <1>7
    <2>5. [before EXCEPT !.rows = @ \cup new] = table
      <3> DEFINE all == before.rows \cup new
      <3>1. table = [schema |-> before.schema, rows |-> all]  BY <2>4
      <3>2. [before EXCEPT !.rows = all] = [schema |-> before.schema, rows |-> all]
        <4> HIDE DEF before, all, S, R
        <4> QED  BY <1>3
      <3> QED  BY <3>1, <3>2
    <2>6. [v EXCEPT !.view[t].rows = @ \cup new] = [v EXCEPT !.view[t] = [before EXCEPT !.rows = @ \cup new]]
      BY <1>1, <1>2
    <2>7. [v EXCEPT !.view[t] = table] = With(v, t, table)  BY WithIs
    <2> QED  BY <2>3, <2>5, <2>6, <2>7
  <1> QED  BY <1>5, <1>6, <1>7

-----------------------------------------------------------------------------
(* Steps of an INSERT.                                                     *)

\* A thread takes a step and leaves the tables of the others' INSERTs alone: what all
\* of them know is still true.
LEMMA ThreadsUndisturbed ==
  ASSUME IInv, Undisturbed, NEW c \in Clients, NEW place \in Places, NEW o \in Ops,
         pc' = [pc EXCEPT ![c] = place], op' = [op EXCEPT ![c] = o],
         place # "idle" =>
            /\ o.kind \in {"create", "drop", "insert"} /\ (o.kind # "insert" => place = "append")
            /\ o.kind = "insert" => o.table \in Existing' /\ ~o.spoiled
            /\ \A d \in Clients \ {c} : pc[d] # "idle" /\ op[d].table = o.table
                                           => o.kind = "insert" /\ op[d].kind = "insert",
         place \in Inserting => Widened(o) /\ heap'[tables'[o.table]].schema = SchemaOf(o.table),
         \A d \in Clients \ {c} : pc[d] # "idle" /\ op[d].kind = "insert"
            => /\ op[d].table \in Existing'
               /\ heap'[tables'[op[d].table]].schema = SchemaOf(op[d].table)
  PROVE  KindsPlaced' /\ RequestsApart' /\ InsertsUnspoiled' /\ NoneNarrowed'
  <1>1. /\ pc'[c] = place /\ op'[c] = o
        /\ \A d \in Clients \ {c} : pc'[d] = pc[d] /\ op'[d] = op[d]
    BY ThreadType
  <1>2. KindsPlaced'
    <2> SUFFICES ASSUME NEW d \in Clients, pc'[d] # "idle"
                 PROVE  /\ op'[d].kind \in {"create", "drop", "insert"}
                        /\ op'[d].kind # "insert" => pc'[d] = "append"
      BY DEF KindsPlaced
    <2> QED  BY <1>1 DEF Undisturbed, KindsPlaced
  <1>3. RequestsApart'
    <2> SUFFICES ASSUME NEW d \in Clients, NEW e \in Clients, d # e,
                        pc'[d] # "idle", pc'[e] # "idle", op'[d].table = op'[e].table
                 PROVE  op'[d].kind = "insert" /\ op'[e].kind = "insert"
      BY DEF RequestsApart
    <2> QED  BY <1>1 DEF Undisturbed, RequestsApart
  <1>4. InsertsUnspoiled'
    <2> SUFFICES ASSUME NEW d \in Clients, pc'[d] # "idle", op'[d].kind = "insert"
                 PROVE  op'[d].table \in Existing' /\ ~op'[d].spoiled
      BY DEF InsertsUnspoiled
    <2> QED  BY <1>1 DEF Undisturbed, InsertsUnspoiled
  <1>5. NoneNarrowed'
    <2> SUFFICES ASSUME NEW d \in Clients, pc'[d] \in Inserting
                 PROVE  Widened(op[d])'
      BY DEF NoneNarrowed
    <2>1. Widened(op'[d])  BY <1>1 DEF Undisturbed, NoneNarrowed
    <2>2. SchemaOf(op'[d].table) = heap'[tables'[op'[d].table]].schema
      <3>1. pc'[d] # "idle" /\ pc'[d] # "append"  BY DEF Inserting, InOrder
      <3>2. op'[d].kind = "insert"  BY <1>2, <3>1 DEF KindsPlaced
      <3> QED  BY <1>1, <3>1, <3>2
    <2> DEFINE x == op'[d]
               W(s) == \A n \in 1..Len(x.rows) :
                         \A i \in 1..Len(x.rows[n].cells), k \in 1..Len(s) :
                            x.rows[n].cells[i].meant = s[k].name
                            => ~(x.rows[n].cells[i].type = "int" /\ s[k].type = "float")
    <2>3. Widened(op'[d]) <=> W(SchemaOf(x.table))  BY DEF Widened
    <2>4. Widened(op[d])' <=> W(heap'[tables'[x.table]].schema)  BY DEF Widened, SchemaOf
    <2> HIDE DEF W
    <2> QED  BY <2>1, <2>2, <2>3, <2>4
  <1> QED  BY <1>2, <1>3, <1>4, <1>5

\* A thread takes a step of an INSERT: what it knows is still true, and the log reads
\* as before.
LEMMA InsertStep ==
  ASSUME IInv, Undisturbed, tables' = tables, log' = log,
         \A u \in Existing : SchemaOf(u)' = SchemaOf(u),
         NEW c \in Clients, NEW place \in Places, NEW o \in Ops,
         pc' = [pc EXCEPT ![c] = place], op' = [op EXCEPT ![c] = o],
         pc[c] = "idle" \/ op[c].kind = "insert",
         place # "idle" =>
            /\ o.kind = "insert" /\ o.table \in Existing /\ ~o.spoiled
            /\ \A d \in Clients \ {c} : pc[d] # "idle" /\ op[d].table = o.table => op[d].kind = "insert",
         place \in Inserting => Widened(o),
         \A t \in Tables : OnlyInserts(t) /\ ReadAsIs(t) => ReadAsIs(t)',
         \A d \in Clients \ {c} :
            pc[d] # "idle" /\ op[d].kind = "create" /\ CreateUnlogged(d) => CreateUnlogged(d)'
  PROVE  Undisturbed'
  <1>1. /\ pc'[c] = place /\ op'[c] = o
        /\ \A d \in Clients \ {c} : pc'[d] = pc[d] /\ op'[d] = op[d]
    BY ThreadType
  <1>2. Existing' = Existing  BY DEF Existing
  <1>3. KindsPlaced' /\ RequestsApart' /\ InsertsUnspoiled' /\ NoneNarrowed'
    <2>1. \A u \in Existing : u \in Existing' /\ heap'[tables'[u]].schema = SchemaOf(u)
      BY <1>2 DEF SchemaOf
    <2>2. \A d \in Clients \ {c} : pc[d] # "idle" /\ op[d].kind = "insert"
            => /\ op[d].table \in Existing'
               /\ heap'[tables'[op[d].table]].schema = SchemaOf(op[d].table)
      BY <2>1 DEF Undisturbed, InsertsUnspoiled
    <2>3. place # "idle" =>
            /\ o.kind \in {"create", "drop", "insert"} /\ (o.kind # "insert" => place = "append")
            /\ o.kind = "insert" => o.table \in Existing' /\ ~o.spoiled
            /\ \A d \in Clients \ {c} : pc[d] # "idle" /\ op[d].table = o.table
                                           => o.kind = "insert" /\ op[d].kind = "insert"
      BY <1>2
    <2>4. place \in Inserting => Widened(o) /\ heap'[tables'[o.table]].schema = SchemaOf(o.table)
      BY <2>1 DEF Inserting, InOrder
    <2> QED  BY <2>2, <2>3, <2>4, ThreadsUndisturbed
  <1>4. LogReads'
    <2>1. Recovered' = Recovered  BY DEF Recovered
    <2>2. \A t \in Tables : OnlyInserts(t)' => OnlyInserts(t)  BY <1>1 DEF OnlyInserts
    <2>3. ASSUME NEW d \in Clients, pc'[d] # "idle"
          PROVE  /\ op'[d].kind = "create" => CreateUnlogged(d)'
                 /\ op'[d].kind = "drop" => op'[d].table \notin Existing'
      <3>1. CASE d = c  BY <1>1, <2>3, <3>1
      <3>2. CASE d # c  BY <1>1, <1>2, <2>3, <3>2 DEF Undisturbed, LogReads
      <3> QED  BY <3>1, <3>2
    <2>4. \A t \in Tables : OnlyInserts(t)' => ReadAsIs(t)'
      BY <2>2 DEF Undisturbed, LogReads
    <2>5. log' \in Seq(Records) /\ Recovered' \in [ok : {TRUE}, view : [Tables -> ReadTables]]
      BY <2>1 DEF Undisturbed, LogReads
    <2> QED  BY <2>3, <2>4, <2>5 DEF LogReads
  <1> QED  BY <1>3, <1>4 DEF Undisturbed

\* The same when the thread has put nothing into its table.
LEMMA ThinkingStep ==
  ASSUME IInv, Undisturbed, tables' = tables, heap' = heap, log' = log,
         NEW c \in Clients, NEW place \in Places, NEW o \in Ops,
         pc' = [pc EXCEPT ![c] = place], op' = [op EXCEPT ![c] = o],
         pc[c] = "idle" \/ op[c].kind = "insert",
         place # "idle" =>
            /\ o.kind = "insert" /\ o.table \in Existing /\ ~o.spoiled
            /\ \A d \in Clients \ {c} : pc[d] # "idle" /\ op[d].table = o.table => op[d].kind = "insert",
         place \in Inserting => Widened(o),
         \/ pc[c] \notin {"encode", "append"} /\ place \notin {"encode", "append"}
         \/ pc[c] \in {"encode", "append"} /\ place \in {"encode", "append"} /\ o = op[c]
  PROVE  Undisturbed'
  <1>1. \A u \in Existing : SchemaOf(u)' = SchemaOf(u)  BY DEF SchemaOf
  <1>2. Existing' = Existing  BY DEF Existing
  <1>3. /\ pc'[c] = place /\ op'[c] = o
        /\ \A d \in Clients \ {c} : pc'[d] = pc[d] /\ op'[d] = op[d]
    BY ThreadType
  <1>4. Recovered' = Recovered  BY DEF Recovered
  <1>5. ASSUME NEW t PROVE Unlogged(t)' = Unlogged(t)
    <2>1. {d \in Clients : pc'[d] \in {"encode", "append"} /\ op'[d].kind = "insert" /\ op'[d].table = t}
            = {d \in Clients : pc[d] \in {"encode", "append"} /\ op[d].kind = "insert" /\ op[d].table = t}
      BY <1>3
    <2>2. \A d \in Clients : pc[d] \in {"encode", "append"} => op'[d] = op[d]  BY <1>3
    <2> QED  BY <2>1, <2>2 DEF Unlogged
  <1>6. \A t \in Tables : ReadAsIs(t) => ReadAsIs(t)'
    BY <1>1, <1>2, <1>4, <1>5 DEF ReadAsIs
  <1>7. \A d \in Clients \ {c} : CreateUnlogged(d) => CreateUnlogged(d)'
    BY <1>2, <1>3, <1>4 DEF CreateUnlogged
  <1> QED  BY <1>1, <1>6, <1>7, InsertStep

\* It stays a request of the same kind, on the same table, as much or as little spoiled.
LEMMA SameRequest ==
  ASSUME NEW o \in Ops, NEW n,
         \/ \E rows : n = [o EXCEPT !.rows = rows]
         \/ \E todo, sum : n = [o EXCEPT !.todo = todo, !.sum = sum]
         \/ \E sum : n = [o EXCEPT !.sum = sum]
         \/ \E handle : n = [o EXCEPT !.handle = handle]
  PROVE  n.kind = o.kind /\ n.table = o.table /\ n.spoiled = o.spoiled
  <1> DEFINE R == Seq(Row)
             N == Seq(Names)
             T == SUBSET Tables
             K == {"none", "create", "drop", "insert"}
  <1>1. o \in [kind : K, table : Tables, names : N, rows : R, handle : Nat, todo : T,
               sum : Nat, number : Nat, spoiled : BOOLEAN]
    BY DEF Ops
  <1> HIDE DEF R, N, T, K
  <1>2. ASSUME NEW rows, n = [o EXCEPT !.rows = rows]
        PROVE  n.kind = o.kind /\ n.table = o.table /\ n.spoiled = o.spoiled
    BY <1>1, <1>2
  <1>3. ASSUME NEW todo, NEW sum, n = [o EXCEPT !.todo = todo, !.sum = sum]
        PROVE  n.kind = o.kind /\ n.table = o.table /\ n.spoiled = o.spoiled
    BY <1>1, <1>3
  <1>4. ASSUME NEW sum, n = [o EXCEPT !.sum = sum]
        PROVE  n.kind = o.kind /\ n.table = o.table /\ n.spoiled = o.spoiled
    BY <1>1, <1>4
  <1>5. ASSUME NEW handle, n = [o EXCEPT !.handle = handle]
        PROVE  n.kind = o.kind /\ n.table = o.table /\ n.spoiled = o.spoiled
    BY <1>1, <1>5
  <1> QED  BY <1>2, <1>3, <1>4, <1>5

\* Where a thread of an INSERT may go on in a table nobody disturbs.
LEMMA InsertGoesOn ==
  ASSUME IInv, Undisturbed, NEW c \in Clients, pc[c] # "idle", op[c].kind = "insert",
         NEW o, o.kind = op[c].kind, o.table = op[c].table, o.spoiled = op[c].spoiled
  PROVE  /\ o.kind = "insert" /\ o.table \in Existing /\ ~o.spoiled
         /\ \A d \in Clients \ {c} : pc[d] # "idle" /\ op[d].table = o.table => op[d].kind = "insert"
  <1>1. op[c].table \in Existing /\ ~op[c].spoiled  BY DEF Undisturbed, InsertsUnspoiled
  <1>2. o.spoiled = op[c].spoiled /\ ~op[c].spoiled => ~o.spoiled  OBVIOUS
  <1>3. \A d \in Clients \ {c} : pc[d] # "idle" /\ op[d].table = o.table => op[d].kind = "insert"
    BY DEF Undisturbed, RequestsApart
  <1> QED  BY <1>1, <1>2, <1>3

\* A thread before the insertion serves an INSERT.
LEMMA InsertingKind ==
  ASSUME Undisturbed, NEW c \in Clients, pc[c] \in Inserting \cup {"encode"}
  PROVE  pc[c] # "idle" /\ op[c].kind = "insert"
  BY DEF Undisturbed, KindsPlaced, Inserting, InOrder

\* A request that fails before the insertion leaves everything as it was.
LEMMA FailsUndisturbed ==
  ASSUME IInv, Undisturbed, tables' = tables, heap' = heap, log' = log,
         NEW c \in Clients, pc[c] \in Inserting, Finish(c)
  PROVE  Undisturbed'
  <1>1. pc' = [pc EXCEPT ![c] = "idle"] /\ op' = [op EXCEPT ![c] = NoOp]  BY DEF Finish
  <1>2. "idle" \in Places /\ NoOp \in Ops /\ op[c].kind = "insert"
    BY NoOpOK, InsertingKind DEF Places
  <1>3. "idle" \notin Inserting /\ pc[c] \notin {"encode", "append"}  BY DEF Inserting, InOrder
  <1> QED  BY <1>1, <1>2, <1>3, ThinkingStep

\* The values planned for a column of floats are floats.
LEMMA PlannedWidened ==
  ASSUME NEW insert \in Inserts, NEW s \in Schemas, Planned(insert, s), NEW number \in Nat,
         NEW rows, rows = CellsOf(insert, s, number),
         NEW n \in 1..Len(rows), NEW i \in 1..Len(rows[n].cells), NEW k \in 1..Len(s),
         rows[n].cells[i].meant = s[k].name
  PROVE  ~(rows[n].cells[i].type = "int" /\ s[k].type = "float")
  <1> DEFINE targets == Targets(insert, s)
             type(m, j) == IF insert.via = "sql" THEN Literal(insert.rows[m][j], targets[j].type)
                           ELSE ApiValue(insert.rows[m][j], targets[j].type)
             CellsAt(m) == [j \in 1..Len(targets) |-> [meant |-> targets[j].name, type |-> type(m, j)]]
  <1>1. insert.rows \in Seq(Seq({"whole", "real"})) /\ Len(insert.rows) \in Nat
    BY InsertType, SMTT(30)
  <1>2. Len(targets) \in Nat  BY TargetsOf, SchemaType, InsertType
  <1>3. Len(rows) = Len(insert.rows)
    <2>1. rows = [m \in 1..Len(insert.rows) |->
                     [of |-> <<number, m>>, spoiled |-> FALSE, cells |-> CellsAt(m)]]
      BY Zenon DEF CellsOf
    <2> HIDE DEF targets, type, CellsAt
    <2> QED  BY <1>1, <2>1
  <1>4. rows[n].cells = CellsAt(n)
    <2> HIDE DEF CellsAt, targets, type
    <2>1. n \in 1..Len(insert.rows)  BY <1>3
    <2>2. rows[n] = [of |-> <<number, n>>, spoiled |-> FALSE, cells |-> CellsAt(n)]
      BY <2>1, Zenon DEF CellsOf, CellsAt, targets, type
    <2> QED  BY <2>2
  <1>5. i \in 1..Len(targets)
    <2> HIDE DEF targets, type
    <2>1. Len(CellsAt(n)) = Len(targets)  BY <1>2
    <2> QED  BY <1>4, <2>1
  <1>6. rows[n].cells[i].meant = targets[i].name /\ rows[n].cells[i].type = type(n, i)
    <2>1. CellsAt(n)[i] = [meant |-> targets[i].name, type |-> type(n, i)]  BY <1>5
    <2> HIDE DEF CellsAt, targets, type
    <2> QED  BY <1>4, <2>1
  <1>7. \E j \in 1..Len(s) : targets[i] = s[j]
    <2>1. CASE insert.names = <<>>
      <3>1. targets = s  BY <2>1 DEF Targets
      <3> QED  BY <1>5, <3>1
    <2>2. CASE insert.names # <<>>
      <3>1. targets = [j \in 1..Len(insert.names) |-> s[IndexOf(s, insert.names[j])]]
        BY <2>2 DEF Targets
      <3>2. i \in 1..Len(insert.names)  BY <1>5, <2>2, TargetsOf
      <3>3. Has(s, insert.names[i])  BY <3>2 DEF Planned
      <3>4. IndexOf(s, insert.names[i]) \in 1..Len(s)  BY <3>3 DEF Has, IndexOf
      <3> HIDE DEF targets
      <3> QED  BY <3>1, <3>2, <3>4
    <2> QED  BY <2>1, <2>2
  <1>8. targets[i] = s[k]
    <2> HIDE DEF targets
    <2>1. PICK j \in 1..Len(s) : targets[i] = s[j]  BY <1>7
    <2>2. s[j].name = s[k].name  BY <1>6, <2>1
    <2>3. j = k  BY <2>2, SchemaType
    <2> QED  BY <2>1, <2>3
  <1>9. s[k].type = "float" => type(n, i) # "int"
    <2> HIDE DEF targets
    <2> QED  BY <1>8 DEF Literal, ApiValue
  <1> QED  BY <1>6, <1>9

\* What serving a request rules out while nothing has conflicted.
LEMMA ServedAlone ==
  ASSUME NEW c, NEW t, NEW ddl \in BOOLEAN, Serve(c, t, ddl), ~conflicted'
  PROVE  /\ pc[c] = "idle" /\ ~conflicted
         /\ \A d \in Clients : pc[d] # "idle" /\ op[d].table = t => ~ddl /\ op[d].kind = "insert"
  <1> DEFINE P == \E d \in Clients : /\ pc[d] # "idle" /\ op[d].table = t
                                     /\ ddl \/ op[d].kind # "insert"
  <1>1. conflicted' = (conflicted \/ P) /\ pc[c] = "idle"  BY Zenon DEF Serve
  <1>2. ~conflicted /\ ~P
    <2> HIDE DEF P
    <2> QED  BY <1>1, Zenon
  <1> QED  BY <1>1, <1>2

\* A planned INSERT has its values as wide as their columns, and no conflict to fear.
LEMMA PlanInsertUndisturbed ==
  ASSUME IInv, Undisturbed, NEW c \in Clients, NEW t \in Tables, NEW i \in Inserts,
         PlanInsert(c, t, i), ~conflicted'
  PROVE  Undisturbed'
  <1> DEFINE rows == CellsOf(i, SchemaOf(t), issued + 1)
             o == Asks(t, i.names, rows, issued + 1)
             place == IF i.names = <<>> THEN "limit" ELSE "reorder"
  <1>1. /\ op' = [op EXCEPT ![c] = o] /\ pc' = [pc EXCEPT ![c] = place]
        /\ tables' = tables /\ heap' = heap /\ log' = log
        /\ tables[t] # 0 /\ Planned(i, SchemaOf(t)) /\ Serve(c, t, FALSE)
    <2>1. Serve(c, t, FALSE)  BY DEF PlanInsert
    <2> QED  BY <2>1 DEF PlanInsert, Goes, Asks
  <1>2. /\ pc[c] = "idle"
        /\ \A d \in Clients : pc[d] # "idle" /\ op[d].table = t => op[d].kind = "insert"
    BY <1>1, ServedAlone
  <1>3. t \in Existing /\ SchemaOf(t) \in Schemas
    <2>1. t \in Existing  BY <1>1 DEF Existing
    <2> QED  BY <2>1, SchemaOfType
  <1>4. issued + 1 \in Nat  BY ThreadType
  <1>5. rows \in Seq(Row)
    <2> DEFINE s == SchemaOf(t)
               k == issued + 1
    <2>1. s \in Schemas /\ k \in Nat /\ Planned(i, s)  BY <1>1, <1>3, <1>4
    <2> HIDE DEF s, k
    <2>2. CellsOf(i, s, k) \in Seq(Row)  BY <2>1, PlannedRows
    <2> QED  BY <2>2 DEF s, k
  <1>6. /\ o \in Ops /\ o.table = t /\ o.rows = rows /\ o.kind = "insert" /\ ~o.spoiled
    <2> HIDE DEF rows
    <2>1. i.names \in Seq(Names)  BY InsertType
    <2>2. o \in Ops /\ o.table = t /\ o.rows = rows  BY <1>4, <1>5, <2>1, PlannedOp
    <2>3. o.kind = "insert" /\ ~o.spoiled  BY DEF Asks, NoOp
    <2> QED  BY <2>2, <2>3
  <1>7. Widened(o)
    <2> DEFINE s == SchemaOf(t)
    <2> SUFFICES ASSUME NEW n \in 1..Len(rows), NEW j \in 1..Len(rows[n].cells), NEW k \in 1..Len(s),
                        rows[n].cells[j].meant = s[k].name
                 PROVE  ~(rows[n].cells[j].type = "int" /\ s[k].type = "float")
      <3> HIDE DEF o, rows
      <3> QED  BY <1>6 DEF Widened
    <2>1. s \in Schemas /\ Planned(i, s)  BY <1>1, <1>3
    <2>2. rows = CellsOf(i, s, issued + 1)  OBVIOUS
    <2> HIDE DEF s, rows
    <2> QED  BY <1>4, <2>1, <2>2, PlannedWidened
  <1>8. place \in Places /\ place \notin {"encode", "append"}  BY DEF Places
  <1> HIDE DEF o, place
  <1> QED  BY <1>1, <1>2, <1>3, <1>6, <1>7, <1>8, ThinkingStep

\* Reordering moves values, each with the column it is meant for.
LEMMA ReorderUndisturbed ==
  ASSUME IInv, Undisturbed, NEW c \in Clients, Reorder(c)
  PROVE  Undisturbed'
  <1> DEFINE t == op[c].table
             s == SchemaOf(t)
             names == op[c].names
             old == op[c].rows
             rows == [n \in 1..Len(op[c].rows) |->
                        [op[c].rows[n] EXCEPT !.cells = Reordered(@, op[c].names, s)]]
             o == [op[c] EXCEPT !.rows = rows]
  <1>1. pc[c] = "reorder" /\ tables' = tables /\ heap' = heap /\ log' = log
    BY DEF Reorder
  <1>2. pc[c] \in Inserting  BY <1>1 DEF Inserting
  <1>3. CASE ~(tables[t] # NoTable /\ Reorderable(op[c].names, s))
    <2>1. Finish(c)  BY <1>3 DEF Reorder
    <2> QED  BY <1>1, <1>2, <2>1, FailsUndisturbed
  <1>4. CASE tables[t] # NoTable /\ Reorderable(op[c].names, s)
    <2>1. op' = [op EXCEPT ![c].rows = rows] /\ pc' = [pc EXCEPT ![c] = "limit"]
      BY <1>4 DEF Reorder, Goes
    <2>2. op' = [op EXCEPT ![c] = o]
      <3> HIDE DEF rows
      <3> QED  BY <2>1, ThreadType
    <2>3. pc[c] # "idle" /\ op[c].kind = "insert"  BY <1>2, InsertingKind
    <2>4. t \in Existing /\ s \in Schemas /\ names \in Seq(Names) /\ old \in Seq(Row)
      <3>1. t \in Tables /\ names \in Seq(Names) /\ old \in Seq(Row)  BY ThreadType DEF Ops
      <3>2. t \in Existing  BY <1>4, <3>1 DEF Existing
      <3> QED  BY <3>1, <3>2, SchemaOfType
    <2>5. \A n \in 1..Len(old) : /\ old[n] \in Row /\ old[n].cells \in Seq(Cell)
                                 /\ Len(old[n].cells) = Len(names)
      <3>1. \A n \in 1..Len(old) : old[n] \in Row  BY ThreadType
      <3>2. ValuesMeant(pc[c], op[c])  BY ThreadType DEF ThreadOK
      <3>3. \A n \in 1..Len(old) : Len(old[n].cells) = Len(names)
        BY <1>1, <3>2 DEF ValuesMeant, MeantFor
      <3> QED  BY <3>1, <3>3 DEF Row
    <2>6. \A n \in 1..Len(old) : \A i \in 1..Len(s) :
             \E j \in 1..Len(old[n].cells) : Reordered(old[n].cells, names, s)[i] = old[n].cells[j]
      <3> SUFFICES ASSUME NEW n \in 1..Len(old), NEW i \in 1..Len(s)
                   PROVE  \E j \in 1..Len(old[n].cells) :
                             Reordered(old[n].cells, names, s)[i] = old[n].cells[j]
        OBVIOUS
      <3> DEFINE j == CHOOSE k \in 1..Len(names) : names[k] = s[i].name
      <3>1. \E k \in 1..Len(names) : names[k] = s[i].name
        BY <1>4, <2>4, NamesCover
      <3>2. j \in 1..Len(names)  BY <3>1
      <3>3. Reordered(old[n].cells, names, s)[i] = old[n].cells[j]
        <4> HIDE DEF old
        <4> QED  BY DEF Reordered
      <3> HIDE DEF j
      <3> QED  BY <2>5, <3>2, <3>3
    <2>7. \A n \in 1..Len(old) : rows[n].cells = Reordered(old[n].cells, names, s)
      <3> SUFFICES ASSUME NEW n \in 1..Len(old)
                   PROVE  rows[n].cells = Reordered(old[n].cells, names, s)
        OBVIOUS
      <3>1. rows[n] = [old[n] EXCEPT !.cells = Reordered(old[n].cells, names, s)]  OBVIOUS
      <3>2. old[n] \in Row  BY <2>5
      <3> HIDE DEF rows, old
      <3> QED  BY <3>1, <3>2 DEF Row
    <2>8. Len(rows) = Len(old) /\ \A n \in 1..Len(old) : Len(rows[n].cells) = Len(s)
      <3>1. Len(old) \in Nat /\ Len(s) \in Nat  BY <2>4, SchemaType
      <3>2. Len(rows) = Len(old)  BY <3>1
      <3>3. \A n \in 1..Len(old) : Len(Reordered(old[n].cells, names, s)) = Len(s)
        BY <3>1 DEF Reordered
      <3> HIDE DEF rows, old
      <3> QED  BY <2>7, <3>2, <3>3
    <2>9. Widened(op[c])  BY <1>2 DEF Undisturbed, NoneNarrowed
    <2>10. o \in Ops /\ o.rows = rows /\ o.table = t
      <3>1. rows \in Seq(Row)
        <4>1. \A n \in 1..Len(old) : rows[n] \in Row
          <5> SUFFICES ASSUME NEW n \in 1..Len(old) PROVE rows[n] \in Row  OBVIOUS
          <5>1. rows[n] = [old[n] EXCEPT !.cells = Reordered(old[n].cells, names, s)]  OBVIOUS
          <5>2. Reordered(old[n].cells, names, s) \in Seq(Cell)
            <6>1. ValuesMeant(pc[c], op[c])  BY ThreadType DEF ThreadOK
            <6>2. MeantFor(old[n].cells, names)  BY <1>1, <6>1 DEF ValuesMeant
            <6> HIDE DEF old, names, s
            <6> QED  BY <1>4, <2>4, <2>5, <6>2, ReorderedRow DEF names, s
          <5>3. old[n] \in Row  BY <2>5
          <5> HIDE DEF rows, old
          <5> QED  BY <5>1, <5>2, <5>3 DEF Row
        <4>2. rows = [n \in 1..Len(old) |-> rows[n]]  OBVIOUS
        <4>3. Len(old) \in Nat  BY <2>4
        <4> HIDE DEF rows, old
        <4> QED  BY <4>1, <4>2, <4>3, SequenceOf
      <3> HIDE DEF rows
      <3> QED  BY <3>1, ThreadType, OpWithRows
    <2>11. o.kind = op[c].kind /\ o.table = op[c].table /\ o.spoiled = op[c].spoiled
      <3> HIDE DEF rows
      <3> QED  BY ThreadType, SameRequest
    <2> HIDE DEF o
    <2>12. Widened(o)
      <3> SUFFICES ASSUME NEW n \in 1..Len(old), NEW i \in 1..Len(s), NEW k \in 1..Len(s),
                          rows[n].cells[i].meant = s[k].name
                   PROVE  ~(rows[n].cells[i].type = "int" /\ s[k].type = "float")
        <4> HIDE DEF rows, old
        <4> QED  BY <2>8, <2>10 DEF Widened
      <3>1. PICK j \in 1..Len(old[n].cells) : rows[n].cells[i] = old[n].cells[j]
        <4> HIDE DEF rows, old, s, names
        <4> QED  BY <2>6, <2>7, ZenonT(40)
      <3> HIDE DEF rows
      <3> QED  BY <2>9, <3>1 DEF Widened
    <2>13. "limit" \in Places /\ "limit" \notin {"encode", "append"} /\ pc[c] \notin {"encode", "append"}
      BY <1>1 DEF Places
    <2>14. /\ o.kind = "insert" /\ o.table \in Existing /\ ~o.spoiled
           /\ \A d \in Clients \ {c} : pc[d] # "idle" /\ op[d].table = o.table => op[d].kind = "insert"
      BY <2>3, <2>11, InsertGoesOn
    <2> QED  BY <1>1, <2>1, <2>2, <2>3, <2>10, <2>12, <2>13, <2>14, ThinkingStep
  <1> QED  BY <1>3, <1>4

\* A step of the check of the limit, or of the lookup, changes no value.
LEMMA OnwardUndisturbed ==
  ASSUME IInv, Undisturbed, tables' = tables, heap' = heap, log' = log,
         NEW c \in Clients, NEW place \in Places, NEW o \in Ops,
         pc' = [pc EXCEPT ![c] = place], op' = [op EXCEPT ![c] = o],
         o.kind = op[c].kind, o.table = op[c].table, o.spoiled = op[c].spoiled, o.rows = op[c].rows,
         \/ pc[c] \in InOrder /\ place \in InOrder
         \/ pc[c] = "encode" /\ place = "append" /\ o = op[c]
  PROVE  Undisturbed'
  <1>1. pc[c] # "idle" /\ op[c].kind = "insert"  BY InsertingKind DEF Inserting
  <1>2. /\ o.kind = "insert" /\ o.table \in Existing /\ ~o.spoiled
        /\ \A d \in Clients \ {c} : pc[d] # "idle" /\ op[d].table = o.table => op[d].kind = "insert"
    BY <1>1, InsertGoesOn
  <1>3. place \in Inserting => Widened(o)
    <2> SUFFICES ASSUME place \in Inserting PROVE Widened(o)  OBVIOUS
    <2>1. Widened(op[c])  BY DEF Undisturbed, NoneNarrowed, Inserting, InOrder
    <2> QED  BY <2>1 DEF Widened
  <1>4. \/ pc[c] \notin {"encode", "append"} /\ place \notin {"encode", "append"}
        \/ pc[c] \in {"encode", "append"} /\ place \in {"encode", "append"} /\ o = op[c]
    BY DEF InOrder
  <1> QED  BY <1>1, <1>2, <1>3, <1>4, ThinkingStep

\* The walk over the tables, the check of the limit and the lookup of the handle leave
\* all values alone.
LEMMA CheckUndisturbed ==
  ASSUME IInv, Undisturbed, NEW c \in Clients,
         BeginSum(c) \/ (\E t \in Tables : SumTable(c, t)) \/ CheckLimit(c) \/ LookupHandle(c)
  PROVE  Undisturbed'
  <1>1. tables' = tables /\ heap' = heap /\ log' = log
    BY DEF BeginSum, SumTable, CheckLimit, LookupHandle
  <1>2. CASE Finish(c) /\ pc[c] \in InOrder  BY <1>1, <1>2, FailsUndisturbed DEF Inserting
  <1>3. ASSUME NEW todo \in SUBSET Tables, NEW sum \in Nat, NEW o, NEW place \in InOrder,
               o = [op[c] EXCEPT !.todo = todo, !.sum = sum],
               pc[c] \in InOrder, pc' = [pc EXCEPT ![c] = place], op' = [op EXCEPT ![c] = o]
        PROVE  Undisturbed'
    <2>1. o \in Ops /\ o.rows = op[c].rows
      <3>1. o = WithCount(op[c], todo, sum)  BY <1>3 DEF WithCount
      <3> QED  BY <3>1, ThreadType, OpWithCount
    <2>2. o.kind = op[c].kind /\ o.table = op[c].table /\ o.spoiled = op[c].spoiled
      BY <1>3, ThreadType, SameRequest
    <2>3. place \in Places  BY DEF InOrder, Places
    <2> QED  BY <1>1, <1>3, <2>1, <2>2, <2>3, OnwardUndisturbed
  <1>4. CASE BeginSum(c)
    <2> DEFINE o == [op[c] EXCEPT !.todo = Existing, !.sum = 0]
    <2>1. pc[c] = "limit" /\ pc' = [pc EXCEPT ![c] = "sum"] /\ op' = [op EXCEPT ![c] = o]
      BY <1>4, ThreadType DEF BeginSum, Goes
    <2>2. Existing \in SUBSET Tables /\ 0 \in Nat /\ "sum" \in InOrder /\ "limit" \in InOrder
      BY DEF Existing, InOrder
    <2>3. o = [op[c] EXCEPT !.todo = Existing, !.sum = 0]  OBVIOUS
    <2> HIDE DEF o
    <2> QED  BY <1>3, <2>1, <2>2, <2>3
  <1>5. ASSUME NEW t \in Tables, SumTable(c, t) PROVE Undisturbed'
    <2> DEFINE todo == op[c].todo \ {t}
               sum == op[c].sum + Size(tables[t])
               o == [op[c] EXCEPT !.todo = todo, !.sum = sum]
    <2>1. pc[c] = "sum" /\ t \in op[c].todo /\ pc' = pc /\ op' = [op EXCEPT ![c] = o]
      BY <1>5, ThreadType DEF SumTable
    <2>2. op[c].todo \in SUBSET Existing /\ op[c].todo \in SUBSET Tables /\ op[c].sum \in Nat
      BY ThreadType DEF ThreadOK, WalkOK, Ops
    <2>3. Size(tables[t]) \in Nat  BY <2>1, <2>2, UsedWithout DEF IInv
    <2>4. todo \in SUBSET Tables /\ sum \in Nat /\ "sum" \in InOrder  BY <2>2, <2>3 DEF InOrder
    <2>5. pc' = [pc EXCEPT ![c] = "sum"]  BY <2>1, ThreadType
    <2>6. o = [op[c] EXCEPT !.todo = todo, !.sum = sum]  OBVIOUS
    <2> HIDE DEF o, todo, sum
    <2> QED  BY <1>3, <2>1, <2>4, <2>5, <2>6
  <1>6. CASE CheckLimit(c)
    <2>1. pc[c] \in {"limit", "sum"}  BY <1>6 DEF CheckLimit
    <2>2. CASE Limit # 0 /\ LimitReached(op[c].sum)
      <3>1. Finish(c)  BY <1>6, <2>2 DEF CheckLimit
      <3> QED  BY <1>2, <2>1, <3>1 DEF InOrder
    <2>3. CASE ~(Limit # 0 /\ LimitReached(op[c].sum))
      <3> DEFINE o == [op[c] EXCEPT !.sum = 0]
      <3>1. pc' = [pc EXCEPT ![c] = "lookup"] /\ op' = [op EXCEPT ![c] = o]
        BY <1>6, <2>3, ThreadType DEF CheckLimit, Goes
      <3>2. o.kind = op[c].kind /\ o.table = op[c].table /\ o.spoiled = op[c].spoiled
        BY ThreadType, SameRequest
      <3>3. o \in Ops /\ o.rows = op[c].rows  BY ThreadType DEF Ops
      <3>4. pc[c] \in InOrder /\ "lookup" \in InOrder /\ "lookup" \in Places
        BY <2>1 DEF InOrder, Places
      <3> HIDE DEF o
      <3> QED  BY <1>1, <3>1, <3>2, <3>3, <3>4, OnwardUndisturbed
    <2> QED  BY <2>2, <2>3
  <1>7. CASE LookupHandle(c)
    <2>1. pc[c] = "lookup"  BY <1>7 DEF LookupHandle
    <2>2. CASE tables[op[c].table] = NoTable
      <3>1. Finish(c)  BY <1>7, <2>2 DEF LookupHandle
      <3> QED  BY <1>2, <2>1, <3>1 DEF InOrder
    <2>3. CASE tables[op[c].table] # NoTable
      <3> DEFINE h == tables[op[c].table]
                 o == [op[c] EXCEPT !.handle = h]
      <3>1. pc' = [pc EXCEPT ![c] = "push"] /\ op' = [op EXCEPT ![c] = o]
        BY <1>7, <2>3, ThreadType DEF LookupHandle, Goes
      <3>2. h \in Nat
        <4>1. Typed /\ op[c].table \in Tables  BY ThreadType DEF IInv, Ops
        <4>2. Len(heap) \in Nat  BY <4>1 DEF Typed
        <4> QED  BY <4>1, <4>2 DEF Typed
      <3>3. /\ o \in Ops /\ o.rows = op[c].rows
            /\ o.kind = op[c].kind /\ o.table = op[c].table /\ o.spoiled = op[c].spoiled
        <4>1. o = [op[c] EXCEPT !.handle = h]  OBVIOUS
        <4> HIDE DEF h, o
        <4>2. op[c] \in Ops  BY ThreadType
        <4>3. o \in Ops /\ o.rows = op[c].rows  BY <3>2, <4>1, <4>2, OpWithHandle
        <4>4. o.kind = op[c].kind /\ o.table = op[c].table /\ o.spoiled = op[c].spoiled
          BY <4>1, <4>2, SameRequest
        <4> QED  BY <4>3, <4>4
      <3>4. pc[c] \in InOrder /\ "push" \in InOrder /\ "push" \in Places
        BY <2>1 DEF InOrder, Places
      <3> HIDE DEF o, h
      <3> QED  BY <1>1, <3>1, <3>3, <3>4, OnwardUndisturbed
    <2> QED  BY <2>2, <2>3
  <1> QED  BY <1>4, <1>5, <1>6, <1>7

\* An INSERT that encodes goes on to the log with the rows it has put in.
LEMMA EncodeUndisturbed ==
  ASSUME IInv, Undisturbed, NEW c \in Clients, Encode(c), ~leftover'
  PROVE  Undisturbed'
  <1>1. /\ pc[c] = "encode" /\ tables' = tables /\ heap' = heap /\ log' = log
        /\ \/ Goes(c, "append") /\ op' = op
           \/ leftover' = TRUE
    BY DEF Encode
  <1>2. Goes(c, "append") /\ op' = op  BY <1>1
  <1>3. pc' = [pc EXCEPT ![c] = "append"] /\ op' = [op EXCEPT ![c] = op[c]]
    BY <1>2, ThreadType DEF Goes
  <1>4. "append" \in Places /\ op[c] \in Ops  BY ThreadType DEF Places
  <1> QED  BY <1>1, <1>3, <1>4, OnwardUndisturbed

\* What one request has put into t without having it in the log.
OwnUnlogged(place, o, t) ==
    IF place \in {"encode", "append"} /\ o.kind = "insert" /\ o.table = t
    THEN {o.rows[n] : n \in 1..Len(o.rows)} ELSE {}

\* The rows under way of t are those of one thread and those of the others.
LEMMA UnloggedBut ==
  ASSUME NEW c \in Clients, NEW t, NEW place, NEW o, pc'[c] = place, op'[c] = o,
         \A d \in Clients \ {c} : pc'[d] = pc[d] /\ op'[d] = op[d]
  PROVE  \E others : /\ Unlogged(t) = others \cup OwnUnlogged(pc[c], op[c], t)
                     /\ Unlogged(t)' = others \cup OwnUnlogged(place, o, t)
  <1> DEFINE Mine(d) == OwnUnlogged(pc[d], op[d], t)
             others == UNION {Mine(d) : d \in Clients \ {c}}
             Way == {d \in Clients : pc[d] \in {"encode", "append"} /\ op[d].kind = "insert" /\ op[d].table = t}
             Way1 == {d \in Clients : pc'[d] \in {"encode", "append"} /\ op'[d].kind = "insert" /\ op'[d].table = t}
             Rows(x) == {x.rows[n] : n \in 1..Len(x.rows)}
  <1>1. Unlogged(t) = UNION {Rows(op[d]) : d \in Way}  BY DEF Unlogged
  <1>2. Unlogged(t)' = UNION {Rows(op'[d]) : d \in Way1}  BY DEF Unlogged
  <1>3. \A d \in Clients : Mine(d) = IF d \in Way THEN Rows(op[d]) ELSE {}
    BY DEF OwnUnlogged
  <1>4. \A d \in Clients \ {c} : (d \in Way1 <=> d \in Way) /\ op'[d] = op[d]
    OBVIOUS
  <1>5. OwnUnlogged(place, o, t) = IF c \in Way1 THEN Rows(op'[c]) ELSE {}
    BY DEF OwnUnlogged
  <1>6. Way \subseteq Clients /\ Way1 \subseteq Clients  OBVIOUS
  <1> HIDE DEF Mine, Way, Way1, Rows
  <1>7. UNION {Rows(op[d]) : d \in Way} = others \cup Mine(c)  BY <1>3, <1>6
  <1>8. UNION {Rows(op'[d]) : d \in Way1} = others \cup OwnUnlogged(place, o, t)
    BY <1>3, <1>4, <1>5, <1>6
  <1> QED  BY <1>1, <1>2, <1>7, <1>8 DEF Mine

\* A row meant for the columns, with no integer for a column of floats, is stored as
\* it is.
LEMMA WidenedStored ==
  ASSUME NEW s \in Schemas, NEW row \in Row, RowFits(row.cells, s),
         MeantFor(row.cells, ColumnNames(s)),
         \A i \in 1..Len(row.cells), k \in 1..Len(s) :
            row.cells[i].meant = s[k].name
            => ~(row.cells[i].type = "int" /\ s[k].type = "float")
  PROVE  Stored(row, s) = row
  <1> DEFINE new == [i \in 1..Len(s) |-> [row.cells[i] EXCEPT !.type = s[i].type]]
             cells == row.cells
  <1>1. Stored(row, s) = [row EXCEPT !.cells = new]  BY StoredWhole
  <1>2. cells \in Seq(Cell) /\ Len(cells) = Len(s) /\ Len(s) \in Nat
    BY SchemaType DEF Row, RowFits
  <1>3. \A i \in 1..Len(s) : cells[i] \in Cell /\ s[i].type \in {"int", "float"}
    BY <1>2, SchemaType DEF Types
  <1>4. ASSUME NEW i \in 1..Len(s) PROVE cells[i].type = s[i].type
    <2>1. cells[i].meant = s[i].name  BY <1>2, SchemaType DEF MeantFor
    <2>2. ~(cells[i].type = "int" /\ s[i].type = "float")  BY <1>2, <2>1
    <2>3. cells[i].type = "float" => s[i].type = "float"  BY DEF RowFits, Fits
    <2>4. cells[i].type \in {"int", "float"}  BY <1>3 DEF Cell, Types
    <2> QED  BY <1>3, <2>2, <2>3, <2>4
  <1>5. \A i \in 1..Len(s) : [cells[i] EXCEPT !.type = s[i].type] = cells[i]
    BY <1>3, <1>4 DEF Cell
  <1>6. new = cells
    <2>1. new = [i \in 1..Len(s) |-> cells[i]]  BY <1>5
    <2>2. cells = [i \in 1..Len(s) |-> cells[i]]
      <3> HIDE DEF cells
      <3> QED  BY <1>2
    <2> HIDE DEF new, cells
    <2> QED  BY <2>1, <2>2
  <1>7. [row EXCEPT !.cells = cells] = row
    <2> DEFINE C == Seq(Cell)
               N == Nat \X Nat
    <2>1. row \in [of : N, spoiled : BOOLEAN, cells : C] /\ row.cells = cells  BY DEF Row
    <2> HIDE DEF C, N, cells
    <2> QED  BY <2>1
  <1> HIDE DEF new, cells
  <1> QED  BY <1>1, <1>6, <1>7

\* The rows of an INSERT go into the table as they are, and belong to those under way.
LEMMA InsertManyUndisturbed ==
  ASSUME IInv, Undisturbed, NEW c \in Clients, InsertMany(c), ~leftover'
  PROVE  Undisturbed'
  <1> DEFINE h == op[c].handle
             t == op[c].table
             s == heap[h].schema
             m == Len(op[c].rows)
             rows == [n \in 1..m |-> [op[c].rows[n] EXCEPT !.spoiled = op[c].spoiled]]
             S == {n \in 0..Len(rows) : \A i \in 1..n : RowFits(rows[i].cells, s)}
             fitting == Max(S)
             new == {Stored(rows[n], s) : n \in 1..fitting}
             o == [op[c] EXCEPT !.rows = rows]
             T == [schema : Schemas, rows : SUBSET Row]
  <1>1. /\ pc[c] = "push" /\ heap' = [heap EXCEPT ![h].rows = @ \cup new]
        /\ tables' = tables /\ log' = log
        /\ IF fitting = Len(rows)
           THEN Goes(c, "encode") /\ op' = [op EXCEPT ![c].rows = rows] /\ UNCHANGED leftover
           ELSE Finish(c) /\ leftover' = (leftover \/ fitting > 0)
    BY DEF InsertMany
  <1>2. Typed /\ NamesApart /\ TablesOK  BY DEF IInv
  <1>3. /\ pc[c] # "idle" /\ op[c].kind = "insert" /\ t \in Existing /\ ~op[c].spoiled
        /\ pc[c] \in Inserting
    <2>1. pc[c] \in Inserting  BY <1>1 DEF Inserting, InOrder
    <2>2. pc[c] # "idle" /\ op[c].kind = "insert"  BY <2>1, InsertingKind
    <2>3. t \in Existing /\ ~op[c].spoiled  BY <2>2 DEF Undisturbed, InsertsUnspoiled
    <2> QED  BY <2>1, <2>2, <2>3
  <1>4. h = tables[t] /\ h \in 1..Len(heap)  BY <1>1, <1>3, ThreadType DEF ThreadOK, HandleOK
  <1>5. s = SchemaOf(t) /\ s \in Schemas /\ m \in Nat  BY <1>3, <1>4, SchemaOfType, ThreadType
  <1>6. \A n \in 1..m : /\ rows[n] \in Row /\ rows[n].cells = op[c].rows[n].cells
                        /\ MeantFor(rows[n].cells, ColumnNames(s))
    <2> SUFFICES ASSUME NEW n \in 1..m
                 PROVE  /\ rows[n] \in Row /\ rows[n].cells = op[c].rows[n].cells
                        /\ MeantFor(rows[n].cells, ColumnNames(s))
      BY SMTT(30)
    <2>1. rows[n] = [op[c].rows[n] EXCEPT !.spoiled = op[c].spoiled]  OBVIOUS
    <2>2. op[c].rows[n] \in Row /\ op[c].spoiled \in BOOLEAN  BY ThreadType DEF Ops
    <2>3. MeantFor(op[c].rows[n].cells, ColumnNames(s))
      <3>1. ValuesMeant(pc[c], op[c])  BY ThreadType DEF ThreadOK
      <3> QED  BY <1>1, <1>3, <1>5, <3>1 DEF ValuesMeant, InOrder
    <2> HIDE DEF rows, s
    <2>4. rows[n] \in Row /\ rows[n].cells = op[c].rows[n].cells  BY <2>1, <2>2 DEF Row
    <2> QED  BY <2>3, <2>4
  <1>7. rows \in Seq(Row) /\ Len(rows) = m
    <2>1. rows = [n \in 1..m |-> rows[n]]  OBVIOUS
    <2>2. \A n \in 1..m : rows[n] \in Row  BY <1>6
    <2> HIDE DEF rows, m
    <2> QED  BY <1>5, <2>1, <2>2, SequenceOf
  <1>8. fitting \in 0..m /\ \A i \in 1..fitting : RowFits(rows[i].cells, s)
    <2>1. 0 \in S /\ S \in SUBSET (0..m)
      <3> HIDE DEF rows, m, s
      <3> QED  BY <1>5, <1>7
    <2>2. Max(S) \in S
      <3> HIDE DEF S, m
      <3> QED  BY <1>5, <2>1, MaxOf
    <2>3. \A n \in S : \A i \in 1..n : RowFits(rows[i].cells, s)
      <3> HIDE DEF rows, s
      <3> QED  OBVIOUS
    <2> HIDE DEF S, rows, s
    <2> QED  BY <2>1, <2>2, <2>3
  <1>9. heap \in Seq(T) /\ heap[h] \in T  BY <1>2, <1>4, HeapType DEF Typed
  <1> HIDE DEF rows, S, fitting
  <1>10. CASE fitting # Len(rows)
    <2>1. Finish(c) /\ leftover' = (leftover \/ fitting > 0)  BY <1>1, <1>10
    <2>2. ~(fitting > 0)
      <3> DEFINE P == fitting > 0
      <3>1. leftover' = (leftover \/ P)  BY <2>1
      <3> HIDE DEF P
      <3>2. ~P  BY <3>1, Zenon
      <3> QED  BY <3>2 DEF P
    <2>3. 1..fitting = {}
      <3> HIDE DEF m
      <3>1. fitting = 0  BY <1>5, <1>8, <2>2
      <3> QED  BY <3>1
    <2>4. new = {}  BY <2>3
    <2>5. heap' = [heap EXCEPT ![h].rows = @ \cup {}]  BY <1>1, <2>4
    <2>6. heap' = heap
      <3> DEFINE R == heap[h].rows \cup {}
                 v == [heap[h] EXCEPT !.rows = R]
      <3>1. heap' = [heap EXCEPT ![h] = v]
        <4> HIDE DEF T
        <4> QED  BY <1>4, <1>9, <2>5
      <3>2. R = heap[h].rows  OBVIOUS
      <3> HIDE DEF R
      <3>3. v = heap[h]
        <4> DEFINE H == heap[h]
                   Q == SUBSET Row
        <4>1. H \in [schema : Schemas, rows : Q] /\ R = H.rows  BY <1>9, <3>2
        <4> HIDE DEF H, Q
        <4>2. [H EXCEPT !.rows = R] = H  BY <4>1
        <4> QED  BY <4>2 DEF H
      <3> HIDE DEF v, T
      <3> QED  BY <1>9, <3>1, <3>3
    <2> QED  BY <1>1, <1>3, <2>1, <2>6, FailsUndisturbed
  <1>11. CASE fitting = Len(rows)
    <2>1. pc' = [pc EXCEPT ![c] = "encode"] /\ op' = [op EXCEPT ![c] = o]
      <3>1. Goes(c, "encode") /\ op' = [op EXCEPT ![c].rows = rows]  BY <1>1, <1>11
      <3> QED  BY <3>1, ThreadType DEF Goes
    <2>2. o \in Ops /\ o.rows = rows /\ o.kind = "insert" /\ o.table = t /\ o.spoiled = op[c].spoiled
      <3>1. op[c] \in Ops  BY ThreadType
      <3>2. o \in Ops /\ o.rows = rows  BY <1>7, <3>1, OpWithRows
      <3>3. o.kind = op[c].kind /\ o.table = t /\ o.spoiled = op[c].spoiled
        BY <3>1, SameRequest
      <3> QED  BY <1>3, <3>2, <3>3
    <2>3. \A n \in 1..m : Stored(rows[n], s) = rows[n]
      <3> SUFFICES ASSUME NEW n \in 1..m PROVE Stored(rows[n], s) = rows[n]  OBVIOUS
      <3>1. RowFits(rows[n].cells, s)  BY <1>7, <1>8, <1>11
      <3>2. Widened(op[c])  BY <1>3 DEF Undisturbed, NoneNarrowed
      <3>3. \A i \in 1..Len(rows[n].cells), k \in 1..Len(s) :
               rows[n].cells[i].meant = s[k].name
               => ~(rows[n].cells[i].type = "int" /\ s[k].type = "float")
        <4>1. \A i \in 1..Len(op[c].rows[n].cells), k \in 1..Len(SchemaOf(t)) :
                 op[c].rows[n].cells[i].meant = SchemaOf(t)[k].name
                 => ~(op[c].rows[n].cells[i].type = "int" /\ SchemaOf(t)[k].type = "float")
          BY <3>2 DEF Widened
        <4>2. rows[n].cells = op[c].rows[n].cells /\ s = SchemaOf(t)  BY <1>5, <1>6
        <4> HIDE DEF s, t, m
        <4> QED  BY <4>1, <4>2, SMTT(30)
      <3> HIDE DEF s, m
      <3> QED  BY <1>5, <1>6, <3>1, <3>3, WidenedStored
    <2> DEFINE own == {rows[n] : n \in 1..m}
    <2>4. new = own  BY <1>7, <1>11, <2>3
    <2>5. own \in SUBSET Row  BY <1>6
    <2> HIDE DEF own, new, o
    <2>6. /\ heap'[h].schema = s /\ heap'[h].rows = heap[h].rows \cup own
          /\ Len(heap') = Len(heap) /\ \A k \in 1..Len(heap) : k # h => heap'[k] = heap[k]
      <3> DEFINE R == heap[h].rows \cup own
                 v == [heap[h] EXCEPT !.rows = R]
      <3>1. heap' = [heap EXCEPT ![h] = v]
        <4> HIDE DEF T
        <4> QED  BY <1>1, <1>4, <1>9, <2>4
      <3>2. v.schema = s /\ v.rows = R
        <4> HIDE DEF R
        <4> QED  BY <1>9
      <3> HIDE DEF v, T, R
      <3>3. heap'[h] = v /\ Len(heap') = Len(heap) /\ \A k \in 1..Len(heap) : k # h => heap'[k] = heap[k]
        BY <1>4, <1>9, <3>1
      <3> QED  BY <3>2, <3>3 DEF R
    <2>7. ASSUME NEW u \in Existing
          PROVE  /\ SchemaOf(u)' = SchemaOf(u)
                 /\ u # t => heap'[tables'[u]] = heap[tables[u]] /\ tables[u] # h
      <3>1. tables'[u] = tables[u] /\ tables[u] \in 1..Len(heap) /\ u \in Tables
        BY <1>1, <1>2, ExistingHandle
      <3>2. CASE u = t  BY <1>4, <1>5, <2>6, <3>1, <3>2 DEF SchemaOf
      <3>3. CASE u # t
        <4>1. tables[u] # h
          BY <1>2, <1>3, <1>4, <3>1, <3>3 DEF NamesApart, Existing, NoTable
        <4>2. heap'[tables'[u]] = heap[tables[u]]
          <5> HIDE DEF h, s
          <5> QED  BY <2>6, <3>1, <4>1
        <4> QED  BY <4>1, <4>2 DEF SchemaOf
      <3> QED  BY <3>2, <3>3
    <2>8. Existing' = Existing /\ Recovered' = Recovered  BY <1>1 DEF Existing, Recovered
    <2>9. /\ pc'[c] = "encode" /\ op'[c] = o
          /\ \A d \in Clients \ {c} : pc'[d] = pc[d] /\ op'[d] = op[d]
      BY <2>1, ThreadType
    <2>10. ASSUME NEW u \in Tables, ReadAsIs(u) PROVE ReadAsIs(u)'
      <3>1. PICK others : /\ Unlogged(u) = others \cup OwnUnlogged(pc[c], op[c], u)
                          /\ Unlogged(u)' = others \cup OwnUnlogged("encode", o, u)
        BY <2>9, UnloggedBut
      <3>2. OwnUnlogged(pc[c], op[c], u) = {}  BY <1>1 DEF OwnUnlogged
      <3>3. OwnUnlogged("encode", o, u) = IF u = t THEN own ELSE {}
        BY <1>7, <2>2 DEF OwnUnlogged, own
      <3>4. CASE u \notin Existing  BY <2>8, <2>10, <3>4 DEF ReadAsIs
      <3>5. CASE u \in Existing
        <4>1. /\ Recovered.view[u].schema = SchemaOf(u)
              /\ heap[tables[u]].rows = Recovered.view[u].rows \cup Unlogged(u)
          BY <2>10, <3>5 DEF ReadAsIs
        <4>2. heap'[tables'[u]].rows = Recovered.view[u].rows \cup Unlogged(u)'
          <5>1. CASE u = t
            <6>1. heap'[tables'[u]].rows = heap[tables[u]].rows \cup own
              BY <1>1, <1>4, <2>6, <5>1
            <6> QED  BY <3>1, <3>2, <3>3, <4>1, <5>1, <6>1, SMTT(30)
          <5>2. CASE u # t  BY <2>7, <3>1, <3>2, <3>3, <3>5, <4>1, <5>2
          <5> QED  BY <5>1, <5>2
        <4> QED  BY <2>7, <2>8, <3>5, <4>1, <4>2 DEF ReadAsIs
      <3> QED  BY <3>4, <3>5
    <2>11. ASSUME NEW d \in Clients \ {c}, pc[d] # "idle", op[d].kind = "create", CreateUnlogged(d)
           PROVE  CreateUnlogged(d)'
      <3>1. op[d].table # t
        BY <1>3, <2>11 DEF Undisturbed, RequestsApart
      <3>2. op'[d] = op[d]  BY <2>9
      <3>3. op[d].table \in Existing /\ op[d].handle = tables[op[d].table]
        BY <2>11 DEF CreateUnlogged
      <3> QED  BY <1>1, <2>7, <2>8, <2>11, <3>1, <3>2, <3>3 DEF CreateUnlogged
    <2>12. /\ o.kind = "insert" /\ o.table \in Existing /\ ~o.spoiled
           /\ \A d \in Clients \ {c} : pc[d] # "idle" /\ op[d].table = o.table => op[d].kind = "insert"
      BY <1>3, <2>2, InsertGoesOn
    <2>13. "encode" \in Places /\ "encode" \notin Inserting  BY DEF Places, Inserting, InOrder
    <2> QED  BY <1>1, <1>3, <2>1, <2>2, <2>7, <2>10, <2>11, <2>12, <2>13, InsertStep
  <1> QED  BY <1>10, <1>11, SMTT(30)

\* The record of a request makes the log say what the request has done to its table.
LEMMA AppendWalUndisturbed ==
  ASSUME IInv, Undisturbed, NEW c \in Clients, AppendWal(c)
  PROVE  Undisturbed'
  <1>0. PICK t \in Tables : t = op[c].table  BY ThreadType DEF Ops
  <1> DEFINE o == op[c]
             r == [kind |-> o.kind, table |-> t, rows |-> o.rows,
                   schema |-> IF o.kind = "create" THEN heap[o.handle].schema ELSE <<>>]
             before == Recovered
  <1>1. /\ pc[c] = "append" /\ log' = Append(log, r)
        /\ pc' = [pc EXCEPT ![c] = "idle"] /\ op' = [op EXCEPT ![c] = NoOp]
        /\ tables' = tables /\ heap' = heap
    BY <1>0 DEF AppendWal, Finish
  <1>2. /\ pc'[c] = "idle" /\ op'[c] = NoOp
        /\ \A d \in Clients \ {c} : pc'[d] = pc[d] /\ op'[d] = op[d]
    BY <1>1, ThreadType
  <1>3. /\ o.kind \in {"create", "drop", "insert"} /\ o.table = t /\ o.rows \in Seq(Row)
        /\ pc[c] # "idle"
    BY <1>0, <1>1, ThreadType DEF Undisturbed, KindsPlaced, Ops
  <1>4. /\ log \in Seq(Records) /\ before \in ReadStates
        /\ \A u \in Tables : OnlyInserts(u) => ReadAsIs(u)
        /\ \A d \in Clients : /\ pc[d] # "idle" /\ op[d].kind = "create" => CreateUnlogged(d)
                              /\ pc[d] # "idle" /\ op[d].kind = "drop" => op[d].table \notin Existing
    BY DEF Undisturbed, LogReads, ReadStates
  <1>5. Existing' = Existing /\ \A u : SchemaOf(u)' = SchemaOf(u)
    BY <1>1 DEF Existing, SchemaOf
  <1>6. KindsPlaced' /\ RequestsApart' /\ InsertsUnspoiled' /\ NoneNarrowed'
    <2>1. "idle" \in Places /\ NoOp \in Ops /\ "idle" \notin Inserting
      BY NoOpOK DEF Places, Inserting, InOrder
    <2>2. \A d \in Clients \ {c} : pc[d] # "idle" /\ op[d].kind = "insert"
            => /\ op[d].table \in Existing'
               /\ heap'[tables'[op[d].table]].schema = SchemaOf(op[d].table)
      BY <1>1, <1>5 DEF Undisturbed, InsertsUnspoiled, SchemaOf
    <2> QED  BY <1>1, <2>1, <2>2, ThreadsUndisturbed
  <1>7. r \in Records
    <2>1. r.schema \in Schemas \cup {<<>>}
      <3>1. CASE o.kind = "create"
        <4>1. t \in Existing /\ o.handle = tables[t]  BY <1>3, <1>4, <3>1 DEF CreateUnlogged
        <4> QED  BY <3>1, <4>1, SchemaOfType
      <3>2. CASE o.kind # "create"  BY <3>2
      <3> QED  BY <3>1, <3>2
    <2> DEFINE s == IF o.kind = "create" THEN heap[o.handle].schema ELSE <<>>
    <2>2. s \in Schemas \cup {<<>>}  BY <2>1
    <2>3. r = [kind |-> o.kind, table |-> t, rows |-> o.rows, schema |-> s]  OBVIOUS
    <2> HIDE DEF s, r
    <2> QED  BY <1>3, <2>2, <2>3 DEF Records
  <1>8. r.kind = o.kind /\ r.table = t /\ r.rows = o.rows
        /\ (o.kind = "create" => r.schema = heap[o.handle].schema)
    OBVIOUS
  <1> HIDE DEF r
  <1>9. log' \in Seq(Records)  BY <1>1, <1>4, <1>7
  <1>10. Recovered' = Apply(before, r)
    <2>1. Recovered' = Replayed(log')  BY DEF Recovered
    <2>2. Replayed(Append(log, r)) = Apply(Replayed(log), r)  BY <1>4, <1>7, ReplayOfOneMore
    <2> QED  BY <1>1, <2>1, <2>2 DEF Recovered
  <1>11. PICK table \in ReadTables :
            /\ Recovered' = With(before, t, table)
            /\ t \in Existing => table = [schema |-> SchemaOf(t), rows |-> table.rows]
            /\ t \notin Existing => table = Absent
            /\ OnlyInserts(t)' /\ t \in Existing => heap[tables[t]].rows = table.rows \cup Unlogged(t)'
    <2>1. PICK others : /\ Unlogged(t) = others \cup OwnUnlogged(pc[c], op[c], t)
                        /\ Unlogged(t)' = others \cup OwnUnlogged("idle", NoOp, t)
      BY <1>2, UnloggedBut
    <2>2. OwnUnlogged("idle", NoOp, t) = {}  BY DEF OwnUnlogged
    <2>3. ASSUME o.kind # "insert"
          PROVE  Unlogged(t)' = {}
      <3>1. \A d \in Clients : ~(pc'[d] \in {"encode", "append"} /\ op'[d].kind = "insert" /\ op'[d].table = t)
        BY <1>2, <1>3, <2>3 DEF Undisturbed, RequestsApart
      <3>2. {d \in Clients : pc'[d] \in {"encode", "append"} /\ op'[d].kind = "insert" /\ op'[d].table = t} = {}
        BY <3>1
      <3> QED  BY <3>2 DEF Unlogged
    <2>4. CASE o.kind = "create"
      <3> DEFINE table == [schema |-> r.schema, rows |-> {}]
      <3>1. /\ t \in Existing /\ o.handle = tables[t] /\ heap[o.handle].rows = {}
        BY <1>3, <1>4, <2>4 DEF CreateUnlogged
      <3>2. r.schema = SchemaOf(t) /\ SchemaOf(t) \in Schemas
        BY <1>8, <2>4, <3>1, SchemaOfType
      <3>3. table \in ReadTables  BY <3>2 DEF ReadTables
      <3>4. Apply(before, r) = With(before, r.table, table)
        BY <1>4, <1>7, <1>8, <2>4, <3>3, Applied
      <3>5. table.rows = {} /\ table = [schema |-> SchemaOf(t), rows |-> table.rows]  BY <3>2
      <3>6. heap[tables[t]].rows = table.rows \cup Unlogged(t)'  BY <2>3, <2>4, <3>1, <3>5
      <3> HIDE DEF table
      <3> QED  BY <1>8, <1>10, <3>1, <3>3, <3>4, <3>5, <3>6
    <2>5. CASE o.kind = "drop"
      <3>1. t \notin Existing  BY <1>3, <1>4, <2>5
      <3>2. Absent \in ReadTables  BY DEF Absent, ReadTables
      <3>3. Apply(before, r) = With(before, r.table, Absent)
        BY <1>4, <1>7, <1>8, <2>5, <3>2, Applied
      <3> QED  BY <1>8, <1>10, <3>1, <3>2, <3>3
    <2>6. CASE o.kind = "insert"
      <3> DEFINE own == {o.rows[n] : n \in 1..Len(o.rows)}
                 s == SchemaOf(t)
                 table == [schema |-> s, rows |-> before.view[t].rows \cup own]
      <3>1. t \in Existing /\ s \in Schemas
        BY <1>3, <2>6, SchemaOfType DEF Undisturbed, InsertsUnspoiled
      <3>2. OnlyInserts(t)  BY <1>3, <2>6 DEF Undisturbed, RequestsApart, OnlyInserts
      <3>3. before.view[t].schema = s /\ heap[tables[t]].rows = before.view[t].rows \cup Unlogged(t)
        BY <1>3, <1>4, <3>1, <3>2 DEF ReadAsIs
      <3>4. OwnUnlogged(pc[c], op[c], t) = own  BY <1>1, <1>3, <2>6 DEF OwnUnlogged
      <3>5. \A n \in 1..Len(o.rows) : RowOK(o.rows[n], s)
        <4>1. \A n \in 1..Len(o.rows) : o.rows[n] \in heap[tables[t]].rows
          BY <2>1, <3>3, <3>4
        <4>2. tables[t] \in 1..Len(heap) /\ Typed /\ TablesOK  BY <3>1, SchemaOfType DEF IInv
        <4>3. \A row \in heap[tables[t]].rows : RowOK(row, s)
          BY <4>2, HeapType DEF SchemaOf
        <4> QED  BY <4>1, <4>3
      <3>6. table \in ReadTables
        <4>1. own \in SUBSET Row  BY <1>3, ThreadType
        <4>2. before.view[t] \in ReadTables  BY <1>3, <1>4 DEF ReadStates
        <4>3. before.view[t].rows \in SUBSET Row  BY <4>2 DEF ReadTables
        <4> DEFINE all == before.view[t].rows \cup own
        <4>4. all \in SUBSET Row  BY <4>1, <4>3
        <4> HIDE DEF all, s
        <4> QED  BY <3>1, <4>4 DEF ReadTables, all
      <3>7. Apply(before, r) = With(before, r.table, table)
        <4>1. /\ r.kind = "insert" /\ before.view[r.table].schema \in Schemas
              /\ \A n \in 1..Len(r.rows) : RowOK(r.rows[n], before.view[r.table].schema)
              /\ table = [schema |-> before.view[r.table].schema,
                          rows |-> before.view[r.table].rows \cup {r.rows[n] : n \in 1..Len(r.rows)}]
          BY <1>8, <2>6, <3>1, <3>3, <3>5
        <4> HIDE DEF table, before
        <4> QED  BY <1>4, <1>7, <3>6, <4>1, Applied
      <3>8. table.rows = before.view[t].rows \cup own /\ table = [schema |-> s, rows |-> table.rows]
        OBVIOUS
      <3> HIDE DEF own, s, table
      <3>9. heap[tables[t]].rows = table.rows \cup Unlogged(t)'
        BY <2>1, <2>2, <3>3, <3>4, <3>8
      <3> QED  BY <1>8, <1>10, <3>1, <3>6, <3>7, <3>8, <3>9 DEF s
    <2> QED  BY <1>3, <2>4, <2>5, <2>6
  <1>12. /\ Recovered' \in ReadStates /\ Recovered'.view[t] = table
         /\ \A u \in Tables \ {t} : Recovered'.view[u] = before.view[u]
    BY <1>3, <1>4, <1>11, WithTable
  <1>13. ASSUME NEW u \in Tables, OnlyInserts(u)' PROVE ReadAsIs(u)'
    <2>1. CASE u = t
      <3>1. CASE t \in Existing
        <4>1. table.schema = SchemaOf(t) /\ heap[tables[t]].rows = table.rows \cup Unlogged(t)'
          BY <1>11, <1>13, <2>1, <3>1
        <4> QED  BY <1>1, <1>5, <1>12, <2>1, <3>1, <4>1 DEF ReadAsIs
      <3>2. CASE t \notin Existing  BY <1>5, <1>11, <1>12, <2>1, <3>2 DEF ReadAsIs
      <3> QED  BY <3>1, <3>2
    <2>2. CASE u # t
      <3>1. OnlyInserts(u)  BY <1>2, <1>3, <1>13, <2>2 DEF OnlyInserts
      <3>2. ReadAsIs(u)  BY <1>4, <3>1
      <3>3. Unlogged(u)' = Unlogged(u)
        <4>1. PICK others : /\ Unlogged(u) = others \cup OwnUnlogged(pc[c], op[c], u)
                            /\ Unlogged(u)' = others \cup OwnUnlogged("idle", NoOp, u)
          BY <1>2, UnloggedBut
        <4>2. OwnUnlogged("idle", NoOp, u) = {} /\ OwnUnlogged(pc[c], op[c], u) = {}
          BY <1>3, <2>2 DEF OwnUnlogged
        <4> QED  BY <4>1, <4>2
      <3> QED  BY <1>1, <1>5, <1>12, <2>2, <3>2, <3>3 DEF ReadAsIs
    <2> QED  BY <2>1, <2>2
  <1>14. ASSUME NEW d \in Clients, pc'[d] # "idle"
         PROVE  /\ op'[d].kind = "create" => CreateUnlogged(d)'
                /\ op'[d].kind = "drop" => op'[d].table \notin Existing'
    <2>1. d # c /\ pc[d] # "idle" /\ op'[d] = op[d]  BY <1>2, <1>14
    <2>2. ASSUME op[d].kind = "create" PROVE CreateUnlogged(d)'
      <3>1. CreateUnlogged(d)  BY <1>4, <2>1, <2>2
      <3>2. op[d].table \in Tables \ {t}
        <4>1. op[d].table \in Tables  BY ThreadType DEF Ops
        <4> QED  BY <1>3, <2>1, <2>2, <4>1 DEF Undisturbed, RequestsApart
      <3> QED  BY <1>1, <1>5, <1>12, <2>1, <3>1, <3>2 DEF CreateUnlogged
    <2> QED  BY <1>4, <1>5, <2>1, <2>2
  <1>15. LogReads'  BY <1>9, <1>12, <1>13, <1>14 DEF LogReads, ReadStates
  <1> QED  BY <1>6, <1>15 DEF Undisturbed

-----------------------------------------------------------------------------
(* CREATE and DROP, whose tables nobody else is about.                      *)

\* A thread creates or drops t, and the tables of all others stay as they are.
LEMMA CatalogueUndisturbed ==
  ASSUME IInv, Undisturbed, NEW c \in Clients, NEW t \in Tables, NEW o \in Ops,
         Serve(c, t, TRUE), ~conflicted', log' = log,
         Spoil(c, t, o), Goes(c, "append"), o.table = t,
         \A u \in Tables \ {t} : u \in Existing' <=> u \in Existing,
         \A u \in Existing \ {t} : tables'[u] = tables[u] /\ heap'[tables[u]] = heap[tables[u]],
         \/ o.kind = "create" /\ t \notin Existing /\ CreateUnlogged(c)'
         \/ o.kind = "drop" /\ t \notin Existing'
  PROVE  Undisturbed'
  <1>1. pc[c] = "idle" /\ \A d \in Clients : ~(pc[d] # "idle" /\ op[d].table = t)
    BY ServedAlone, ZenonT(40)
  <1>2. pc' = [pc EXCEPT ![c] = "append"] /\ op' = [op EXCEPT ![c] = o]
    <2>1. op' = [d \in Clients |-> IF d = c THEN o ELSE op[d]]
      BY <1>1 DEF Spoil
    <2> QED  BY <2>1, ThreadType DEF Goes
  <1>3. /\ pc'[c] = "append" /\ op'[c] = o
        /\ \A d \in Clients \ {c} : pc'[d] = pc[d] /\ op'[d] = op[d]
    BY <1>2, ThreadType
  <1>4. /\ log \in Seq(Records) /\ Recovered \in [ok : {TRUE}, view : [Tables -> ReadTables]]
        /\ \A u \in Tables : OnlyInserts(u) => ReadAsIs(u)
        /\ \A d \in Clients : /\ pc[d] # "idle" /\ op[d].kind = "create" => CreateUnlogged(d)
                              /\ pc[d] # "idle" /\ op[d].kind = "drop" => op[d].table \notin Existing
    BY DEF Undisturbed, LogReads
  <1>5. Recovered' = Recovered  BY DEF Recovered
  <1>6. \A u \in Existing \ {t} : /\ u \in Existing' /\ u \in Tables
                                  /\ heap'[tables'[u]] = heap[tables[u]] /\ SchemaOf(u)' = SchemaOf(u)
    BY DEF Existing, SchemaOf
  <1>7. KindsPlaced' /\ RequestsApart' /\ InsertsUnspoiled' /\ NoneNarrowed'
    <2>1. "append" \in Places /\ "append" \notin Inserting  BY DEF Places, Inserting, InOrder
    <2>2. \A d \in Clients \ {c} : pc[d] # "idle" /\ op[d].kind = "insert"
            => /\ op[d].table \in Existing'
               /\ heap'[tables'[op[d].table]].schema = SchemaOf(op[d].table)
      BY <1>1, <1>6 DEF Undisturbed, InsertsUnspoiled, SchemaOf
    <2> QED  BY <1>1, <1>2, <2>1, <2>2, ThreadsUndisturbed
  <1>8. ASSUME NEW u \in Tables, OnlyInserts(u)' PROVE ReadAsIs(u)'
    <2>1. u # t  BY <1>3, <1>8 DEF OnlyInserts
    <2>2. ReadAsIs(u)
      <3>1. OnlyInserts(u)  BY <1>1, <1>3, <1>8 DEF OnlyInserts
      <3> QED  BY <1>4, <3>1
    <2>3. Unlogged(u)' = Unlogged(u)
      <3>1. PICK others : /\ Unlogged(u) = others \cup OwnUnlogged(pc[c], op[c], u)
                          /\ Unlogged(u)' = others \cup OwnUnlogged("append", o, u)
        BY <1>3, UnloggedBut
      <3>2. OwnUnlogged("append", o, u) = {} /\ OwnUnlogged(pc[c], op[c], u) = {}
        BY <1>1, <2>1 DEF OwnUnlogged
      <3> QED  BY <3>1, <3>2
    <2> QED  BY <1>5, <1>6, <2>1, <2>2, <2>3 DEF ReadAsIs
  <1>9. ASSUME NEW d \in Clients, pc'[d] # "idle"
        PROVE  /\ op'[d].kind = "create" => CreateUnlogged(d)'
               /\ op'[d].kind = "drop" => op'[d].table \notin Existing'
    <2>1. CASE d = c  BY <1>3, <2>1
    <2>2. CASE d # c
      <3>1. pc[d] # "idle" /\ op'[d] = op[d] /\ op[d].table \in Tables \ {t}
        <4>1. op[d].table \in Tables  BY ThreadType DEF Ops
        <4> QED  BY <1>1, <1>3, <1>9, <2>2, <4>1
      <3>2. op[d].kind = "create" => CreateUnlogged(d)'
        BY <1>4, <1>5, <1>6, <3>1 DEF CreateUnlogged
      <3> QED  BY <1>4, <3>1, <3>2
    <2> QED  BY <2>1, <2>2
  <1>10. LogReads'  BY <1>4, <1>5, <1>8, <1>9 DEF LogReads
  <1> QED  BY <1>7, <1>10 DEF Undisturbed

\* A table created while nobody is about its name is not in the log, and no other is
\* disturbed.
LEMMA CreateTableUndisturbed ==
  ASSUME IInv, Undisturbed, NEW c \in Clients, NEW t \in Tables, NEW s \in Schemas,
         CreateTable(c, t, s), ~conflicted'
  PROVE  Undisturbed'
  <1> DEFINE T == [schema : Schemas, rows : SUBSET Row]
             new == [schema |-> s, rows |-> {}]
             n == Len(heap)
             o == [NoOp EXCEPT !.kind = "create", !.table = t, !.handle = n + 1]
  <1>1. /\ Serve(c, t, TRUE) /\ tables[t] = 0
        /\ heap' = Append(heap, new) /\ tables' = [tables EXCEPT ![t] = n + 1]
        /\ Spoil(c, t, o) /\ Goes(c, "append") /\ log' = log
    BY DEF CreateTable
  <1>2. Typed  BY DEF IInv
  <1>3. heap \in Seq(T) /\ n \in Nat /\ new \in T
    <2>1. heap \in Seq(T) /\ new \in T  BY <1>2 DEF Typed
    <2> HIDE DEF T, new
    <2> QED  BY <2>1
  <1>4. o \in Ops /\ o.kind = "create" /\ o.table = t /\ o.handle = n + 1
    <2> DEFINE k == n + 1
    <2>1. k \in Nat  BY <1>3
    <2> HIDE DEF k
    <2>2. o = [NoOp EXCEPT !.kind = "create", !.table = t, !.handle = k]  BY SMTT(30) DEF k
    <2> HIDE DEF o
    <2>3. o \in Ops  BY <2>1, <2>2, DdlOp
    <2>4. o.kind = "create" /\ o.table = t /\ o.handle = k  BY <2>2 DEF NoOp
    <2> QED  BY <2>3, <2>4 DEF k
  <1>5. heap'[n + 1] = new /\ \A h \in 1..n : heap'[h] = heap[h]
    <2> HIDE DEF T, new
    <2> QED  BY <1>1, <1>3
  <1>6. tables'[t] = n + 1 /\ \A u \in Tables \ {t} : tables'[u] = tables[u]
    BY <1>1, <1>2 DEF Typed
  <1>7. \A u \in Tables \ {t} : u \in Existing' <=> u \in Existing  BY <1>6 DEF Existing
  <1>8. \A u \in Existing \ {t} : tables'[u] = tables[u] /\ heap'[tables[u]] = heap[tables[u]]
    BY <1>2, <1>5, <1>6, ExistingHandle
  <1>9. op'[c] = o  BY <1>1 DEF Spoil
  <1> HIDE DEF o
  <1>10. t \notin Existing  BY <1>1 DEF Existing
  <1>11. CreateUnlogged(c)'
    <2>1. op'[c].table = t /\ op'[c].handle = n + 1  BY <1>4, <1>9
    <2>2. t \in Existing' /\ tables'[t] = n + 1  BY <1>3, <1>6 DEF Existing
    <2>3. heap'[n + 1].rows = {}  BY <1>5
    <2>4. OnlyInserts(t)  BY <1>1, ServedAlone DEF OnlyInserts
    <2>5. Recovered.view[t] = Absent
      BY <1>10, <2>4 DEF Undisturbed, LogReads, ReadAsIs
    <2>6. Recovered' = Recovered  BY <1>1 DEF Recovered
    <2> HIDE DEF n
    <2> QED  BY <2>1, <2>2, <2>3, <2>5, <2>6 DEF CreateUnlogged
  <1> QED  BY <1>1, <1>4, <1>7, <1>8, <1>10, <1>11, CatalogueUndisturbed

\* A table dropped while nobody is about it is missed by nobody.
LEMMA DropTableUndisturbed ==
  ASSUME IInv, Undisturbed, NEW c \in Clients, NEW t \in Tables, DropTable(c, t), ~conflicted'
  PROVE  Undisturbed'
  <1> DEFINE o == [NoOp EXCEPT !.kind = "drop", !.table = t]
  <1>1. /\ Serve(c, t, TRUE) /\ heap' = heap /\ tables' = [tables EXCEPT ![t] = 0]
        /\ Spoil(c, t, o) /\ Goes(c, "append") /\ log' = log
    BY DEF DropTable
  <1>2. o \in Ops /\ o.kind = "drop" /\ o.table = t  BY DdlOp
  <1>3. tables'[t] = 0 /\ \A u \in Tables \ {t} : tables'[u] = tables[u]
    BY <1>1 DEF IInv, Typed
  <1>4. \A u \in Tables \ {t} : u \in Existing' <=> u \in Existing  BY <1>3 DEF Existing
  <1>5. \A u \in Existing \ {t} : tables'[u] = tables[u] /\ heap'[tables[u]] = heap[tables[u]]
    BY <1>1, <1>3 DEF Existing
  <1>6. t \notin Existing'  BY <1>3 DEF Existing
  <1> HIDE DEF o
  <1> QED  BY <1>1, <1>2, <1>4, <1>5, <1>6, CatalogueUndisturbed

-----------------------------------------------------------------------------
(* The log reads back as the tables.                                       *)

\* A server that starts has an empty log and no tables.
LEMMA InitUndisturbed ==
  ASSUME Init
  PROVE  ReplayInv
  <1>1. /\ tables = [t \in Tables |-> 0] /\ log = <<>>
        /\ pc = [c \in Clients |-> "idle"]
    BY DEF Init
  <1>2. Recovered = [ok |-> TRUE, view |-> [t \in Tables |-> Absent]]
    BY <1>1, ReplayOfNothing DEF Recovered
  <1>3. Absent \in ReadTables  BY DEF Absent, ReadTables
  <1>4. Recovered \in [ok : {TRUE}, view : [Tables -> ReadTables]]  BY <1>2, <1>3
  <1>5. \A t \in Tables : ReadAsIs(t)  BY <1>1, <1>2 DEF ReadAsIs, Existing
  <1>6. \A c \in Clients : pc[c] = "idle" /\ pc[c] \notin Inserting
    BY <1>1 DEF Inserting, InOrder
  <1>7. log \in Seq(Records)  BY <1>1
  <1>8. LogReads  BY <1>4, <1>5, <1>6, <1>7 DEF LogReads
  <1> QED
    BY <1>6, <1>8
    DEF ReplayInv, Undisturbed, KindsPlaced, RequestsApart, InsertsUnspoiled, NoneNarrowed

\* As long as no CREATE or DROP overlaps another request on its table and no request
\* fails half way, every step keeps the log and the tables together.
LEMMA StepUndisturbed ==
  ASSUME IInv, ReplayInv, [Next]_vars
  PROVE  ReplayInv'
  <1> SUFFICES ASSUME ~conflicted', ~leftover'
               PROVE  Undisturbed'
    BY DEF ReplayInv
  <1> USE DEF ReplayInv
  <1>1. ASSUME NEW c \in Clients, NEW t \in Tables, NEW s \in Schemas, CreateTable(c, t, s)
        PROVE  Undisturbed'
    <2>1. ~conflicted  BY <1>1, ServedAlone DEF CreateTable
    <2>2. ~leftover  BY <1>1 DEF CreateTable
    <2> QED  BY <1>1, <2>1, <2>2, CreateTableUndisturbed
  <1>2. ASSUME NEW c \in Clients, NEW t \in Tables, DropTable(c, t)
        PROVE  Undisturbed'
    <2>1. ~conflicted  BY <1>2, ServedAlone DEF DropTable
    <2>2. ~leftover  BY <1>2 DEF DropTable
    <2> QED  BY <1>2, <2>1, <2>2, DropTableUndisturbed
  <1>3. ASSUME NEW c \in Clients, NEW t \in Tables, NEW i \in Inserts, PlanInsert(c, t, i)
        PROVE  Undisturbed'
    <2>1. Serve(c, t, FALSE) /\ leftover' = leftover  BY <1>3 DEF PlanInsert
    <2>2. ~conflicted  BY <2>1, ServedAlone
    <2> QED  BY <1>3, <2>1, <2>2, PlanInsertUndisturbed
  <1>4. ASSUME NEW c \in Clients, NEW t \in Tables, SumTable(c, t)
        PROVE  Undisturbed'
    <2>1. ~conflicted /\ ~leftover  BY <1>4 DEF SumTable
    <2> QED  BY <1>4, <2>1, CheckUndisturbed
  <1>5. ASSUME NEW c \in Clients, Reorder(c)  PROVE Undisturbed'
    <2>1. ~conflicted /\ ~leftover  BY <1>5 DEF Reorder
    <2> QED  BY <1>5, <2>1, ReorderUndisturbed
  <1>6. ASSUME NEW c \in Clients, BeginSum(c)  PROVE Undisturbed'
    <2>1. ~conflicted /\ ~leftover  BY <1>6 DEF BeginSum
    <2> QED  BY <1>6, <2>1, CheckUndisturbed
  <1>7. ASSUME NEW c \in Clients, CheckLimit(c)  PROVE Undisturbed'
    <2>1. ~conflicted /\ ~leftover  BY <1>7 DEF CheckLimit
    <2> QED  BY <1>7, <2>1, CheckUndisturbed
  <1>8. ASSUME NEW c \in Clients, LookupHandle(c)  PROVE Undisturbed'
    <2>1. ~conflicted /\ ~leftover  BY <1>8 DEF LookupHandle
    <2> QED  BY <1>8, <2>1, CheckUndisturbed
  <1>9. ASSUME NEW c \in Clients, InsertMany(c)  PROVE Undisturbed'
    <2> DEFINE handle == op[c].handle
               schema == heap[handle].schema
               rows == [n \in 1..Len(op[c].rows) |-> [op[c].rows[n] EXCEPT !.spoiled = op[c].spoiled]]
               fitting == Max({n \in 0..Len(rows) : \A i \in 1..n : RowFits(rows[i].cells, schema)})
               some == fitting > 0
    <2>1. conflicted' = conflicted /\ (leftover' = leftover \/ leftover' = (leftover \/ some))
      BY <1>9 DEF InsertMany
    <2> HIDE DEF some
    <2>2. ~conflicted  BY <2>1
    <2>3. ~leftover
      <3>1. CASE leftover' = leftover  BY <3>1
      <3>2. CASE leftover' = (leftover \/ some)  BY <3>2, Zenon
      <3> QED  BY <2>1, <3>1, <3>2
    <2> QED  BY <1>9, <2>2, <2>3, InsertManyUndisturbed, SMTT(30)
  <1>10. ASSUME NEW c \in Clients, Encode(c)  PROVE Undisturbed'
    <2>1. conflicted' = conflicted /\ (leftover' = leftover \/ leftover' = TRUE)
      BY <1>10 DEF Encode
    <2>2. ~conflicted /\ ~leftover  BY <2>1
    <2> QED  BY <1>10, <2>2, EncodeUndisturbed
  <1>11. ASSUME NEW c \in Clients, AppendWal(c)  PROVE Undisturbed'
    <2>1. ~conflicted /\ ~leftover  BY <1>11 DEF AppendWal
    <2> QED  BY <1>11, <2>1, AppendWalUndisturbed
  <1>13. ASSUME NEW c \in Clients, AppendFails(c)  PROVE FALSE
    BY <1>13 DEF AppendFails
  <1>12. CASE UNCHANGED vars
    <2>1. /\ tables' = tables /\ heap' = heap /\ pc' = pc /\ op' = op /\ log' = log
          /\ conflicted' = conflicted /\ leftover' = leftover
      BY <1>12 DEF vars
    <2>2. Undisturbed  BY <2>1
    <2>3. KindsPlaced' /\ RequestsApart' /\ InsertsUnspoiled'
      BY <2>1, <2>2
      DEF Undisturbed, KindsPlaced, RequestsApart, InsertsUnspoiled, Existing
    <2>4. NoneNarrowed'
      <3>1. \A c \in Clients : Widened(op[c])' <=> Widened(op[c])
        BY <2>1 DEF Widened, SchemaOf
      <3> QED  BY <2>1, <2>2, <3>1 DEF Undisturbed, NoneNarrowed
    <2>5. Recovered' = Recovered /\ Existing' = Existing  BY <2>1 DEF Recovered, Existing
    <2>6. \A t : /\ Unlogged(t)' = Unlogged(t) /\ OnlyInserts(t)' = OnlyInserts(t)
                 /\ SchemaOf(t)' = SchemaOf(t)
      BY <2>1 DEF Unlogged, OnlyInserts, SchemaOf
    <2>7. \A t \in Tables : OnlyInserts(t)' => ReadAsIs(t)'
      BY <2>1, <2>2, <2>5, <2>6 DEF Undisturbed, LogReads, ReadAsIs
    <2>8. \A c \in Clients :
            /\ pc'[c] # "idle" /\ op'[c].kind = "create" => CreateUnlogged(c)'
            /\ pc'[c] # "idle" /\ op'[c].kind = "drop" => op'[c].table \notin Existing'
      BY <2>1, <2>2, <2>5 DEF Undisturbed, LogReads, CreateUnlogged
    <2>9. LogReads'  BY <2>1, <2>2, <2>5, <2>7, <2>8 DEF Undisturbed, LogReads
    <2> QED  BY <2>3, <2>4, <2>9 DEF Undisturbed
  <1> QED
    BY <1>1, <1>2, <1>3, <1>4, <1>5, <1>6, <1>7, <1>8, <1>9, <1>10, <1>11, <1>12, <1>13
    DEF Next, Step, Rest

\* While no request overlapped a CREATE or DROP and none failed half way, the log says
\* of every table what is in memory, but for the rows on their way (plan_insert's
\* literals, insert_many, encode and decode, apply).
THEOREM LogReadsBack == Spec => []ReplayInv
  <1>1. Init => ReplayInv  BY InitUndisturbed
  <1>2. IInv /\ ReplayInv /\ [Next]_vars => ReplayInv'  BY StepUndisturbed
  <1> QED  BY <1>1, <1>2, RequestsInvariant, PTL DEF Spec

\* The inductive invariant of the request pipeline: what every thread knows on its way,
\* the room below the memory limit, and what the log says of the tables.
THEOREM PipelineInvariant == Spec => []PipelineInv
  <1>1. IInv /\ ReplayInv => PipelineInv  BY DEF PipelineInv
  <1> QED  BY <1>1, RequestsInvariant, LogReadsBack, PTL

\* A restart or a replica reads the records, which carry no types, as exactly the
\* tables in memory.
THEOREM RestartReadsBack == Spec => []RecoveryExact
  <1>1. IInv /\ ReplayInv => RecoveryExact
    <2> SUFFICES ASSUME IInv, ReplayInv, Quiet, ~conflicted, ~leftover
                 PROVE  /\ Recovered.ok
                        /\ \A t \in Tables :
                              Recovered.view[t] = IF tables[t] = NoTable THEN Absent ELSE heap[tables[t]]
      BY DEF RecoveryExact
    <2>1. LogReads  BY DEF ReplayInv, Undisturbed
    <2>2. Recovered \in [ok : {TRUE}, view : [Tables -> ReadTables]]  BY <2>1 DEF LogReads
    <2>3. Recovered.ok = TRUE /\ Recovered.view \in [Tables -> ReadTables]  BY <2>2
    <2>4. Recovered.ok  BY <2>3, Zenon
    <2>5. \A c \in Clients : pc[c] = "idle"  BY DEF Quiet
    <2>6. ASSUME NEW t \in Tables
          PROVE  Recovered.view[t] = IF tables[t] = NoTable THEN Absent ELSE heap[tables[t]]
      <3>1. OnlyInserts(t)  BY <2>5 DEF OnlyInserts
      <3>2. ReadAsIs(t)  BY <2>1, <3>1 DEF LogReads
      <3>3. Unlogged(t) = {}
        <4>1. {d \in Clients : pc[d] \in {"encode", "append"} /\ op[d].kind = "insert" /\ op[d].table = t} = {}
          BY <2>5
        <4> QED  BY <4>1 DEF Unlogged
      <3>4. CASE t \notin Existing  BY <3>2, <3>4 DEF ReadAsIs, Existing
      <3>5. CASE t \in Existing
        <4> DEFINE read == Recovered.view[t]
                   is == heap[tables[t]]
                   Q == SUBSET Row
                   Z == Schemas \cup {<<>>}
        <4>1. read.schema = is.schema /\ read.rows = is.rows
          BY <3>2, <3>3, <3>5 DEF ReadAsIs, SchemaOf
        <4>2. read \in [schema : Z, rows : Q]  BY <2>3 DEF ReadTables
        <4>3. is \in [schema : Schemas, rows : Q]  BY <3>5, SchemaOfType, HeapType DEF IInv
        <4> HIDE DEF read, is, Q, Z
        <4>4. read = is  BY <4>1, <4>2, <4>3
        <4>5. tables[t] # NoTable  BY <3>5 DEF Existing
        <4> QED  BY <4>4, <4>5 DEF read, is
      <3> QED  BY <3>4, <3>5
    <2> QED  BY <2>4, <2>6
  <1> QED  BY <1>1, RequestsInvariant, LogReadsBack, PTL
=============================================================================
