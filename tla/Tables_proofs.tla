---------------------------- MODULE Tables_proofs ---------------------------
(***************************************************************************)
(* Proofs about Tables, for every schema, every set of rows clients send   *)
(* and every value of the bounds: the columns stay aligned, rows come      *)
(* back, and reading undoes writing.                                       *)
(***************************************************************************)
EXTENDS TablesInv, NaturalFacts, SequenceTheorems

-----------------------------------------------------------------------------
(* Facts about sequences. *)

\* c is a with b behind it.
Joins(a, b, c) ==
    /\ Len(a) \in Nat /\ Len(b) \in Nat /\ Len(c) = Len(a) + Len(b)
    /\ \A k \in 1..Len(a) : c[k] = a[k]
    /\ \A k \in 1..Len(b) : c[Len(a) + k] = b[k]

\* b begins with a.
Begins(a, b) == Len(a) <= Len(b) /\ \A k \in 1..Len(a) : b[k] = a[k]

\* f grows by one piece at a time.
Grows(S, parts, n, f) ==
    /\ f \in [0..n -> Seq(S)] /\ f[0] = <<>>
    /\ \A i \in 1..n : f[i] = f[i - 1] \o parts[i]

\* g is what FlattenSeq unfolds to.
Unfolds(parts, n, g) ==
    \A i \in 1..n : g[i] = IF i = 1 THEN parts[i] ELSE g[i - 1] \o parts[i]

\* What is where in two sequences put together.
LEMMA Joined ==
  ASSUME NEW S, NEW a \in Seq(S), NEW b \in Seq(S), NEW c, c = a \o b
  PROVE  c \in Seq(S) /\ Joins(a, b, c)
  <1>1. Len(a) \in Nat /\ Len(b) \in Nat  BY LenProperties
  <1>2. /\ c \in Seq(S) /\ Len(c) = Len(a) + Len(b)
        /\ \A k \in 1..(Len(a) + Len(b)) : c[k] = IF k <= Len(a) THEN a[k] ELSE b[k - Len(a)]
    BY ConcatProperties
  <1>3. ASSUME NEW k \in 1..Len(a) PROVE c[k] = a[k]  BY <1>1, <1>2
  <1>4. ASSUME NEW k \in 1..Len(b) PROVE c[Len(a) + k] = b[k]
    <2>1. /\ Len(a) + k \in 1..(Len(a) + Len(b)) /\ ~(Len(a) + k <= Len(a))
          /\ (Len(a) + k) - Len(a) = k
      BY <1>1
    <2> QED  BY <1>2, <2>1
  <1> QED  BY <1>1, <1>2, <1>3, <1>4 DEF Joins

\* Built piece by piece, a sequence keeps what it began with.
LEMMA PiecesStay ==
  ASSUME NEW S, NEW n \in Nat, NEW parts \in [1..n -> Seq(S)], NEW f, Grows(S, parts, n, f),
         NEW i \in 0..n, NEW j \in i..n
  PROVE  Begins(f[i], f[j])
  <1> DEFINE T == {d \in Nat : i + d <= n => Begins(f[i], f[i + d])}
  <1>1. 0 \in T
    <2>1. f[i] \in Seq(S)  BY DEF Grows
    <2>2. Len(f[i]) \in Nat  BY <2>1, LenProperties
    <2> QED  BY <2>2 DEF Begins
  <1>2. ASSUME NEW d \in Nat, d \in T PROVE d + 1 \in T
    <2> SUFFICES ASSUME i + (d + 1) <= n PROVE Begins(f[i], f[i + (d + 1)])  OBVIOUS
    <2>1. PICK m : m = i + d  OBVIOUS
    <2>2. m + 1 \in 1..n /\ m \in 0..n /\ (m + 1) - 1 = m /\ i + (d + 1) = m + 1  BY <2>1
    <2>3. f[m + 1] = f[m] \o parts[m + 1]  BY <2>2 DEF Grows
    <2>4. Begins(f[i], f[m])  BY <1>2, <2>1, <2>2
    <2>5. f[m] \in Seq(S) /\ parts[m + 1] \in Seq(S) /\ f[i] \in Seq(S)  BY <2>2 DEF Grows
    <2>6. PICK a, b, c, p : a = f[i] /\ b = f[m] /\ p = parts[m + 1] /\ c = f[m + 1]  OBVIOUS
    <2>7. Joins(b, p, c)  BY <2>3, <2>5, <2>6, Joined
    <2>8. Len(a) \in Nat  BY <2>5, <2>6, LenProperties
    <2>9. Begins(a, b)  BY <2>4, <2>6
    <2>10. Begins(a, c)
      <3>1. /\ Len(a) <= Len(b) /\ Len(b) \in Nat /\ Len(p) \in Nat /\ Len(c) = Len(b) + Len(p)
        BY <2>7, <2>9 DEF Begins, Joins
      <3>2. Len(a) <= Len(c)  BY <2>8, <3>1
      <3>3. \A k \in 1..Len(a) : k \in 1..Len(b)  BY <2>8, <3>1
      <3>4. \A k \in 1..Len(a) : c[k] = a[k]  BY <2>7, <2>9, <3>3 DEF Begins, Joins
      <3> QED  BY <3>2, <3>4 DEF Begins
    <2> QED  BY <2>2, <2>6, <2>10
  <1> HIDE DEF T
  <1>3. Nat \subseteq T  BY <1>1, <1>2, Induction
  <1>4. j - i \in T /\ i + (j - i) = j  BY <1>3
  <1> QED  BY <1>4 DEF T

\* Growing from nothing and growing from the first piece come to the same.
LEMMA GrowthAgrees ==
  ASSUME NEW S, NEW n \in Nat, n > 0, NEW parts, NEW f, NEW g,
         Grows(S, parts, n, f), Unfolds(parts, n, g), f[1] = parts[1]
  PROVE  f[n] = g[n]
  <1> DEFINE h == [i \in 0..n |-> IF i = 0 THEN <<>> ELSE g[i]]
  <1>1. h[0] = <<>> /\ \A i \in 1..n : h[i] = g[i]  OBVIOUS
  <1>2. \A i \in 1..n : i # 1 => h[i - 1] = g[i - 1]  OBVIOUS
  <1> HIDE DEF h
  <1>3. ASSUME NEW i \in 1..n, f[i - 1] = h[i - 1] PROVE f[i] = h[i]
    <2>1. CASE i = 1  BY <1>1, <2>1 DEF Unfolds
    <2>2. CASE i # 1
      <3>1. g[i] = g[i - 1] \o parts[i] /\ f[i] = f[i - 1] \o parts[i]
        BY <2>2 DEF Unfolds, Grows
      <3> QED  BY <1>1, <1>2, <1>3, <2>2, <3>1
    <2> QED  BY <2>1, <2>2
  <1>4. f[0] = h[0]  BY <1>1 DEF Grows
  <1>5. \A i \in 0..n : f[i] = h[i]
    <2>1. Alike(n, f, h)  BY <1>3, <1>4 DEF Alike
    <2> QED  BY <2>1, RecursionAgrees
  <1> QED  BY <1>1, <1>5, n \in 1..n /\ n \in 0..n

\* FlattenSeq is the last of the sequences that grow by one piece at a time.
LEMMA FlattenGrows ==
  ASSUME NEW S, NEW n \in Nat, n > 0, NEW parts \in [1..n -> Seq(S)]
  PROVE  \E f : Grows(S, parts, n, f) /\ f[n] = FlattenSeq(parts)
  <1> DEFINE X == Seq(S)
             step == [i \in 1..n |-> [x \in X |-> x \o parts[i]]]
             base == <<>>
  <1>1. base \in X /\ \A x \in X : \A i \in 1..n : step[i][x] = x \o parts[i] /\ step[i][x] \in X
    OBVIOUS
  <1> HIDE DEF step
  <1>2. PICK f : f \in [0..n -> X] /\ Builds(f, n, base, step)  BY <1>1, Recursion DEF X
  <1>3. f[0] = <<>> /\ \A i \in 1..n : f[i] = f[i - 1] \o parts[i]
    <2>1. \A i \in 1..n : f[i - 1] \in X  BY <1>2
    <2> QED  BY <1>1, <1>2, <2>1 DEF Builds
  <1>4. Grows(S, parts, n, f)  BY <1>2, <1>3 DEF Grows, X
  <1>5. f[1] = parts[1]
    <2>1. 1 \in 1..n /\ 1 - 1 = 0  OBVIOUS
    <2>2. parts[1] \in Seq(S) /\ f[1] = <<>> \o parts[1]  BY <1>3, <2>1
    <2> QED  BY <2>2, ConcatEmptySeq
  <1> DEFINE Fixed(h) == h = [i \in 1..n |-> IF i = 1 THEN parts[i] ELSE h[i - 1] \o parts[i]]
             g == [i \in 1..n |-> f[i]]
             flatten == CHOOSE h : Fixed(h)
  <1>6. Fixed(g)
    <2>1. ASSUME NEW i \in 1..n, i # 1 PROVE f[i] = g[i - 1] \o parts[i]
      <3>1. g[i - 1] = f[i - 1]  BY <2>1
      <3> QED  BY <1>3, <3>1
    <2> QED  BY <1>5, <2>1
  <1> HIDE DEF g
  <1>7. Fixed(flatten)  BY <1>6
  <1>8. DOMAIN parts = 1..n /\ Len(parts) = n  OBVIOUS
  <1>9. FlattenSeq(parts) = flatten[n]  BY <1>8 DEF FlattenSeq
  <1> HIDE DEF flatten
  <1>10. Unfolds(parts, n, flatten)  BY <1>7 DEF Unfolds
  <1> HIDE DEF Fixed
  <1>11. f[n] = flatten[n]  BY <1>4, <1>5, <1>10, GrowthAgrees
  <1> QED  BY <1>4, <1>9, <1>11

\* Where the pieces of a flattened sequence begin and end.
Ends(parts, n, ends) ==
    /\ ends \in [0..n -> Nat] /\ ends[0] = 0 /\ ends[n] = Len(FlattenSeq(parts))
    /\ \A i \in 1..n : /\ Len(parts[i]) \in Nat /\ ends[i] = ends[i - 1] + Len(parts[i])
                       /\ ends[i] <= ends[n]
                       /\ \A k \in 1..Len(parts[i]) : FlattenSeq(parts)[ends[i - 1] + k] = parts[i][k]

LEMMA FlattenEnds ==
  ASSUME NEW S, NEW n \in Nat, n > 0, NEW parts \in [1..n -> Seq(S)]
  PROVE  FlattenSeq(parts) \in Seq(S) /\ \E ends : Ends(parts, n, ends)
  <1>0. PICK f : Grows(S, parts, n, f) /\ f[n] = FlattenSeq(parts)  BY FlattenGrows
  <1>1. /\ f \in [0..n -> Seq(S)] /\ f[0] = <<>>
        /\ \A i \in 1..n : f[i] = f[i - 1] \o parts[i]
    BY <1>0 DEF Grows
  <1> DEFINE ends == [i \in 0..n |-> Len(f[i])]
  <1>2. ends \in [0..n -> Nat] /\ \A i \in 0..n : ends[i] = Len(f[i])
    BY LenProperties
  <1> HIDE DEF ends
  <1>3. ends[0] = 0 /\ ends[n] = Len(FlattenSeq(parts))  BY <1>0, <1>1, <1>2
  <1>4. ASSUME NEW i \in 1..n
        PROVE  /\ Len(parts[i]) \in Nat /\ ends[i] = ends[i - 1] + Len(parts[i])
               /\ ends[i] <= ends[n]
               /\ \A k \in 1..Len(parts[i]) : FlattenSeq(parts)[ends[i - 1] + k] = parts[i][k]
    <2>1. i \in 0..n /\ i - 1 \in 0..n /\ n \in i..n  OBVIOUS
    <2>2. f[i - 1] \in Seq(S) /\ parts[i] \in Seq(S) /\ f[i] = f[i - 1] \o parts[i]
      BY <1>1, <2>1
    <2>3. /\ Len(f[i - 1]) \in Nat /\ Len(parts[i]) \in Nat
          /\ Len(f[i]) = Len(f[i - 1]) + Len(parts[i])
          /\ \A k \in 1..Len(parts[i]) : f[i][Len(f[i - 1]) + k] = parts[i][k]
      BY <2>2, Joined DEF Joins
    <2>4. Begins(f[i], f[n])  BY <1>0, <2>1, PiecesStay
    <2>5. ends[i] <= ends[n]  BY <1>2, <2>1, <2>4 DEF Begins
    <2>6. ASSUME NEW k \in 1..Len(parts[i]) PROVE f[n][Len(f[i - 1]) + k] = parts[i][k]
      <3>1. Len(f[i - 1]) + k \in 1..Len(f[i])  BY <2>3
      <3> QED  BY <2>1, <2>3, <2>4, <3>1 DEF Begins
    <2> QED  BY <1>0, <1>2, <2>1, <2>3, <2>5, <2>6
  <1>5. Ends(parts, n, ends)  BY <1>2, <1>3, <1>4 DEF Ends
  <1> QED  BY <1>0, <1>1, <1>5

-----------------------------------------------------------------------------
(* What a reader makes of what a writer wrote. *)

\* What a reader gives.
Got(v, at) == [ok |-> TRUE, v |-> v, at |-> at]

\* part is in the file at this place.
Written(file, at, part) ==
    /\ at + Len(part) <= Len(file)
    /\ \A k \in 1..Len(part) : file[at + k] = part[k]

LEMMA GotFields ==
  \A v, at : Got(v, at).ok = TRUE /\ Got(v, at).v = v /\ Got(v, at).at = at
  BY DEF Got

LEMMA GotWith ==
  ASSUME NEW v, NEW at, NEW w
  PROVE  [Got(v, at) EXCEPT !.v = w] = Got(w, at)
  <1>1. \A o, a, old, new :
           [[ok |-> o, v |-> old, at |-> a] EXCEPT !.v = new] = [ok |-> o, v |-> new, at |-> a]
    OBVIOUS
  <1> QED  BY <1>1, Zenon DEF Got

LEMMA FailedFields == Failed.ok = FALSE /\ Failed.at = 0
  BY DEF Failed

\* Two parts are written one behind the other.
LEMMA WrittenBoth ==
  ASSUME NEW S, NEW a \in Seq(S), NEW b \in Seq(S), NEW file, Len(file) \in Nat,
         NEW at \in Nat, Written(file, at, a \o b)
  PROVE  /\ Written(file, at, a) /\ Written(file, at + Len(a), b)
         /\ at + Len(a) \in Nat /\ Len(a \o b) = Len(a) + Len(b)
  <1> PICK c : c = a \o b  OBVIOUS
  <1>1. Joins(a, b, c)  BY Joined
  <1>2. /\ Len(a) \in Nat /\ Len(b) \in Nat /\ Len(c) = Len(a) + Len(b)
        /\ at + Len(c) <= Len(file)
    BY <1>1 DEF Joins, Written
  <1>3. ASSUME NEW k \in 1..Len(a) PROVE file[at + k] = a[k]
    <2>1. k \in 1..Len(c)  BY <1>2
    <2> QED  BY <1>1, <2>1 DEF Joins, Written
  <1>4. ASSUME NEW k \in 1..Len(b) PROVE file[(at + Len(a)) + k] = b[k]
    <2>1. Len(a) + k \in 1..Len(c) /\ at + (Len(a) + k) = (at + Len(a)) + k  BY <1>2
    <2>2. file[at + (Len(a) + k)] = c[Len(a) + k]  BY <2>1 DEF Written
    <2> QED  BY <1>1, <2>1, <2>2 DEF Joins
  <1>5. at + Len(a) <= Len(file) /\ (at + Len(a)) + Len(b) <= Len(file)  BY <1>2
  <1> QED  BY <1>2, <1>3, <1>4, <1>5 DEF Written

\* A run of numbers as cells.
LEMMA RunCells ==
  ASSUME NEW w \in Widths, NEW values \in Seq(Int)
  PROVE  /\ Run(w, values) \in Seq(Cells) /\ Len(Run(w, values)) = Len(values)
         /\ \A i \in 1..Len(values) : Run(w, values)[i] = Cell(w, values[i])
  <1>1. Len(values) \in Nat /\ \A i \in 1..Len(values) : values[i] \in Int  BY LenProperties
  <1>2. \A i \in 1..Len(values) : Cell(w, values[i]) \in Cells  BY <1>1 DEF Cell, Cells
  <1> QED  BY <1>1, <1>2 DEF Run

LEMMA U64Cells ==
  ASSUME NEW n \in Int
  PROVE  U64(n) \in Seq(Cells) /\ Len(U64(n)) = 1 /\ U64(n)[1] = Cell("u64", n)
  <1>1. Cell("u64", n) \in Cells  BY DEF Cell, Cells, Widths
  <1> QED  BY <1>1 DEF U64

\* A cell of the right width gives what is in it.
LEMMA TakeBack ==
  ASSUME NEW w, NEW v
  PROVE  Take(Cell(w, v), w) = v /\ SameSize(Cell(w, v).width, w)
  BY DEF Take, Cell, SameSize

\* Reader::raw_i64 and its like.
LEMMA RunBack ==
  ASSUME NEW file, NEW at \in Nat, NEW w \in Widths, NEW values \in Seq(Int),
         Written(file, at, Run(w, values))
  PROVE  ReadRun(file, at, Len(values), w) = Got(values, at + Len(values))
  <1>1. Len(values) \in Nat /\ values = [i \in 1..Len(values) |-> values[i]]  BY LenProperties
  <1>2. \A i \in 1..Len(values) : file[at + i] = Cell(w, values[i])  BY RunCells DEF Written
  <1>3. at + Len(values) <= Len(file)  BY RunCells DEF Written
  <1>4. /\ \A i \in 1..Len(values) : SameSize(file[at + i].width, w)
        /\ \A i \in 1..Len(values) : Take(file[at + i], w) = values[i]
    BY <1>2, TakeBack
  <1>5. [i \in 1..Len(values) |-> Take(file[at + i], w)] = values  BY <1>1, <1>4
  <1> QED  BY <1>3, <1>4, <1>5 DEF ReadRun, Got

\* Reader::u64.
LEMMA U64Back ==
  ASSUME NEW file, NEW at \in Nat, NEW n \in Int, Written(file, at, U64(n))
  PROVE  ReadRun(file, at, 1, "u64") = Got(<<n>>, at + 1)
  <1>1. /\ <<n>> \in Seq(Int) /\ Len(<<n>>) = 1 /\ "u64" \in Widths  BY DEF Widths
  <1>2. Run("u64", <<n>>) = U64(n)  BY DEF Run, U64
  <1> QED  BY <1>1, <1>2, RunBack

\* Reader::str and its like.
LEMMA CountedBack ==
  ASSUME NEW file, NEW at \in Nat, NEW w \in Widths, NEW values \in Seq(Int),
         Written(file, at, U64(Len(values))), Written(file, at + 1, Run(w, values))
  PROVE  ReadCounted(file, at, w) = Got(values, at + (1 + Len(values)))
  <1>1. Len(values) \in Nat  BY LenProperties
  <1>2. ReadRun(file, at, 1, "u64") = Got(<<Len(values)>>, at + 1)  BY <1>1, U64Back
  <1>3. ReadRun(file, at + 1, Len(values), w) = Got(values, (at + 1) + Len(values))
    BY RunBack
  <1>4. (at + 1) + Len(values) = at + (1 + Len(values))  BY <1>1
  <1> PICK count : count = ReadRun(file, at, 1, "u64")  OBVIOUS
  <1>5. count = Got(<<Len(values)>>, at + 1)  BY <1>2
  <1>6. count.ok = TRUE /\ count.at = at + 1 /\ count.v = <<Len(values)>>  BY <1>5 DEF Got
  <1> QED  BY <1>3, <1>4, <1>6 DEF ReadCounted

\* The readers of n items, each beginning where the one before it ended.
Chained(at, n, reader, ends, vals, good) ==
    /\ ends[0] = at
    /\ \A i \in 1..n : reader[i][ends[i - 1]] = IF good[i] THEN Got(vals[i], ends[i]) ELSE Failed

ReadUpTo(n, vals, ends, good) ==
    IF \A i \in 1..n : good[i] THEN Got([i \in 1..n |-> vals[i]], ends[n]) ELSE Failed

\* What ReadAll makes of one item more.
ReadNext(before, item) ==
    IF before.ok /\ item.ok THEN [item EXCEPT !.v = Append(before.v, item.v)] ELSE Failed

\* One more item that was read.
LEMMA NextGot ==
  ASSUME NEW v, NEW a, NEW w, NEW at
  PROVE  ReadNext(Got(v, a), Got(w, at)) = Got(Append(v, w), at)
  <1>1. [Got(w, at) EXCEPT !.v = Append(v, w)] = Got(Append(v, w), at)  BY GotWith
  <1> QED  BY <1>1, GotFields DEF ReadNext

\* A sequence with one more item.
LEMMA OneMore ==
  ASSUME NEW n \in Nat, NEW vals
  PROVE  Append([i \in 1..n |-> vals[i]], vals[n + 1]) = [i \in 1..(n + 1) |-> vals[i]]
  <1> DEFINE S == {vals[i] : i \in 1..(n + 1)}
             s == [i \in 1..n |-> vals[i]]
             t == [i \in 1..(n + 1) |-> vals[i]]
  <1>1. \A i \in 1..(n + 1) : vals[i] \in S  OBVIOUS
  <1> HIDE DEF S
  <1>2. s \in Seq(S) /\ Len(s) = n /\ t \in Seq(S) /\ Len(t) = n + 1 /\ vals[n + 1] \in S
    BY <1>1
  <1>3. /\ \A i \in 1..n : s[i] = vals[i]
        /\ \A i \in 1..(n + 1) : t[i] = vals[i]
    OBVIOUS
  <1> HIDE DEF s, t
  <1>4. /\ Append(s, vals[n + 1]) \in Seq(S) /\ Len(Append(s, vals[n + 1])) = n + 1
        /\ \A i \in 1..n : Append(s, vals[n + 1])[i] = vals[i]
        /\ Append(s, vals[n + 1])[n + 1] = vals[n + 1]
    BY <1>2, <1>3, AppendProperties
  <1>5. \A i \in 1..(n + 1) : Append(s, vals[n + 1])[i] = t[i]
    <2>1. \A i \in 1..(n + 1) : i \in 1..n \/ i = n + 1  OBVIOUS
    <2> QED  BY <1>3, <1>4, <2>1
  <1>6. Append(s, vals[n + 1]) = t  BY <1>2, <1>4, <1>5, SeqEqual
  <1> QED  BY <1>6 DEF s, t

\* One item more: ReadAll goes on as ReadUpTo says.
LEMMA ReadOneMore ==
  ASSUME NEW at, NEW n \in Nat, NEW reader, NEW ends, NEW vals, NEW good,
         Chained(at, n, reader, ends, vals, good), NEW i \in 1..n
  PROVE  ReadUpTo(i, vals, ends, good) =
            ReadNext(ReadUpTo(i - 1, vals, ends, good), reader[i][ReadUpTo(i - 1, vals, ends, good).at])
  <1> PICK before : before = ReadUpTo(i - 1, vals, ends, good)  OBVIOUS
  <1> PICK item : item = reader[i][before.at]  OBVIOUS
  <1>1. \A j \in 1..i : j \in 1..(i - 1) \/ j = i  OBVIOUS
  <1>2. i \in 1..i /\ \A j \in 1..(i - 1) : j \in 1..i  OBVIOUS
  <1>3. CASE \E j \in 1..(i - 1) : ~good[j]
    <2>1. before = Failed  BY <1>3 DEF ReadUpTo
    <2>2. ReadUpTo(i, vals, ends, good) = Failed  BY <1>2, <1>3 DEF ReadUpTo
    <2> QED  BY <2>1, <2>2, FailedFields DEF ReadNext
  <1>4. CASE \A j \in 1..(i - 1) : good[j]
    <2>1. before = Got([j \in 1..(i - 1) |-> vals[j]], ends[i - 1])  BY <1>4 DEF ReadUpTo
    <2>2. before.at = ends[i - 1]  BY <2>1, GotFields
    <2>3. item = IF good[i] THEN Got(vals[i], ends[i]) ELSE Failed
      BY <2>2 DEF Chained
    <2>4. CASE good[i]
      <3> PICK old : old = [j \in 1..(i - 1) |-> vals[j]]  OBVIOUS
      <3> PICK new : new = [j \in 1..i |-> vals[j]]  OBVIOUS
      <3>1. item = Got(vals[i], ends[i])  BY <2>3, <2>4
      <3>2. ReadUpTo(i, vals, ends, good) = Got(new, ends[i])
        BY <1>1, <1>4, <2>4 DEF ReadUpTo
      <3>3. i - 1 \in Nat /\ (i - 1) + 1 = i  OBVIOUS
      <3>4. Append(old, vals[i]) = new  BY <3>3, OneMore
      <3>5. before = Got(old, ends[i - 1])  BY <2>1
      <3>6. ReadNext(before, item) = Got(Append(old, vals[i]), ends[i])  BY <3>1, <3>5, NextGot
      <3> QED  BY <3>2, <3>4, <3>6
    <2>5. CASE ~good[i]
      <3>1. item = Failed  BY <2>3, <2>5
      <3>2. ReadUpTo(i, vals, ends, good) = Failed  BY <1>2, <2>5 DEF ReadUpTo
      <3> QED  BY <3>1, <3>2, FailedFields DEF ReadNext
    <2> QED  BY <2>4, <2>5
  <1> QED  BY <1>3, <1>4

LEMMA AllBack ==
  ASSUME NEW at, NEW n \in Nat, NEW reader, NEW ends, NEW vals, NEW good,
         Chained(at, n, reader, ends, vals, good)
  PROVE  ReadAll(at, n, reader) = ReadUpTo(n, vals, ends, good)
  <1> DEFINE Step(b, i) == ReadNext(b, reader[i][b.at])
             First == [ok |-> TRUE, v |-> <<>>, at |-> at]
             Fixed(u) == u = [i \in 0..n |-> IF i = 0 THEN First ELSE Step(u[i - 1], i)]
             known == [i \in 0..n |-> ReadUpTo(i, vals, ends, good)]
             read == CHOOSE u : Fixed(u)
  <1>1. ReadUpTo(0, vals, ends, good) = First
    <2>1. [i \in 1..0 |-> vals[i]] = <<>> /\ ends[0] = at  BY DEF Chained
    <2> QED  BY <2>1 DEF ReadUpTo, Got
  <1>2. ASSUME NEW i \in 1..n
        PROVE  ReadUpTo(i, vals, ends, good) = Step(ReadUpTo(i - 1, vals, ends, good), i)
    BY ReadOneMore
  <1> HIDE DEF Step, First
  <1>3. \A i \in 1..n : known[i - 1] = ReadUpTo(i - 1, vals, ends, good)  OBVIOUS
  <1>4. \A i \in 0..n : known[i] = ReadUpTo(i, vals, ends, good)  OBVIOUS
  <1>5. Fixed(known)  BY <1>1, <1>2, <1>3
  <1> HIDE DEF known
  <1>6. Fixed(read)  BY <1>5
  <1>7. read[0] = First /\ \A i \in 1..n : read[i] = Step(read[i - 1], i)
    <2>1. 0 \in 0..n /\ \A i \in 1..n : i \in 0..n /\ i # 0  OBVIOUS
    <2>2. \A i \in 0..n : read[i] = IF i = 0 THEN First ELSE Step(read[i - 1], i)  BY <1>6
    <2> QED  BY <2>1, <2>2
  <1>8. ReadAll(at, n, reader) = read[n]  BY DEF ReadAll, ReadNext, Step, First
  <1> HIDE DEF read, Fixed
  <1>9. known[0] = First /\ \A i \in 1..n : known[i] = Step(known[i - 1], i)
    BY <1>1, <1>2, <1>3, <1>4
  <1>10. \A i \in 1..n : read[i - 1] = known[i - 1] => read[i] = known[i]  BY <1>7, <1>9
  <1>11. read[0] = known[0]  BY <1>7, <1>9
  <1>12. \A i \in 0..n : read[i] = known[i]
    <2>1. Alike(n, read, known)  BY <1>10, <1>11 DEF Alike
    <2> QED  BY <2>1, RecursionAgrees
  <1> QED  BY <1>4, <1>8, <1>12

-----------------------------------------------------------------------------
(* Values and rows. *)

\* Value as a client may send it.
IsValue(x) == x.type \in Types /\ x \in ValuesOf(x.type)

\* What a column of a type gives back of a value written: the value, or the bits of
\* an integer taken for a float.
ReadBack(type, x) == IF x.type = type THEN x ELSE Val(type, IF x.v = 0 THEN 0 ELSE Misread)

LEMMA ValueParts ==
  ASSUME NEW x, IsValue(x)
  PROVE  /\ x = Val(x.type, x.v) /\ WidthOf(x.type) \in Widths
         /\ x.type \in {"str", "vec"} => x.v \in Seq(Int) /\ Len(x.v) \in Nat
         /\ x.type \in {"int", "float"} => x.v \in Int
  <1>1. CASE x.type \in {"str", "vec"}
    <2>1. x \in [type : {x.type}, v : Seq(Int)]  BY <1>1 DEF IsValue, ValuesOf
    <2>2. x = [type |-> x.type, v |-> x.v] /\ x.v \in Seq(Int)  BY <2>1
    <2> QED  BY <1>1, <2>2, LenProperties DEF Val, WidthOf, Widths
  <1>2. CASE x.type \in {"int", "float"}
    <2>1. x \in [type : {x.type}, v : Int]  BY <1>2 DEF IsValue, ValuesOf
    <2>2. x = [type |-> x.type, v |-> x.v] /\ x.v \in Int  BY <2>1
    <2> QED  BY <1>2, <2>2 DEF Val, WidthOf, Widths
  <1> QED  BY <1>1, <1>2 DEF IsValue, Types

LEMMA ValueCells ==
  ASSUME NEW x, IsValue(x)
  PROVE  WriteValue(x) \in Seq(Cells)
  <1>1. CASE x.type \in {"str", "vec"}
    <2>1. U64(Len(x.v)) \in Seq(Cells) /\ Run(WidthOf(x.type), x.v) \in Seq(Cells)
      BY <1>1, ValueParts, U64Cells, RunCells
    <2> QED  BY <1>1, <2>1, ConcatProperties DEF WriteValue
  <1>2. CASE x.type \in {"int", "float"}
    <2>1. Cell(WidthOf(x.type), x.v) \in Cells  BY <1>2, ValueParts DEF Cell, Cells
    <2> QED  BY <1>2, <2>1 DEF WriteValue
  <1> QED  BY <1>1, <1>2 DEF IsValue, Types

\* What is read is of the column's type, whatever was written.
LEMMA ReadBackFits ==
  ASSUME NEW type \in Types, NEW x, IsValue(x), Fits(type, x)
  PROVE  ReadBack(type, x) \in ValuesOf(type) /\ Fits(type, ReadBack(type, x))
  <1>1. CASE x.type = type  BY <1>1 DEF ReadBack, IsValue
  <1>2. CASE x.type # type
    <2>1. type = "float"  BY <1>2 DEF Fits
    <2>2. Val("float", 0) \in ValuesOf("float") /\ Val("float", Misread) \in ValuesOf("float")
      BY DEF Val, ValuesOf, Misread
    <2>3. Fits("float", Val("float", 0)) /\ Fits("float", Val("float", Misread))
      BY DEF Fits, Val
    <2> QED  BY <1>2, <2>1, <2>2, <2>3 DEF ReadBack
  <1> QED  BY <1>1, <1>2

\* Reader::value after Writer::value.
LEMMA ValueBack ==
  ASSUME NEW type \in Types, NEW x, IsValue(x), Fits(type, x),
         NEW file, Len(file) \in Nat, NEW at \in Nat, Written(file, at, WriteValue(x))
  PROVE  ReadValue(file, at, type) = Got(ReadBack(type, x), at + Len(WriteValue(x)))
  <1>1. CASE type \in {"str", "vec"}
    <2>1. x.type = type /\ (type = "vec" => Len(x.v) = Dim)  BY <1>1 DEF Fits
    <2>2. x.v \in Seq(Int) /\ Len(x.v) \in Nat /\ WidthOf(type) \in Widths /\ x = Val(type, x.v)
      BY <1>1, <2>1, ValueParts
    <2>3. WriteValue(x) = U64(Len(x.v)) \o Run(WidthOf(type), x.v)  BY <1>1, <2>1 DEF WriteValue
    <2>4. /\ U64(Len(x.v)) \in Seq(Cells) /\ Len(U64(Len(x.v))) = 1
          /\ Run(WidthOf(type), x.v) \in Seq(Cells) /\ Len(Run(WidthOf(type), x.v)) = Len(x.v)
      BY <2>2, U64Cells, RunCells
    <2> PICK a, b : a = U64(Len(x.v)) /\ b = Run(WidthOf(type), x.v)  OBVIOUS
    <2>5. /\ Written(file, at, U64(Len(x.v))) /\ Written(file, at + 1, Run(WidthOf(type), x.v))
          /\ Len(WriteValue(x)) = 1 + Len(x.v)
      <3>1. a \in Seq(Cells) /\ b \in Seq(Cells) /\ Written(file, at, a \o b)  BY <2>3, <2>4
      <3>2. /\ Written(file, at, a) /\ Written(file, at + Len(a), b)
            /\ Len(a \o b) = Len(a) + Len(b)
        BY <3>1, WrittenBoth
      <3> QED  BY <2>3, <2>4, <3>2
    <2> PICK is : is = ReadCounted(file, at, WidthOf(type))  OBVIOUS
    <2>6. is = Got(x.v, at + Len(WriteValue(x)))  BY <2>2, <2>5, CountedBack
    <2>7. is.ok = TRUE /\ is.v = x.v  BY <2>6, GotFields
    <2>8. [is EXCEPT !.v = Val(type, x.v)] = Got(Val(type, x.v), at + Len(WriteValue(x)))
      BY <2>6, GotWith
    <2>9. ReadValue(file, at, type) = [is EXCEPT !.v = Val(type, x.v)]
      BY <1>1, <2>1, <2>7 DEF ReadValue
    <2> QED  BY <2>1, <2>2, <2>8, <2>9 DEF ReadBack
  <1>2. CASE type \in {"int", "float"}
    <2>1. x.type \in {"int", "float"} /\ (x.type = type \/ (type = "float" /\ x.type = "int"))
      BY <1>2 DEF Fits
    <2>2. x.v \in Int /\ WidthOf(type) \in Widths /\ x = Val(x.type, x.v)
      BY <1>2, <2>1, ValueParts DEF WidthOf, Widths
    <2>3. WriteValue(x) = <<Cell(WidthOf(x.type), x.v)>> /\ Len(WriteValue(x)) = 1
      BY <2>1 DEF WriteValue
    <2>4. at + 1 <= Len(file) /\ file[at + 1] = Cell(WidthOf(x.type), x.v)
      BY <2>3 DEF Written
    <2> PICK y : y = Take(Cell(WidthOf(x.type), x.v), WidthOf(type))  OBVIOUS
    <2> PICK is : is = ReadRun(file, at, 1, WidthOf(type))  OBVIOUS
    <2>5. SameSize(Cell(WidthOf(x.type), x.v).width, WidthOf(type))
      BY <2>1 DEF SameSize, Cell, WidthOf
    <2>6. ReadBack(type, x) = Val(type, y)
      BY <2>1, <2>2 DEF ReadBack, Take, Cell, WidthOf
    <2>7. [i \in 1..1 |-> Take(file[at + i], WidthOf(type))] = <<y>>  BY <2>4
    <2>8. is = Got(<<y>>, at + 1)
      <3>1. \A i \in 1..1 : i = 1  OBVIOUS
      <3>2. \A i \in 1..1 : SameSize(file[at + i].width, WidthOf(type))  BY <2>4, <2>5, <3>1
      <3> QED  BY <2>4, <2>7, <3>2 DEF ReadRun, Got
    <2>9. is.ok = TRUE /\ is.v = <<y>>  BY <2>8, GotFields
    <2>10. [is EXCEPT !.v = Val(type, y)] = Got(Val(type, y), at + 1)  BY <2>8, GotWith
    <2>11. ReadValue(file, at, type) = [is EXCEPT !.v = Val(type, y)]
      BY <1>2, <2>9 DEF ReadValue
    <2> QED  BY <2>3, <2>6, <2>10, <2>11
  <1> QED  BY <1>1, <1>2 DEF Types

\* The parts of what is written are written one behind the other.
LEMMA PartsWritten ==
  ASSUME NEW n \in Nat, NEW parts, NEW ends, Ends(parts, n, ends),
         NEW file, Len(file) \in Nat, NEW at \in Nat, Written(file, at, FlattenSeq(parts)),
         NEW i \in 1..n
  PROVE  /\ Written(file, at + ends[i - 1], parts[i]) /\ at + ends[i - 1] \in 0..Len(file)
         /\ at + ends[i] = (at + ends[i - 1]) + Len(parts[i])
  <1>1. /\ i \in 0..n /\ i - 1 \in 0..n /\ n \in 0..n
        /\ Len(parts[i]) \in Nat /\ ends[i] = ends[i - 1] + Len(parts[i]) /\ ends[i] <= ends[n]
        /\ ends[i] \in Nat /\ ends[i - 1] \in Nat /\ ends[n] \in Nat
        /\ ends[n] = Len(FlattenSeq(parts))
    BY DEF Ends
  <1>2. at + ends[n] <= Len(file)  BY <1>1 DEF Written
  <1>3. /\ (at + ends[i - 1]) + Len(parts[i]) <= Len(file) /\ at + ends[i - 1] \in 0..Len(file)
        /\ at + ends[i] = (at + ends[i - 1]) + Len(parts[i])
    <2>1. PICK a \in Nat, b \in Nat, c \in Nat, l \in Nat, m \in Nat :
             a = ends[i - 1] /\ b = ends[i] /\ c = ends[n] /\ l = Len(parts[i]) /\ m = Len(file)
      BY <1>1
    <2>2. b = a + l /\ b <= c /\ at + c <= m  BY <1>1, <1>2, <2>1
    <2>3. (at + a) + l <= m /\ at + a \in 0..m /\ at + b = (at + a) + l  BY <2>2
    <2> QED  BY <2>1, <2>3
  <1>4. ASSUME NEW k \in 1..Len(parts[i]) PROVE file[(at + ends[i - 1]) + k] = parts[i][k]
    <2>1. FlattenSeq(parts)[ends[i - 1] + k] = parts[i][k]  BY DEF Ends
    <2>2. /\ ends[i - 1] + k \in 1..Len(FlattenSeq(parts))
          /\ at + (ends[i - 1] + k) = (at + ends[i - 1]) + k
      <3>1. PICK a \in Nat, b \in Nat, c \in Nat, l \in Nat :
               a = ends[i - 1] /\ b = ends[i] /\ c = ends[n] /\ l = Len(parts[i])
        BY <1>1
      <3>2. b = a + l /\ b <= c /\ c = Len(FlattenSeq(parts)) /\ k \in 1..l  BY <1>1, <3>1
      <3>3. a + k \in 1..c /\ at + (a + k) = (at + a) + k  BY <3>2
      <3> QED  BY <3>1, <3>2, <3>3
    <2>3. file[at + (ends[i - 1] + k)] = FlattenSeq(parts)[ends[i - 1] + k]
      BY <2>2 DEF Written
    <2> QED  BY <2>1, <2>2, <2>3
  <1> QED  BY <1>3, <1>4 DEF Written

\* A row that InsertRow takes.
IsSent(row) == row \in Seq(ToSet(row)) /\ RowFits(row) /\ \A f \in Fields : IsValue(row[f])

\* What is read of it.
RowRead(row) == [f \in Fields |-> ReadBack(Schema[f], row[f])]

LEMMA SchemaFacts ==
  Len(Schema) \in Nat /\ Len(Schema) > 0 /\ \A f \in Fields : Schema[f] \in Types
  <1>1. Schema \in Seq(Types) /\ Schema # <<>>  BY SchemaAssumption
  <1> QED  BY <1>1, LenProperties, EmptySeq DEF Fields

LEMMA WriteRowEnds ==
  ASSUME NEW row, IsSent(row)
  PROVE  \E parts, ends : /\ Ends(parts, Len(Schema), ends) /\ WriteRow(row) = FlattenSeq(parts)
                          /\ WriteRow(row) \in Seq(Cells)
                          /\ \A f \in Fields : parts[f] = WriteValue(row[f])
  <1> DEFINE parts == [f \in 1..Len(row) |-> WriteValue(row[f])]
  <1>1. Len(row) = Len(Schema)  BY DEF IsSent, RowFits
  <1>2. \A f \in Fields : WriteValue(row[f]) \in Seq(Cells)  BY ValueCells DEF IsSent
  <1>3. parts \in [1..Len(Schema) -> Seq(Cells)] /\ \A f \in Fields : parts[f] = WriteValue(row[f])
    BY <1>1, <1>2 DEF Fields
  <1>4. WriteRow(row) = FlattenSeq(parts)  BY DEF WriteRow
  <1> HIDE DEF parts
  <1>5. Len(Schema) \in Nat /\ Len(Schema) > 0  BY SchemaFacts
  <1>6. FlattenSeq(parts) \in Seq(Cells) /\ \E ends : Ends(parts, Len(Schema), ends)
    BY <1>3, <1>5, FlattenEnds
  <1> QED  BY <1>3, <1>4, <1>6

\* Reading the values of a row after writing them.
LEMMA RowBack ==
  ASSUME NEW row, IsSent(row),
         NEW file, Len(file) \in Nat, NEW at \in Nat, Written(file, at, WriteRow(row))
  PROVE  ReadRow(file, at) = Got(RowRead(row), at + Len(WriteRow(row)))
  <1> PICK n : n = Len(Schema)  OBVIOUS
  <1>1. n \in Nat /\ Fields = 1..n  BY SchemaFacts DEF Fields
  <1>2. PICK parts, ends : /\ Ends(parts, n, ends) /\ WriteRow(row) = FlattenSeq(parts)
                           /\ \A f \in Fields : parts[f] = WriteValue(row[f])
    BY WriteRowEnds
  <1> DEFINE reader == [f \in Fields |-> [p \in 0..Len(file) |-> ReadValue(file, p, Schema[f])]]
             places == [f \in 0..n |-> at + ends[f]]
             vals == RowRead(row)
             good == [f \in Fields |-> TRUE]
  <1>3. ASSUME NEW f \in Fields
        PROVE  reader[f][at + ends[f - 1]] = Got(ReadBack(Schema[f], row[f]), at + ends[f])
    <2>1. /\ Written(file, at + ends[f - 1], WriteValue(row[f])) /\ at + ends[f - 1] \in 0..Len(file)
          /\ at + ends[f] = (at + ends[f - 1]) + Len(WriteValue(row[f]))
      BY <1>1, <1>2, PartsWritten
    <2>2. Schema[f] \in Types /\ IsValue(row[f]) /\ Fits(Schema[f], row[f])
      BY SchemaFacts DEF IsSent, RowFits
    <2> PICK p : p = at + ends[f - 1]  OBVIOUS
    <2>3. p \in Nat /\ p \in 0..Len(file) /\ Written(file, p, WriteValue(row[f]))  BY <2>1
    <2>4. ReadValue(file, p, Schema[f]) = Got(ReadBack(Schema[f], row[f]), p + Len(WriteValue(row[f])))
      BY <2>2, <2>3, ValueBack
    <2>5. reader[f][p] = ReadValue(file, p, Schema[f])  BY <2>3
    <2> QED  BY <2>1, <2>4, <2>5
  <1>4. ends[0] = 0 /\ ends[n] = Len(WriteRow(row))  BY <1>2 DEF Ends
  <1>5. /\ places[0] = at /\ places[n] = at + Len(WriteRow(row))
        /\ \A f \in 1..n : places[f - 1] = at + ends[f - 1] /\ places[f] = at + ends[f]
    BY <1>1, <1>4
  <1>6. \A f \in 1..n : vals[f] = ReadBack(Schema[f], row[f]) /\ good[f]  BY <1>1 DEF RowRead
  <1>7. vals = [f \in 1..n |-> vals[f]]  BY <1>1 DEF RowRead
  <1>8. ReadRow(file, at) = ReadAll(at, n, reader)  BY DEF ReadRow
  <1> HIDE DEF reader, places, vals, good
  <1>9. Chained(at, n, reader, places, vals, good)  BY <1>1, <1>3, <1>5, <1>6 DEF Chained
  <1>10. ReadAll(at, n, reader) = ReadUpTo(n, vals, places, good)  BY <1>1, <1>9, AllBack
  <1>11. ReadUpTo(n, vals, places, good) = Got(vals, places[n])  BY <1>6, <1>7 DEF ReadUpTo
  <1> QED  BY <1>5, <1>8, <1>10, <1>11 DEF vals

\* A row that is read has a value of its type for each column.
LEMMA ReadRowIsRow ==
  ASSUME NEW row, IsSent(row)
  PROVE  /\ IsRow(RowRead(row))
         /\ (\A f \in Fields : row[f].type = Schema[f]) => RowRead(row) = row
  <1> DEFINE new == RowRead(row)
  <1>1. Len(Schema) \in Nat /\ Fields = 1..Len(Schema)  BY SchemaFacts DEF Fields
  <1>2. DOMAIN new = 1..Len(Schema) /\ \A f \in Fields : new[f] = ReadBack(Schema[f], row[f])
    BY <1>1 DEF RowRead
  <1>3. new = [f \in 1..Len(Schema) |-> new[f]]  BY <1>1 DEF RowRead
  <1> HIDE DEF new
  <1>4. \A f \in 1..Len(Schema) : new[f] \in ToSet(new)  BY <1>2 DEF ToSet
  <1>5. new \in Seq(ToSet(new)) /\ Len(new) = Len(Schema)  BY <1>1, <1>3, <1>4
  <1>6. ASSUME NEW f \in Fields PROVE new[f] \in ValuesOf(Schema[f]) /\ Fits(Schema[f], new[f])
    <2>1. Schema[f] \in Types /\ IsValue(row[f]) /\ Fits(Schema[f], row[f])
      BY SchemaFacts DEF IsSent, RowFits
    <2> QED  BY <1>2, <2>1, ReadBackFits
  <1>7. ASSUME \A f \in Fields : row[f].type = Schema[f] PROVE new = row
    <2>1. \A f \in 1..Len(Schema) : new[f] = row[f]  BY <1>1, <1>2, <1>7 DEF ReadBack
    <2>2. row \in Seq(ToSet(row)) /\ Len(row) = Len(Schema)  BY DEF IsSent, RowFits
    <2>3. row = [f \in 1..Len(Schema) |-> row[f]]  BY <2>2, LenProperties
    <2> QED  BY <1>3, <2>1, <2>3
  <1> QED  BY <1>5, <1>6, <1>7 DEF IsRow, new

\* A file of a header and a body.
LEMMA BodyWritten ==
  ASSUME NEW S, NEW a \in Seq(S), NEW b \in Seq(S), NEW file, file = a \o b
  PROVE  /\ Len(file) \in Nat /\ Written(file, 0, a) /\ Written(file, Len(a), b)
         /\ Len(a) \in Nat
  <1>1. Joins(a, b, file) /\ file \in Seq(S)  BY Joined
  <1>2. Len(a) \in Nat /\ Len(b) \in Nat /\ Len(file) = Len(a) + Len(b)  BY <1>1 DEF Joins
  <1>3. \A k \in 1..Len(a) : file[0 + k] = a[k]
    <2>1. \A k \in 1..Len(a) : 0 + k = k  OBVIOUS
    <2> QED  BY <1>1, <2>1 DEF Joins
  <1>4. 0 + Len(a) <= Len(file) /\ Len(a) + Len(b) <= Len(file)  BY <1>2
  <1>5. \A k \in 1..Len(b) : file[Len(a) + k] = b[k]  BY <1>1 DEF Joins
  <1> QED  BY <1>2, <1>3, <1>4, <1>5 DEF Written

\* WalRecord::decode after WalRecord::encode.
LEMMA RowsBack ==
  ASSUME NEW n \in Nat, n > 0, NEW batch, Len(batch) = n, \A i \in 1..n : IsSent(batch[i])
  PROVE  \E at : ReadRows(WriteRows(batch)) = Got([i \in 1..n |-> RowRead(batch[i])], at)
  <1> DEFINE parts == [i \in 1..n |-> WriteRow(batch[i])]
  <1>1. \A i \in 1..n : WriteRow(batch[i]) \in Seq(Cells)  BY WriteRowEnds
  <1>2. parts \in [1..n -> Seq(Cells)] /\ \A i \in 1..n : parts[i] = WriteRow(batch[i])
    BY <1>1
  <1> PICK file : file = WriteRows(batch)  OBVIOUS
  <1>3. file = U64(n) \o FlattenSeq(parts)  BY DEF WriteRows
  <1> HIDE DEF parts
  <1>4. FlattenSeq(parts) \in Seq(Cells) /\ \E ends : Ends(parts, n, ends)
    BY <1>2, FlattenEnds
  <1>5. PICK ends : Ends(parts, n, ends)  BY <1>4
  <1>6. U64(n) \in Seq(Cells) /\ Len(U64(n)) = 1 /\ U64(n)[1] = Cell("u64", n)  BY U64Cells
  <1>7. Len(file) \in Nat /\ Written(file, 0, U64(n)) /\ Written(file, 1, FlattenSeq(parts))
    BY <1>3, <1>4, <1>6, BodyWritten
  <1>8. file[1].v = n
    <2>1. file[0 + 1] = Cell("u64", n)  BY <1>6, <1>7 DEF Written
    <2> QED  BY <2>1 DEF Cell
  <1> DEFINE reader == [i \in 1..n |-> [p \in 0..Len(file) |-> ReadRow(file, p)]]
             places == [i \in 0..n |-> 1 + ends[i]]
             vals == [i \in 1..n |-> RowRead(batch[i])]
             good == [i \in 1..n |-> TRUE]
  <1>9. ASSUME NEW i \in 1..n
        PROVE  reader[i][1 + ends[i - 1]] = Got(RowRead(batch[i]), 1 + ends[i])
    <2>1. /\ Written(file, 1 + ends[i - 1], WriteRow(batch[i])) /\ 1 + ends[i - 1] \in 0..Len(file)
          /\ 1 + ends[i] = (1 + ends[i - 1]) + Len(WriteRow(batch[i]))
      <3>1. PICK at \in Nat : at = 1  OBVIOUS
      <3>2. Written(file, at, FlattenSeq(parts))  BY <1>7, <3>1
      <3>3. /\ Written(file, at + ends[i - 1], parts[i]) /\ at + ends[i - 1] \in 0..Len(file)
            /\ at + ends[i] = (at + ends[i - 1]) + Len(parts[i])
        BY <1>5, <1>7, <3>2, PartsWritten
      <3>4. parts[i] = WriteRow(batch[i])  BY <1>2
      <3> QED  BY <3>1, <3>3, <3>4
    <2>2. IsSent(batch[i])  OBVIOUS
    <2>3. PICK p \in Nat : p = 1 + ends[i - 1]  BY <2>1
    <2>4. p \in 0..Len(file) /\ Written(file, p, WriteRow(batch[i]))  BY <2>1, <2>3
    <2>5. ReadRow(file, p) = Got(RowRead(batch[i]), p + Len(WriteRow(batch[i])))
      BY <1>7, <2>2, <2>4, RowBack
    <2>6. reader[i][p] = ReadRow(file, p)  BY <2>4
    <2> QED  BY <2>1, <2>3, <2>5, <2>6
  <1>10. ends[0] = 0  BY <1>5 DEF Ends
  <1>11. /\ places[0] = 1
         /\ \A i \in 1..n : places[i - 1] = 1 + ends[i - 1] /\ places[i] = 1 + ends[i]
    BY <1>10
  <1>12. \A i \in 1..n : vals[i] = RowRead(batch[i]) /\ good[i]  OBVIOUS
  <1>13. vals = [i \in 1..n |-> vals[i]]  OBVIOUS
  <1>14. ReadRows(file) = ReadAll(1, n, reader)  BY <1>8 DEF ReadRows
  <1> HIDE DEF reader, places, good, vals
  <1>15. Chained(1, n, reader, places, vals, good)  BY <1>9, <1>11, <1>12 DEF Chained
  <1>16. ReadAll(1, n, reader) = ReadUpTo(n, vals, places, good)  BY <1>15, AllBack
  <1>17. ReadUpTo(n, vals, places, good) = Got(vals, places[n])  BY <1>12, <1>13 DEF ReadUpTo
  <1>18. ReadRows(file) = Got(vals, places[n])  BY <1>14, <1>16, <1>17
  <1> QED  BY <1>18 DEF vals

-----------------------------------------------------------------------------
(* Columns and tables on disk. *)

LEMMA TableFacts ==
  ASSUME NEW t \in AlignedTables, NEW f \in Fields
  PROVE  /\ t.columns[f] \in Columns /\ t.columns[f].type = Schema[f] /\ Aligned(t.columns[f], t.nrows)
         /\ t.nrows \in Nat
  BY DEF AlignedTables

\* Strings whose offsets are in order can be read again; other columns always.
Readable(c) == c.type = "str" => StringsInOrder(c)

LEMMA ColumnParts ==
  ASSUME NEW c \in Columns
  PROVE  /\ c = [type |-> c.type, data |-> c.data, offsets |-> c.offsets]
         /\ c.type \in Types /\ c.data \in Seq(Int) /\ c.offsets \in Seq(Int)
         /\ Len(c.data) \in Nat /\ Len(c.offsets) \in Nat
         /\ \A i \in 1..Len(c.offsets) : c.offsets[i] \in Nat
  <1>1. /\ c = [type |-> c.type, data |-> c.data, offsets |-> c.offsets]
        /\ c.type \in Types /\ c.data \in Seq(Int) /\ c.offsets \in Seq(Nat)
    BY DEF Columns
  <1>2. Nat \subseteq Int  OBVIOUS
  <1>3. c.offsets \in Seq(Int)  BY <1>1, <1>2, SeqMonotonic
  <1>4. /\ Len(c.data) \in Nat /\ Len(c.offsets) \in Nat
        /\ \A i \in 1..Len(c.offsets) : c.offsets[i] \in Nat
    BY <1>1, LenProperties
  <1> QED  BY <1>1, <1>3, <1>4

LEMMA ColumnCells ==
  ASSUME NEW c \in Columns
  PROVE  WriteColumn(c) \in Seq(Cells)
  <1>1. /\ U64(Len(c.data)) \in Seq(Cells) /\ U64(Len(c.offsets)) \in Seq(Cells) /\ U64(Dim) \in Seq(Cells)
        /\ Run("u32", c.offsets) \in Seq(Cells) /\ Run("byte", c.data) \in Seq(Cells)
        /\ Run("f32", c.data) \in Seq(Cells) /\ Run("i64", c.data) \in Seq(Cells)
        /\ Run("f64", c.data) \in Seq(Cells)
    BY ColumnParts, SchemaAssumption, U64Cells, RunCells DEF Widths
  <1>2. \A a \in Seq(Cells), b \in Seq(Cells) : a \o b \in Seq(Cells)  BY ConcatProperties
  <1>3. CASE c.type = "str"  BY <1>1, <1>2, <1>3 DEF WriteColumn
  <1>4. CASE c.type = "vec"  BY <1>1, <1>2, <1>4 DEF WriteColumn
  <1>5. CASE c.type = "int"  BY <1>1, <1>2, <1>5 DEF WriteColumn, WidthOf
  <1>6. CASE c.type = "float"  BY <1>1, <1>2, <1>6 DEF WriteColumn, WidthOf
  <1> QED  BY <1>3, <1>4, <1>5, <1>6, ColumnParts DEF Types

LEMMA Multiples ==
  ASSUME NEW n \in Nat, NEW d \in Nat, d > 0
  PROVE  (n * d) \div d = n /\ (n * d) % d = 0
  OBVIOUS

\* Four parts are written one behind the other.
FourWritten(file, at, a, b, c, d) ==
    /\ Written(file, at, a) /\ Written(file, at + Len(a), b)
    /\ Written(file, at + (Len(a) + Len(b)), c)
    /\ Written(file, at + ((Len(a) + Len(b)) + Len(c)), d)
    /\ Len(((a \o b) \o c) \o d) = ((Len(a) + Len(b)) + Len(c)) + Len(d)

LEMMA WrittenFour ==
  ASSUME NEW S, NEW a \in Seq(S), NEW b \in Seq(S), NEW c \in Seq(S), NEW d \in Seq(S),
         NEW file, Len(file) \in Nat, NEW at \in Nat,
         Written(file, at, ((a \o b) \o c) \o d)
  PROVE  FourWritten(file, at, a, b, c, d)
  <1> PICK ab : ab = a \o b  OBVIOUS
  <1> PICK abc : abc = ab \o c  OBVIOUS
  <1>1. ab \in Seq(S) /\ abc \in Seq(S)  BY ConcatProperties
  <1>2. Written(file, at, abc \o d)  OBVIOUS
  <1>3. Written(file, at, abc) /\ Written(file, at + Len(abc), d) /\ Len(abc \o d) = Len(abc) + Len(d)
    BY <1>1, <1>2, WrittenBoth
  <1>4. Written(file, at, ab \o c)  BY <1>3
  <1>5. Written(file, at, ab) /\ Written(file, at + Len(ab), c) /\ Len(ab \o c) = Len(ab) + Len(c)
    BY <1>1, <1>4, WrittenBoth
  <1>6. Written(file, at, a \o b)  BY <1>5
  <1>7. Written(file, at, a) /\ Written(file, at + Len(a), b) /\ Len(a \o b) = Len(a) + Len(b)
    BY <1>6, WrittenBoth
  <1> QED  BY <1>3, <1>5, <1>7 DEF FourWritten

\* Reader::column after Writer::column, strings.
LEMMA StringsBack ==
  ASSUME NEW c \in Columns, c.type = "str", NEW n \in Nat, Aligned(c, n),
         NEW file, Len(file) \in Nat, NEW at \in Nat, Written(file, at, WriteColumn(c))
  PROVE  ReadColumn(file, at, "str") =
            IF StringsInOrder(c) THEN Got(c, at + Len(WriteColumn(c))) ELSE Failed
  <1>1. /\ c = [type |-> "str", data |-> c.data, offsets |-> c.offsets]
        /\ c.data \in Seq(Int) /\ c.offsets \in Seq(Int)
        /\ Len(c.data) \in Nat /\ Len(c.offsets) \in Nat
    BY ColumnParts
  <1>2. PICK lo \in Nat, ld \in Nat : lo = Len(c.offsets) /\ ld = Len(c.data)  BY <1>1
  <1>3. PICK p, q, r, s : p = U64(lo) /\ q = Run("u32", c.offsets) /\ r = U64(ld) /\ s = Run("byte", c.data)
    OBVIOUS
  <1>4. /\ p \in Seq(Cells) /\ Len(p) = 1 /\ r \in Seq(Cells) /\ Len(r) = 1
        /\ q \in Seq(Cells) /\ Len(q) = lo /\ s \in Seq(Cells) /\ Len(s) = ld
    BY <1>1, <1>2, <1>3, U64Cells, RunCells DEF Widths
  <1>5. WriteColumn(c) = ((p \o q) \o r) \o s  BY <1>2, <1>3 DEF WriteColumn
  <1>6. /\ Written(file, at, p) /\ Written(file, at + Len(p), q)
        /\ Written(file, at + (Len(p) + Len(q)), r)
        /\ Written(file, at + ((Len(p) + Len(q)) + Len(r)), s)
        /\ Len(WriteColumn(c)) = ((Len(p) + Len(q)) + Len(r)) + Len(s)
    <2>1. Written(file, at, ((p \o q) \o r) \o s)  BY <1>5
    <2>2. FourWritten(file, at, p, q, r, s)  BY <1>4, <2>1, WrittenFour
    <2> QED  BY <1>5, <2>2 DEF FourWritten
  <1>7. PICK mid \in Nat, end \in Nat : mid = at + (1 + lo) /\ end = mid + (1 + ld)  OBVIOUS
  <1>8. /\ Written(file, at, U64(lo)) /\ Written(file, at + 1, Run("u32", c.offsets))
        /\ Written(file, mid, U64(ld)) /\ Written(file, mid + 1, Run("byte", c.data))
        /\ end = at + Len(WriteColumn(c))
    <2>1. Len(p) + Len(q) = 1 + lo /\ (Len(p) + Len(q)) + Len(r) = (1 + lo) + 1  BY <1>4
    <2>2. /\ Written(file, at, p) /\ Written(file, at + 1, q)
          /\ Written(file, at + (1 + lo), r) /\ Written(file, at + ((1 + lo) + 1), s)
          /\ Len(WriteColumn(c)) = ((1 + lo) + 1) + ld
      BY <1>4, <1>6, <2>1
    <2>3. mid + 1 = at + ((1 + lo) + 1) /\ end = at + (((1 + lo) + 1) + ld)  BY <1>7
    <2> QED  BY <1>3, <1>7, <2>2, <2>3
  <1>9. "u32" \in Widths /\ "byte" \in Widths  BY DEF Widths
  <1>10. ReadCounted(file, at, "u32") = Got(c.offsets, mid)
    BY <1>1, <1>2, <1>7, <1>8, <1>9, CountedBack
  <1>11. ReadCounted(file, mid, "byte") = Got(c.data, end)
    BY <1>1, <1>2, <1>7, <1>8, <1>9, CountedBack
  <1> PICK offsets : offsets = ReadCounted(file, at, "u32")  OBVIOUS
  <1> PICK buf : buf = ReadCounted(file, mid, "byte")  OBVIOUS
  <1>12. offsets.ok = TRUE /\ offsets.v = c.offsets /\ offsets.at = mid  BY <1>10, GotFields
  <1>13. buf.ok = TRUE /\ buf.v = c.data  BY <1>11, GotFields
  <1>14. [buf EXCEPT !.v = [type |-> "str", data |-> buf.v, offsets |-> offsets.v]] = Got(c, end)
    BY <1>1, <1>11, <1>12, <1>13, GotWith
  <1>15. /\ offsets.v # <<>> /\ Head(offsets.v) = 0 /\ Last(offsets.v) = Len(buf.v) % OffsetLimit
         /\ (\A i \in 1..(Len(offsets.v) - 1) : offsets.v[i] <= offsets.v[i + 1]) <=> StringsInOrder(c)
    <2>1. LaidOut(c, n)  BY DEF Aligned
    <2>2. /\ lo = n + 1 /\ c.offsets[1] = 0 /\ c.offsets[n + 1] = Len(c.data) % OffsetLimit
      BY <1>2, <2>1 DEF LaidOut
    <2>3. c.offsets # <<>>
      <3>1. Len(c.offsets) # 0  BY <1>2, <2>2
      <3> QED  BY <3>1, EmptySeq
    <2>4. Head(c.offsets) = c.offsets[1]  BY <1>1, <2>3
    <2>5. Last(c.offsets) = c.offsets[n + 1]  BY <1>2, <2>2 DEF Last
    <2> QED  BY <1>12, <1>13, <2>2, <2>3, <2>4, <2>5 DEF StringsInOrder
  <1>16. CASE StringsInOrder(c)
    <2>1. ReadColumn(file, at, "str") = Got(c, end)
      BY <1>12, <1>13, <1>14, <1>15, <1>16 DEF ReadColumn
    <2> QED  BY <1>8, <1>16, <2>1
  <1>17. CASE ~StringsInOrder(c)
    <2>1. ReadColumn(file, at, "str") = Failed
      BY <1>12, <1>13, <1>15, <1>17 DEF ReadColumn
    <2> QED  BY <1>17, <2>1
  <1> QED  BY <1>16, <1>17

\* The same of vectors.
LEMMA VectorsBack ==
  ASSUME NEW c \in Columns, c.type = "vec", NEW n \in Nat, Aligned(c, n),
         NEW file, Len(file) \in Nat, NEW at \in Nat, Written(file, at, WriteColumn(c))
  PROVE  ReadColumn(file, at, "vec") = Got(c, at + Len(WriteColumn(c)))
  <1>1. /\ c = [type |-> "vec", data |-> c.data, offsets |-> c.offsets]
        /\ c.data \in Seq(Int) /\ Len(c.data) \in Nat
        /\ Len(c.data) = n * Dim /\ c.offsets = <<>>
    BY ColumnParts DEF Aligned
  <1>2. PICK ld \in Nat : ld = Len(c.data)  BY <1>1
  <1>3. PICK p, q, r : p = U64(Dim) /\ q = U64(ld) /\ r = Run("f32", c.data)  OBVIOUS
  <1>4. Dim \in Nat /\ Dim \in Int /\ Dim > 0 /\ "f32" \in Widths  BY SchemaAssumption DEF Widths
  <1>5. /\ p \in Seq(Cells) /\ Len(p) = 1 /\ q \in Seq(Cells) /\ Len(q) = 1
        /\ r \in Seq(Cells) /\ Len(r) = ld
    BY <1>1, <1>2, <1>3, <1>4, U64Cells, RunCells
  <1>6. WriteColumn(c) = (p \o q) \o r  BY <1>1, <1>2, <1>3 DEF WriteColumn
  <1> PICK pq : pq = p \o q  OBVIOUS
  <1>7. /\ Written(file, at, p) /\ Written(file, at + 1, q) /\ Written(file, at + 2, r)
        /\ Len(WriteColumn(c)) = 2 + ld
    <2>1. pq \in Seq(Cells) /\ Written(file, at, pq \o r)  BY <1>5, <1>6, ConcatProperties
    <2>2. Written(file, at, pq) /\ Written(file, at + Len(pq), r) /\ Len(pq \o r) = Len(pq) + Len(r)
      BY <1>5, <2>1, WrittenBoth
    <2>3. Written(file, at, p \o q)  BY <2>2
    <2>4. Written(file, at, p) /\ Written(file, at + Len(p), q) /\ Len(p \o q) = Len(p) + Len(q)
      BY <1>5, <2>3, WrittenBoth
    <2> QED  BY <1>5, <1>6, <2>2, <2>4
  <1>8. PICK mid \in Nat, end \in Nat : mid = at + 1 /\ end = mid + (1 + ld)  OBVIOUS
  <1>9. mid + 1 = at + 2 /\ end = at + Len(WriteColumn(c))  BY <1>7, <1>8
  <1>10. ReadRun(file, at, 1, "u64") = Got(<<Dim>>, mid)  BY <1>3, <1>4, <1>7, <1>8, U64Back
  <1>11. Written(file, mid, U64(Len(c.data))) /\ Written(file, mid + 1, Run("f32", c.data))
    BY <1>2, <1>3, <1>7, <1>8, <1>9
  <1>12. ReadCounted(file, mid, "f32") = Got(c.data, end)
    <2>1. c.data \in Seq(Int)  BY <1>1
    <2>2. ReadCounted(file, mid, "f32") = Got(c.data, mid + (1 + Len(c.data)))
      BY <1>4, <1>8, <1>11, <2>1, CountedBack
    <2> QED  BY <1>2, <1>8, <2>2
  <1> PICK dim : dim = ReadRun(file, at, 1, "u64")  OBVIOUS
  <1> PICK data : data = ReadCounted(file, mid, "f32")  OBVIOUS
  <1>13. dim.ok = TRUE /\ dim.v = <<Dim>> /\ dim.at = mid  BY <1>10, GotFields
  <1>14. data.ok = TRUE /\ data.v = c.data  BY <1>12, GotFields
  <1>15. Len(data.v) % Dim = 0 /\ dim.v[1] = Dim
    <2>1. (n * Dim) % Dim = 0  BY <1>4, Multiples
    <2> QED  BY <1>1, <1>13, <1>14, <2>1
  <1>16. [data EXCEPT !.v = [type |-> "vec", data |-> data.v, offsets |-> <<>>]] = Got(c, end)
    BY <1>1, <1>12, <1>14, GotWith
  <1>17. ReadColumn(file, at, "vec") = Got(c, end)  BY <1>13, <1>14, <1>15, <1>16 DEF ReadColumn
  <1> QED  BY <1>9, <1>17

\* The same of numbers.
LEMMA NumbersBack ==
  ASSUME NEW c \in Columns, c.type \in {"int", "float"}, NEW n \in Nat, Aligned(c, n),
         NEW file, Len(file) \in Nat, NEW at \in Nat, Written(file, at, WriteColumn(c))
  PROVE  ReadColumn(file, at, c.type) = Got(c, at + Len(WriteColumn(c)))
  <1>1. /\ c = [type |-> c.type, data |-> c.data, offsets |-> c.offsets]
        /\ c.data \in Seq(Int) /\ Len(c.data) \in Nat /\ c.offsets = <<>>
    BY ColumnParts DEF Aligned
  <1>2. PICK ld \in Nat : ld = Len(c.data)  BY <1>1
  <1>3. PICK w \in Widths : w = WidthOf(c.type)  BY DEF WidthOf, Widths
  <1>4. PICK p, q : p = U64(ld) /\ q = Run(w, c.data)  OBVIOUS
  <1>5. p \in Seq(Cells) /\ Len(p) = 1 /\ q \in Seq(Cells) /\ Len(q) = ld
    BY <1>1, <1>2, <1>4, U64Cells, RunCells
  <1>6. WriteColumn(c) = p \o q  BY <1>2, <1>3, <1>4 DEF WriteColumn
  <1>7. Written(file, at, p) /\ Written(file, at + 1, q) /\ Len(WriteColumn(c)) = 1 + ld
    <2>1. Written(file, at, p \o q)  BY <1>6
    <2>2. Written(file, at, p) /\ Written(file, at + Len(p), q) /\ Len(p \o q) = Len(p) + Len(q)
      BY <1>5, <2>1, WrittenBoth
    <2> QED  BY <1>5, <1>6, <2>2
  <1>8. PICK end \in Nat : end = at + (1 + ld)  OBVIOUS
  <1>9. ReadCounted(file, at, w) = Got(c.data, end)
    BY <1>1, <1>2, <1>4, <1>7, <1>8, CountedBack
  <1> PICK data : data = ReadCounted(file, at, w)  OBVIOUS
  <1>10. data.v = c.data  BY <1>9, GotFields
  <1>11. [data EXCEPT !.v = [type |-> c.type, data |-> data.v, offsets |-> <<>>]] = Got(c, end)
    BY <1>1, <1>9, <1>10, GotWith
  <1>12. ReadColumn(file, at, c.type) = Got(c, end)  BY <1>3, <1>11 DEF ReadColumn
  <1> QED  BY <1>7, <1>8, <1>12

\* Reader::column after Writer::column.
LEMMA ColumnBack ==
  ASSUME NEW c \in Columns, NEW n \in Nat, Aligned(c, n),
         NEW file, Len(file) \in Nat, NEW at \in Nat, Written(file, at, WriteColumn(c))
  PROVE  ReadColumn(file, at, c.type) =
            IF Readable(c) THEN Got(c, at + Len(WriteColumn(c))) ELSE Failed
  <1>1. CASE c.type = "str"  BY <1>1, StringsBack DEF Readable
  <1>2. CASE c.type = "vec"  BY <1>2, VectorsBack DEF Readable
  <1>3. CASE c.type \in {"int", "float"}  BY <1>3, NumbersBack DEF Readable
  <1> QED  BY <1>1, <1>2, <1>3, ColumnParts DEF Types

LEMMA LengthOfAligned ==
  ASSUME NEW c \in Columns, NEW n \in Nat, Aligned(c, n)
  PROVE  ColumnLen(c) = n
  <1>1. Dim \in Nat /\ Dim > 0  BY SchemaAssumption
  <1>2. CASE c.type = "str"  BY <1>2 DEF Aligned, LaidOut, ColumnLen
  <1>3. CASE c.type = "vec"  BY <1>1, <1>3, Multiples DEF Aligned, ColumnLen
  <1>4. CASE c.type \notin {"str", "vec"}  BY <1>4 DEF Aligned, ColumnLen
  <1> QED  BY <1>2, <1>3, <1>4

\* decode_snapshot after encode_snapshot: the table, or no table if the offsets of a
\* string column have wrapped out of order.
LEMMA TableBack ==
  ASSUME NEW t \in AlignedTables
  PROVE  ReadTable(WriteTable(t)) =
            IF \A f \in Fields : Readable(t.columns[f]) THEN [ok |-> TRUE, table |-> t]
            ELSE [ok |-> FALSE, table |-> EmptyTable]
  <1> PICK n : n = Len(Schema)  OBVIOUS
  <1>1. n \in Nat /\ n > 0 /\ Fields = 1..n  BY SchemaFacts DEF Fields
  <1>2. t.nrows \in Nat /\ t.nrows \in Int  BY DEF AlignedTables
  <1> DEFINE parts == [f \in Fields |-> WriteColumn(t.columns[f])]
  <1>3. \A f \in Fields : WriteColumn(t.columns[f]) \in Seq(Cells)  BY TableFacts, ColumnCells
  <1>4. parts \in [1..n -> Seq(Cells)] /\ \A f \in Fields : parts[f] = WriteColumn(t.columns[f])
    BY <1>1, <1>3
  <1> PICK file : file = WriteTable(t)  OBVIOUS
  <1> PICK head : head = U64(t.nrows)  OBVIOUS
  <1>5. file = head \o FlattenSeq(parts)  BY DEF WriteTable
  <1> HIDE DEF parts
  <1>6. FlattenSeq(parts) \in Seq(Cells) /\ \E ends : Ends(parts, n, ends)
    BY <1>1, <1>4, FlattenEnds
  <1>7. PICK ends : Ends(parts, n, ends)  BY <1>6
  <1>8. head \in Seq(Cells) /\ Len(head) = 1  BY <1>2, U64Cells
  <1>9. Len(file) \in Nat /\ Written(file, 0, head) /\ Written(file, 1, FlattenSeq(parts))
    BY <1>5, <1>6, <1>8, BodyWritten
  <1>10. ReadRun(file, 0, 1, "u64") = Got(<<t.nrows>>, 1)
    <2>1. PICK z \in Nat : z = 0  OBVIOUS
    <2>2. Written(file, z, U64(t.nrows))  BY <1>9, <2>1
    <2>3. ReadRun(file, z, 1, "u64") = Got(<<t.nrows>>, z + 1)  BY <1>2, <2>2, U64Back
    <2> QED  BY <2>1, <2>3
  <1> DEFINE reader == [f \in Fields |-> [p \in 0..Len(file) |-> ReadColumn(file, p, Schema[f])]]
             places == [f \in 0..n |-> 1 + ends[f]]
             vals == t.columns
             good == [f \in Fields |-> Readable(t.columns[f])]
  <1>11. ASSUME NEW f \in Fields
         PROVE  reader[f][1 + ends[f - 1]] =
                    IF Readable(t.columns[f]) THEN Got(t.columns[f], 1 + ends[f]) ELSE Failed
    <2>1. /\ Written(file, 1 + ends[f - 1], WriteColumn(t.columns[f])) /\ 1 + ends[f - 1] \in 0..Len(file)
          /\ 1 + ends[f] = (1 + ends[f - 1]) + Len(WriteColumn(t.columns[f]))
      <3>1. PICK at \in Nat : at = 1  OBVIOUS
      <3>2. Written(file, at, FlattenSeq(parts))  BY <1>9, <3>1
      <3>3. /\ Written(file, at + ends[f - 1], parts[f]) /\ at + ends[f - 1] \in 0..Len(file)
            /\ at + ends[f] = (at + ends[f - 1]) + Len(parts[f])
        BY <1>1, <1>7, <1>9, <3>2, PartsWritten
      <3>4. parts[f] = WriteColumn(t.columns[f])  BY <1>4
      <3> QED  BY <3>1, <3>3, <3>4
    <2>2. t.columns[f] \in Columns /\ t.columns[f].type = Schema[f] /\ Aligned(t.columns[f], t.nrows)
      BY TableFacts
    <2>3. PICK p \in Nat : p = 1 + ends[f - 1]  BY <2>1
    <2>4. p \in 0..Len(file) /\ Written(file, p, WriteColumn(t.columns[f]))  BY <2>1, <2>3
    <2>5. ReadColumn(file, p, t.columns[f].type) =
              IF Readable(t.columns[f]) THEN Got(t.columns[f], p + Len(WriteColumn(t.columns[f]))) ELSE Failed
      BY <1>2, <1>9, <2>2, <2>4, ColumnBack
    <2>6. reader[f][p] = ReadColumn(file, p, Schema[f])  BY <2>4
    <2> QED  BY <2>1, <2>2, <2>3, <2>5, <2>6
  <1>12. ends[0] = 0  BY <1>7 DEF Ends
  <1>13. /\ places[0] = 1
         /\ \A f \in 1..n : places[f - 1] = 1 + ends[f - 1] /\ places[f] = 1 + ends[f]
    BY <1>1, <1>12
  <1>14. \A f \in 1..n : vals[f] = t.columns[f] /\ (good[f] <=> Readable(t.columns[f]))  BY <1>1
  <1>15. vals = [f \in 1..n |-> vals[f]]  BY <1>1 DEF AlignedTables
  <1> PICK columns : columns = ReadAll(1, n, reader)  OBVIOUS
  <1>16. ReadTable(file) =
            IF /\ ReadRun(file, 0, 1, "u64").ok /\ columns.ok
               /\ \A f \in Fields : ColumnLen(columns.v[f]) = ReadRun(file, 0, 1, "u64").v[1]
            THEN [ok |-> TRUE, table |-> [columns |-> columns.v, nrows |-> ReadRun(file, 0, 1, "u64").v[1]]]
            ELSE [ok |-> FALSE, table |-> EmptyTable]
    BY DEF ReadTable
  <1> HIDE DEF reader, places, good, vals
  <1>17. Chained(1, n, reader, places, vals, good)  BY <1>1, <1>11, <1>13, <1>14 DEF Chained
  <1>18. columns = ReadUpTo(n, vals, places, good)  BY <1>1, <1>17, AllBack
  <1>19. ReadRun(file, 0, 1, "u64").ok = TRUE /\ ReadRun(file, 0, 1, "u64").v = <<t.nrows>>
    BY <1>10, GotFields
  <1>20. CASE \A f \in Fields : Readable(t.columns[f])
    <2>1. columns = Got(vals, places[n])  BY <1>1, <1>14, <1>15, <1>18, <1>20 DEF ReadUpTo
    <2>2. columns.ok = TRUE /\ columns.v = t.columns  BY <2>1, GotFields DEF vals
    <2>3. \A f \in Fields : ColumnLen(t.columns[f]) = t.nrows  BY <1>2, TableFacts, LengthOfAligned
    <2>4. t = [columns |-> t.columns, nrows |-> t.nrows]  BY DEF AlignedTables
    <2>5. PICK count : count = ReadRun(file, 0, 1, "u64")  OBVIOUS
    <2>6. count.ok = TRUE /\ count.v[1] = t.nrows  BY <1>19, <2>5
    <2>7. count.ok /\ columns.ok /\ \A f \in Fields : ColumnLen(columns.v[f]) = count.v[1]
      BY <2>2, <2>3, <2>6
    <2>8. ReadTable(file) = [ok |-> TRUE, table |-> [columns |-> columns.v, nrows |-> count.v[1]]]
      BY <1>16, <2>5, <2>7, Zenon
    <2>9. ReadTable(file) = [ok |-> TRUE, table |-> t]  BY <2>2, <2>4, <2>6, <2>8
    <2> QED  BY <1>20, <2>9
  <1>21. CASE ~\A f \in Fields : Readable(t.columns[f])
    <2>1. columns = Failed  BY <1>1, <1>14, <1>18, <1>21 DEF ReadUpTo
    <2>2. ReadTable(file) = [ok |-> FALSE, table |-> EmptyTable]  BY <1>16, <2>1, FailedFields
    <2> QED  BY <1>21, <2>2
  <1> QED  BY <1>20, <1>21

-----------------------------------------------------------------------------
(* Pushing to a column. *)

\* The part of c from behind place m to place j.
Slice(c, m, j) == SubSeq(c, m + 1, j)

\* b begins with a, whatever comes behind it.
LEMMA SubSeqBegin ==
  ASSUME NEW a \in Seq(Int), NEW b \in Seq(Int), Begins(a, b),
         NEW i \in Nat, NEW j \in Nat, j <= Len(a)
  PROVE  Slice(b, i, j) = Slice(a, i, j)
  <1>1. Len(a) \in Nat /\ Len(b) \in Nat  BY LenProperties
  <1>2. /\ SubSeq(b, i + 1, j) = [k \in 1..(1 + j - (i + 1)) |-> b[(i + 1) + k - 1]]
        /\ SubSeq(a, i + 1, j) = [k \in 1..(1 + j - (i + 1)) |-> a[(i + 1) + k - 1]]
    OBVIOUS
  <1>3. ASSUME NEW k \in 1..(1 + j - (i + 1)) PROVE a[(i + 1) + k - 1] = b[(i + 1) + k - 1]
    <2>1. (i + 1) + k - 1 \in 1..Len(a)  BY <1>1
    <2> QED  BY <2>1 DEF Begins
  <1> QED  BY <1>2, <1>3 DEF Slice

LEMMA SubSeqEnd ==
  ASSUME NEW a \in Seq(Int), NEW b \in Seq(Int), NEW c \in Seq(Int), Joins(a, b, c)
  PROVE  Slice(c, Len(a), Len(c)) = b
  <1>1. Len(b) \in Nat /\ b = [k \in 1..Len(b) |-> b[k]]  BY LenProperties
  <1> PICK m \in Nat, j \in Nat : m = Len(a) /\ j = Len(c) /\ j = m + Len(b)
    BY LenProperties DEF Joins
  <1>2. SubSeq(c, m + 1, j) = [k \in 1..(1 + j - (m + 1)) |-> c[(m + 1) + k - 1]]  OBVIOUS
  <1>3. 1 + j - (m + 1) = Len(b)  BY <1>1
  <1>4. ASSUME NEW k \in 1..Len(b) PROVE c[(m + 1) + k - 1] = b[k]
    <2>1. (m + 1) + k - 1 = m + k  BY <1>1
    <2> QED  BY <2>1 DEF Joins
  <1> QED  BY <1>1, <1>2, <1>3, <1>4 DEF Slice

\* What SubSeq gives of numbers.
LEMMA SubSeqInts ==
  ASSUME NEW s \in Seq(Int), NEW i \in Nat, NEW j \in Nat, j <= Len(s)
  PROVE  /\ SubSeq(s, i + 1, j) \in Seq(Int)
         /\ i <= j => Len(SubSeq(s, i + 1, j)) = j - i
  <1>1. Len(s) \in Nat /\ \A k \in 1..Len(s) : s[k] \in Int  BY LenProperties
  <1>2. SubSeq(s, i + 1, j) = [k \in 1..(1 + j - (i + 1)) |-> s[(i + 1) + k - 1]]  OBVIOUS
  <1>3. 1 + j - (i + 1) = j - i  OBVIOUS
  <1>4. SubSeq(s, i + 1, j) = [k \in 1..(j - i) |-> s[(i + 1) + k - 1]]  BY <1>2, <1>3
  <1>5. ASSUME NEW k \in 1..(j - i) PROVE s[(i + 1) + k - 1] \in Int
    <2>1. (i + 1) + k - 1 \in 1..Len(s)  BY <1>1
    <2> QED  BY <1>1, <2>1
  <1>6. CASE i <= j
    <2>1. PICK d \in Nat : d = j - i  BY <1>6
    <2>2. SubSeq(s, i + 1, j) = [k \in 1..d |-> s[(i + 1) + k - 1]]  BY <1>4, <2>1
    <2>3. \A k \in 1..d : s[(i + 1) + k - 1] \in Int  BY <1>5, <2>1
    <2> QED  BY <2>1, <2>2, <2>3
  <1>7. CASE ~(i <= j)
    <2>1. 1..(j - i) = {}  BY <1>7
    <2>2. SubSeq(s, i + 1, j) = <<>>  BY <1>4, <2>1
    <2> QED  BY <1>7, <2>2
  <1> QED  BY <1>6, <1>7

LEMMA JoinedBegins ==
  ASSUME NEW a, NEW b, NEW c, Joins(a, b, c)
  PROVE  Begins(a, c)
  BY DEF Joins, Begins

\* d is c with a value more: nothing of what c holds has changed.
Pushed(c, n, d, v) ==
    /\ d \in Columns /\ d.type = c.type /\ Aligned(d, n + 1) /\ Len(c.data) <= Len(d.data)
    /\ \A i \in 1..n : Get(d, i) = Get(c, i)
    /\ (c.type = "str" => Len(d.data) < OffsetLimit) => Get(d, n + 1) = Val(c.type, v)

LEMMA PushNumber ==
  ASSUME NEW c \in Columns, NEW n \in Nat, Aligned(c, n), c.type \in {"int", "float"},
         NEW x, x.v \in Int
  PROVE  Pushed(c, n, Push(c, x), x.v)
  <1>1. PICK data : data = Append(c.data, x.v)  OBVIOUS
  <1>2. /\ c = [type |-> c.type, data |-> c.data, offsets |-> c.offsets]
        /\ c.type \in Types /\ c.data \in Seq(Int) /\ Len(c.data) = n /\ c.offsets = <<>>
    BY ColumnParts DEF Aligned
  <1>3. /\ data \in Seq(Int) /\ Len(data) = n + 1 /\ data[n + 1] = x.v
        /\ \A i \in 1..n : data[i] = c.data[i]
    BY <1>1, <1>2, AppendProperties
  <1> PICK d : d = Push(c, x)  OBVIOUS
  <1>4. d = [type |-> c.type, data |-> data, offsets |-> <<>>]
    <2>1. d = [c EXCEPT !.data = Append(@, x.v)]  BY DEF Push
    <2>2. \A ty, old, off, new :
             [[type |-> ty, data |-> old, offsets |-> off] EXCEPT !.data = new]
                = [type |-> ty, data |-> new, offsets |-> off]
      OBVIOUS
    <2> QED  BY <1>1, <1>2, <2>1, <2>2
  <1>5. d.type = c.type /\ d.data = data /\ d.offsets = <<>>  BY <1>4
  <1>6. d \in Columns /\ Aligned(d, n + 1)  BY <1>2, <1>3, <1>4, <1>5 DEF Columns, Aligned
  <1>7. \A i \in 1..(n + 1) : Get(d, i) = Val(c.type, data[i])  BY <1>5 DEF Get
  <1>8. \A i \in 1..n : Get(c, i) = Val(c.type, c.data[i])  BY DEF Get
  <1>9. \A i \in 1..n : Get(d, i) = Get(c, i)  BY <1>3, <1>7, <1>8
  <1>10. Get(d, n + 1) = Val(c.type, x.v)  BY <1>3, <1>7
  <1>11. Len(c.data) <= Len(d.data)  BY <1>2, <1>3, <1>5
  <1> QED  BY <1>5, <1>6, <1>9, <1>10, <1>11 DEF Pushed

\* Where a vector begins and ends.
LEMMA VectorPlaces ==
  ASSUME NEW n \in Nat, NEW d \in Nat, NEW i \in 1..n
  PROVE  /\ (i - 1) * d \in Nat /\ i * d \in Nat /\ i * d <= n * d
         /\ i * d = (i - 1) * d + d /\ (n + 1) * d = n * d + d
  <1>1. i * d = (i - 1) * d + d /\ (n + 1) * d = n * d + d  OBVIOUS
  <1>2. (i - 1) * d \in Nat /\ i * d \in Nat  OBVIOUS
  <1>3. PICK k \in Nat : n = i + k  
    <2>1. n - i \in Nat /\ n = i + (n - i)  OBVIOUS
    <2> QED  BY <2>1
  <1>4. n * d = i * d + k * d /\ k * d \in Nat  BY <1>3
  <1> QED  BY <1>1, <1>2, <1>4

LEMMA PushVector ==
  ASSUME NEW c \in Columns, NEW n \in Nat, Aligned(c, n), c.type = "vec",
         NEW x, x.v \in Seq(Int), Len(x.v) = Dim
  PROVE  Pushed(c, n, Push(c, x), x.v)
  <1>1. PICK data : data = c.data \o x.v  OBVIOUS
  <1>2. /\ c = [type |-> c.type, data |-> c.data, offsets |-> c.offsets]
        /\ c.type \in Types /\ c.data \in Seq(Int) /\ Len(c.data) = n * Dim /\ c.offsets = <<>>
    BY ColumnParts DEF Aligned
  <1>3. Dim \in Nat /\ Len(x.v) \in Nat  BY SchemaAssumption
  <1>4. data \in Seq(Int) /\ Joins(c.data, x.v, data)  BY <1>1, <1>2, Joined
  <1>5. (n + 1) * Dim = n * Dim + Dim /\ n * Dim \in Nat  BY <1>3
  <1>6. Len(data) = (n + 1) * Dim /\ Len(c.data) <= Len(data)
    <2>1. Len(data) = Len(c.data) + Len(x.v) /\ Len(c.data) \in Nat  BY <1>4 DEF Joins
    <2> QED  BY <1>2, <1>3, <1>5, <2>1
  <1> PICK d : d = Push(c, x)  OBVIOUS
  <1>7. d = [type |-> c.type, data |-> data, offsets |-> <<>>]
    <2>1. d = [c EXCEPT !.data = @ \o x.v]  BY DEF Push
    <2>2. \A ty, old, off, new :
             [[type |-> ty, data |-> old, offsets |-> off] EXCEPT !.data = new]
                = [type |-> ty, data |-> new, offsets |-> off]
      OBVIOUS
    <2> QED  BY <1>1, <1>2, <2>1, <2>2
  <1>8. d.type = c.type /\ d.data = data /\ d.offsets = <<>>  BY <1>7
  <1>9. d \in Columns  BY <1>2, <1>4, <1>7 DEF Columns
  <1>10. Aligned(d, n + 1)  BY <1>6, <1>8 DEF Aligned
  <1>11. ASSUME NEW i \in 1..n PROVE Get(d, i) = Get(c, i)
    <2>1. PICK a \in Nat : a = (i - 1) * Dim  BY <1>3, VectorPlaces
    <2>2. PICK b \in Nat : b = i * Dim  BY <1>3, VectorPlaces
    <2>3. b <= Len(c.data)  BY <1>2, <1>3, <2>2, VectorPlaces
    <2>4. Begins(c.data, data)  BY <1>4, JoinedBegins
    <2>5. Slice(data, a, b) = Slice(c.data, a, b)  BY <1>2, <1>4, <2>3, <2>4, SubSeqBegin
    <2> QED  BY <1>8, <2>1, <2>2, <2>5 DEF Get, Slice
  <1>12. Get(d, n + 1) = Val(c.type, x.v)
    <2>1. PICK a \in Nat : a = n * Dim  BY <1>5
    <2>2. PICK b \in Nat : b = (n + 1) * Dim  BY <1>3
    <2>3. b = Len(data) /\ a = Len(c.data)  BY <1>2, <1>6, <2>1, <2>2
    <2>4. Slice(data, a, b) = x.v  BY <1>2, <1>4, <2>3, SubSeqEnd
    <2>5. (n + 1) - 1 = n  OBVIOUS
    <2> QED  BY <1>8, <2>1, <2>2, <2>4, <2>5 DEF Get, Slice
  <1>13. Len(c.data) <= Len(d.data)  BY <1>6, <1>8
  <1> QED  BY <1>8, <1>9, <1>10, <1>11, <1>12, <1>13 DEF Pushed

LEMMA Wrapped ==
  ASSUME NEW n \in Nat
  PROVE  /\ n % OffsetLimit \in Nat /\ n % OffsetLimit <= n
         /\ n < OffsetLimit => n % OffsetLimit = n
  <1>1. OffsetLimit \in Nat /\ OffsetLimit > 0  BY SchemaAssumption
  <1>2. n = OffsetLimit * (n \div OffsetLimit) + (n % OffsetLimit) /\ n % OffsetLimit \in 0..(OffsetLimit - 1)
        /\ n \div OffsetLimit \in Nat
    BY <1>1
  <1>3. OffsetLimit * (n \div OffsetLimit) \in Nat  BY <1>1, <1>2
  <1>4. n < OffsetLimit => n % OffsetLimit = n  BY <1>1
  <1> QED  BY <1>2, <1>3, <1>4

LEMMA PushString ==
  ASSUME NEW c \in Columns, NEW n \in Nat, Aligned(c, n), c.type = "str",
         NEW x, x.v \in Seq(Int)
  PROVE  Pushed(c, n, Push(c, x), x.v)
  <1>1. PICK data : data = c.data \o x.v  OBVIOUS
  <1>2. PICK offsets : offsets = Append(c.offsets, EndOfString(c, x.v))  OBVIOUS
  <1>3. /\ c = [type |-> c.type, data |-> c.data, offsets |-> c.offsets]
        /\ c.type \in Types /\ c.data \in Seq(Int) /\ c.offsets \in Seq(Nat)
    BY ColumnParts DEF Columns
  <1>4. LaidOut(c, n)  BY DEF Aligned
  <1>5. data \in Seq(Int) /\ Joins(c.data, x.v, data)  BY <1>1, <1>3, Joined
  <1>6. PICK old \in Nat : old = Len(c.data)  BY <1>5 DEF Joins
  <1>7. PICK new \in Nat : new = Len(data)  BY <1>5, LenProperties
  <1>8. new = old + Len(x.v) /\ Len(x.v) \in Nat /\ old <= new
    <2>1. PICK more \in Nat : more = Len(x.v)  BY LenProperties
    <2>2. new = old + more  BY <1>5, <1>6, <1>7, <2>1 DEF Joins
    <2> QED  BY <2>1, <2>2
  <1>9. EndOfString(c, x.v) = new % OffsetLimit  BY <1>6, <1>8 DEF EndOfString
  <1>10. PICK end \in Nat : end = new % OffsetLimit  BY Wrapped
  <1>11. end <= new /\ (new < OffsetLimit => end = new)  BY <1>10, Wrapped
  <1>12. /\ offsets \in Seq(Nat) /\ Len(offsets) = n + 2 /\ offsets[n + 2] = end
         /\ \A i \in 1..(n + 1) : offsets[i] = c.offsets[i]
    <2>1. Len(c.offsets) = n + 1  BY <1>4 DEF LaidOut
    <2>2. offsets = Append(c.offsets, end)  BY <1>2, <1>9, <1>10
    <2>3. (n + 1) + 1 = n + 2  OBVIOUS
    <2> QED  BY <1>3, <2>1, <2>2, <2>3, AppendProperties
  <1>13. \A i \in 1..(n + 1) : c.offsets[i] \in Nat /\ c.offsets[i] <= old
    <2>1. Len(c.offsets) = n + 1  BY <1>4 DEF LaidOut
    <2>2. \A i \in 1..Len(c.offsets) : c.offsets[i] \in Nat  BY ColumnParts
    <2> QED  BY <1>4, <1>6, <2>1, <2>2 DEF LaidOut
  <1> PICK d : d = Push(c, x)  OBVIOUS
  <1>14. d = [type |-> c.type, data |-> data, offsets |-> offsets]
    <2>1. d = [c EXCEPT !.data = @ \o x.v, !.offsets = Append(@, EndOfString(c, x.v))]  BY DEF Push
    <2>2. d = [[c EXCEPT !.data = data] EXCEPT !.offsets = offsets]  BY <1>1, <1>2, <2>1
    <2>3. \A ty, da, off, to :
             /\ [[type |-> ty, data |-> da, offsets |-> off] EXCEPT !.data = to]
                   = [type |-> ty, data |-> to, offsets |-> off]
             /\ [[type |-> ty, data |-> da, offsets |-> off] EXCEPT !.offsets = to]
                   = [type |-> ty, data |-> da, offsets |-> to]
      OBVIOUS
    <2> QED  BY <1>3, <2>2, <2>3
  <1>15. d.type = "str" /\ d.data = data /\ d.offsets = offsets  BY <1>14
  <1>16. d \in Columns  BY <1>3, <1>5, <1>12, <1>14 DEF Columns
  <1>17. (n + 1) + 1 = n + 2 /\ \A i \in 1..(n + 2) : i \in 1..(n + 1) \/ i = n + 2  OBVIOUS
  <1>18. \A i \in 1..(n + 2) : offsets[i] <= new
    <2>1. ASSUME NEW i \in 1..(n + 1) PROVE offsets[i] <= new
      <3>1. PICK at \in Nat : at = c.offsets[i] /\ at <= old  BY <1>13
      <3> QED  BY <1>8, <1>12, <3>1
    <2>2. offsets[n + 2] <= new  BY <1>11, <1>12
    <2> QED  BY <1>17, <2>1, <2>2
  <1>19. offsets[1] = 0
    <2>1. 1 \in 1..(n + 1)  OBVIOUS
    <2> QED  BY <1>4, <1>12, <2>1 DEF LaidOut
  <1>20. ASSUME new < OffsetLimit PROVE StringsInOrder(d)
    <2>1. StringsInOrder(c) /\ Len(c.offsets) = n + 1
      <3>1. PICK limit \in Nat : limit = OffsetLimit  BY SchemaAssumption
      <3>2. old < limit  BY <1>8, <1>20, <3>1
      <3> QED  BY <1>4, <1>6, <3>1, <3>2 DEF LaidOut
    <2>2. ASSUME NEW i \in 1..(n + 1) PROVE offsets[i] <= offsets[i + 1]
      <3>1. CASE i \in 1..n
        <4>1. i \in 1..(n + 1) /\ i + 1 \in 1..(n + 1) /\ i \in 1..((n + 1) - 1)  BY <3>1
        <4> QED  BY <1>12, <2>1, <4>1 DEF StringsInOrder
      <3>2. CASE i = n + 1
        <4>1. offsets[i] <= old /\ offsets[i] \in Nat  BY <1>12, <1>13
        <4>2. offsets[i + 1] = new  BY <1>11, <1>12, <1>17, <1>20, <3>2
        <4> QED  BY <1>8, <4>1, <4>2
      <3> QED  BY <3>1, <3>2
    <2>3. Len(d.offsets) - 1 = n + 1  BY <1>12, <1>15
    <2> QED  BY <1>15, <2>2, <2>3 DEF StringsInOrder
  <1>21. Aligned(d, n + 1)
    BY <1>7, <1>10, <1>12, <1>15, <1>17, <1>18, <1>19, <1>20 DEF Aligned, LaidOut
  <1>22. ASSUME NEW i \in 1..n PROVE Get(d, i) = Get(c, i)
    <2>1. i \in 1..(n + 1) /\ i + 1 \in 1..(n + 1)  OBVIOUS
    <2>2. PICK a \in Nat : a = c.offsets[i]  BY <1>13, <2>1
    <2>3. PICK b \in Nat : b = c.offsets[i + 1]  BY <1>13, <2>1
    <2>4. b <= Len(c.data)  BY <1>6, <1>13, <2>1, <2>3
    <2>5. Begins(c.data, data)  BY <1>5, JoinedBegins
    <2>6. Slice(data, a, b) = Slice(c.data, a, b)
      <3>1. c.data \in Seq(Int) /\ data \in Seq(Int)  BY <1>3, <1>5
      <3> QED  BY <2>4, <2>5, <3>1, SubSeqBegin
    <2>7. a = offsets[i] /\ b = offsets[i + 1]  BY <1>12, <2>1, <2>2, <2>3
    <2>8. Get(c, i) = Val("str", SubSeq(c.data, a + 1, b))  BY <1>3, <2>2, <2>3 DEF Get
    <2>9. Get(d, i) = Val("str", SubSeq(data, a + 1, b))  BY <1>15, <2>7 DEF Get
    <2> QED  BY <2>6, <2>8, <2>9 DEF Slice
  <1>23. ASSUME new < OffsetLimit PROVE Get(d, n + 1) = Val("str", x.v)
    <2>1. offsets[n + 2] = new  BY <1>11, <1>12, <1>23
    <2>2. old < OffsetLimit  BY <1>8, <1>23, SchemaAssumption
    <2>3. n + 1 \in 1..(n + 1)  OBVIOUS
    <2>4. offsets[n + 1] = old  BY <1>4, <1>6, <1>12, <2>2, <2>3, Wrapped DEF LaidOut
    <2>5. Slice(data, old, new) = x.v
      <3>1. c.data \in Seq(Int) /\ old = Len(c.data) /\ new = Len(data)  BY <1>3, <1>6, <1>7
      <3> QED  BY <1>5, <3>1, SubSeqEnd
    <2> QED  BY <1>15, <1>17, <2>1, <2>4, <2>5 DEF Get, Slice
  <1>24. Len(c.data) <= Len(d.data) /\ Len(d.data) = new  BY <1>6, <1>7, <1>8, <1>15
  <1> QED  BY <1>15, <1>16, <1>21, <1>22, <1>23, <1>24 DEF Pushed

\* A value that fits goes into its column.
LEMMA PushValue ==
  ASSUME NEW c \in Columns, NEW n \in Nat, Aligned(c, n), NEW x, IsValue(x), Fits(c.type, x)
  PROVE  Pushed(c, n, Push(c, x), x.v)
  <1>1. CASE c.type = "str"
    <2>1. x.type = "str"  BY <1>1 DEF Fits
    <2>2. x.v \in Seq(Int)  BY <2>1, ValueParts
    <2> QED  BY <1>1, <2>2, PushString
  <1>2. CASE c.type = "vec"
    <2>1. x.type = "vec" /\ Len(x.v) = Dim  BY <1>2 DEF Fits
    <2>2. x.v \in Seq(Int)  BY <2>1, ValueParts
    <2> QED  BY <1>2, <2>1, <2>2, PushVector
  <1>3. CASE c.type \in {"int", "float"}
    <2>1. x.type \in {"int", "float"}  BY <1>3 DEF Fits
    <2>2. x.v \in Int  BY <2>1, ValueParts
    <2> QED  BY <1>3, <2>2, PushNumber
  <1> QED  BY <1>1, <1>2, <1>3, ColumnParts DEF Types

\* What a column gives is of its type.
LEMMA GetFits ==
  ASSUME NEW c \in Columns, NEW n \in Nat, Aligned(c, n), NEW i \in 1..n
  PROVE  Get(c, i) \in ValuesOf(c.type) /\ Fits(c.type, Get(c, i))
  <1>1. c.type \in Types /\ c.data \in Seq(Int) /\ Len(c.data) \in Nat  BY ColumnParts
  <1>2. CASE c.type = "str"
    <2>1. Len(c.offsets) = n + 1 /\ \A k \in 1..(n + 1) : c.offsets[k] <= Len(c.data)
      BY <1>2 DEF Aligned, LaidOut
    <2>2. i \in 1..(n + 1) /\ i + 1 \in 1..(n + 1)  OBVIOUS
    <2>3. \A k \in 1..(n + 1) : c.offsets[k] \in Nat  BY <2>1, ColumnParts
    <2>4. PICK a \in Nat : a = c.offsets[i]  BY <2>2, <2>3
    <2>5. PICK b \in Nat : b = c.offsets[i + 1]  BY <2>2, <2>3
    <2>6. SubSeq(c.data, a + 1, b) \in Seq(Int)  BY <1>1, <2>1, <2>2, <2>5, SubSeqInts
    <2> PICK s : s = SubSeq(c.data, a + 1, b)  OBVIOUS
    <2>7. s \in Seq(Int) /\ Get(c, i) = [type |-> "str", v |-> s]
      BY <1>2, <2>4, <2>5, <2>6 DEF Get, Val
    <2> QED  BY <1>2, <2>7 DEF ValuesOf, Fits
  <1>3. CASE c.type = "vec"
    <2>1. Len(c.data) = n * Dim /\ Dim \in Nat  BY <1>3, SchemaAssumption DEF Aligned
    <2>2. PICK a \in Nat : a = (i - 1) * Dim  BY <2>1, VectorPlaces
    <2>3. PICK b \in Nat : b = i * Dim  BY <2>1, VectorPlaces
    <2>4. b <= Len(c.data) /\ b = a + Dim  BY <2>1, <2>2, <2>3, VectorPlaces
    <2>5. /\ SubSeq(c.data, a + 1, b) \in Seq(Int)
          /\ a <= b => Len(SubSeq(c.data, a + 1, b)) = b - a
      BY <1>1, <2>4, SubSeqInts
    <2>6. a <= b /\ b - a = Dim  BY <2>1, <2>4
    <2> PICK s : s = SubSeq(c.data, a + 1, b)  OBVIOUS
    <2>7. s \in Seq(Int) /\ Len(s) = Dim /\ Get(c, i) = [type |-> "vec", v |-> s]
      BY <1>3, <2>2, <2>3, <2>5, <2>6 DEF Get, Val
    <2> QED  BY <1>3, <2>7 DEF ValuesOf, Fits
  <1>4. CASE c.type \in {"int", "float"}
    <2>1. c.data[i] \in Int
      <3>1. Len(c.data) = n  BY <1>4 DEF Aligned
      <3> QED  BY <1>1, <3>1, LenProperties
    <2>2. Get(c, i) = [type |-> c.type, v |-> c.data[i]]  BY <1>4 DEF Get, Val
    <2> QED  BY <1>4, <2>1, <2>2 DEF ValuesOf, Fits
  <1> QED  BY <1>1, <1>2, <1>3, <1>4 DEF Types

\* The rows of a table are rows of the schema.
LEMMA RowOfTable ==
  ASSUME NEW t \in AlignedTables, NEW i \in 1..t.nrows
  PROVE  IsRow(Row(t, i))
  <1> DEFINE r == Row(t, i)
  <1>1. Len(Schema) \in Nat /\ Fields = 1..Len(Schema)  BY SchemaFacts DEF Fields
  <1>2. r = [f \in 1..Len(Schema) |-> Get(t.columns[f], i)]  BY <1>1 DEF Row
  <1>3. \A f \in Fields : r[f] = Get(t.columns[f], i)  BY <1>1, <1>2
  <1>4. DOMAIN r = 1..Len(Schema) /\ r = [f \in 1..Len(Schema) |-> r[f]]  BY <1>2
  <1> HIDE DEF r
  <1>5. \A f \in 1..Len(Schema) : r[f] \in ToSet(r)  BY <1>4 DEF ToSet
  <1>6. r \in Seq(ToSet(r)) /\ Len(r) = Len(Schema)  BY <1>1, <1>4, <1>5
  <1>7. ASSUME NEW f \in Fields PROVE r[f] \in ValuesOf(Schema[f]) /\ Fits(Schema[f], r[f])
    <2>1. /\ t.columns[f] \in Columns /\ t.columns[f].type = Schema[f]
          /\ Aligned(t.columns[f], t.nrows) /\ t.nrows \in Nat
      BY TableFacts
    <2> QED  BY <1>3, <2>1, GetFits
  <1> QED  BY <1>6, <1>7 DEF IsRow, r

\* A table with no row.
LEMMA EmptyAligned ==
  /\ EmptyTable \in AlignedTables /\ EmptyTable.nrows = 0
  /\ \A f \in Fields : Readable(EmptyTable.columns[f])
  <1>1. ASSUME NEW type \in Types
        PROVE  /\ EmptyColumn(type) \in Columns /\ EmptyColumn(type).type = type
               /\ Aligned(EmptyColumn(type), 0) /\ Readable(EmptyColumn(type))
    <2>1. 0 % OffsetLimit = 0  BY Wrapped
    <2>2. <<>> \in Seq(Int) /\ <<>> \in Seq(Nat) /\ <<0>> \in Seq(Nat)  OBVIOUS
    <2> PICK c : c = EmptyColumn(type)  OBVIOUS
    <2>3. CASE type = "str"
      <3>1. c = [type |-> type, data |-> <<>>, offsets |-> <<0>>]  BY <2>3 DEF EmptyColumn
      <3>2. c \in Columns /\ c.type = type /\ Len(c.data) = 0 /\ Len(c.offsets) = 1 /\ c.offsets[1] = 0
        BY <2>2, <3>1 DEF Columns
      <3>3. 1..(Len(c.offsets) - 1) = {} /\ \A i \in 1..(0 + 1) : i = 1  BY <3>2
      <3>4. StringsInOrder(c)  BY <3>3 DEF StringsInOrder
      <3>5. LaidOut(c, 0)  BY <2>1, <3>2, <3>3, <3>4 DEF LaidOut
      <3> QED  BY <2>3, <3>2, <3>4, <3>5 DEF Aligned, Readable
    <2>4. CASE type # "str"
      <3>1. c = [type |-> type, data |-> <<>>, offsets |-> <<>>]  BY <2>4 DEF EmptyColumn
      <3>2. c \in Columns /\ c.type = type /\ c.data = <<>> /\ c.offsets = <<>>
        BY <2>2, <3>1 DEF Columns
      <3>3. Len(c.data) = 0 /\ 0 * Dim = 0  BY <3>2, SchemaAssumption
      <3> QED  BY <2>4, <3>2, <3>3 DEF Aligned, Readable
    <2> QED  BY <2>3, <2>4
  <1> PICK t : t = EmptyTable  OBVIOUS
  <1>2. t = [columns |-> [f \in Fields |-> EmptyColumn(Schema[f])], nrows |-> 0]  BY DEF EmptyTable
  <1>3. \A f \in Fields : t.columns[f] = EmptyColumn(Schema[f])  BY <1>2
  <1>4. t.nrows = 0  BY <1>2
  <1>5. \A f \in Fields : EmptyColumn(Schema[f]) \in Columns  BY <1>1, SchemaFacts
  <1>6. t \in [columns : [Fields -> Columns], nrows : Nat]  BY <1>2, <1>5
  <1>7. \A f \in Fields : /\ t.columns[f].type = Schema[f] /\ Aligned(t.columns[f], t.nrows)
                          /\ Readable(t.columns[f])
    BY <1>1, <1>3, <1>4, SchemaFacts
  <1> QED  BY <1>4, <1>6, <1>7 DEF AlignedTables

-----------------------------------------------------------------------------
(* Putting rows in. *)

\* OffsetsFit, of any table.
Fitting(t) == \A f \in Fields : Schema[f] = "str" => Len(t.columns[f].data) < OffsetLimit

\* u is t with the first k rows of a batch behind its own.
Inserted(t, batch, k, u) ==
    /\ u \in AlignedTables /\ u.nrows = t.nrows + k
    /\ Fitting(u) => Fitting(t)
    /\ \A i \in 1..t.nrows : Row(u, i) = Row(t, i)
    /\ Fitting(u) => \A j \in 1..k : Row(u, t.nrows + j) = Kept(batch[j])

\* Kept is the row with the types of the columns.
LEMMA KeptRow ==
  ASSUME NEW row, IsSent(row)
  PROVE  Kept(row) = [f \in Fields |-> Val(Schema[f], row[f].v)]
  <1>1. ASSUME NEW f \in Fields
        PROVE  [row[f] EXCEPT !.type = Schema[f]] = Val(Schema[f], row[f].v)
    <2> PICK x, v : x = row[f] /\ v = row[f].v  OBVIOUS
    <2>1. PICK type : x = Val(type, v)  BY ValueParts DEF IsSent
    <2>2. [Val(type, v) EXCEPT !.type = Schema[f]] = Val(Schema[f], v)  BY DEF Val
    <2> QED  BY <2>1, <2>2
  <1> QED  BY <1>1 DEF Kept

\* A row that fits makes one row more, behind what was there.
LEMMA RowIn ==
  ASSUME NEW t \in AlignedTables, NEW row, IsSent(row)
  PROVE  LET u == InsertRow(t, row)
         IN  /\ u \in AlignedTables /\ u.nrows = t.nrows + 1
             /\ Fitting(u) => Fitting(t)
             /\ \A i \in 1..t.nrows : Row(u, i) = Row(t, i)
             /\ Fitting(u) => Row(u, t.nrows + 1) = Kept(row)
  <1> PICK u : u = InsertRow(t, row)  OBVIOUS
  <1> PICK n \in Nat : n = t.nrows  BY DEF AlignedTables
  <1>1. u = [columns |-> [f \in Fields |-> Push(t.columns[f], row[f])], nrows |-> n + 1]
    BY DEF InsertRow, IsSent
  <1>2. u.nrows = n + 1 /\ \A f \in Fields : u.columns[f] = Push(t.columns[f], row[f])  BY <1>1
  <1>3. ASSUME NEW f \in Fields PROVE Pushed(t.columns[f], n, u.columns[f], row[f].v)
    <2>1. /\ t.columns[f] \in Columns /\ t.columns[f].type = Schema[f]
          /\ Aligned(t.columns[f], n)
      BY TableFacts
    <2>2. IsValue(row[f]) /\ Fits(Schema[f], row[f])  BY DEF IsSent, RowFits
    <2> QED  BY <1>2, <2>1, <2>2, PushValue
  <1>4. u \in AlignedTables
    <2>1. \A f \in Fields : /\ u.columns[f] \in Columns /\ u.columns[f].type = Schema[f]
                            /\ Aligned(u.columns[f], n + 1)
      BY <1>3, TableFacts DEF Pushed
    <2>2. u = [columns |-> [f \in Fields |-> u.columns[f]], nrows |-> n + 1]  BY <1>1, <1>2
    <2>3. u \in [columns : [Fields -> Columns], nrows : Nat]  BY <2>1, <2>2
    <2> QED  BY <1>2, <2>1, <2>3 DEF AlignedTables
  <1>5. ASSUME Fitting(u) PROVE Fitting(t)
    <2> SUFFICES ASSUME NEW f \in Fields, Schema[f] = "str" PROVE Len(t.columns[f].data) < OffsetLimit
      BY DEF Fitting
    <2>1. t.columns[f] \in Columns /\ u.columns[f] \in Columns  BY <1>4, TableFacts
    <2>2. PICK old \in Nat : old = Len(t.columns[f].data)  BY <2>1, ColumnParts
    <2>3. PICK new \in Nat : new = Len(u.columns[f].data)  BY <2>1, ColumnParts
    <2>4. old <= new  BY <1>3, <2>2, <2>3 DEF Pushed
    <2>5. PICK limit \in Nat : limit = OffsetLimit  BY SchemaAssumption
    <2>6. new < limit  BY <1>5, <2>3, <2>5 DEF Fitting
    <2> QED  BY <2>2, <2>4, <2>5, <2>6
  <1>6. ASSUME NEW i \in 1..n PROVE Row(u, i) = Row(t, i)
    <2>1. \A f \in Fields : Get(u.columns[f], i) = Get(t.columns[f], i)  BY <1>3 DEF Pushed
    <2> QED  BY <2>1 DEF Row
  <1>7. ASSUME Fitting(u) PROVE Row(u, n + 1) = Kept(row)
    <2>1. ASSUME NEW f \in Fields PROVE Get(u.columns[f], n + 1) = Val(Schema[f], row[f].v)
      <3>1. t.columns[f].type = Schema[f]  BY TableFacts
      <3>2. Schema[f] = "str" => Len(u.columns[f].data) < OffsetLimit  BY <1>7 DEF Fitting
      <3> QED  BY <1>3, <3>1, <3>2 DEF Pushed
    <2> QED  BY <2>1, KeptRow DEF Row
  <1> QED  BY <1>2, <1>4, <1>5, <1>6, <1>7

\* A batch of rows, each of which can be pushed if it fits.
CanBeSent(batch) == Len(batch) \in Nat /\ \A i \in 1..Len(batch) : RowFits(batch[i]) => IsSent(batch[i])

LEMMA AcceptedFacts ==
  ASSUME NEW batch, Len(batch) \in Nat
  PROVE  /\ Accepted(batch) \in 0..Len(batch)
         /\ \A i \in 1..Accepted(batch) : RowFits(batch[i])
         /\ Accepted(batch) < Len(batch) => ~RowFits(batch[Accepted(batch) + 1])
         /\ (\A i \in 1..Len(batch) : RowFits(batch[i])) => Accepted(batch) = Len(batch)
  <1> PICK n \in Nat : n = Len(batch)  OBVIOUS
  <1> DEFINE S == {m \in 0..n : \A i \in 1..m : RowFits(batch[i])}
  <1>1. 1..0 = {}  OBVIOUS
  <1>2. 0 \in S  BY <1>1
  <1>3. S \in SUBSET (0..n) /\ S # {}  BY <1>2
  <1>4. \A m \in 0..n : m \in S <=> \A i \in 1..m : RowFits(batch[i])  OBVIOUS
  <1>5. Accepted(batch) = Max(S)  BY DEF Accepted
  <1> HIDE DEF S
  <1>6. PICK k \in S : k = Max(S) /\ \A m \in S : m <= k  BY <1>3, MaxOf
  <1>7. k \in 0..n /\ \A i \in 1..k : RowFits(batch[i])  BY <1>3, <1>4, <1>6
  <1>8. ASSUME k < n PROVE ~RowFits(batch[k + 1])
    <2> SUFFICES ASSUME RowFits(batch[k + 1]) PROVE FALSE  OBVIOUS
    <2>1. \A i \in 1..(k + 1) : i \in 1..k \/ i = k + 1  BY <1>7
    <2>2. k + 1 \in 0..n  BY <1>7, <1>8
    <2>3. k + 1 \in S  BY <1>4, <1>7, <2>1, <2>2
    <2> QED  BY <1>6, <1>7, <2>3
  <1>9. ASSUME \A i \in 1..n : RowFits(batch[i]) PROVE k = n
    <2>1. n \in S  BY <1>4, <1>9
    <2> QED  BY <1>6, <1>7, <2>1
  <1> QED  BY <1>5, <1>6, <1>7, <1>8, <1>9

LEMMA OneMoreIn ==
  ASSUME NEW t \in AlignedTables, NEW batch, NEW j \in Nat, NEW u, Inserted(t, batch, j, u),
         IsSent(batch[j + 1])
  PROVE  Inserted(t, batch, j + 1, InsertRow(u, batch[j + 1]))
  <1> PICK w : w = InsertRow(u, batch[j + 1])  OBVIOUS
  <1> PICK n \in Nat : n = t.nrows  BY DEF AlignedTables
  <1>1. /\ u \in AlignedTables /\ u.nrows = n + j
        /\ Fitting(u) => Fitting(t)
        /\ \A i \in 1..n : Row(u, i) = Row(t, i)
        /\ Fitting(u) => \A i \in 1..j : Row(u, n + i) = Kept(batch[i])
    BY DEF Inserted
  <1>2. /\ w \in AlignedTables /\ w.nrows = u.nrows + 1
        /\ Fitting(w) => Fitting(u)
        /\ \A i \in 1..u.nrows : Row(w, i) = Row(u, i)
        /\ Fitting(w) => Row(w, u.nrows + 1) = Kept(batch[j + 1])
    BY <1>1, RowIn
  <1>3. w.nrows = n + (j + 1)  BY <1>1, <1>2
  <1>4. \A i \in 1..n : Row(w, i) = Row(t, i)
    <2>1. \A i \in 1..n : i \in 1..u.nrows  BY <1>1
    <2> QED  BY <1>1, <1>2, <2>1
  <1>5. ASSUME Fitting(w), NEW i \in 1..(j + 1) PROVE Row(w, n + i) = Kept(batch[i])
    <2>1. CASE i = j + 1
      <3>1. n + i = u.nrows + 1  BY <1>1, <2>1
      <3> QED  BY <1>2, <1>5, <2>1, <3>1
    <2>2. CASE i \in 1..j
      <3>1. n + i \in 1..u.nrows  BY <1>1, <2>2
      <3>2. Row(w, n + i) = Row(u, n + i)  BY <1>2, <3>1
      <3>3. Row(u, n + i) = Kept(batch[i])  BY <1>1, <1>2, <1>5, <2>2
      <3> QED  BY <3>2, <3>3
    <2> QED  BY <2>1, <2>2
  <1> QED  BY <1>1, <1>2, <1>3, <1>4, <1>5 DEF Inserted

\* The states InsertMany goes through.
LEMMA ManySteps ==
  ASSUME NEW t \in AlignedTables, NEW batch, CanBeSent(batch)
  PROVE  \E f : /\ f[0] = t /\ \A i \in 1..Len(batch) : f[i] = InsertRow(f[i - 1], batch[i])
                /\ InsertMany(t, batch) = f[Min({Accepted(batch) + 1, Len(batch)})]
  <1> PICK n \in Nat : n = Len(batch)  BY DEF CanBeSent
  <1> DEFINE Step(u, i) == InsertRow(u, batch[i])
             Fixed(f) == f = [i \in 0..n |-> IF i = 0 THEN t ELSE Step(f[i - 1], i)]
             step == [i \in 1..n |-> [u \in AlignedTables |-> Step(u, i)]]
             read == CHOOSE f : Fixed(f)
  <1>1. ASSUME NEW i \in 1..n, NEW u \in AlignedTables PROVE Step(u, i) \in AlignedTables
    <2>1. CASE RowFits(batch[i])
      <3>1. IsSent(batch[i])  BY <2>1 DEF CanBeSent
      <3> QED  BY <3>1, RowIn
    <2>2. CASE ~RowFits(batch[i])  BY <2>2 DEF InsertRow
    <2> QED  BY <2>1, <2>2
  <1>2. InsertMany(t, batch) = read[Min({Accepted(batch) + 1, n})]  BY DEF InsertMany
  <1> HIDE DEF Step
  <1>3. \A i \in 1..n : \A u \in AlignedTables : step[i][u] = Step(u, i) /\ step[i][u] \in AlignedTables
    BY <1>1
  <1> HIDE DEF step
  <1>4. PICK known : known \in [0..n -> AlignedTables] /\ Builds(known, n, t, step)
    BY <1>3, Recursion
  <1>5. known[0] = t /\ \A i \in 1..n : known[i] = Step(known[i - 1], i)
    <2>1. \A i \in 1..n : i - 1 \in 0..n  OBVIOUS
    <2>2. \A i \in 1..n : known[i - 1] \in AlignedTables  BY <1>4, <2>1
    <2> QED  BY <1>3, <1>4, <2>2 DEF Builds
  <1>6. Fixed(known)
    <2>1. \A i \in 0..n : i = 0 \/ i \in 1..n  OBVIOUS
    <2> QED  BY <1>4, <1>5, <2>1
  <1>7. Fixed(read)  BY <1>6
  <1>8. read[0] = t /\ \A i \in 1..n : read[i] = Step(read[i - 1], i)
    <2>1. 0 \in 0..n /\ \A i \in 1..n : i \in 0..n /\ i # 0  OBVIOUS
    <2>2. \A i \in 0..n : read[i] = IF i = 0 THEN t ELSE Step(read[i - 1], i)  BY <1>7
    <2> QED  BY <2>1, <2>2
  <1> HIDE DEF read, Fixed
  <1> QED  BY <1>2, <1>8 DEF Step

\* The rows before the first that does not fit go in, and no other.
LEMMA ManyIn ==
  ASSUME NEW t \in AlignedTables, NEW batch, CanBeSent(batch)
  PROVE  /\ Inserted(t, batch, Accepted(batch), InsertMany(t, batch))
         /\ Accepted(batch) = 0 => InsertMany(t, batch) = t
  <1> PICK n \in Nat : n = Len(batch)  BY DEF CanBeSent
  <1>1. PICK k \in 0..n : k = Accepted(batch)  BY AcceptedFacts
  <1>2. \A i \in 1..k : RowFits(batch[i]) /\ IsSent(batch[i])
    <2>1. \A i \in 1..k : RowFits(batch[i]) /\ i \in 1..n  BY <1>1, AcceptedFacts
    <2> QED  BY <2>1 DEF CanBeSent
  <1> PICK f : /\ f[0] = t /\ \A i \in 1..Len(batch) : f[i] = InsertRow(f[i - 1], batch[i])
               /\ InsertMany(t, batch) = f[Min({Accepted(batch) + 1, Len(batch)})]
    BY ManySteps
  <1>3. /\ f[0] = t /\ \A i \in 1..n : f[i] = InsertRow(f[i - 1], batch[i])
        /\ InsertMany(t, batch) = f[Min({k + 1, n})]
    BY <1>1
  <1> DEFINE S == {j \in Nat : j <= k => Inserted(t, batch, j, f[j])}
  <1>4. 0 \in S
    <2>1. 1..0 = {} /\ t.nrows \in Nat /\ t.nrows + 0 = t.nrows  BY DEF AlignedTables
    <2>2. Inserted(t, batch, 0, t)  BY <2>1 DEF Inserted
    <2> QED  BY <1>3, <2>2
  <1>5. ASSUME NEW j \in Nat, j \in S PROVE j + 1 \in S
    <2> SUFFICES ASSUME j + 1 <= k PROVE Inserted(t, batch, j + 1, f[j + 1])  OBVIOUS
    <2>1. Inserted(t, batch, j, f[j])  BY <1>5
    <2>2. j + 1 \in 1..n /\ j + 1 \in 1..k /\ (j + 1) - 1 = j  OBVIOUS
    <2>3. f[j + 1] = InsertRow(f[j], batch[j + 1])  BY <1>3, <2>2
    <2> QED  BY <1>2, <2>1, <2>2, <2>3, OneMoreIn
  <1> HIDE DEF S
  <1>6. k \in S  BY <1>4, <1>5, Induction
  <1>7. Inserted(t, batch, k, f[k])  BY <1>6 DEF S
  <1>8. InsertMany(t, batch) = f[k]
    <2>1. PICK m : m = Min({k + 1, n})  OBVIOUS
    <2>2. m \in {k + 1, n} /\ m <= k + 1 /\ m <= n
      <3>1. {k + 1, n} \in SUBSET Nat /\ {k + 1, n} # {}  OBVIOUS
      <3> QED  BY <2>1, <3>1, MinOf
    <2>3. CASE k = n
      <3>1. m = k  BY <2>2, <2>3
      <3> QED  BY <1>3, <2>1, <3>1
    <2>4. CASE k < n
      <3>1. m = k + 1 /\ k + 1 \in 1..n /\ (k + 1) - 1 = k  BY <2>2, <2>4
      <3>2. ~RowFits(batch[k + 1])  BY <1>1, <2>4, AcceptedFacts
      <3>3. f[k + 1] = f[k]  BY <1>3, <3>1, <3>2 DEF InsertRow
      <3> QED  BY <1>3, <2>1, <3>1, <3>3
    <2> QED  BY <2>3, <2>4
  <1> QED  BY <1>1, <1>3, <1>7, <1>8

-----------------------------------------------------------------------------
(* Starting again. *)

\* Rows of the schema can be put in again.
LEMMA RowsCanBeSent ==
  ASSUME NEW rows, AreRows(rows)
  PROVE  CanBeSent(rows)
  <1>1. Len(rows) \in Nat  BY LenProperties DEF AreRows
  <1>2. ASSUME NEW i \in 1..Len(rows) PROVE IsSent(rows[i])
    <2> PICK row : row = rows[i]  OBVIOUS
    <2>1. IsRow(row)  BY DEF AreRows
    <2>2. row \in Seq(ToSet(row)) /\ RowFits(row)  BY <2>1 DEF IsRow, RowFits
    <2>3. ASSUME NEW f \in Fields PROVE IsValue(row[f])
      <3>1. row[f] \in ValuesOf(Schema[f])  BY <2>1 DEF IsRow
      <3>2. row[f].type = Schema[f]  BY <3>1 DEF ValuesOf
      <3> QED  BY <3>1, <3>2, SchemaFacts DEF IsValue
    <2> QED  BY <2>2, <2>3 DEF IsSent
  <1> QED  BY <1>1, <1>2 DEF CanBeSent

\* A record on top of what is there.
LEMMA ReplayFacts ==
  ASSUME NEW before \in Starts, NEW record, Reads(record)
  PROVE  /\ Replay(before, record) \in Starts
         /\ Replay(before, record).ok = before.ok
         /\ before.ok => Replay(before, record) =
                            [ok |-> TRUE, table |-> InsertMany(before.table, ReadRows(record).v)]
  <1> PICK rows : rows = ReadRows(record).v  OBVIOUS
  <1>1. PICK o, t : o \in BOOLEAN /\ t \in AlignedTables /\ before = [ok |-> o, table |-> t]
    BY DEF Starts
  <1>2. CanBeSent(rows)  BY RowsCanBeSent DEF Reads
  <1>3. InsertMany(t, rows) \in AlignedTables  BY <1>1, <1>2, ManyIn DEF Inserted
  <1>4. \A old, new, b : /\ [[ok |-> b, table |-> old] EXCEPT !.table = new] = [ok |-> b, table |-> new]
                         /\ [[ok |-> b, table |-> old] EXCEPT !.ok = new] = [ok |-> new, table |-> old]
    OBVIOUS
  <1>5. before.ok = o /\ before.table = t  BY <1>1
  <1>6. CASE o
    <2>1. Replay(before, record) = [before EXCEPT !.table = InsertMany(@, rows)]
      BY <1>5, <1>6 DEF Replay, Reads
    <2>2. Replay(before, record) = [ok |-> TRUE, table |-> InsertMany(t, rows)]
      BY <1>1, <1>4, <1>6, <2>1
    <2> QED  BY <1>3, <1>5, <1>6, <2>2 DEF Starts
  <1>7. CASE ~o
    <2>1. Replay(before, record) = [before EXCEPT !.ok = FALSE]  BY <1>5, <1>7 DEF Replay
    <2>2. Replay(before, record) = [ok |-> FALSE, table |-> t]  BY <1>1, <1>4, <2>1
    <2> QED  BY <1>1, <1>5, <1>7, <2>2 DEF Starts
  <1> QED  BY <1>1, <1>6, <1>7

\* The states a start goes through.
LEMMA RecoverySteps ==
  ASSUME NEW snapshot, ReadTable(snapshot) \in Starts, NEW records, Len(records) \in Nat,
         \A i \in 1..Len(records) : Reads(records[i])
  PROVE  \E f : /\ f \in [0..Len(records) -> Starts]
                /\ f[0] = ReadTable(snapshot)
                /\ \A i \in 1..Len(records) : f[i] = Replay(f[i - 1], records[i])
                /\ RecoveredFrom(snapshot, records) = f[Len(records)]
  <1> PICK n \in Nat : n = Len(records)  OBVIOUS
  <1> DEFINE First == ReadTable(snapshot)
             Step(s, i) == Replay(s, records[i])
             Fixed(f) == f = [i \in 0..n |-> IF i = 0 THEN First ELSE Step(f[i - 1], i)]
             step == [i \in 1..n |-> [s \in Starts |-> Step(s, i)]]
             read == CHOOSE f : Fixed(f)
  <1>1. ASSUME NEW i \in 1..n, NEW s \in Starts PROVE Step(s, i) \in Starts
    BY ReplayFacts
  <1>2. RecoveredFrom(snapshot, records) = read[n]  BY DEF RecoveredFrom
  <1>3. First \in Starts  OBVIOUS
  <1> HIDE DEF Step, First
  <1>4. \A i \in 1..n : \A s \in Starts : step[i][s] = Step(s, i) /\ step[i][s] \in Starts
    BY <1>1
  <1> HIDE DEF step
  <1>5. PICK known : known \in [0..n -> Starts] /\ Builds(known, n, First, step)
    BY <1>3, <1>4, Recursion
  <1>6. known[0] = First /\ \A i \in 1..n : known[i] = Step(known[i - 1], i)
    <2>1. \A i \in 1..n : i - 1 \in 0..n  OBVIOUS
    <2>2. \A i \in 1..n : known[i - 1] \in Starts  BY <1>5, <2>1
    <2> QED  BY <1>4, <1>5, <2>2 DEF Builds
  <1>7. Fixed(known)
    <2>1. \A i \in 0..n : i = 0 \/ i \in 1..n  OBVIOUS
    <2> QED  BY <1>5, <1>6, <2>1
  <1>8. Fixed(read)  BY <1>7
  <1>9. read[0] = First /\ \A i \in 1..n : read[i] = Step(read[i - 1], i)
    <2>1. 0 \in 0..n /\ \A i \in 1..n : i \in 0..n /\ i # 0  OBVIOUS
    <2>2. \A i \in 0..n : read[i] = IF i = 0 THEN First ELSE Step(read[i - 1], i)  BY <1>8
    <2> QED  BY <2>1, <2>2
  <1> HIDE DEF read, Fixed
  <1>10. \A i \in 0..n : read[i] = known[i]
    <2>1. \A i \in 1..n : read[i - 1] = known[i - 1] => read[i] = known[i]  BY <1>6, <1>9
    <2>2. read[0] = known[0]  BY <1>6, <1>9
    <2>3. Alike(n, read, known)  BY <2>1, <2>2 DEF Alike
    <2> QED  BY <2>3, RecursionAgrees
  <1>11. RecoveredFrom(snapshot, records) = known[n]  BY <1>2, <1>10
  <1> QED  BY <1>5, <1>6, <1>11 DEF Step, First

\* A start fails only for the snapshot.
LEMMA RecoveryStarts ==
  ASSUME NEW snapshot, ReadTable(snapshot) \in Starts, NEW records, Len(records) \in Nat,
         \A i \in 1..Len(records) : Reads(records[i])
  PROVE  /\ RecoveredFrom(snapshot, records) \in Starts
         /\ RecoveredFrom(snapshot, records).ok = ReadTable(snapshot).ok
         /\ Len(records) = 0 => RecoveredFrom(snapshot, records) = ReadTable(snapshot)
  <1> PICK n \in Nat : n = Len(records)  OBVIOUS
  <1>1. PICK f : /\ f \in [0..n -> Starts] /\ f[0] = ReadTable(snapshot)
                 /\ \A i \in 1..n : f[i] = Replay(f[i - 1], records[i])
                 /\ RecoveredFrom(snapshot, records) = f[n]
    BY RecoverySteps
  <1> DEFINE S == {i \in Nat : i <= n => f[i].ok = f[0].ok}
  <1>2. 0 \in S  OBVIOUS
  <1>3. ASSUME NEW i \in Nat, i \in S PROVE i + 1 \in S
    <2> SUFFICES ASSUME i + 1 <= n PROVE f[i + 1].ok = f[0].ok  OBVIOUS
    <2>1. i \in 0..n /\ i + 1 \in 1..n /\ (i + 1) - 1 = i  OBVIOUS
    <2>2. f[i + 1] = Replay(f[i], records[i + 1]) /\ f[i] \in Starts  BY <1>1, <2>1
    <2>3. f[i + 1].ok = f[i].ok  BY <2>1, <2>2, ReplayFacts
    <2> QED  BY <1>3, <2>3
  <1> HIDE DEF S
  <1>4. n \in S  BY <1>2, <1>3, Induction
  <1>5. f[n].ok = f[0].ok  BY <1>4 DEF S
  <1>6. f[n] \in Starts  BY <1>1
  <1> QED  BY <1>1, <1>5, <1>6

\* One record more is replayed on top of what the others gave.
LEMMA OneRecordMore ==
  ASSUME NEW snapshot, ReadTable(snapshot) \in Starts, NEW S, NEW records \in Seq(S),
         \A i \in 1..Len(records) : Reads(records[i]), NEW record \in S, Reads(record)
  PROVE  RecoveredFrom(snapshot, Append(records, record)) = Replay(RecoveredFrom(snapshot, records), record)
  <1> PICK n \in Nat : n = Len(records)  BY LenProperties
  <1> PICK more : more = Append(records, record)  OBVIOUS
  <1>1. Len(more) = n + 1 /\ more[n + 1] = record /\ \A i \in 1..n : more[i] = records[i]
    BY AppendProperties
  <1>2. \A i \in 1..(n + 1) : Reads(more[i])
    <2>1. \A i \in 1..(n + 1) : i \in 1..n \/ i = n + 1  OBVIOUS
    <2> QED  BY <1>1, <2>1
  <1>3. PICK f : /\ f[0] = ReadTable(snapshot)
                 /\ \A i \in 1..n : f[i] = Replay(f[i - 1], records[i])
                 /\ RecoveredFrom(snapshot, records) = f[n]
    BY RecoverySteps
  <1>4. PICK g : /\ g[0] = ReadTable(snapshot)
                 /\ \A i \in 1..(n + 1) : g[i] = Replay(g[i - 1], more[i])
                 /\ RecoveredFrom(snapshot, more) = g[n + 1]
    <2>1. Len(more) \in Nat /\ \A i \in 1..Len(more) : Reads(more[i])  BY <1>1, <1>2
    <2>2. PICK g : /\ g[0] = ReadTable(snapshot)
                   /\ \A i \in 1..Len(more) : g[i] = Replay(g[i - 1], more[i])
                   /\ RecoveredFrom(snapshot, more) = g[Len(more)]
      BY <2>1, RecoverySteps
    <2> QED  BY <1>1, <2>2
  <1>5. \A i \in 1..n : g[i - 1] = f[i - 1] => g[i] = f[i]
    <2>1. \A i \in 1..n : i \in 1..(n + 1)  OBVIOUS
    <2> QED  BY <1>1, <1>3, <1>4, <2>1
  <1>6. g[0] = f[0]  BY <1>3, <1>4
  <1>7. \A i \in 0..n : g[i] = f[i]
    <2>1. Alike(n, g, f)  BY <1>5, <1>6 DEF Alike
    <2> QED  BY <2>1, RecursionAgrees
  <1>8. g[n] = f[n] /\ n + 1 \in 1..(n + 1) /\ (n + 1) - 1 = n  BY <1>7
  <1>9. g[n + 1] = Replay(g[n], more[n + 1])  BY <1>4, <1>8
  <1> QED  BY <1>1, <1>3, <1>4, <1>8, <1>9

-----------------------------------------------------------------------------
(* What clients send. *)

\* A sequence is one of its own elements.
LEMMA OfItsOwn ==
  ASSUME NEW S, NEW s \in Seq(S)
  PROVE  s \in Seq(ToSet(s))
  <1>1. Len(s) \in Nat /\ s = [i \in 1..Len(s) |-> s[i]] /\ DOMAIN s = 1..Len(s)  BY LenProperties
  <1>2. \A i \in 1..Len(s) : s[i] \in ToSet(s)  BY <1>1 DEF ToSet
  <1> QED  BY <1>1, <1>2

LEMMA BatchFacts ==
  ASSUME NEW batch \in Batches
  PROVE  /\ CanBeSent(batch) /\ Len(batch) > 0
         /\ batch = [i \in 1..Len(batch) |-> batch[i]]
  <1>1. PICK n \in 1..MaxBatch : batch \in [1..n -> RowChoices]  BY DEF Batches
  <1>2. n \in Nat /\ n > 0  BY BoundsAssumption
  <1>3. Len(batch) = n /\ batch = [i \in 1..n |-> batch[i]]  BY <1>1, <1>2
  <1>4. ASSUME NEW i \in 1..n, RowFits(batch[i]) PROVE IsSent(batch[i])
    <2> PICK row : row = batch[i]  OBVIOUS
    <2>1. row \in RowChoices  BY <1>1
    <2>2. row \in Seq(ToSet(row)) /\ \A x \in ToSet(row) : IsValue(x)
      BY <2>1, RowsAssumption DEF IsValue
    <2>3. Len(row) = Len(Schema) /\ DOMAIN row = 1..Len(row)  BY <1>4, <2>2, LenProperties DEF RowFits
    <2>4. \A f \in Fields : row[f] \in ToSet(row)  BY <2>3 DEF Fields, ToSet
    <2> QED  BY <1>4, <2>2, <2>4 DEF IsSent
  <1> QED  BY <1>2, <1>3, <1>4 DEF CanBeSent

\* What a table keeps of a row is a row of the schema.
LEMMA KeptIsRow ==
  ASSUME NEW row, IsSent(row)
  PROVE  /\ IsRow(Kept(row))
         /\ Kept(row) = row => \A f \in Fields : row[f].type = Schema[f]
  <1> DEFINE r == Kept(row)
  <1>1. Len(Schema) \in Nat /\ Fields = 1..Len(Schema)  BY SchemaFacts DEF Fields
  <1>2. r = [f \in 1..Len(Schema) |-> Val(Schema[f], row[f].v)]  BY <1>1, KeptRow
  <1> HIDE DEF r
  <1>3. \A f \in Fields : r[f] = Val(Schema[f], row[f].v)  BY <1>1, <1>2
  <1>4. DOMAIN r = 1..Len(Schema) /\ r = [f \in 1..Len(Schema) |-> r[f]]  BY <1>2
  <1>5. \A f \in 1..Len(Schema) : r[f] \in ToSet(r)  BY <1>4 DEF ToSet
  <1>6. r \in Seq(ToSet(r)) /\ Len(r) = Len(Schema)  BY <1>1, <1>4, <1>5
  <1>7. ASSUME NEW f \in Fields PROVE r[f] \in ValuesOf(Schema[f]) /\ Fits(Schema[f], r[f])
    <2> PICK x, type : x = row[f] /\ type = Schema[f]  OBVIOUS
    <2>1. IsValue(x) /\ Fits(type, x) /\ type \in Types  BY SchemaFacts DEF IsSent, RowFits
    <2>2. r[f] = [type |-> type, v |-> x.v]  BY <1>3 DEF Val
    <2>3. CASE type \in {"str", "vec"}
      <3>1. x.type = type /\ (type = "vec" => Len(x.v) = Dim)  BY <2>1, <2>3 DEF Fits
      <3>2. x.v \in Seq(Int)  BY <2>1, <2>3, <3>1, ValueParts
      <3> QED  BY <2>2, <2>3, <3>1, <3>2 DEF ValuesOf, Fits
    <2>4. CASE type \in {"int", "float"}
      <3>1. x.type \in {"int", "float"}  BY <2>1, <2>4 DEF Fits
      <3>2. x.v \in Int  BY <2>1, <3>1, ValueParts
      <3> QED  BY <2>2, <2>4, <3>2 DEF ValuesOf, Fits
    <2> QED  BY <2>1, <2>3, <2>4 DEF Types
  <1>8. ASSUME r = row PROVE \A f \in Fields : row[f].type = Schema[f]
    <2>1. \A type, v : Val(type, v).type = type  BY DEF Val
    <2> QED  BY <1>3, <1>8, <2>1
  <1> QED  BY <1>6, <1>7, <1>8 DEF IsRow, r

\* A batch that went in as a whole can be read from its record, as it was sent if no
\* integer was sent for a float.
LEMMA RecordFacts ==
  ASSUME NEW batch \in Batches, Accepted(batch) = Len(batch)
  PROVE  /\ Reads(WriteRows(batch)) /\ WriteRows(batch) \in Seq(Cells)
         /\ (\A i \in 1..Len(batch) : Kept(batch[i]) = batch[i]) => ReadRows(WriteRows(batch)).v = batch
  <1> PICK n \in Nat : n = Len(batch) /\ n > 0  BY BatchFacts DEF CanBeSent
  <1>1. ASSUME NEW i \in 1..n PROVE IsSent(batch[i])
    <2>1. RowFits(batch[i])  BY AcceptedFacts
    <2> QED  BY <2>1, BatchFacts DEF CanBeSent
  <1> PICK rows : rows = [i \in 1..n |-> RowRead(batch[i])]  OBVIOUS
  <1> PICK record : record = WriteRows(batch)  OBVIOUS
  <1>2. \E at : ReadRows(record) = Got(rows, at)  BY <1>1, RowsBack
  <1>3. ReadRows(record).ok = TRUE /\ ReadRows(record).v = rows  BY <1>2, GotFields
  <1>4. \A i \in 1..n : rows[i] = RowRead(batch[i]) /\ IsRow(rows[i])  BY <1>1, ReadRowIsRow
  <1>5. Len(rows) = n /\ rows \in Seq(ToSet(rows))
    <2>1. rows \in Seq({rows[i] : i \in 1..n}) /\ Len(rows) = n  OBVIOUS
    <2> QED  BY <2>1, OfItsOwn
  <1>6. AreRows(rows)  BY <1>4, <1>5 DEF AreRows
  <1>7. record \in Seq(Cells)
    <2> DEFINE parts == [i \in 1..n |-> WriteRow(batch[i])]
    <2>1. \A i \in 1..n : WriteRow(batch[i]) \in Seq(Cells)  BY <1>1, WriteRowEnds
    <2>2. parts \in [1..n -> Seq(Cells)]  BY <2>1
    <2>3. record = U64(n) \o FlattenSeq(parts)  BY DEF WriteRows
    <2> HIDE DEF parts
    <2>4. FlattenSeq(parts) \in Seq(Cells)  BY <2>2, FlattenEnds
    <2>5. U64(n) \in Seq(Cells)  BY U64Cells
    <2> QED  BY <2>3, <2>4, <2>5, ConcatProperties
  <1>8. ASSUME \A i \in 1..n : Kept(batch[i]) = batch[i] PROVE rows = batch
    <2>1. ASSUME NEW i \in 1..n PROVE rows[i] = batch[i]
      <3>1. \A f \in Fields : batch[i][f].type = Schema[f]  BY <1>1, <1>8, KeptIsRow
      <3> QED  BY <1>1, <1>4, <3>1, ReadRowIsRow
    <2>2. batch = [i \in 1..n |-> batch[i]] /\ rows = [i \in 1..n |-> rows[i]]  BY BatchFacts
    <2> QED  BY <2>1, <2>2
  <1> QED  BY <1>3, <1>6, <1>7, <1>8 DEF Reads

-----------------------------------------------------------------------------
(* The invariant. *)

\* RowsComeBack, of any table and any rows.
ComeBack(t, rows) == Fitting(t) => rows = [i \in 1..t.nrows |-> Row(t, i)]

\* The rows put in and those of a batch that went in.
With(all, rows, batch) == all = rows \o [i \in 1..Accepted(batch) |-> Kept(batch[i])]

\* The rows a batch leaves behind are those that were there and those that went in.
LEMMA StoredAfter ==
  ASSUME NEW t \in AlignedTables, NEW rows, AreRows(rows), Len(rows) = t.nrows,
         ComeBack(t, rows), NEW batch, CanBeSent(batch), NEW u, Inserted(t, batch, Accepted(batch), u),
         NEW all, With(all, rows, batch)
  PROVE  AreRows(all) /\ Len(all) = u.nrows /\ ComeBack(u, all)
  <1> PICK n \in Nat : n = t.nrows  BY DEF AlignedTables
  <1>1. PICK k \in Nat : k = Accepted(batch) /\ k \in 0..Len(batch)  BY AcceptedFacts DEF CanBeSent
  <1> PICK new : new = [i \in 1..k |-> Kept(batch[i])]  OBVIOUS
  <1>2. ASSUME NEW i \in 1..k PROVE new[i] = Kept(batch[i]) /\ IsRow(new[i])
    <2>1. RowFits(batch[i]) /\ i \in 1..Len(batch)  BY <1>1, AcceptedFacts DEF CanBeSent
    <2>2. IsSent(batch[i])  BY <2>1 DEF CanBeSent
    <2> QED  BY <2>2, KeptIsRow
  <1> DEFINE S == ToSet(rows) \cup {new[i] : i \in 1..k}
  <1>3. ToSet(rows) \subseteq S /\ \A i \in 1..k : new[i] \in S  OBVIOUS
  <1> HIDE DEF S
  <1>4. rows \in Seq(S)  BY <1>3, SeqMonotonic DEF AreRows
  <1>5. new \in Seq(S) /\ Len(new) = k  BY <1>3
  <1>6. all \in Seq(S) /\ Joins(rows, new, all)
    <2>1. all = rows \o new  BY <1>1 DEF With
    <2> QED  BY <1>4, <1>5, <2>1, Joined
  <1>7. all \in Seq(ToSet(all))  BY <1>6, OfItsOwn
  <1>8. /\ Len(all) = n + k /\ \A i \in 1..n : all[i] = rows[i]
        /\ \A i \in 1..k : all[n + i] = new[i]
    BY <1>5, <1>6 DEF Joins
  <1>9. \A i \in 1..(n + k) : i \in 1..n \/ \E j \in 1..k : i = n + j
    <2>1. \A i \in 1..(n + k) : i \notin 1..n => i - n \in 1..k /\ i = n + (i - n)  OBVIOUS
    <2> QED  BY <2>1
  <1>10. \A i \in 1..n : IsRow(rows[i])  BY DEF AreRows
  <1>11. ASSUME NEW i \in 1..(n + k) PROVE IsRow(all[i])
    <2>1. CASE i \in 1..n  BY <1>8, <1>10, <2>1
    <2>2. CASE \E j \in 1..k : i = n + j  BY <1>2, <1>8, <2>2
    <2> QED  BY <1>9, <2>1, <2>2
  <1>12. AreRows(all)  BY <1>7, <1>8, <1>11 DEF AreRows
  <1>13. /\ u.nrows = n + k
         /\ Fitting(u) => Fitting(t)
         /\ \A i \in 1..n : Row(u, i) = Row(t, i)
         /\ Fitting(u) => \A j \in 1..k : Row(u, n + j) = Kept(batch[j])
    BY <1>1 DEF Inserted
  <1>14. ASSUME Fitting(u) PROVE all = [i \in 1..(n + k) |-> Row(u, i)]
    <2>1. \A i \in 1..n : rows[i] = Row(t, i)
      <3>1. rows = [i \in 1..n |-> Row(t, i)]  BY <1>13, <1>14 DEF ComeBack
      <3> QED  BY <3>1
    <2>2. \A i \in 1..n : all[i] = Row(u, i)  BY <1>8, <1>13, <2>1
    <2>3. \A i \in 1..k : all[n + i] = Row(u, n + i)  BY <1>2, <1>8, <1>13, <1>14
    <2>4. \A i \in 1..(n + k) : all[i] = Row(u, i)  BY <1>9, <2>2, <2>3
    <2>5. all = [i \in 1..(n + k) |-> all[i]]  BY <1>6, <1>8, LenProperties
    <2> QED  BY <2>4, <2>5
  <1> QED  BY <1>8, <1>12, <1>13, <1>14 DEF ComeBack

\* A table whose offsets fit can be read from its snapshot, any other gives a table
\* or none.
LEMMA SnapshotReads ==
  ASSUME NEW t \in AlignedTables
  PROVE  /\ ReadTable(WriteTable(t)) \in Starts
         /\ Fitting(t) => ReadTable(WriteTable(t)) = [ok |-> TRUE, table |-> t]
  <1>1. ReadTable(WriteTable(t)) = [ok |-> TRUE, table |-> t]
        \/ ReadTable(WriteTable(t)) = [ok |-> FALSE, table |-> EmptyTable]
    BY TableBack
  <1>2. ReadTable(WriteTable(t)) \in Starts
    <2>1. [ok |-> TRUE, table |-> t] \in Starts  BY DEF Starts
    <2>2. [ok |-> FALSE, table |-> EmptyTable] \in Starts  BY EmptyAligned DEF Starts
    <2> QED  BY <1>1, <2>1, <2>2
  <1>3. ASSUME Fitting(t) PROVE \A f \in Fields : Readable(t.columns[f])
    <2> SUFFICES ASSUME NEW f \in Fields, t.columns[f].type = "str"
                 PROVE  StringsInOrder(t.columns[f])
      BY DEF Readable
    <2>1. t.columns[f].type = Schema[f] /\ Aligned(t.columns[f], t.nrows)  BY TableFacts
    <2>2. Len(t.columns[f].data) < OffsetLimit  BY <1>3, <2>1 DEF Fitting
    <2> QED  BY <2>1, <2>2 DEF Aligned, LaidOut
  <1> QED  BY <1>2, <1>3, TableBack

LEMMA RecoveredTyped ==
  ASSUME TypesInv, FilesRead
  PROVE  /\ Recovered \in Starts /\ Recovered.ok = ReadTable(image).ok
         /\ Len(log) \in Nat /\ \A i \in 1..Len(log) : Reads(log[i])
  <1>1. Len(log) \in Nat  BY LenProperties DEF TypesInv
  <1> QED  BY <1>1, RecoveryStarts DEF FilesRead, Recovered

LEMMA InitInv == Init => IInv
  <1> SUFFICES ASSUME Init PROVE IInv  OBVIOUS
  <1>1. table = EmptyTable /\ image = WriteTable(EmptyTable) /\ log = <<>> /\ stored = <<>>
    BY DEF Init
  <1>2. table \in AlignedTables /\ table.nrows = 0  BY <1>1, EmptyAligned
  <1>3. /\ Len(log) = 0 /\ Len(stored) = 0 /\ 1..0 = {} /\ log \in Seq(Seq(Cells))
        /\ stored \in Seq(ToSet(stored))
    BY <1>1
  <1>4. TypesInv
    <2>1. inserts = 0 /\ rejected = FALSE /\ narrowed = FALSE  BY DEF Init
    <2>2. inserts \in 0..MaxInserts  BY <2>1, BoundsAssumption
    <2>3. AreRows(stored)  BY <1>3 DEF AreRows
    <2> QED  BY <1>2, <1>3, <2>1, <2>2, <2>3 DEF TypesInv
  <1>5. stored = [i \in 1..table.nrows |-> Row(table, i)]  BY <1>1, <1>2
  <1>6. ReadTable(image) = [ok |-> TRUE, table |-> table]  BY <1>1, TableBack, EmptyAligned
  <1>7. ReadTable(image) \in Starts /\ ReadTable(image).ok  BY <1>2, <1>6 DEF Starts
  <1>8. FilesRead  BY <1>3, <1>7 DEF FilesRead
  <1>9. Recovered = [ok |-> TRUE, table |-> table]
    <2>1. Recovered = ReadTable(image)  BY <1>3, <1>7, RecoveryStarts DEF Recovered
    <2> QED  BY <1>6, <2>1
  <1> QED  BY <1>4, <1>5, <1>8, <1>9 DEF IInv, RowsComeBack, RecoveryExact

LEMMA InsertInv ==
  ASSUME IInv, NEW batch \in Batches, Insert(batch)
  PROVE  IInv'
  <1> USE DEF IInv
  <1>1. CanBeSent(batch) /\ Len(batch) > 0 /\ Len(batch) \in Nat  BY BatchFacts DEF CanBeSent
  <1>2. PICK k \in Nat : k = Accepted(batch) /\ k \in 0..Len(batch)  BY <1>1, AcceptedFacts
  <1>3. /\ inserts < MaxInserts /\ inserts' = inserts + 1 /\ table' = InsertMany(table, batch)
        /\ stored' = stored \o [i \in 1..Accepted(batch) |-> Kept(batch[i])]
        /\ image' = image
    BY DEF Insert
  <1>4. /\ table \in AlignedTables /\ log \in Seq(Seq(Cells)) /\ inserts \in 0..MaxInserts
        /\ rejected \in BOOLEAN /\ narrowed \in BOOLEAN
        /\ AreRows(stored) /\ Len(stored) = table.nrows
    BY DEF TypesInv
  <1>5. /\ Inserted(table, batch, Accepted(batch), table')
        /\ k = 0 => table' = table
    BY <1>1, <1>2, <1>3, <1>4, ManyIn
  <1>6. (OffsetsFit <=> Fitting(table)) /\ (OffsetsFit' <=> Fitting(table'))  BY DEF OffsetsFit, Fitting
  <1>7. table' \in AlignedTables /\ (Fitting(table') => Fitting(table))  BY <1>5 DEF Inserted
  <1>8. ComeBack(table, stored)  BY <1>6 DEF RowsComeBack, ComeBack
  <1>9. AreRows(stored') /\ Len(stored') = table'.nrows /\ ComeBack(table', stored')
    <2>1. With(stored', stored, batch)  BY <1>3 DEF With
    <2> QED  BY <1>1, <1>4, <1>5, <1>8, <2>1, StoredAfter
  <1>10. RowsComeBack'  BY <1>6, <1>9 DEF RowsComeBack, ComeBack
  <1> PICK record : record = WriteRows(batch)  OBVIOUS
  <1>11. CASE k = Len(batch)
    <2>1. log' = Append(log, record) /\ rejected' = rejected  BY <1>2, <1>11 DEF Insert
    <2>2. Reads(record) /\ record \in Seq(Cells)  BY <1>2, <1>11, RecordFacts
    <2>3. log' \in Seq(Seq(Cells))  BY <1>4, <2>1, <2>2, AppendProperties
    <2>4. TypesInv'
      <3>1. inserts' \in 0..MaxInserts  BY <1>3, <1>4, BoundsAssumption
      <3>2. narrowed' \in BOOLEAN  BY DEF Insert
      <3> QED  BY <1>4, <1>7, <1>9, <2>1, <2>3, <3>1, <3>2 DEF TypesInv
    <2>5. PICK m \in Nat : m = Len(log)  BY <1>4, LenProperties
    <2>6. Len(log') = m + 1 /\ log'[m + 1] = record /\ \A i \in 1..m : log'[i] = log[i]
      BY <1>4, <2>1, <2>2, <2>5, AppendProperties
    <2>7. \A i \in 1..m : Reads(log[i])  BY <2>5 DEF FilesRead
    <2>8. \A i \in 1..(m + 1) : Reads(log'[i])
      <3>1. \A i \in 1..(m + 1) : i \in 1..m \/ i = m + 1  OBVIOUS
      <3> QED  BY <2>2, <2>6, <2>7, <3>1
    <2>9. FilesRead'  BY <1>3, <1>6, <1>7, <2>6, <2>8 DEF FilesRead
    <2>10. ASSUME ~rejected', ~narrowed', OffsetsFit' PROVE Recovered' = [ok |-> TRUE, table |-> table']
      <3>1. ~narrowed /\ \A i \in 1..Len(batch) : Kept(batch[i]) = batch[i]
        BY <1>2, <1>11, <2>10 DEF Insert
      <3>2. Recovered = [ok |-> TRUE, table |-> table]
        BY <1>6, <1>7, <2>1, <2>10, <3>1 DEF RecoveryExact
      <3>3. ReadRows(record).v = batch  BY <1>2, <1>11, <3>1, RecordFacts
      <3>4. ReadTable(image) \in Starts /\ \A i \in 1..Len(log) : Reads(log[i])  BY DEF FilesRead
      <3>5. Recovered' = Replay(Recovered, record)
        <4>1. RecoveredFrom(image, Append(log, record)) = Replay(RecoveredFrom(image, log), record)
          BY <1>4, <2>2, <3>4, OneRecordMore
        <4> QED  BY <1>3, <2>1, <4>1 DEF Recovered
      <3> PICK before : before = Recovered  OBVIOUS
      <3>6. before \in Starts /\ before.ok = TRUE /\ before.table = table  BY <1>4, <3>2 DEF Starts
      <3>7. Replay(before, record) = [ok |-> TRUE, table |-> InsertMany(table, batch)]
        BY <2>2, <3>3, <3>6, ReplayFacts
      <3> QED  BY <1>3, <3>5, <3>7
    <2> QED  BY <1>10, <2>4, <2>9, <2>10 DEF RecoveryExact
  <1>12. CASE k # Len(batch)
    <2>1. log' = log /\ rejected' = (rejected \/ k > 0)  BY <1>2, <1>12 DEF Insert
    <2>2. TypesInv'
      <3>1. inserts' \in 0..MaxInserts  BY <1>3, <1>4, BoundsAssumption
      <3>2. narrowed' \in BOOLEAN  BY DEF Insert
      <3> QED  BY <1>4, <1>7, <1>9, <2>1, <3>1, <3>2 DEF TypesInv
    <2>3. FilesRead'  BY <1>3, <1>6, <1>7, <2>1 DEF FilesRead
    <2>4. ASSUME ~rejected', ~narrowed', OffsetsFit' PROVE Recovered' = [ok |-> TRUE, table |-> table']
      <3>1. k = 0 /\ ~rejected
        <4>1. ~rejected /\ ~(k > 0)  BY <2>1, <2>4, Zenon
        <4> QED  BY <4>1
      <3>2. ~narrowed  BY <2>4 DEF Insert
      <3>3. Recovered = [ok |-> TRUE, table |-> table]
        BY <1>6, <1>7, <2>4, <3>1, <3>2 DEF RecoveryExact
      <3>4. Recovered' = Recovered  BY <1>3, <2>1 DEF Recovered
      <3> QED  BY <1>5, <3>1, <3>3, <3>4
    <2> QED  BY <1>10, <2>2, <2>3, <2>4 DEF RecoveryExact
  <1> QED  BY <1>11, <1>12

LEMMA SnapshotInv ==
  ASSUME IInv, Snapshot
  PROVE  IInv'
  <1>1. /\ image' = WriteTable(table) /\ log' = <<>> /\ table' = table /\ inserts' = inserts
        /\ stored' = stored /\ rejected' = rejected /\ narrowed' = narrowed
    BY DEF Snapshot
  <1>2. TypesInv /\ RowsComeBack  BY DEF IInv
  <1>3. log' \in Seq(Seq(Cells)) /\ Len(log') = 0 /\ 1..0 = {}  BY <1>1
  <1>4. TypesInv'  BY <1>1, <1>2, <1>3 DEF TypesInv
  <1>5. (OffsetsFit <=> Fitting(table)) /\ (OffsetsFit' <=> OffsetsFit)
    BY <1>1 DEF OffsetsFit, Fitting
  <1>6. RowsComeBack'  BY <1>1, <1>2, <1>5 DEF RowsComeBack, Row
  <1>7. table \in AlignedTables  BY <1>2 DEF TypesInv
  <1>8. /\ ReadTable(image') \in Starts
        /\ Fitting(table) => ReadTable(image') = [ok |-> TRUE, table |-> table]
    BY <1>1, <1>7, SnapshotReads
  <1>9. FilesRead'  BY <1>3, <1>5, <1>8 DEF FilesRead
  <1>10. RecoveredFrom(image', log') = ReadTable(image')  BY <1>3, <1>8, RecoveryStarts
  <1>11. RecoveryExact'  BY <1>1, <1>5, <1>8, <1>10 DEF RecoveryExact, Recovered
  <1> QED  BY <1>4, <1>6, <1>9, <1>11 DEF IInv

LEMMA RestartInv ==
  ASSUME IInv, Restart
  PROVE  IInv'
  <1>1. /\ Recovered.ok /\ table' = Recovered.table
        /\ stored' = IF Recovered.table = table THEN stored
                     ELSE [i \in 1..Recovered.table.nrows |-> Row(Recovered.table, i)]
        /\ image' = image /\ log' = log /\ inserts' = inserts /\ rejected' = rejected
        /\ narrowed' = narrowed
    BY DEF Restart
  <1>2. TypesInv /\ RowsComeBack /\ FilesRead  BY DEF IInv
  <1> PICK start : start = Recovered  OBVIOUS
  <1>3. start \in Starts /\ Recovered.ok = ReadTable(image).ok  BY <1>2, RecoveredTyped
  <1>4. start = [ok |-> TRUE, table |-> table'] /\ table' \in AlignedTables  BY <1>1, <1>3 DEF Starts
  <1>5. Recovered' = Recovered  BY <1>1 DEF Recovered
  <1>6. RecoveryExact'  BY <1>4, <1>5 DEF RecoveryExact
  <1>7. FilesRead'  BY <1>1, <1>2, <1>3 DEF FilesRead
  <1>8. AreRows(stored') /\ Len(stored') = table'.nrows /\ RowsComeBack'
    <2>1. CASE table' = table
      <3>1. stored' = stored  BY <1>1, <2>1
      <3>2. OffsetsFit' <=> OffsetsFit  BY <2>1 DEF OffsetsFit
      <3> QED  BY <1>2, <2>1, <3>1, <3>2 DEF TypesInv, RowsComeBack, Row
    <2>2. CASE table' # table
      <3> PICK t, rows : t = table' /\ rows = stored'  OBVIOUS
      <3> PICK n \in Nat : n = t.nrows  BY <1>4 DEF AlignedTables
      <3>1. rows = [i \in 1..n |-> Row(t, i)]  BY <1>1, <2>2
      <3>2. \A i \in 1..n : IsRow(Row(t, i))  BY <1>4, RowOfTable
      <3>3. rows \in Seq({Row(t, i) : i \in 1..n}) /\ Len(rows) = n  BY <3>1
      <3>4. rows \in Seq(ToSet(rows))  BY <3>3, OfItsOwn
      <3>5. AreRows(rows)  BY <3>1, <3>2, <3>3, <3>4 DEF AreRows
      <3>6. RowsComeBack'  BY <3>1 DEF RowsComeBack, Row
      <3> QED  BY <3>3, <3>5, <3>6
    <2> QED  BY <2>1, <2>2
  <1>9. TypesInv'  BY <1>1, <1>2, <1>4, <1>8 DEF TypesInv
  <1> QED  BY <1>6, <1>7, <1>8, <1>9 DEF IInv

LEMMA StutterInv ==
  ASSUME IInv, UNCHANGED vars
  PROVE  IInv'
  <1>1. /\ table' = table /\ image' = image /\ log' = log /\ inserts' = inserts
        /\ stored' = stored /\ rejected' = rejected /\ narrowed' = narrowed
    BY DEF vars
  <1>2. OffsetsFit' <=> OffsetsFit  BY <1>1 DEF OffsetsFit
  <1>3. Recovered' = Recovered  BY <1>1 DEF Recovered
  <1>4. TypesInv'  BY <1>1 DEF IInv, TypesInv
  <1>5. FilesRead'  BY <1>1, <1>2 DEF IInv, FilesRead
  <1>6. RowsComeBack'  BY <1>1, <1>2 DEF IInv, RowsComeBack, Row
  <1>7. RecoveryExact'  BY <1>1, <1>2, <1>3 DEF IInv, RecoveryExact
  <1> QED  BY <1>4, <1>5, <1>6, <1>7 DEF IInv

\* The inductive invariant of Tables holds in every state.
THEOREM TablesInvariant == Spec => []IInv
  <1>1. Init => IInv  BY InitInv
  <1>2. IInv /\ [Next]_vars => IInv'
    <2> SUFFICES ASSUME IInv, [Next]_vars PROVE IInv'  OBVIOUS
    <2>1. CASE \E batch \in Batches : Insert(batch)  BY <2>1, InsertInv
    <2>2. CASE Snapshot  BY <2>2, SnapshotInv
    <2>3. CASE Restart  BY <2>3, RestartInv
    <2>4. CASE UNCHANGED vars  BY <2>4, StutterInv
    <2> QED  BY <2>1, <2>2, <2>3, <2>4 DEF Next
  <1> QED  BY <1>1, <1>2, PTL DEF Spec

\* The columns stay aligned, and no read of one slices out of its buffer, whatever
\* row of a batch is refused (Table::insert, StrColumn::get_bytes).
THEOREM TypesHold == Spec => []TypeOK
  <1>1. IInv => TypeOK
    <2> SUFFICES ASSUME IInv PROVE TypeOK  OBVIOUS
    <2>1. TypesInv  BY DEF IInv
    <2>2. ASSUME NEW f \in Fields
          PROVE  /\ table.columns[f].type = Schema[f]
                 /\ ColumnLen(table.columns[f]) = table.nrows
                 /\ OffsetsFit => \A i \in 1..table.nrows : ~GetPanics(table.columns[f], i)
      <3> PICK c : c = table.columns[f]  OBVIOUS
      <3> PICK n : n = table.nrows  OBVIOUS
      <3>1. c \in Columns /\ c.type = Schema[f] /\ Aligned(c, n) /\ n \in Nat
        BY <2>1, TableFacts DEF TypesInv
      <3>2. ColumnLen(c) = n  BY <3>1, LengthOfAligned
      <3>3. ASSUME OffsetsFit, NEW i \in 1..n PROVE ~GetPanics(c, i)
        <4>1. CASE c.type # "str"  BY <4>1 DEF GetPanics
        <4>2. CASE c.type = "str"
          <5>1. LaidOut(c, n) /\ Len(c.data) < OffsetLimit
            BY <3>1, <3>3, <4>2 DEF Aligned, OffsetsFit
          <5>2. StringsInOrder(c) /\ Len(c.offsets) = n + 1  BY <5>1 DEF LaidOut
          <5>3. /\ i \in 1..(n + 1) /\ i + 1 \in 1..(n + 1)
                /\ i \in 1..((n + 1) - 1) /\ n + 1 \in Nat
            BY <3>1
          <5>4. Len(c.data) \in Nat /\ \A k \in 1..Len(c.offsets) : c.offsets[k] \in Nat
            BY <3>1, ColumnParts
          <5>5. PICK a \in Nat, b \in Nat, l \in Nat :
                   a = c.offsets[i] /\ b = c.offsets[i + 1] /\ l = Len(c.data)
            BY <5>2, <5>3, <5>4
          <5>6. a <= b  BY <5>2, <5>3, <5>5 DEF StringsInOrder
          <5>7. b <= l  BY <5>1, <5>3, <5>5 DEF LaidOut
          <5>8. ~(a > b \/ b > l)  BY <5>5, <5>6, <5>7
          <5> QED  BY <5>5, <5>8 DEF GetPanics
        <4> QED  BY <4>1, <4>2
      <3> QED  BY <3>1, <3>2, <3>3
    <2> QED  BY <2>1, <2>2 DEF TypeOK, TypesInv
  <1> QED  BY <1>1, TablesInvariant, PTL

\* Reading the columns back gives the rows that were put in, in their order.
THEOREM RowsReadBack == Spec => []RowsComeBack
  <1>1. IInv => RowsComeBack  BY DEF IInv
  <1> QED  BY <1>1, TablesInvariant, PTL

\* A start gives back exactly the table in memory: Reader understands what Writer
\* wrote, for every schema and every row, the snapshot and the log together.
THEOREM RecoveryIsExact == Spec => []RecoveryExact
  <1>1. IInv => RecoveryExact  BY DEF IInv
  <1> QED  BY <1>1, TablesInvariant, PTL

\* A refused batch or a narrowed number never keeps the database from starting.
THEOREM StartSucceeds == Spec => []AlwaysStarts
  <1>1. IInv => AlwaysStarts  BY RecoveredTyped DEF IInv, AlwaysStarts, FilesRead
  <1> QED  BY <1>1, TablesInvariant, PTL
=============================================================================
