---------------------------- MODULE Like_proofs ----------------------------
(***************************************************************************)
(* LIKE answers what it means, for every text and every pattern.           *)
(*                                                                         *)
(* The meaning and the pieces are recursive functions.  The lemmas of the  *)
(* first two parts say that they exist and obey their equations, and how a *)
(* meaning changes along a run of characters and along a `%`.              *)
(***************************************************************************)
EXTENDS LikeInv, NaturalFacts, SequenceTheorems

Characters == Letters \cup {AnyText, AnyChar}

\* A string is its characters.
LEMMA SameString ==
  ASSUME NEW X, NEW s \in Seq(X), NEW t \in Seq(X), Len(s) = Len(t),
         \A k \in 1..Len(s) : s[k] = t[k]
  PROVE  s = t
  OBVIOUS

\* What is behind k characters of a string.
LEMMA BehindOf ==
  ASSUME NEW X, NEW s \in Seq(X), NEW k \in 0..Len(s)
  PROVE  /\ Behind(s, k) \in Seq(X) /\ Len(Behind(s, k)) = Len(s) - k
         /\ \A i \in 1..(Len(s) - k) : Behind(s, k)[i] = s[k + i]
  BY DEF Behind

\* What is behind l characters of what is behind k.
LEMMA BehindBehind ==
  ASSUME NEW X, NEW s \in Seq(X), NEW k \in 0..Len(s), NEW l \in 0..(Len(s) - k)
  PROVE  Behind(Behind(s, k), l) = Behind(s, k + l)
  <1>1. /\ Behind(s, k) \in Seq(X) /\ Len(Behind(s, k)) = Len(s) - k
        /\ \A i \in 1..(Len(s) - k) : Behind(s, k)[i] = s[k + i]
    BY BehindOf
  <1>2. /\ Behind(s, k + l) \in Seq(X) /\ Len(Behind(s, k + l)) = Len(s) - (k + l)
        /\ \A i \in 1..(Len(s) - (k + l)) : Behind(s, k + l)[i] = s[(k + l) + i]
    <2>1. k + l \in 0..Len(s)  OBVIOUS
    <2> QED  BY <2>1, BehindOf
  <1>3. /\ Behind(Behind(s, k), l) \in Seq(X)
        /\ Len(Behind(Behind(s, k), l)) = Len(Behind(s, k)) - l
        /\ \A i \in 1..(Len(Behind(s, k)) - l) : Behind(Behind(s, k), l)[i] = Behind(s, k)[l + i]
    <2>1. PICK t \in Seq(X) : t = Behind(s, k)  BY <1>1
    <2>2. l \in 0..Len(t)  BY <1>1, <2>1
    <2>3. /\ Behind(t, l) \in Seq(X) /\ Len(Behind(t, l)) = Len(t) - l
          /\ \A i \in 1..(Len(t) - l) : Behind(t, l)[i] = t[l + i]
      BY <2>2, BehindOf
    <2> QED  BY <2>1, <2>3
  <1>4. ASSUME NEW i \in 1..(Len(s) - (k + l))
        PROVE  Behind(Behind(s, k), l)[i] = Behind(s, k + l)[i]
    <2>1. Behind(Behind(s, k), l)[i] = Behind(s, k)[l + i]  BY <1>1, <1>3
    <2>2. Behind(s, k)[l + i] = s[k + (l + i)]  BY <1>1
    <2>3. k + (l + i) = (k + l) + i  OBVIOUS
    <2> QED  BY <1>2, <2>1, <2>2, <2>3
  <1>5. Len(Behind(Behind(s, k), l)) = Len(Behind(s, k + l))
    <2>1. PICK n \in Nat : n = Len(s)  BY LenProperties
    <2>2. (n - k) - l = n - (k + l)  BY <2>1
    <2> QED  BY <1>1, <1>2, <1>3, <2>1, <2>2
  <1>6. /\ Behind(Behind(s, k), l) \in Seq(X) /\ Behind(s, k + l) \in Seq(X)
        /\ \A i \in 1..Len(Behind(Behind(s, k), l)) :
             Behind(Behind(s, k), l)[i] = Behind(s, k + l)[i]
    BY <1>2, <1>3, <1>4, <1>5
  <1> QED  BY <1>5, <1>6, SameString

\* A string occurs where its characters stand one behind the other.
LEMMA OccursWhere ==
  ASSUME NEW X, NEW s \in Seq(X), NEW part \in Seq(X), NEW k \in Int
  PROVE  k \in Occurrences(s, part)
         <=> /\ k \in 0..(Len(s) - Len(part))
             /\ \A i \in 1..Len(part) : s[k + i] = part[i]
  <1>1. ASSUME k \in 0..(Len(s) - Len(part))
        PROVE  /\ SubSeq(s, k + 1, k + Len(part)) \in Seq(X)
               /\ Len(SubSeq(s, k + 1, k + Len(part))) = Len(part)
               /\ \A i \in 1..Len(part) : SubSeq(s, k + 1, k + Len(part))[i] = s[k + i]
    <2>1. (k + 1) \in Nat /\ k + 1 >= 1 /\ k + Len(part) <= Len(s) /\ Len(part) \in Nat
      BY <1>1
    <2>2. \A x \in (k + 1)..(k + Len(part)) : s[x] \in X  BY <1>1
    <2>3. SubSeq(s, k + 1, k + Len(part)) = [i \in 1..Len(part) |-> s[k + i]]
      BY <2>1, <2>2, SubSeqProperties
    <2>4. \A i \in 1..Len(part) : s[k + i] \in X  BY <1>1
    <2> QED  BY <2>1, <2>3, <2>4
  <1>2. ASSUME k \in 0..(Len(s) - Len(part)), \A i \in 1..Len(part) : s[k + i] = part[i]
        PROVE  SubSeq(s, k + 1, k + Len(part)) = part
    BY <1>1, <1>2, SameString
  <1>3. ASSUME k \in Occurrences(s, part)
        PROVE  /\ k \in 0..(Len(s) - Len(part))
               /\ \A i \in 1..Len(part) : s[k + i] = part[i]
    <2>1. k \in 0..(Len(s) - Len(part)) /\ SubSeq(s, k + 1, k + Len(part)) = part
      BY <1>3 DEF Occurrences
    <2> QED  BY <1>1, <2>1
  <1> QED  BY <1>2, <1>3 DEF Occurrences

-----------------------------------------------------------------------------
(* The meaning of a pattern.                                                *)

Places(s, p) == (0..Len(s)) \X (0..Len(p))

\* What m says of place <<i, j>> by what it says of the places behind.
Step(s, p, m, i, j) ==
    \/ i = Len(s) /\ j = Len(p)
    \/ /\ j < Len(p) /\ p[j + 1] = AnyText
       /\ m[<<i, j + 1>>] \/ (i < Len(s) /\ m[<<i + 1, j>>])
    \/ /\ i < Len(s) /\ j < Len(p) /\ p[j + 1] \in {AnyChar, s[i + 1]} \ {AnyText}
       /\ m[<<i + 1, j + 1>>]

\* The places with at most k characters behind them.
Near(s, p, k) == {x \in Places(s, p) : (Len(s) - x[1]) + (Len(p) - x[2]) <= k}

LEMMA NearPlace ==
  ASSUME NEW s, NEW p, NEW i \in 0..Len(s), NEW j \in 0..Len(p), NEW k
  PROVE  <<i, j>> \in Near(s, p, k) <=> (Len(s) - i) + (Len(p) - j) <= k
  BY DEF Near, Places

LEMMA MeaningsExist ==
  ASSUME NEW s \in Seq(Characters), NEW p \in Seq(Characters)
  PROVE  \E m : m = [x \in Places(s, p) |-> Step(s, p, m, x[1], x[2])]
  <1> DEFINE Filled(m, k) == \A x \in Near(s, p, k) : m[x] = Step(s, p, m, x[1], x[2])
             S == {k \in Nat : \E m \in [Places(s, p) -> BOOLEAN] : Filled(m, k)}
  <1>1. 0 \in S
    <2> DEFINE m == [x \in Places(s, p) |-> TRUE]
    <2>1. m \in [Places(s, p) -> BOOLEAN]  OBVIOUS
    <2>2. ASSUME NEW x \in Near(s, p, 0) PROVE m[x] = Step(s, p, m, x[1], x[2])
      <3>1. x \in Places(s, p) /\ x[1] = Len(s) /\ x[2] = Len(p)  BY DEF Near, Places
      <3>2. Step(s, p, m, x[1], x[2])  BY <3>1 DEF Step
      <3>3. m[x] = TRUE  BY <3>1
      <3> QED  BY <3>2, <3>3 DEF Step
    <2> QED  BY <2>1, <2>2
  <1>2. ASSUME NEW k \in Nat, k \in S PROVE k + 1 \in S
    <2>1. PICK m \in [Places(s, p) -> BOOLEAN] : Filled(m, k)  BY <1>2
    <2> DEFINE n == [x \in Places(s, p) |-> IF x \in Near(s, p, k) THEN m[x]
                                            ELSE Step(s, p, m, x[1], x[2])]
    <2>2. n \in [Places(s, p) -> BOOLEAN]  BY DEF Step
    <2>3. ASSUME NEW x \in Near(s, p, k + 1) PROVE n[x] = Step(s, p, m, x[1], x[2])
      <3>1. x \in Places(s, p)  BY DEF Near
      <3> QED  BY <2>1, <3>1
    <2>4. \A x \in Near(s, p, k) : n[x] = m[x]  BY DEF Near
    <2> HIDE DEF n
    <2>5. ASSUME NEW x \in Near(s, p, k + 1)
          PROVE  Step(s, p, n, x[1], x[2]) = Step(s, p, m, x[1], x[2])
      <3>1. PICK i \in 0..Len(s), j \in 0..Len(p) : x = <<i, j>>  BY DEF Near, Places
      <3> PICK a \in Nat : a = Len(s)  BY LenProperties
      <3> PICK b \in Nat : b = Len(p)  BY LenProperties
      <3>2. (a - i) + (b - j) <= k + 1 /\ i \in 0..a /\ j \in 0..b  BY <3>1, NearPlace
      <3>3. j < Len(p) => <<i, j + 1>> \in Near(s, p, k)
        <4>1. j < b => j + 1 \in 0..b /\ (a - i) + (b - (j + 1)) <= k  BY <3>2
        <4> QED  BY <3>2, <4>1, NearPlace
      <3>4. i < Len(s) => <<i + 1, j>> \in Near(s, p, k)
        <4>1. i < a => i + 1 \in 0..a /\ (a - (i + 1)) + (b - j) <= k  BY <3>2
        <4> QED  BY <3>2, <4>1, NearPlace
      <3>5. i < Len(s) /\ j < Len(p) => <<i + 1, j + 1>> \in Near(s, p, k)
        <4>1. i < a /\ j < b
              => i + 1 \in 0..a /\ j + 1 \in 0..b /\ (a - (i + 1)) + (b - (j + 1)) <= k
          BY <3>2
        <4> QED  BY <4>1, NearPlace
      <3>6. Step(s, p, n, i, j) = Step(s, p, m, i, j)  BY <2>4, <3>3, <3>4, <3>5 DEF Step
      <3>7. x[1] = i /\ x[2] = j  BY <3>1
      <3> QED  BY <3>6, <3>7
    <2>6. Filled(n, k + 1)  BY <2>3, <2>5
    <2> QED  BY <2>2, <2>6
  <1> HIDE DEF S
  <1>3. Len(s) + Len(p) \in S  BY <1>1, <1>2, Induction
  <1>4. PICK m \in [Places(s, p) -> BOOLEAN] : Filled(m, Len(s) + Len(p))  BY <1>3 DEF S
  <1>5. Near(s, p, Len(s) + Len(p)) = Places(s, p)
    <2>1. ASSUME NEW i \in 0..Len(s), NEW j \in 0..Len(p)
          PROVE  <<i, j>> \in Near(s, p, Len(s) + Len(p))
      <3>1. PICK a \in Nat, b \in Nat : a = Len(s) /\ b = Len(p)  BY LenProperties
      <3>2. (a - i) + (b - j) <= a + b  BY <3>1
      <3>3. (Len(s) - i) + (Len(p) - j) <= Len(s) + Len(p)  BY <3>1, <3>2
      <3>4. PICK k : k = Len(s) + Len(p)  OBVIOUS
      <3>5. <<i, j>> \in Near(s, p, k)  BY <3>3, <3>4, NearPlace
      <3> QED  BY <3>4, <3>5
    <2> QED  BY <2>1 DEF Near, Places
  <1>6. m = [x \in Places(s, p) |-> Step(s, p, m, x[1], x[2])]  BY <1>4, <1>5
  <1> QED  BY <1>6

\* The meaning at a place by the meanings behind it.
LEMMA MeaningStep ==
  ASSUME NEW s \in Seq(Characters), NEW p \in Seq(Characters),
         NEW i \in 0..Len(s), NEW j \in 0..Len(p)
  PROVE  Meanings(s, p)[<<i, j>>] = Step(s, p, Meanings(s, p), i, j)
  <1> PICK m : m = Meanings(s, p)  OBVIOUS
  <1>1. m = [x \in Places(s, p) |-> Step(s, p, m, x[1], x[2])]
    <2>1. \E g : g = [x \in Places(s, p) |-> Step(s, p, g, x[1], x[2])]  BY MeaningsExist
    <2>2. m = CHOOSE g : g = [x \in Places(s, p) |-> Step(s, p, g, x[1], x[2])]
      BY DEF Meanings, Step, Places
    <2> HIDE DEF Step
    <2> QED  BY <2>1, <2>2, Zenon
  <1>2. <<i, j>> \in Places(s, p)  BY DEF Places
  <1>3. <<i, j>>[1] = i /\ <<i, j>>[2] = j  OBVIOUS
  <1>4. m[<<i, j>>] = Step(s, p, m, i, j)
    <2> PICK f : f = [x \in Places(s, p) |-> Step(s, p, m, x[1], x[2])]  OBVIOUS
    <2> HIDE DEF Step
    <2>1. f[<<i, j>>] = Step(s, p, m, <<i, j>>[1], <<i, j>>[2])  BY <1>2, Zenon
    <2>2. m = f  BY <1>1, Zenon
    <2> QED  BY <1>3, <2>1, <2>2, Zenon
  <1> QED  BY <1>4, Zenon

LEMMA MeaningsBoolean ==
  ASSUME NEW s \in Seq(Characters), NEW p \in Seq(Characters),
         NEW i \in 0..Len(s), NEW j \in 0..Len(p)
  PROVE  Meanings(s, p)[<<i, j>>] \in BOOLEAN
  <1>1. Meanings(s, p)[<<i, j>>] = Step(s, p, Meanings(s, p), i, j)  BY MeaningStep
  <1> QED  BY <1>1 DEF Step

\* Behind the pattern there is nothing but the end of the text.
LEMMA PatternEnds ==
  ASSUME NEW s \in Seq(Characters), NEW p \in Seq(Characters), NEW i \in 0..Len(s)
  PROVE  Meanings(s, p)[<<i, Len(p)>>] <=> i = Len(s)
  <1>1. Len(p) \in 0..Len(p) /\ ~(Len(p) < Len(p))  OBVIOUS
  <1>2. Meanings(s, p)[<<i, Len(p)>>] = Step(s, p, Meanings(s, p), i, Len(p))
    BY <1>1, MeaningStep
  <1>3. Step(s, p, Meanings(s, p), i, Len(p)) <=> i = Len(s)  BY <1>1 DEF Step
  <1> QED  BY <1>2, <1>3

\* A `%` takes any number of characters.
LEMMA StarTakes ==
  ASSUME NEW s \in Seq(Characters), NEW p \in Seq(Characters),
         NEW j \in 0..(Len(p) - 1), p[j + 1] = AnyText, NEW i \in 0..Len(s)
  PROVE  Meanings(s, p)[<<i, j>>] <=> \E k \in i..Len(s) : Meanings(s, p)[<<k, j + 1>>]
  <1> DEFINE m == Meanings(s, p)
             Later(x) == \E k \in x..Len(s) : m[<<k, j + 1>>]
             S == {d \in Nat : \A x \in 0..Len(s) : x = Len(s) - d => (m[<<x, j>>] <=> Later(x))}
  <1>1. ASSUME NEW x \in 0..Len(s)
        PROVE  m[<<x, j>>] <=> m[<<x, j + 1>>] \/ (x < Len(s) /\ m[<<x + 1, j>>])
    <2>1. m[<<x, j>>] = Step(s, p, m, x, j)  BY MeaningStep
    <2> QED  BY <2>1 DEF Step
  <1>2. ASSUME NEW x \in 0..Len(s)
        PROVE  Later(x) <=> m[<<x, j + 1>>] \/ (x < Len(s) /\ Later(x + 1))
    <2>1. \A k \in x..Len(s) : k = x \/ (x < Len(s) /\ k \in (x + 1)..Len(s))  OBVIOUS
    <2>2. x \in x..Len(s) /\ \A k \in (x + 1)..Len(s) : k \in x..Len(s)  OBVIOUS
    <2> QED  BY <2>1, <2>2
  <1> HIDE DEF m, Later
  <1>3. 0 \in S
    <2> SUFFICES ASSUME NEW x \in 0..Len(s), x = Len(s) - 0 PROVE m[<<x, j>>] <=> Later(x)
      OBVIOUS
    <2>1. ~(x < Len(s))  OBVIOUS
    <2> QED  BY <1>1, <1>2, <2>1
  <1>4. ASSUME NEW d \in Nat, d \in S PROVE d + 1 \in S
    <2> SUFFICES ASSUME NEW x \in 0..Len(s), x = Len(s) - (d + 1)
                 PROVE  m[<<x, j>>] <=> Later(x)
      OBVIOUS
    <2>1. x + 1 \in 0..Len(s) /\ x + 1 = Len(s) - d  OBVIOUS
    <2>2. m[<<x + 1, j>>] <=> Later(x + 1)  BY <1>4, <2>1
    <2> QED  BY <1>1, <1>2, <2>2
  <1> HIDE DEF S
  <1>5. PICK d \in Nat : d = Len(s) - i /\ i = Len(s) - d  OBVIOUS
  <1>6. d \in S  BY <1>3, <1>4, Induction
  <1>7. m[<<i, j>>] <=> Later(i)  BY <1>5, <1>6 DEF S
  <1> QED  BY <1>7 DEF m, Later

\* Several `%` take no more and no less than one.
LEMMA StarsTake ==
  ASSUME NEW s \in Seq(Characters), NEW p \in Seq(Characters),
         NEW j \in 0..Len(p), NEW b \in (j + 1)..Len(p), \A k \in (j + 1)..b : p[k] = AnyText,
         NEW i \in 0..Len(s)
  PROVE  Meanings(s, p)[<<i, j>>] <=> \E k \in i..Len(s) : Meanings(s, p)[<<k, b>>]
  <1> DEFINE m == Meanings(s, p)
             Later(x) == \E k \in x..Len(s) : m[<<k, b>>]
             S == {d \in Nat : \A y \in j..(b - 1) : y = b - 1 - d =>
                                  \A x \in 0..Len(s) : m[<<x, y>>] <=> Later(x)}
  <1>1. ASSUME NEW y \in j..(b - 1), NEW x \in 0..Len(s)
        PROVE  m[<<x, y>>] <=> \E k \in x..Len(s) : m[<<k, y + 1>>]
    <2>1. y \in 0..(Len(p) - 1) /\ y + 1 \in (j + 1)..b  OBVIOUS
    <2>2. p[y + 1] = AnyText  BY <2>1
    <2> HIDE DEF m
    <2> QED  BY <2>1, <2>2, StarTakes DEF m
  <1>2. ASSUME NEW x \in 0..Len(s) PROVE Later(x) <=> \E k \in x..Len(s) : Later(k)
    <2>1. ASSUME NEW k \in x..Len(s), NEW l \in k..Len(s) PROVE l \in x..Len(s)
      OBVIOUS
    <2>2. \A k \in x..Len(s) : k \in k..Len(s)  OBVIOUS
    <2> QED  BY <2>1, <2>2
  <1> HIDE DEF m
  <1>3. 0 \in S
    <2> SUFFICES ASSUME NEW y \in j..(b - 1), y = b - 1 - 0, NEW x \in 0..Len(s)
                 PROVE  m[<<x, y>>] <=> Later(x)
      OBVIOUS
    <2>1. y + 1 = b  OBVIOUS
    <2> QED  BY <1>1, <2>1
  <1> HIDE DEF Later
  <1>4. ASSUME NEW d \in Nat, d \in S PROVE d + 1 \in S
    <2> SUFFICES ASSUME NEW y \in j..(b - 1), y = b - 1 - (d + 1), NEW x \in 0..Len(s)
                 PROVE  m[<<x, y>>] <=> Later(x)
      OBVIOUS
    <2>1. j \in Int /\ b \in Int /\ y \in Int  OBVIOUS
    <2>2. y + 1 \in j..(b - 1) /\ y + 1 = b - 1 - d  BY <2>1
    <2>3. ASSUME NEW k \in x..Len(s) PROVE m[<<k, y + 1>>] <=> Later(k)
      <3>1. k \in 0..Len(s)  OBVIOUS
      <3> QED  BY <1>4, <2>2, <3>1
    <2> QED  BY <1>1, <1>2, <2>3
  <1> HIDE DEF S
  <1>5. \A d \in Nat : d \in S  BY <1>3, <1>4, Induction
  <1>6. PICK d \in Nat : j \in j..(b - 1) /\ j = b - 1 - d  OBVIOUS
  <1>7. d \in S  BY <1>5
  <1>8. m[<<i, j>>] <=> Later(i)  BY <1>6, <1>7 DEF S
  <1> QED  BY <1>8 DEF m, Later

\* The end of a pattern that is all `%` takes any text; the empty end takes none.
LEMMA StarsAtTheEnd ==
  ASSUME NEW s \in Seq(Characters), NEW p \in Seq(Characters),
         NEW j \in 0..Len(p), \A k \in (j + 1)..Len(p) : p[k] = AnyText, NEW i \in 0..Len(s)
  PROVE  Meanings(s, p)[<<i, j>>] <=> j < Len(p) \/ i = Len(s)
  <1>1. CASE j = Len(p)  BY <1>1, PatternEnds
  <1>2. CASE j < Len(p)
    <2>1. Meanings(s, p)[<<i, j>>] <=> \E k \in i..Len(s) : Meanings(s, p)[<<k, Len(p)>>]
      <3>1. Len(p) \in (j + 1)..Len(p)  BY <1>2
      <3> QED  BY <3>1, StarsTake
    <2>2. Len(s) \in i..Len(s) /\ Meanings(s, p)[<<Len(s), Len(p)>>]  BY PatternEnds
    <2> QED  BY <1>2, <2>1, <2>2
  <1> QED  BY <1>1, <1>2

\* The meaning in front of a character that is not a `%`.
LEMMA PlainStep ==
  ASSUME NEW s \in Seq(Characters), NEW p \in Seq(Characters), NEW m,
         NEW i \in Nat, NEW j \in Nat, j < Len(p), p[j + 1] # AnyText
  PROVE  Step(s, p, m, i, j)
         <=> i < Len(s) /\ p[j + 1] \in {AnyChar, s[i + 1]} /\ m[<<i + 1, j + 1>>]
  <1>1. j # Len(p)  OBVIOUS
  <1>2. p[j + 1] \in {AnyChar, s[i + 1]} \ {AnyText} <=> p[j + 1] \in {AnyChar, s[i + 1]}  OBVIOUS
  <1> QED  BY <1>1, <1>2, Zenon DEF Step

\* Characters other than `%` take as many characters of the text.
LEMMA RunTakes ==
  ASSUME NEW s \in Seq(Characters), NEW p \in Seq(Characters),
         NEW j \in 0..Len(p), NEW l \in 0..(Len(p) - j),
         \A k \in (j + 1)..(j + l) : p[k] # AnyText, NEW i \in 0..Len(s)
  PROVE  Meanings(s, p)[<<i, j>>]
         <=> /\ i + l <= Len(s)
             /\ \A k \in 1..l : p[j + k] \in {AnyChar, s[i + k]}
             /\ Meanings(s, p)[<<i + l, j + l>>]
  <1> DEFINE m == Meanings(s, p)
             Fits(n) == i + n <= Len(s) /\ \A k \in 1..n : p[j + k] \in {AnyChar, s[i + k]}
             S == {n \in Nat : n <= l => (m[<<i, j>>] <=> Fits(n) /\ m[<<i + n, j + n>>])}
  <1>1. ASSUME NEW n \in 0..(l - 1)
        PROVE  /\ Fits(n + 1) <=> /\ Fits(n) /\ i + n < Len(s)
                                  /\ p[j + n + 1] \in {AnyChar, s[i + n + 1]}
               /\ Fits(n) => (m[<<i + n, j + n>>]
                              <=> /\ i + n < Len(s) /\ p[j + n + 1] \in {AnyChar, s[i + n + 1]}
                                  /\ m[<<i + n + 1, j + n + 1>>])
    <2>1. ASSUME Fits(n)
          PROVE  m[<<i + n, j + n>>]
                 <=> /\ i + n < Len(s) /\ p[j + n + 1] \in {AnyChar, s[i + n + 1]}
                     /\ m[<<i + n + 1, j + n + 1>>]
      <3>1. i + n \in 0..Len(s) /\ j + n \in 0..Len(p)
        <4>1. i + n <= Len(s)  BY <2>1
        <4> QED  BY <4>1
      <3>2. m[<<i + n, j + n>>] = Step(s, p, m, i + n, j + n)  BY <3>1, MeaningStep
      <3>3. j + n < Len(p) /\ j + n + 1 \in (j + 1)..(j + l)  OBVIOUS
      <3>4. p[j + n + 1] # AnyText  BY <3>3
      <3>5. Step(s, p, m, i + n, j + n)
            <=> /\ i + n < Len(s) /\ p[j + n + 1] \in {AnyChar, s[i + n + 1]}
                /\ m[<<i + n + 1, j + n + 1>>]
        <4>1. i + n \in Nat /\ j + n \in Nat  OBVIOUS
        <4> HIDE DEF m
        <4> QED  BY <3>3, <3>4, <4>1, PlainStep
      <3> QED  BY <3>2, <3>5
    <2>2. Fits(n + 1) <=> /\ Fits(n) /\ i + n < Len(s)
                          /\ p[j + n + 1] \in {AnyChar, s[i + n + 1]}
      <3>1. \A k \in 1..(n + 1) : k \in 1..n \/ k = n + 1  OBVIOUS
      <3>2. n + 1 \in 1..(n + 1) /\ \A k \in 1..n : k \in 1..(n + 1)  OBVIOUS
      <3>3. i + (n + 1) <= Len(s) <=> i + n < Len(s)  OBVIOUS
      <3>4. i + (n + 1) = i + n + 1 /\ j + (n + 1) = j + n + 1  OBVIOUS
      <3>5. i + n < Len(s) => i + n <= Len(s)  OBVIOUS
      <3>6. (\A k \in 1..(n + 1) : p[j + k] \in {AnyChar, s[i + k]})
            <=> /\ \A k \in 1..n : p[j + k] \in {AnyChar, s[i + k]}
                /\ p[j + n + 1] \in {AnyChar, s[i + n + 1]}
        BY <3>1, <3>2, <3>4
      <3> QED  BY <3>3, <3>5, <3>6
    <2> QED  BY <2>1, <2>2
  <1>2. 0 \in S
    <2>1. i + 0 = i /\ j + 0 = j /\ Fits(0)  OBVIOUS
    <2> HIDE DEF m, Fits
    <2> QED  BY <2>1
  <1>3. ASSUME NEW n \in Nat, n \in S PROVE n + 1 \in S
    <2> HIDE DEF m, Fits
    <2> SUFFICES ASSUME n + 1 <= l
                 PROVE  m[<<i, j>>] <=> Fits(n + 1) /\ m[<<i + (n + 1), j + (n + 1)>>]
      OBVIOUS
    <2>1. m[<<i, j>>] <=> Fits(n) /\ m[<<i + n, j + n>>]  BY <1>3
    <2>2. n \in 0..(l - 1) /\ i + (n + 1) = i + n + 1 /\ j + (n + 1) = j + n + 1  OBVIOUS
    <2>3. /\ Fits(n + 1) <=> /\ Fits(n) /\ i + n < Len(s)
                              /\ p[j + n + 1] \in {AnyChar, s[i + n + 1]}
          /\ Fits(n) => (m[<<i + n, j + n>>]
                         <=> /\ i + n < Len(s) /\ p[j + n + 1] \in {AnyChar, s[i + n + 1]}
                             /\ m[<<i + n + 1, j + n + 1>>])
      BY <1>1, <2>2
    <2>4. m[<<i, j>>] <=> Fits(n + 1) /\ m[<<i + n + 1, j + n + 1>>]  BY <2>1, <2>3, Zenon
    <2> QED  BY <2>2, <2>4
  <1> HIDE DEF S
  <1>4. l \in S
    <2>1. \A n \in Nat : n \in S  BY <1>2, <1>3, Induction
    <2>2. l \in Nat  OBVIOUS
    <2> QED  BY <2>1, <2>2
  <1>5. m[<<i, j>>] <=> Fits(l) /\ m[<<i + l, j + l>>]
    <2> HIDE DEF m, Fits
    <2> QED  BY <1>4 DEF S
  <1> QED  BY <1>5 DEF m, Fits

-----------------------------------------------------------------------------
(* The pieces of a pattern.                                                 *)

\* Where the piece that begins behind i characters ends, and the pieces by those
\* behind.
EndOf(p, i) == Min({k \in (i + 1)..Len(p) : k = Len(p) \/ p[k + 1] = AnyText})
Cut(p, cut, i) ==
    IF i = Len(p) THEN <<>>
    ELSE IF p[i + 1] = AnyText THEN cut[i + 1]
    ELSE Cons(SubSeq(p, i + 1, EndOf(p, i)), cut[EndOf(p, i)])

LEMMA PieceEnds ==
  ASSUME NEW p \in Seq(Characters), NEW i \in 0..(Len(p) - 1)
  PROVE  /\ EndOf(p, i) \in (i + 1)..Len(p)
         /\ EndOf(p, i) = Len(p) \/ p[EndOf(p, i) + 1] = AnyText
         /\ \A k \in (i + 2)..EndOf(p, i) : p[k] # AnyText
  <1> DEFINE S == {k \in (i + 1)..Len(p) : k = Len(p) \/ p[k + 1] = AnyText}
  <1>1. S \in SUBSET Nat /\ Len(p) \in S  OBVIOUS
  <1>2. Min(S) \in S /\ \A k \in S : Min(S) <= k
    <2> HIDE DEF S
    <2> QED  BY <1>1, MinOf
  <1>3. EndOf(p, i) = Min(S)  BY DEF EndOf
  <1>4. EndOf(p, i) \in S /\ \A k \in S : EndOf(p, i) <= k  BY <1>2, <1>3
  <1>5. ASSUME NEW k \in (i + 2)..EndOf(p, i), p[k] = AnyText PROVE FALSE
    <2>1. k - 1 \in (i + 1)..Len(p) /\ (k - 1) + 1 = k /\ k - 1 < EndOf(p, i)  BY <1>4
    <2>2. k - 1 \in S  BY <1>5, <2>1
    <2> QED  BY <1>4, <2>1, <2>2
  <1> QED  BY <1>4, <1>5

\* A piece in front of pieces.
LEMMA PieceInFront ==
  ASSUME NEW p \in Seq(Characters), NEW i \in 0..Len(p), NEW e \in i..Len(p),
         NEW cut \in Seq(Seq(Characters))
  PROVE  /\ SubSeq(p, i + 1, e) \in Seq(Characters)
         /\ Cons(SubSeq(p, i + 1, e), cut) \in Seq(Seq(Characters))
         /\ Cons(SubSeq(p, i + 1, e), cut) # <<>>
         /\ Head(Cons(SubSeq(p, i + 1, e), cut)) = SubSeq(p, i + 1, e)
         /\ Tail(Cons(SubSeq(p, i + 1, e), cut)) = cut
  <1> DEFINE part == SubSeq(p, i + 1, e)
  <1>1. part \in Seq(Characters)  OBVIOUS
  <1> HIDE DEF part
  <1>2. /\ <<part>> \o cut \in Seq(Seq(Characters)) /\ Len(<<part>> \o cut) = Len(cut) + 1
        /\ (<<part>> \o cut)[1] = part
        /\ \A k \in 1..Len(cut) : (<<part>> \o cut)[k + 1] = cut[k]
    BY <1>1
  <1>3. Tail(<<part>> \o cut) = cut  BY <1>2, SameString
  <1> QED  BY <1>1, <1>2, <1>3 DEF part, Cons

LEMMA PiecesExist ==
  ASSUME NEW p \in Seq(Characters)
  PROVE  \E cut : cut = [i \in 0..Len(p) |-> Cut(p, cut, i)]
  <1> DEFINE Filled(cut, k) == \A i \in 0..Len(p) : Len(p) - i <= k => cut[i] = Cut(p, cut, i)
             S == {k \in Nat : \E cut : cut = [i \in 0..Len(p) |-> cut[i]] /\ Filled(cut, k)}
  <1>1. ASSUME NEW cut, NEW c, NEW i \in 0..Len(p), \A j \in (i + 1)..Len(p) : c[j] = cut[j]
        PROVE  Cut(p, c, i) = Cut(p, cut, i)
    <2>1. CASE i = Len(p)  BY <2>1 DEF Cut
    <2>2. CASE i # Len(p)
      <3>1. EndOf(p, i) \in (i + 1)..Len(p) /\ i + 1 \in (i + 1)..Len(p)  BY <2>2, PieceEnds
      <3>2. c[EndOf(p, i)] = cut[EndOf(p, i)] /\ c[i + 1] = cut[i + 1]  BY <1>1, <3>1
      <3> QED  BY <3>2 DEF Cut
    <2> QED  BY <2>1, <2>2
  <1>2. 0 \in S
    <2> DEFINE cut == [i \in 0..Len(p) |-> <<>>]
    <2>1. cut = [i \in 0..Len(p) |-> cut[i]]  OBVIOUS
    <2>2. Filled(cut, 0)  BY DEF Cut
    <2> QED  BY <2>1, <2>2
  <1>3. ASSUME NEW k \in Nat, k \in S PROVE k + 1 \in S
    <2>1. PICK cut : Filled(cut, k)  BY <1>3
    <2> DEFINE c == [i \in 0..Len(p) |-> IF Len(p) - i <= k THEN cut[i] ELSE Cut(p, cut, i)]
    <2>2. c = [i \in 0..Len(p) |-> c[i]]  OBVIOUS
    <2>3. \A i \in 0..Len(p) : Len(p) - i <= k => c[i] = cut[i]  OBVIOUS
    <2>4. \A i \in 0..Len(p) : c[i] = Cut(p, cut, i) \/ Len(p) - i <= k  OBVIOUS
    <2> HIDE DEF c
    <2>5. ASSUME NEW i \in 0..Len(p), Len(p) - i <= k + 1 PROVE c[i] = Cut(p, c, i)
      <3>1. \A j \in (i + 1)..Len(p) : c[j] = cut[j]  BY <2>3, <2>5
      <3>2. Cut(p, c, i) = Cut(p, cut, i)  BY <1>1, <3>1
      <3>3. c[i] = Cut(p, cut, i)  BY <2>1, <2>3, <2>4
      <3> QED  BY <3>2, <3>3
    <2> QED  BY <2>2, <2>5
  <1> HIDE DEF S
  <1>4. Len(p) \in S  BY <1>2, <1>3, Induction
  <1>5. PICK cut : cut = [i \in 0..Len(p) |-> cut[i]] /\ Filled(cut, Len(p))  BY <1>4 DEF S
  <1>6. \A i \in 0..Len(p) : Len(p) - i <= Len(p)  OBVIOUS
  <1>7. cut = [i \in 0..Len(p) |-> Cut(p, cut, i)]  BY <1>5, <1>6
  <1> QED  BY <1>7

\* The pieces behind a place by those behind it.
LEMMA PiecesStep ==
  ASSUME NEW p \in Seq(Characters), NEW i \in 0..Len(p)
  PROVE  Pieces(p)[i] = Cut(p, Pieces(p), i)
  <1>1. Pieces(p) = [j \in 0..Len(p) |-> Cut(p, Pieces(p), j)]
    BY PiecesExist DEF Pieces, Cut, EndOf
  <1> QED  BY <1>1

LEMMA PiecesTyped ==
  ASSUME NEW p \in Seq(Characters), NEW i \in 0..Len(p)
  PROVE  Pieces(p)[i] \in Seq(Seq(Characters))
  <1> DEFINE S == {d \in Nat : \A j \in 0..Len(p) :
                                  Len(p) - j <= d => Pieces(p)[j] \in Seq(Seq(Characters))}
  <1>1. ASSUME NEW j \in 0..Len(p),
               \A k \in (j + 1)..Len(p) : Pieces(p)[k] \in Seq(Seq(Characters))
        PROVE  Pieces(p)[j] \in Seq(Seq(Characters))
    <2>1. Pieces(p)[j] = Cut(p, Pieces(p), j)  BY PiecesStep
    <2>2. CASE j = Len(p)  BY <2>1, <2>2 DEF Cut
    <2>3. CASE j # Len(p)
      <3>1. EndOf(p, j) \in (j + 1)..Len(p) /\ j + 1 \in (j + 1)..Len(p)  BY <2>3, PieceEnds
      <3>2. /\ Pieces(p)[EndOf(p, j)] \in Seq(Seq(Characters))
            /\ Pieces(p)[j + 1] \in Seq(Seq(Characters))
        BY <1>1, <3>1
      <3>3. EndOf(p, j) \in j..Len(p)  BY <3>1
      <3>4. Cons(SubSeq(p, j + 1, EndOf(p, j)), Pieces(p)[EndOf(p, j)]) \in Seq(Seq(Characters))
        BY <3>2, <3>3, PieceInFront
      <3> QED  BY <2>1, <2>3, <3>2, <3>4 DEF Cut
    <2> QED  BY <2>2, <2>3
  <1>2. 0 \in S
    <2>1. ASSUME NEW j \in 0..Len(p), Len(p) - j <= 0 PROVE Pieces(p)[j] \in Seq(Seq(Characters))
      <3>1. (j + 1)..Len(p) = {}  BY <2>1
      <3> QED  BY <1>1, <3>1
    <2> QED  BY <2>1
  <1>3. ASSUME NEW d \in Nat, d \in S PROVE d + 1 \in S
    <2> SUFFICES ASSUME NEW j \in 0..Len(p), Len(p) - j <= d + 1
                 PROVE  Pieces(p)[j] \in Seq(Seq(Characters))
      OBVIOUS
    <2>1. \A k \in (j + 1)..Len(p) : Len(p) - k <= d /\ k \in 0..Len(p)  OBVIOUS
    <2> QED  BY <1>1, <1>3, <2>1
  <1> HIDE DEF S
  <1>4. Len(p) - i \in S  BY <1>2, <1>3, Induction
  <1> QED  BY <1>4 DEF S

\* The first of pieces is l characters of p, behind b - e `%`, and more pieces follow it.
Leads(p, pieces, e, b, l) ==
    /\ \A k \in (e + 1)..b : p[k] = AnyText
    /\ \A k \in (b + 1)..(b + l) : p[k] # AnyText
    /\ b + l = Len(p) \/ p[b + l + 1] = AnyText
    /\ pieces # <<>> /\ Head(pieces) = SubSeq(p, b + 1, b + l)
    /\ Tail(pieces) = Pieces(p)[b + l]

\* Behind every place there are `%` alone, or some and then the next piece.
LEMMA NextPiece ==
  ASSUME NEW p \in Seq(Characters), NEW e \in 0..Len(p)
  PROVE  \/ Pieces(p)[e] = <<>> /\ \A k \in (e + 1)..Len(p) : p[k] = AnyText
         \/ \E b \in e..Len(p) : \E l \in 1..(Len(p) - b) : Leads(p, Pieces(p)[e], e, b, l)
  <1> DEFINE Ends(i) == Pieces(p)[i] = <<>> /\ \A k \in (i + 1)..Len(p) : p[k] = AnyText
             Goes(i) == \E b \in i..Len(p) : \E l \in 1..(Len(p) - b) :
                           Leads(p, Pieces(p)[i], i, b, l)
             S == {d \in Nat : \A i \in 0..Len(p) : i = Len(p) - d => Ends(i) \/ Goes(i)}
  <1>1. 0 \in S
    <2> SUFFICES ASSUME NEW i \in 0..Len(p), i = Len(p) - 0 PROVE Ends(i)  OBVIOUS
    <2>1. Pieces(p)[i] = <<>>  BY PiecesStep DEF Cut
    <2> QED  BY <2>1
  <1>2. ASSUME NEW d \in Nat, d \in S PROVE d + 1 \in S
    <2> SUFFICES ASSUME NEW i \in 0..Len(p), i = Len(p) - (d + 1) PROVE Ends(i) \/ Goes(i)
      OBVIOUS
    <2>1. i + 1 \in 0..Len(p) /\ i + 1 = Len(p) - d /\ i # Len(p)  OBVIOUS
    <2>2. Pieces(p)[i] = Cut(p, Pieces(p), i)  BY PiecesStep
    <2>3. CASE p[i + 1] = AnyText
      <3>1. Pieces(p)[i] = Pieces(p)[i + 1]  BY <2>1, <2>2, <2>3 DEF Cut
      <3>2. \A k \in (i + 1)..Len(p) : k = i + 1 \/ k \in (i + 1 + 1)..Len(p)  OBVIOUS
      <3>3. CASE Ends(i + 1)  BY <2>3, <3>1, <3>2, <3>3
      <3>4. CASE Goes(i + 1)
        <4>1. PICK b \in (i + 1)..Len(p) : \E l \in 1..(Len(p) - b) :
                      Leads(p, Pieces(p)[i + 1], i + 1, b, l)
          BY <3>4
        <4>2. PICK l \in 1..(Len(p) - b) : Leads(p, Pieces(p)[i + 1], i + 1, b, l)  BY <4>1
        <4>3. \A k \in (i + 1)..b : k = i + 1 \/ k \in (i + 1 + 1)..b  OBVIOUS
        <4>4. Leads(p, Pieces(p)[i], i, b, l)  BY <2>3, <3>1, <4>2, <4>3 DEF Leads
        <4>5. b \in i..Len(p)  OBVIOUS
        <4> QED  BY <4>4, <4>5
      <3> QED  BY <1>2, <2>1, <3>3, <3>4
    <2>4. CASE p[i + 1] # AnyText
      <3>1. i \in 0..(Len(p) - 1)  BY <2>1
      <3>2. PICK x \in (i + 1)..Len(p) : x = EndOf(p, i)  BY <3>1, PieceEnds
      <3>3. (x = Len(p) \/ p[x + 1] = AnyText) /\ \A k \in (i + 2)..x : p[k] # AnyText
        BY <3>1, <3>2, PieceEnds
      <3>4. PICK l \in 1..(Len(p) - i) : i + l = x
        <4>1. x - i \in 1..(Len(p) - i) /\ i + (x - i) = x  OBVIOUS
        <4> QED  BY <4>1
      <3>5. Pieces(p)[i] = Cons(SubSeq(p, i + 1, x), Pieces(p)[x])
        BY <2>1, <2>2, <2>4, <3>2 DEF Cut
      <3>6. x \in 0..Len(p) /\ x \in i..Len(p)  OBVIOUS
      <3>7. PICK cut \in Seq(Seq(Characters)) : cut = Pieces(p)[x]  BY <3>6, PiecesTyped
      <3>8. /\ Pieces(p)[i] # <<>> /\ Head(Pieces(p)[i]) = SubSeq(p, i + 1, x)
            /\ Tail(Pieces(p)[i]) = Pieces(p)[x]
        <4>1. Pieces(p)[i] = Cons(SubSeq(p, i + 1, x), cut)  BY <3>5, <3>7
        <4>2. /\ Cons(SubSeq(p, i + 1, x), cut) # <<>>
              /\ Head(Cons(SubSeq(p, i + 1, x), cut)) = SubSeq(p, i + 1, x)
              /\ Tail(Cons(SubSeq(p, i + 1, x), cut)) = cut
          BY <3>6, PieceInFront, ZenonT(40)
        <4> QED  BY <3>7, <4>1, <4>2
      <3>9. \A k \in (i + 1)..x : p[k] # AnyText
        <4>1. \A k \in (i + 1)..x : k = i + 1 \/ k \in (i + 2)..x  OBVIOUS
        <4> QED  BY <2>4, <3>3, <4>1
      <3>10. \A k \in (i + 1)..i : p[k] = AnyText  OBVIOUS
      <3>11. Leads(p, Pieces(p)[i], i, i, l)  BY <3>3, <3>4, <3>8, <3>9, <3>10 DEF Leads
      <3>12. i \in i..Len(p)  OBVIOUS
      <3> QED  BY <3>11, <3>12
    <2> QED  BY <2>3, <2>4
  <1> HIDE DEF S
  <1>3. Len(p) - e \in S  BY <1>1, <1>2, Induction
  <1>4. e = Len(p) - (Len(p) - e)  OBVIOUS
  <1> QED  BY <1>3, <1>4 DEF S

-----------------------------------------------------------------------------
(* Types.                                                                   *)

TypeInv == TypeOK /\ AtTheStart

LEMMA TypeInit == Init => TypeInv
  <1> SUFFICES ASSUME Init PROVE TypeInv  OBVIOUS
  <1>1. text \in Seq(Letters \cup {AnyText})  BY DEF Init, StringsUpTo
  <1>2. pattern \in Seq(Letters \cup {AnyText, AnyChar})  BY DEF Init, StringsUpTo
  <1>3. /\ parts = <<>> /\ at = 0 /\ rest = text /\ pc = "compile" /\ answer = FALSE
        /\ si = 0 /\ pi = 0 /\ starPi = -1 /\ starSi = 0
    BY DEF Init, NoStar
  <1>4. /\ Len(text) \in Nat /\ Len(pattern) \in Nat /\ Len(parts) = 0
        /\ parts \in Seq(Seq(Letters \cup {AnyText, AnyChar}))
    BY <1>1, <1>2, <1>3
  <1>5. si \in 0..Len(text) /\ pi \in 0..Len(pattern) /\ at \in 0..Len(parts)  BY <1>3, <1>4
  <1>6. starPi \in NoStar..(pi - 1) /\ starSi \in 0..si /\ starPi = NoStar
    BY <1>3 DEF NoStar
  <1>7. TypeOK  BY <1>1, <1>2, <1>3, <1>4, <1>5, <1>6 DEF TypeOK
  <1> QED  BY <1>3, <1>6, <1>7 DEF TypeInv, AtTheStart

\* The part that is looked for, and where it is found.
LEMMA PartFound ==
  ASSUME TypeOK, at < Len(parts)
  PROVE  /\ Part \in Seq(Characters) /\ rest \in Seq(Characters)
         /\ Occurrences(rest, Part) \in SUBSET Nat
         /\ \A k \in Occurrences(rest, Part) : k + Len(Part) <= Len(rest)
         /\ Occurrences(rest, Part) # {} =>
               /\ Min(Occurrences(rest, Part)) \in Occurrences(rest, Part)
               /\ \A k \in Occurrences(rest, Part) : Min(Occurrences(rest, Part)) <= k
  <1>1. Part \in Seq(Characters)
    <2>1. parts \in Seq(Seq(Characters)) /\ at + 1 \in 1..Len(parts)  BY DEF TypeOK, Characters
    <2> QED  BY <2>1 DEF Part
  <1>2. rest \in Seq(Characters)
    <2>1. Len(rest) \in Nat /\ rest \in [1..Len(rest) -> Letters \cup {AnyText}]  BY DEF TypeOK
    <2> QED  BY <2>1 DEF Characters
  <1>3. /\ Occurrences(rest, Part) \in SUBSET Nat
        /\ \A k \in Occurrences(rest, Part) : k + Len(Part) <= Len(rest)
    <2>1. Len(Part) \in Nat /\ Len(rest) \in Nat  BY <1>1, <1>2
    <2>2. Occurrences(rest, Part) \subseteq 0..(Len(rest) - Len(Part))  BY DEF Occurrences
    <2> QED  BY <2>1, <2>2
  <1>4. Occurrences(rest, Part) # {} =>
          /\ Min(Occurrences(rest, Part)) \in Occurrences(rest, Part)
          /\ \A k \in Occurrences(rest, Part) : Min(Occurrences(rest, Part)) <= k
    BY <1>3, MinOf
  <1> QED  BY <1>1, <1>2, <1>3, <1>4

LEMMA ConsumeTyped ==
  ASSUME TypeOK, at < Len(parts), NEW k \in Occurrences(rest, Part), Consume(k)
  PROVE  TypeOK'
  <1>1. /\ Part \in Seq(Characters) /\ rest \in Seq(Letters \cup {AnyText})
        /\ k \in Nat /\ k + Len(Part) <= Len(rest)
    BY PartFound DEF TypeOK
  <1>2. k + Len(Part) \in 0..Len(rest)  BY <1>1
  <1>3. Behind(rest, k + Len(Part)) \in Seq(Letters \cup {AnyText})  BY <1>1, <1>2, BehindOf
  <1>4. at + 1 \in 0..Len(parts)  BY DEF TypeOK
  <1> QED  BY <1>3, <1>4 DEF Consume, TypeOK, input, chars

LEMMA ReturnTyped ==
  ASSUME TypeOK, NEW a \in BOOLEAN, Return(a)
  PROVE  TypeOK'
  BY DEF Return, TypeOK, input, chunks, chars

LEMMA TypeNext ==
  ASSUME TypeInv, [Next]_vars
  PROVE  TypeInv'
  <1> USE DEF TypeInv
  <1>13. AtTheStart'
    <2>1. ASSUME Next PROVE pc' # "compile"
      <3>1. CASE Compile \/ Done  BY <3>1 DEF Compile, Done, vars
      <3>2. CASE NoParts \/ PrefixPart \/ SuffixPart \/ InnerPart \/ AllParts
        BY <3>2 DEF NoParts, PrefixPart, SuffixPart, InnerPart, AllParts, Consume, Return
      <3>3. CASE TakeChar \/ PassStar \/ GoBack \/ GiveUp \/ EndOfText
        BY <3>3 DEF TakeChar, PassStar, GoBack, GiveUp, EndOfText, InLoop, Return
      <3> QED  BY <2>1, <3>1, <3>2, <3>3 DEF Next
    <2>2. CASE UNCHANGED vars  BY <2>2 DEF vars, AtTheStart, input, chunks, chars
    <2> QED  BY <2>1, <2>2 DEF AtTheStart
  <1> SUFFICES TypeOK'  BY <1>13
  <1>1. CASE Compile
    <2>1. Parts(pattern) \in Seq(Seq(Characters))
      <3>1. pattern \in Seq(Characters) /\ 0 \in 0..Len(pattern)  BY DEF TypeOK, Characters
      <3> QED  BY <3>1, PiecesTyped DEF Parts
    <2>2. pc' \in {"chunks", "chars"} /\ (parts' = parts \/ parts' = Parts(pattern))
      BY <1>1 DEF Compile
    <2>3. parts' \in Seq(Seq(Letters \cup {AnyText, AnyChar})) /\ at \in 0..Len(parts')
      <3>1. parts' \in Seq(Seq(Characters))  BY <2>1, <2>2 DEF TypeOK, Characters
      <3>2. Len(parts') \in Nat /\ at = 0  BY <1>1, <3>1 DEF Compile, AtTheStart
      <3> QED  BY <3>1, <3>2 DEF Characters
    <2> QED  BY <1>1, <2>2, <2>3 DEF Compile, TypeOK, input, chars
  <1>2. CASE NoParts
    <2>1. Return(~(AnchoredStart /\ AnchoredEnd) \/ text = <<>>)  BY <1>2 DEF NoParts
    <2> QED  BY <2>1, ReturnTyped
  <1>3. CASE PrefixPart
    <2>1. CASE 0 \in Occurrences(rest, Part)  BY <1>3, <2>1, ConsumeTyped DEF PrefixPart
    <2>2. CASE 0 \notin Occurrences(rest, Part)
      BY <1>3, <2>2, ReturnTyped DEF PrefixPart
    <2> QED  BY <2>1, <2>2
  <1>4. CASE SuffixPart
    <2>1. Return(Len(rest) - Len(Part) \in Occurrences(rest, Part))  BY <1>4 DEF SuffixPart
    <2>2. (Len(rest) - Len(Part) \in Occurrences(rest, Part)) \in BOOLEAN  OBVIOUS
    <2> QED  BY <2>1, <2>2, ReturnTyped
  <1>5. CASE InnerPart
    <2>1. CASE Occurrences(rest, Part) # {}
      BY <1>5, <2>1, ConsumeTyped, PartFound DEF InnerPart
    <2>2. CASE Occurrences(rest, Part) = {}  BY <1>5, <2>2, ReturnTyped DEF InnerPart
    <2> QED  BY <2>1, <2>2
  <1>6. CASE AllParts
    <2>1. Return(~AnchoredEnd \/ rest = <<>>)  BY <1>6 DEF AllParts
    <2>2. (~AnchoredEnd \/ rest = <<>>) \in BOOLEAN  OBVIOUS
    <2> QED  BY <2>1, <2>2, ReturnTyped
  <1>7. CASE TakeChar
    BY <1>7 DEF TakeChar, InLoop, Takes, TypeOK, NoStar, input, chunks
  <1>8. CASE PassStar
    BY <1>8 DEF PassStar, InLoop, AtStar, TypeOK, NoStar, input, chunks
  <1>9. CASE GoBack
    BY <1>9 DEF GoBack, InLoop, TypeOK, NoStar, input, chunks
  <1>10. CASE GiveUp  BY <1>10, ReturnTyped DEF GiveUp
  <1>11. CASE EndOfText
    <2>1. Return(\A k \in (pi + 1)..Len(pattern) : pattern[k] = AnyText)  BY <1>11 DEF EndOfText
    <2> QED  BY <2>1, ReturnTyped
  <1>12. CASE UNCHANGED vars
    BY <1>12 DEF vars, TypeOK, input, chunks, chars
  <1> QED
    BY <1>1, <1>2, <1>3, <1>4, <1>5, <1>6, <1>7, <1>8, <1>9, <1>10, <1>11, <1>12
    DEF Next, Done

LEMMA TypeInvariant == Spec => []TypeInv
  <1> QED  BY TypeInit, TypeNext, PTL DEF Spec

\* Every variable keeps its type and neither matcher leaves its strings.
THEOREM LikeTypes == Spec => []TypeOK
  <1>1. TypeInv => TypeOK  BY DEF TypeInv
  <1> QED  BY <1>1, TypeInvariant, PTL

\* Every turn of either loop comes closer to the end (like.rs: matches, match_chars).
THEOREM EveryTurnAdvances == Spec => LoopsAdvance
  <1> DEFINE Advances == \/ at' > at
                         \/ starPi' > starPi
                         \/ starPi' = starPi /\ starSi' > starSi
                         \/ starPi' = starPi /\ starSi' = starSi /\ pi' > pi
  <1>1. ASSUME TypeInv, Next, pc' = pc, pc \in {"chunks", "chars"} PROVE Advances
    <2>1. /\ at \in Int /\ pi \in Int /\ starPi \in Int /\ starSi \in Int
          /\ starPi < pi
      BY <1>1 DEF TypeInv, TypeOK, NoStar
    <2>2. ASSUME NEW a, Return(a) PROVE FALSE  BY <1>1, <2>2 DEF Return
    <2>3. ASSUME NEW k, Consume(k) PROVE Advances  BY <2>1, <2>3 DEF Consume
    <2>4. CASE Compile \/ Done  BY <1>1, <2>4 DEF Compile, Done
    <2>5. CASE NoParts \/ PrefixPart \/ SuffixPart \/ InnerPart \/ AllParts
      BY <2>2, <2>3, <2>5 DEF NoParts, PrefixPart, SuffixPart, InnerPart, AllParts
    <2>6. CASE TakeChar  BY <2>1, <2>6 DEF TakeChar
    <2>7. CASE PassStar  BY <2>1, <2>7 DEF PassStar
    <2>8. CASE GoBack  BY <2>1, <2>8 DEF GoBack
    <2>9. CASE GiveUp \/ EndOfText  BY <2>2, <2>9 DEF GiveUp, EndOfText
    <2> QED  BY <1>1, <2>4, <2>5, <2>6, <2>7, <2>8, <2>9 DEF Next
  <1>2. TypeInv /\ [Next]_vars => [pc' = pc /\ pc \in {"chunks", "chars"} => Advances]_vars
    BY <1>1
  <1> QED  BY <1>2, TypeInvariant, PTL DEF Spec, LoopsAdvance

-----------------------------------------------------------------------------
(* match_chars.                                                             *)

\* The meaning in front of a `%`.
LEMMA MeansAtStar ==
  ASSUME NEW s \in Seq(Characters), NEW p \in Seq(Characters),
         NEW i \in 0..Len(s), NEW j \in 0..(Len(p) - 1), p[j + 1] = AnyText
  PROVE  Meanings(s, p)[<<i, j>>]
         <=> Meanings(s, p)[<<i, j + 1>>] \/ (i < Len(s) /\ Meanings(s, p)[<<i + 1, j>>])
  <1>1. j \in 0..Len(p)  OBVIOUS
  <1>2. Meanings(s, p)[<<i, j>>] = Step(s, p, Meanings(s, p), i, j)  BY <1>1, MeaningStep
  <1> QED  BY <1>2 DEF Step

\* The meaning in front of any other character.
LEMMA MeansAtPlain ==
  ASSUME NEW s \in Seq(Characters), NEW p \in Seq(Characters),
         NEW i \in 0..Len(s), NEW j \in 0..(Len(p) - 1), p[j + 1] # AnyText
  PROVE  Meanings(s, p)[<<i, j>>]
         <=> i < Len(s) /\ p[j + 1] \in {AnyChar, s[i + 1]} /\ Meanings(s, p)[<<i + 1, j + 1>>]
  <1>1. i \in Nat /\ j \in Nat /\ j < Len(p) /\ j \in 0..Len(p)  OBVIOUS
  <1>2. Meanings(s, p)[<<i, j>>] = Step(s, p, Meanings(s, p), i, j)  BY <1>1, MeaningStep
  <1>3. Step(s, p, Meanings(s, p), i, j)
        <=> i < Len(s) /\ p[j + 1] \in {AnyChar, s[i + 1]} /\ Meanings(s, p)[<<i + 1, j + 1>>]
    BY <1>1, PlainStep
  <1> QED  BY <1>2, <1>3

LEMMA Strings ==
  ASSUME TypeOK
  PROVE  text \in Seq(Characters) /\ pattern \in Seq(Characters)
  <1>1. text \in Seq(Letters \cup {AnyText})  BY DEF TypeOK
  <1>2. Len(text) \in Nat /\ text \in [1..Len(text) -> Letters \cup {AnyText}]  BY <1>1
  <1>3. text \in Seq(Characters)  BY <1>2 DEF Characters
  <1> QED  BY <1>3 DEF TypeOK, Characters

\* The cursors of match_chars in the middle of its loop.
LEMMA Cursors ==
  ASSUME TypeOK, InLoop
  PROVE  /\ text \in Seq(Characters) /\ pattern \in Seq(Characters)
         /\ si \in 0..(Len(text) - 1) /\ si \in 0..Len(text) /\ si + 1 \in 0..Len(text)
         /\ pi \in 0..Len(pattern) /\ (pi < Len(pattern) => pi \in 0..(Len(pattern) - 1))
         /\ starPi # NoStar => /\ starPi \in 0..(Len(pattern) - 1) /\ starPi < pi
                               /\ starSi \in 0..(Len(text) - 1) /\ starSi <= si
                               /\ pattern[starPi + 1] = AnyText
  BY Strings DEF TypeOK, InLoop, NoStar

LEMMA InventedNext ==
  ASSUME TypeInv, NothingInvented, [Next]_vars
  PROVE  NothingInvented'
  <1> DEFINE m == Meanings(text, pattern)
  <1> USE DEF TypeInv
  <1>1. CASE Compile
    <2>1. si' = si /\ pi' = pi /\ starPi' = starPi /\ text' = text /\ pattern' = pattern
      BY <1>1 DEF Compile, chars, input
    <2>2. si = 0 /\ pi = 0 /\ starPi = NoStar  BY <1>1 DEF Compile, AtTheStart
    <2> QED  BY <2>1, <2>2 DEF NothingInvented, Means
  <1>2. CASE TakeChar
    <2>1. /\ InLoop /\ Takes /\ si' = si + 1 /\ pi' = pi + 1 /\ starPi' = starPi
          /\ starSi' = starSi /\ text' = text /\ pattern' = pattern
      BY <1>2 DEF TakeChar, input
    <2>2. pi \in 0..(Len(pattern) - 1) /\ pi + 1 \in 0..Len(pattern)
      BY <2>1, Cursors DEF Takes
    <2>3. m[<<si + 1, pi + 1>>] => m[<<si, pi>>]
      <3>1. CASE pattern[pi + 1] = AnyText
        <4>1. m[<<si, pi>>] <=> m[<<si, pi + 1>>] \/ (si < Len(text) /\ m[<<si + 1, pi>>])
          BY <2>1, <2>2, <3>1, Cursors, MeansAtStar
        <4>2. m[<<si + 1, pi>>]
              <=> m[<<si + 1, pi + 1>>] \/ (si + 1 < Len(text) /\ m[<<si + 1 + 1, pi>>])
          BY <2>1, <2>2, <3>1, Cursors, MeansAtStar
        <4> QED  BY <2>1, <4>1, <4>2 DEF InLoop
      <3>2. CASE pattern[pi + 1] # AnyText
        <4>1. m[<<si, pi>>] <=> /\ si < Len(text) /\ pattern[pi + 1] \in {AnyChar, text[si + 1]}
                                /\ m[<<si + 1, pi + 1>>]
          BY <2>1, <2>2, <3>2, Cursors, MeansAtPlain
        <4> QED  BY <2>1, <4>1 DEF InLoop, Takes
      <3> QED  BY <3>1, <3>2
    <2> QED  BY <2>1, <2>3 DEF NothingInvented, Means, InLoop
  <1>3. CASE PassStar
    <2>1. /\ InLoop /\ AtStar /\ si' = si /\ pi' = pi + 1 /\ starPi' = pi
          /\ starSi' = si /\ text' = text /\ pattern' = pattern
      BY <1>3 DEF PassStar, input
    <2>2. m[<<si, pi + 1>>] => m[<<si, pi>>]  BY <2>1, Cursors, MeansAtStar DEF AtStar
    <2> QED  BY <2>1, <2>2 DEF NothingInvented, Means, InLoop
  <1>4. CASE GoBack
    <2>1. /\ InLoop /\ starPi # NoStar /\ si' = starSi + 1 /\ pi' = starPi + 1
          /\ starPi' = starPi /\ starSi' = starSi + 1 /\ text' = text /\ pattern' = pattern
      BY <1>4 DEF GoBack, input
    <2>2. /\ starPi \in 0..(Len(pattern) - 1) /\ starSi \in 0..Len(text)
          /\ starSi + 1 \in 0..Len(text) /\ starSi < Len(text) /\ pattern[starPi + 1] = AnyText
      BY <2>1, Cursors, SMTT(30)
    <2>3. /\ m[<<starSi + 1, starPi>>] => m[<<starSi, starPi>>]
          /\ m[<<starSi + 1, starPi + 1>>] => m[<<starSi + 1, starPi>>]
      BY <2>1, <2>2, Cursors, MeansAtStar
    <2> QED  BY <2>1, <2>3 DEF NothingInvented, Means, InLoop
  <1>5. ASSUME NEW a, Return(a) PROVE NothingInvented'
    BY <1>5 DEF Return, NothingInvented
  <1>6. ASSUME pc = "chunks", pc' # "chars" PROVE NothingInvented'
    BY <1>6 DEF NothingInvented
  <1>7. CASE NoParts \/ PrefixPart \/ SuffixPart \/ InnerPart \/ AllParts
    BY <1>5, <1>6, <1>7 DEF NoParts, PrefixPart, SuffixPart, InnerPart, AllParts, Consume
  <1>8. CASE GiveUp \/ EndOfText  BY <1>5, <1>8 DEF GiveUp, EndOfText
  <1>9. CASE UNCHANGED vars
    BY <1>9 DEF vars, input, chars, NothingInvented, Means
  <1> QED
    BY <1>1, <1>2, <1>3, <1>4, <1>7, <1>8, <1>9 DEF Next, Done

LEMMA WildcardsDiffer == AnyChar # AnyText
  BY Zenon DEF AnyChar, AnyText

\* If the last `%` may take one character more, the pattern matches from behind the
\* text's cursor: the characters between are taken one for one.
LEMMA LaterMatch ==
  ASSUME TypeOK, OneStar, starPi # NoStar, starSi < Len(text), Means(starSi + 1, starPi)
  PROVE  \E x \in (si + 1)..Len(text) : Means(x, pi)
  <1> DEFINE m == Meanings(text, pattern)
  <1>1. /\ text \in Seq(Characters) /\ pattern \in Seq(Characters)
        /\ starPi \in 0..(Len(pattern) - 1) /\ pattern[starPi + 1] = AnyText
        /\ starSi + 1 \in 0..Len(text) /\ pi \in (starPi + 1)..Len(pattern)
        /\ si \in 0..Len(text) /\ starSi \in Nat /\ starPi \in Nat /\ pi \in Nat
    BY Strings DEF TypeOK, NoStar
  <1>2. PICK l \in Nat : l = si - starSi /\ l = pi - (starPi + 1)  BY <1>1 DEF OneStar
  <1>3. PICK k \in (starSi + 1)..Len(text) : m[<<k, starPi + 1>>]
    BY <1>1, StarTakes DEF Means
  <1>4. /\ k \in 0..Len(text) /\ starPi + 1 \in 0..Len(pattern)
        /\ l \in 0..(Len(pattern) - (starPi + 1)) /\ starPi + 1 + l = pi
    BY <1>1, <1>2
  <1>5. \A n \in (starPi + 1 + 1)..(starPi + 1 + l) : pattern[n] # AnyText
    BY <1>1, <1>4 DEF OneStar
  <1>6. k + l <= Len(text) /\ m[<<k + l, starPi + 1 + l>>]
    <2> HIDE DEF m
    <2> QED  BY <1>1, <1>3, <1>4, <1>5, RunTakes DEF m
  <1>7. k + l \in (si + 1)..Len(text)  BY <1>1, <1>2, <1>6
  <1> QED  BY <1>4, <1>6, <1>7 DEF Means

\* Where the matcher goes no further there is no match.
LEMMA Stuck ==
  ASSUME TypeOK, InLoop, ~Takes, ~AtStar
  PROVE  ~Means(si, pi)
  <1>1. CASE pi = Len(pattern)
    <2>1. Means(si, Len(pattern)) <=> si = Len(text)  BY Cursors, PatternEnds DEF Means
    <2> QED  BY <1>1, <2>1 DEF InLoop
  <1>2. CASE pi < Len(pattern)
    <2>1. pattern[pi + 1] # AnyText /\ pattern[pi + 1] \notin {AnyChar, text[si + 1]}
      BY <1>2 DEF Takes, AtStar
    <2> QED  BY <1>2, <2>1, Cursors, MeansAtPlain DEF Means
  <1> QED  BY <1>1, <1>2, Cursors

LEMMA MissedNext ==
  ASSUME TypeInv, NothingMissed, [Next]_vars
  PROVE  NothingMissed'
  <1> DEFINE m == Meanings(text, pattern)
             Saved == Means(0, 0) => \/ Means(si, pi)
                                    \/ /\ starPi # NoStar /\ starSi < Len(text)
                                       /\ Means(starSi + 1, starPi)
  <1> USE DEF TypeInv
  <1>1. CASE Compile
    <2>1. si' = si /\ pi' = pi /\ starPi' = starPi /\ text' = text /\ pattern' = pattern
      BY <1>1 DEF Compile, chars, input
    <2>2. si = 0 /\ pi = 0 /\ starPi = NoStar  BY <1>1 DEF Compile, AtTheStart
    <2> QED  BY <2>1, <2>2 DEF NothingMissed, Means, OneStar
  <1>2. CASE TakeChar
    <2> SUFFICES ASSUME ~Contains(text, AnyText) PROVE OneStar' /\ Saved'
      BY <1>2 DEF NothingMissed, TakeChar, input
    <2>1. /\ InLoop /\ Takes /\ si' = si + 1 /\ pi' = pi + 1 /\ starPi' = starPi
          /\ starSi' = starSi /\ text' = text /\ pattern' = pattern
      BY <1>2 DEF TakeChar, input
    <2>2. pi \in 0..(Len(pattern) - 1) /\ si + 1 \in 1..Len(text)
      BY <2>1, Cursors DEF Takes
    <2>3. pattern[pi + 1] # AnyText
      <3>1. text[si + 1] # AnyText  BY <2>2 DEF Contains
      <3> QED  BY <2>1, <3>1, WildcardsDiffer DEF Takes
    <2>4. m[<<si, pi>>] => m[<<si + 1, pi + 1>>]  BY <2>1, <2>2, <2>3, Cursors, MeansAtPlain
    <2>5. OneStar /\ Saved  BY <2>1 DEF NothingMissed, InLoop
    <2>6. OneStar'
      <3> SUFFICES ASSUME starPi # NoStar
                   PROVE  /\ si' - starSi' = pi' - (starPi' + 1)
                          /\ \A k \in (starPi + 2)..(pi + 1) : pattern[k] # AnyText
        BY <2>1 DEF OneStar
      <3>1. si \in Int /\ pi \in Int /\ starSi \in Int /\ starPi \in Int
        BY DEF TypeOK, NoStar
      <3>2. \A k \in (starPi + 2)..(pi + 1) : k = pi + 1 \/ k \in (starPi + 2)..pi  BY <3>1
      <3> QED  BY <2>1, <2>3, <2>5, <3>1, <3>2 DEF OneStar
    <2>7. Saved'  BY <2>1, <2>4, <2>5 DEF Means
    <2> QED  BY <2>6, <2>7
  <1>3. CASE PassStar
    <2> SUFFICES ASSUME ~Contains(text, AnyText) PROVE OneStar' /\ Saved'
      BY <1>3 DEF NothingMissed, PassStar, input
    <2>1. /\ InLoop /\ AtStar /\ si' = si /\ pi' = pi + 1 /\ starPi' = pi
          /\ starSi' = si /\ text' = text /\ pattern' = pattern
      BY <1>3 DEF PassStar, input
    <2>2. pi \in 0..(Len(pattern) - 1) /\ si \in 0..(Len(text) - 1) /\ pattern[pi + 1] = AnyText
      BY <2>1, Cursors DEF AtStar
    <2>3. OneStar /\ Saved  BY <2>1 DEF NothingMissed, InLoop
    <2>4. OneStar'
      <3>1. (pi + 2)..(pi + 1) = {} /\ si - si = (pi + 1) - (pi + 1)  BY <2>2
      <3> QED  BY <2>1, <3>1 DEF OneStar
    <2>5. ASSUME Means(0, 0) PROVE m[<<si, pi>>]
      <3>1. CASE Means(si, pi)  BY <3>1 DEF Means
      <3>2. CASE starPi # NoStar /\ starSi < Len(text) /\ Means(starSi + 1, starPi)
        <4>1. PICK x \in (si + 1)..Len(text) : m[<<x, pi>>]
          BY <2>3, <3>2, LaterMatch DEF Means
        <4>2. x \in 0..Len(text) /\ si \in 0..Len(text)  BY <2>2
        <4>3. PICK k \in x..Len(text) : m[<<k, pi + 1>>]
          BY <2>1, <2>2, <4>1, <4>2, Cursors, StarTakes
        <4>4. k \in si..Len(text)  BY <2>2
        <4> QED  BY <2>1, <2>2, <4>2, <4>3, <4>4, Cursors, StarTakes
      <3> QED  BY <2>3, <2>5, <3>1, <3>2
    <2>6. m[<<si, pi>>] <=> m[<<si, pi + 1>>] \/ (si < Len(text) /\ m[<<si + 1, pi>>])
      BY <2>1, <2>2, Cursors, MeansAtStar
    <2>7. Saved'
      <3>1. pi # NoStar  BY <2>2 DEF NoStar
      <3> QED  BY <2>1, <2>5, <2>6, <3>1 DEF Means
    <2> QED  BY <2>4, <2>7
  <1>4. CASE GoBack
    <2> SUFFICES ASSUME ~Contains(text, AnyText) PROVE OneStar' /\ Saved'
      BY <1>4 DEF NothingMissed, GoBack, input
    <2>1. /\ InLoop /\ starPi # NoStar /\ si' = starSi + 1 /\ pi' = starPi + 1
          /\ starPi' = starPi /\ starSi' = starSi + 1 /\ text' = text /\ pattern' = pattern
          /\ ~Takes /\ ~AtStar
      BY <1>4 DEF GoBack, input
    <2>2. /\ starPi \in 0..(Len(pattern) - 1) /\ starSi + 1 \in 0..Len(text)
          /\ pattern[starPi + 1] = AnyText
      BY <2>1, Cursors, SMTT(30)
    <2>3. OneStar /\ Saved  BY <2>1 DEF NothingMissed, InLoop
    <2>4. OneStar'
      <3>1. /\ (starPi + 2)..(starPi + 1) = {}
            /\ (starSi + 1) - (starSi + 1) = (starPi + 1) - (starPi + 1)
        BY <2>2
      <3> QED  BY <2>1, <3>1 DEF OneStar
    <2>5. Means(0, 0) => m[<<starSi + 1, starPi>>]  BY <2>1, <2>3, Stuck DEF Means
    <2>6. m[<<starSi + 1, starPi>>]
          <=> \/ m[<<starSi + 1, starPi + 1>>]
              \/ starSi + 1 < Len(text) /\ m[<<starSi + 1 + 1, starPi>>]
      BY <2>1, <2>2, Cursors, MeansAtStar
    <2>7. Saved'  BY <2>1, <2>5, <2>6 DEF Means
    <2> QED  BY <2>4, <2>7
  <1>5. ASSUME NEW a, Return(a) PROVE NothingMissed'
    BY <1>5 DEF Return, NothingMissed
  <1>6. ASSUME pc = "chunks", pc' # "chars" PROVE NothingMissed'
    BY <1>6 DEF NothingMissed
  <1>7. CASE NoParts \/ PrefixPart \/ SuffixPart \/ InnerPart \/ AllParts
    BY <1>5, <1>6, <1>7 DEF NoParts, PrefixPart, SuffixPart, InnerPart, AllParts, Consume
  <1>8. CASE GiveUp \/ EndOfText  BY <1>5, <1>8 DEF GiveUp, EndOfText
  <1>9. CASE UNCHANGED vars
    BY <1>9 DEF vars, input, chars, NothingMissed, OneStar, Means
  <1> QED
    BY <1>1, <1>2, <1>3, <1>4, <1>7, <1>8, <1>9 DEF Next, Done

\* At the end of the text only `%` may be left of the pattern.
LEMMA AtTextEnd ==
  ASSUME NEW s \in Seq(Characters), NEW p \in Seq(Characters), NEW j \in 0..Len(p)
  PROVE  Meanings(s, p)[<<Len(s), j>>] <=> \A k \in (j + 1)..Len(p) : p[k] = AnyText
  <1> DEFINE m == Meanings(s, p)
  <1>1. Len(s) \in 0..Len(s)  OBVIOUS
  <1>2. ASSUME \A k \in (j + 1)..Len(p) : p[k] = AnyText PROVE m[<<Len(s), j>>]
    BY <1>1, <1>2, StarsAtTheEnd
  <1>3. ASSUME m[<<Len(s), j>>], NEW x \in (j + 1)..Len(p), p[x] # AnyText PROVE FALSE
    <2> DEFINE S == {k \in (j + 1)..Len(p) : p[k] # AnyText}
    <2>1. S \in SUBSET Nat /\ x \in S  BY <1>3
    <2>2. PICK k \in S : \A y \in S : k <= y
      <3> HIDE DEF S
      <3> QED  BY <2>1, Least
    <2>3. PICK b \in j..(Len(p) - 1) : b + 1 = k
      <3>1. k - 1 \in j..(Len(p) - 1) /\ (k - 1) + 1 = k  BY <2>2
      <3> QED  BY <3>1
    <2>4. \A y \in (j + 1)..b : p[y] = AnyText
      <3> SUFFICES ASSUME NEW y \in (j + 1)..b, p[y] # AnyText PROVE FALSE  OBVIOUS
      <3>1. y \in S /\ y < k  BY <2>3
      <3> QED  BY <2>2, <2>3, <3>1
    <2>5. m[<<Len(s), b>>]
      <3>1. CASE b = j  BY <1>3, <3>1
      <3>2. CASE b # j
        <4>1. b \in (j + 1)..Len(p)  BY <3>2
        <4>2. m[<<Len(s), j>>] <=> \E y \in Len(s)..Len(s) : m[<<y, b>>]
          BY <1>1, <2>4, <4>1, StarsTake
        <4>3. \A y \in Len(s)..Len(s) : y = Len(s)  OBVIOUS
        <4> QED  BY <1>3, <4>2, <4>3
      <3> QED  BY <3>1, <3>2
    <2>6. b \in 0..(Len(p) - 1) /\ p[b + 1] # AnyText  BY <2>2, <2>3
    <2>7. m[<<Len(s), b>>] => Len(s) < Len(s)  BY <1>1, <2>6, MeansAtPlain
    <2> QED  BY <2>5, <2>7
  <1> QED  BY <1>2, <1>3

\* What match_chars answers.
LEMMA CharsAnswer ==
  ASSUME TypeInv, RightPath, NothingInvented, NothingMissed, GiveUp \/ EndOfText
  PROVE  MatchesMeaning'
  <1> USE DEF TypeInv
  <1>1. CASE GiveUp
    <2>1. /\ InLoop /\ ~Takes /\ ~AtStar /\ starPi = NoStar /\ answer' = FALSE
          /\ text' = text /\ pattern' = pattern
      BY <1>1 DEF GiveUp, Return, input
    <2>2. ~Contains(text, AnyText) => ~Means(0, 0)
      BY <2>1, Stuck DEF NothingMissed, InLoop
    <2> QED  BY <2>1, <2>2 DEF MatchesMeaning, Meaning, Means, RightPath, InLoop
  <1>2. CASE EndOfText
    <2> DEFINE left == \A k \in (pi + 1)..Len(pattern) : pattern[k] = AnyText
    <2>1. /\ pc = "chars" /\ si = Len(text) /\ answer' = left
          /\ text' = text /\ pattern' = pattern
      BY <1>2 DEF EndOfText, Return, input
    <2>2. Means(si, pi) <=> left
      <3>1. pi \in 0..Len(pattern)  BY DEF TypeOK
      <3> QED  BY <2>1, <3>1, Strings, AtTextEnd DEF Means
    <2>3. left => Means(0, 0)  BY <2>1, <2>2 DEF NothingInvented
    <2>4. ~Contains(text, AnyText) /\ Means(0, 0) => left
      <3> SUFFICES ASSUME ~Contains(text, AnyText), Means(0, 0), ~Means(si, pi) PROVE FALSE
        BY <2>2
      <3>1. /\ OneStar /\ starPi # NoStar /\ starSi < Len(text) /\ Means(starSi + 1, starPi)
        BY <2>1 DEF NothingMissed
      <3>2. PICK x \in (si + 1)..Len(text) : Means(x, pi)  BY <3>1, LaterMatch
      <3> QED  BY <2>1, <3>2, Strings
    <2> HIDE DEF left
    <2> QED  BY <2>1, <2>3, <2>4 DEF MatchesMeaning, Meaning, Means, RightPath
  <1> QED  BY <1>1, <1>2

-----------------------------------------------------------------------------
(* Pattern::Chunks.                                                         *)

\* How much of the text the parts found so far take up.
Consumed == Len(text) - Len(rest)

\* The part that is looked for is l characters of the pattern behind b; between e and b
\* there are only `%`, and one follows unless the pattern ends.
StandsAt(e, b, l) ==
    /\ \A k \in (e + 1)..b : pattern[k] = AnyText
    /\ \A k \in (b + 1)..(b + l) : pattern[k] # AnyText /\ pattern[k] # AnyChar
    /\ b + l = Len(pattern) \/ pattern[b + l + 1] = AnyText
    /\ Len(Part) = l /\ \A i \in 1..l : Part[i] = pattern[b + i]
    /\ Pieces(pattern)[b + l] = SubSeq(parts, at + 2, Len(parts))

\* What is known while parts are looked for.
Searching(e) ==
    /\ TypeOK /\ pc = "chunks" /\ RightPath /\ e \in 0..Len(pattern) /\ FoundUpTo(e)
    /\ Consumed \in 0..Len(text) /\ rest = Behind(text, Consumed)
    /\ Means(0, 0) <=> Means(Consumed, e)

LEMMA SearchGoesOn ==
  ASSUME TypeOK, RightPath, FirstPlaceWillDo, pc = "chunks"
  PROVE  \E e \in 0..Len(pattern) : Searching(e)
  <1>1. PICK e \in 0..Len(pattern) : FoundUpTo(e) /\ (Means(0, 0) <=> Means(Consumed, e))
    BY DEF FirstPlaceWillDo, Consumed
  <1>2. Consumed \in 0..Len(text)
    <2>1. Len(rest) \in Nat /\ Len(text) \in Nat  BY DEF TypeOK
    <2> QED  BY <2>1 DEF FirstPlaceWillDo, Consumed
  <1> QED  BY <1>1, <1>2 DEF Searching, FirstPlaceWillDo, Consumed

\* The first of the parts that are left, and the others.
LEMMA PartsLeft ==
  ASSUME TypeOK, at < Len(parts)
  PROVE  /\ SubSeq(parts, at + 1, Len(parts)) # <<>>
         /\ Head(SubSeq(parts, at + 1, Len(parts))) = Part
         /\ Tail(SubSeq(parts, at + 1, Len(parts))) = SubSeq(parts, at + 2, Len(parts))
  <1>1. parts \in Seq(Seq(Characters)) /\ at \in Nat /\ Len(parts) \in Nat
    BY DEF TypeOK, Characters
  <1> DEFINE t == SubSeq(parts, at + 1, Len(parts))
             u == SubSeq(parts, at + 2, Len(parts))
  <1>2. /\ t \in Seq(Seq(Characters)) /\ Len(t) = Len(parts) - at
        /\ \A i \in 1..(Len(parts) - at) : t[i] = parts[at + i]
    BY <1>1, BehindOf DEF Behind
  <1>3. at + 2 = (at + 1) + 1 /\ at + 1 \in 0..Len(parts)  BY <1>1
  <1>4. /\ u \in Seq(Seq(Characters)) /\ Len(u) = Len(parts) - (at + 1)
        /\ \A i \in 1..(Len(parts) - (at + 1)) : u[i] = parts[(at + 1) + i]
    BY <1>1, <1>3, BehindOf DEF Behind
  <1> HIDE DEF t, u
  <1>5. t # <<>> /\ Head(t) = t[1] /\ t[1] = parts[at + 1]
    <2>1. Len(t) > 0 /\ 1 \in 1..(Len(parts) - at)  BY <1>1, <1>2
    <2> QED  BY <1>2, <2>1
  <1>6. Tail(t) \in Seq(Seq(Characters)) /\ Len(Tail(t)) = Len(u)  BY <1>1, <1>2, <1>4, <1>5
  <1>7. \A i \in 1..Len(u) : Tail(t)[i] = u[i]
    <2> SUFFICES ASSUME NEW i \in 1..Len(u) PROVE Tail(t)[i] = u[i]  OBVIOUS
    <2>1. i + 1 \in 1..(Len(parts) - at) /\ at + (i + 1) = (at + 1) + i
      <3>1. PICK a \in Nat, n \in Nat : a = at /\ n = Len(parts)  BY <1>1
      <3>2. i \in 1..(n - (a + 1))  BY <1>4, <3>1
      <3>3. i + 1 \in 1..(n - a) /\ a + (i + 1) = (a + 1) + i  BY <3>2
      <3> QED  BY <3>1, <3>3
    <2>2. Tail(t)[i] = t[i + 1]  BY <1>2, <1>5, <1>6
    <2> QED  BY <1>2, <1>4, <2>1, <2>2
  <1>8. Tail(t) = u  BY <1>4, <1>6, <1>7, SameString
  <1> QED  BY <1>5, <1>8 DEF t, u, Part

LEMMA WherePart ==
  ASSUME NEW e, Searching(e), at < Len(parts)
  PROVE  \E b \in e..Len(pattern) : \E l \in 1..(Len(pattern) - b) : StandsAt(e, b, l)
  <1> USE DEF Searching
  <1>1. pattern \in Seq(Characters) /\ e \in 0..Len(pattern)  BY Strings
  <1> DEFINE t == Pieces(pattern)[e]
  <1>2. t # <<>> /\ Head(t) = Part /\ Tail(t) = SubSeq(parts, at + 2, Len(parts))
    BY PartsLeft DEF FoundUpTo
  <1>3. PICK b \in e..Len(pattern) : \E l \in 1..(Len(pattern) - b) : Leads(pattern, t, e, b, l)
    BY <1>1, <1>2, NextPiece
  <1>4. PICK l \in 1..(Len(pattern) - b) : Leads(pattern, t, e, b, l)  BY <1>3
  <1> HIDE DEF t
  <1>5. \A k \in 1..Len(pattern) : pattern[k] # AnyChar  BY DEF RightPath, Contains
  <1>6. Part = SubSeq(pattern, b + 1, b + l)  BY <1>2, <1>4 DEF Leads
  <1>7. Len(Part) = l /\ \A i \in 1..l : Part[i] = pattern[b + i]
    <2>1. b \in Nat /\ l \in Nat /\ b + l <= Len(pattern) /\ Len(pattern) \in Nat  BY <1>1
    <2>2. \A x \in (b + 1)..(b + l) : pattern[x] \in Characters  BY <1>1, <2>1
    <2>3. SubSeq(pattern, b + 1, b + l) = [i \in 1..l |-> pattern[b + i]]
      BY <2>1, <2>2, SubSeqProperties
    <2>4. \A i \in 1..l : pattern[b + i] \in Characters  BY <1>1, <2>1
    <2> QED  BY <1>6, <2>1, <2>3, <2>4
  <1>8. \A k \in (b + 1)..(b + l) : k \in 1..Len(pattern)  BY <1>1
  <1>9. StandsAt(e, b, l)  BY <1>2, <1>4, <1>5, <1>7, <1>8 DEF Leads, StandsAt
  <1> QED  BY <1>9

\* The pattern from the part on matches where the part occurs and the rest follows.
LEMMA PartMeans ==
  ASSUME NEW e, Searching(e), at < Len(parts),
         NEW b \in e..Len(pattern), NEW l \in 1..(Len(pattern) - b), StandsAt(e, b, l),
         NEW k \in 0..Len(rest)
  PROVE  Means(Consumed + k, b)
         <=> k \in Occurrences(rest, Part) /\ Means(Consumed + k + l, b + l)
  <1> USE DEF Searching
  <1>1. /\ text \in Seq(Characters) /\ pattern \in Seq(Characters)
        /\ b \in 0..Len(pattern) /\ l \in 0..(Len(pattern) - b)
        /\ Part \in Seq(Characters) /\ rest \in Seq(Characters) /\ Len(Part) = l
    BY Strings, PartFound DEF StandsAt
  <1>2. PICK d \in 0..Len(text) : d = Consumed  OBVIOUS
  <1>3. /\ Len(rest) = Len(text) - d
        /\ \A i \in 1..(Len(text) - d) : rest[i] = text[d + i]
    BY <1>1, <1>2, BehindOf
  <1>4. d + k \in 0..Len(text)  BY <1>1, <1>3
  <1>5. \A x \in (b + 1)..(b + l) : pattern[x] # AnyText  BY DEF StandsAt
  <1>6. Means(d + k, b) <=> /\ d + k + l <= Len(text)
                            /\ \A i \in 1..l : pattern[b + i] \in {AnyChar, text[d + k + i]}
                            /\ Means(d + k + l, b + l)
    BY <1>1, <1>4, <1>5, RunTakes, ZenonT(40) DEF Means
  <1>7. k \in Occurrences(rest, Part)
        <=> k \in 0..(Len(rest) - l) /\ \A i \in 1..l : rest[k + i] = Part[i]
    <2>1. k \in Occurrences(rest, Part)
          <=> /\ k \in 0..(Len(rest) - Len(Part))
              /\ \A i \in 1..Len(Part) : rest[k + i] = Part[i]
      <3>1. PICK q \in Seq(Characters), r \in Seq(Characters) : q = Part /\ r = rest  BY <1>1
      <3>2. k \in Int  OBVIOUS
      <3>3. k \in Occurrences(r, q) <=> /\ k \in 0..(Len(r) - Len(q))
                                        /\ \A i \in 1..Len(q) : r[k + i] = q[i]
        BY <3>2, OccursWhere, SMTT(30)
      <3> QED  BY <3>1, <3>3
    <2> QED  BY <1>1, <2>1
  <1>8. k \in 0..(Len(rest) - l) <=> d + k + l <= Len(text)  BY <1>1, <1>3
  <1>9. ASSUME d + k + l <= Len(text), NEW i \in 1..l
        PROVE  pattern[b + i] \in {AnyChar, text[d + k + i]} <=> rest[k + i] = Part[i]
    <2>1. k + i \in 1..(Len(text) - d) /\ d + (k + i) = d + k + i  BY <1>1, <1>9
    <2>2. rest[k + i] = text[d + k + i]  BY <1>3, <2>1
    <2>3. b + i \in (b + 1)..(b + l)  BY <1>1
    <2>4. pattern[b + i] # AnyChar /\ Part[i] = pattern[b + i]  BY <2>3 DEF StandsAt
    <2> QED  BY <2>2, <2>4
  <1> QED  BY <1>2, <1>6, <1>7, <1>8, <1>9

\* Behind a `%` the part may be anywhere in the rest of the text.
LEMMA PartSearched ==
  ASSUME NEW e, Searching(e), at < Len(parts),
         NEW b \in (e + 1)..Len(pattern), NEW l \in 1..(Len(pattern) - b), StandsAt(e, b, l)
  PROVE  Means(0, 0)
         <=> \E k \in Occurrences(rest, Part) : Means(Consumed + k + l, b + l)
  <1> USE DEF Searching
  <1>1. /\ text \in Seq(Characters) /\ pattern \in Seq(Characters) /\ e \in 0..Len(pattern)
        /\ Consumed \in 0..Len(text) /\ rest \in Seq(Characters)
    BY Strings, PartFound
  <1>2. Means(0, 0) <=> \E x \in Consumed..Len(text) : Means(x, b)
    BY <1>1, StarsTake DEF StandsAt, Means
  <1>3. Len(rest) = Len(text) - Consumed  BY <1>1 DEF Consumed
  <1>4. b \in e..Len(pattern)  BY <1>1
  <1>5. \A k \in 0..Len(rest) :
          Means(Consumed + k, b) <=> k \in Occurrences(rest, Part) /\ Means(Consumed + k + l, b + l)
    BY <1>4, PartMeans
  <1>6. \A k \in Occurrences(rest, Part) : k \in 0..Len(rest)
    BY <1>1, PartFound
  <1>7. ASSUME NEW x \in Consumed..Len(text), Means(x, b)
        PROVE  \E k \in 0..Len(rest) : Means(Consumed + k, b)
    <2>1. x - Consumed \in 0..Len(rest) /\ Consumed + (x - Consumed) = x  BY <1>1, <1>3
    <2> QED  BY <1>7, <2>1
  <1>8. \A k \in 0..Len(rest) : Consumed + k \in Consumed..Len(text)  BY <1>1, <1>3
  <1> QED  BY <1>2, <1>5, <1>6, <1>7, <1>8

\* There is a `%` in front of a part that is not the pattern's beginning.
LEMMA StarBefore ==
  ASSUME NEW e, Searching(e), at < Len(parts), ~(at = 0 /\ AnchoredStart),
         NEW b \in e..Len(pattern), NEW l \in 1..(Len(pattern) - b), StandsAt(e, b, l)
  PROVE  b \in (e + 1)..Len(pattern)
  <1> USE DEF Searching
  <1>1. pattern \in Seq(Characters) /\ e \in 0..Len(pattern) /\ Len(pattern) \in Nat
    BY Strings
  <1>2. ASSUME b = e PROVE FALSE
    <2>1. e + 1 \in (b + 1)..(b + l) /\ e < Len(pattern)  BY <1>1, <1>2
    <2>2. pattern[e + 1] # AnyText  BY <2>1 DEF StandsAt
    <2>3. at = 0
      <3>1. at \in Nat /\ (at > 0 => (e < Len(pattern) => pattern[e + 1] = AnyText))
        BY DEF FoundUpTo, TypeOK
      <3> QED  BY <2>1, <2>2, <3>1
    <2>4. e = 0 /\ pattern # <<>> /\ Head(pattern) = pattern[1]  BY <1>1, <2>1, <2>3 DEF FoundUpTo
    <2> QED  BY <2>2, <2>3, <2>4 DEF AnchoredStart
  <1> QED  BY <1>1, <1>2

\* A part found behind k characters of the rest takes the search on.
LEMMA Consumes ==
  ASSUME NEW e, Searching(e), at < Len(parts), FirstPlaceWillDo,
         NEW b \in e..Len(pattern), NEW l \in 1..(Len(pattern) - b), StandsAt(e, b, l),
         NEW k \in Occurrences(rest, Part), Consume(k),
         Means(0, 0) <=> Means(Consumed + k + l, b + l)
  PROVE  FirstPlaceWillDo'
  <1> USE DEF Searching
  <1>1. /\ text \in Seq(Characters) /\ pattern \in Seq(Characters) /\ e \in 0..Len(pattern)
        /\ Consumed \in 0..Len(text) /\ rest \in Seq(Characters) /\ k \in Nat
        /\ k + l <= Len(rest) /\ Len(Part) = l
    BY Strings, PartFound DEF StandsAt
  <1>2. /\ at' = at + 1 /\ rest' = Behind(rest, k + l) /\ parts' = parts
        /\ text' = text /\ pattern' = pattern /\ pc' = pc
    BY <1>1 DEF Consume, input
  <1>3. PICK d \in 0..Len(text) : d = Consumed  BY <1>1
  <1>4. Len(rest) = Len(text) - d  BY <1>1, <1>3 DEF Consumed
  <1>5. k + l \in 0..Len(rest) /\ k + l \in 0..(Len(text) - d)  BY <1>1, <1>4
  <1>6. rest' = Behind(text, d + (k + l)) /\ Len(rest') = Len(rest) - (k + l)
    <2>1. Behind(Behind(text, d), k + l) = Behind(text, d + (k + l))
      BY <1>1, <1>5, BehindBehind
    <2>2. Len(Behind(rest, k + l)) = Len(rest) - (k + l)  BY <1>1, <1>5, BehindOf
    <2> QED  BY <1>1, <1>2, <1>3, <2>1, <2>2
  <1>7. Len(text) - Len(rest') = d + (k + l) /\ Len(rest') <= Len(text)
    <2>1. PICK n \in Nat : n = Len(text)  BY <1>1, LenProperties
    <2>2. PICK a \in Nat : a = Len(rest)  BY <1>1, LenProperties
    <2>3. PICK gone \in 0..n : gone = d  BY <2>1
    <2>4. PICK more \in 0..a : more = k + l  BY <1>5, <2>2
    <2>5. a = n - gone  BY <1>4, <2>1, <2>2, <2>3
    <2>6. n - (a - more) = gone + more /\ a - more <= n  BY <2>5
    <2>7. Len(rest') = a - more  BY <1>6, <2>2, <2>4
    <2> QED  BY <2>1, <2>3, <2>4, <2>6, <2>7
  <1>8. FoundUpTo(b + l)'
    <2>1. b + l \in (b + 1)..(b + l) /\ b + l > 0  BY <1>1
    <2>2. pattern[b + l] # AnyText  BY <2>1 DEF StandsAt
    <2>3. b + l < Len(pattern) => pattern[b + l + 1] = AnyText  BY <1>1 DEF StandsAt
    <2>4. at \in Nat /\ at + 1 + 1 = at + 2 /\ at + 1 # 0  BY DEF TypeOK
    <2> QED  BY <1>2, <2>1, <2>2, <2>3, <2>4 DEF FoundUpTo, StandsAt
  <1>9. b + l \in 0..Len(pattern) /\ d + k + l = d + (k + l)  BY <1>1
  <1>10. Means(0, 0) <=> Means(d + (k + l), b + l)  BY <1>3, <1>9
  <1> QED
    BY <1>2, <1>6, <1>7, <1>8, <1>9, <1>10 DEF FirstPlaceWillDo, Means

\* An answer that is that of the meaning.
LEMMA Answers ==
  ASSUME NEW a \in BOOLEAN, Return(a), a <=> Means(0, 0)
  PROVE  MatchesMeaning'
  BY DEF Return, input, MatchesMeaning, Meaning, Means

LEMMA PrefixRight ==
  ASSUME TypeOK, RightPath, FirstPlaceWillDo, PrefixPart
  PROVE  FirstPlaceWillDo' /\ (pc' = "done" => MatchesMeaning')
  <1>1. pc = "chunks" /\ at < Len(parts) /\ at = 0 /\ AnchoredStart  BY DEF PrefixPart
  <1>2. PICK e \in 0..Len(pattern) : Searching(e)  BY <1>1, SearchGoesOn
  <1>3. PICK b \in e..Len(pattern) : \E l \in 1..(Len(pattern) - b) : StandsAt(e, b, l)
    BY <1>1, <1>2, WherePart
  <1>4. PICK l \in 1..(Len(pattern) - b) : StandsAt(e, b, l)  BY <1>3
  <1>5. /\ pattern \in Seq(Characters) /\ text \in Seq(Characters) /\ rest \in Seq(Characters)
        /\ Consumed \in 0..Len(text)
    BY <1>1, <1>2, Strings, PartFound DEF Searching
  <1>6. e = 0 /\ b = 0
    <2>1. e = 0  BY <1>1, <1>2 DEF Searching, FoundUpTo
    <2>2. ASSUME b # 0 PROVE FALSE
      <3>1. 1 \in (e + 1)..b /\ Len(pattern) > 0  BY <2>1, <2>2, <1>5
      <3>2. pattern[1] = AnyText  BY <1>4, <3>1 DEF StandsAt
      <3>3. pattern # <<>> /\ Head(pattern) = pattern[1]  BY <1>5, <3>1
      <3> QED  BY <1>1, <3>2, <3>3 DEF AnchoredStart
    <2> QED  BY <2>1, <2>2
  <1>7. 0 \in 0..Len(rest) /\ Consumed + 0 = Consumed  BY <1>5
  <1>8. Means(0, 0) <=> 0 \in Occurrences(rest, Part) /\ Means(Consumed + 0 + l, b + l)
    <2>1. Means(Consumed + 0, b)
          <=> 0 \in Occurrences(rest, Part) /\ Means(Consumed + 0 + l, b + l)
      BY <1>1, <1>2, <1>4, <1>7, PartMeans
    <2> QED  BY <1>2, <1>6, <1>7, <2>1 DEF Searching
  <1>9. CASE 0 \in Occurrences(rest, Part)
    <2>1. Consume(0)  BY <1>9 DEF PrefixPart
    <2>2. FirstPlaceWillDo'  BY <1>1, <1>2, <1>4, <1>8, <1>9, <2>1, Consumes
    <2>3. pc' # "done"  BY <1>1, <2>1 DEF Consume
    <2> QED  BY <2>2, <2>3
  <1>10. CASE 0 \notin Occurrences(rest, Part)
    <2>1. Return(FALSE)  BY <1>10 DEF PrefixPart
    <2>2. MatchesMeaning'  BY <1>8, <1>10, <2>1, Answers
    <2> QED  BY <2>1, <2>2 DEF Return, FirstPlaceWillDo
  <1> QED  BY <1>9, <1>10

\* In front of a `%` an earlier place does what a later one does.
LEMMA SoonerWillDo ==
  ASSUME TypeOK, NEW j \in 0..(Len(pattern) - 1), pattern[j + 1] = AnyText,
         NEW y \in 0..Len(text), NEW x \in 0..y, Means(y, j)
  PROVE  Means(x, j)
  <1>1. text \in Seq(Characters) /\ pattern \in Seq(Characters) /\ x \in 0..Len(text)
    BY Strings
  <1>2. PICK k \in y..Len(text) : Meanings(text, pattern)[<<k, j + 1>>]
    BY <1>1, StarTakes DEF Means
  <1>3. k \in x..Len(text)  BY <1>1
  <1> QED  BY <1>1, <1>2, <1>3, StarTakes DEF Means

LEMMA InnerRight ==
  ASSUME TypeOK, RightPath, FirstPlaceWillDo, InnerPart
  PROVE  FirstPlaceWillDo' /\ (pc' = "done" => MatchesMeaning')
  <1>1. /\ pc = "chunks" /\ at < Len(parts) /\ ~(at = 0 /\ AnchoredStart)
        /\ ~(at + 1 = Len(parts) /\ AnchoredEnd)
    BY DEF InnerPart
  <1>2. PICK e \in 0..Len(pattern) : Searching(e)  BY <1>1, SearchGoesOn
  <1>3. PICK b \in e..Len(pattern) : \E l \in 1..(Len(pattern) - b) : StandsAt(e, b, l)
    BY <1>1, <1>2, WherePart
  <1>4. PICK l \in 1..(Len(pattern) - b) : StandsAt(e, b, l)  BY <1>3
  <1>5. /\ pattern \in Seq(Characters) /\ text \in Seq(Characters) /\ rest \in Seq(Characters)
        /\ Consumed \in 0..Len(text) /\ Len(Part) = l /\ Len(rest) = Len(text) - Consumed
        /\ parts \in Seq(Seq(Characters)) /\ at \in Nat
    BY <1>1, <1>2, <1>4, Strings, PartFound DEF Searching, StandsAt, Consumed, TypeOK, Characters
  <1>6. b \in (e + 1)..Len(pattern)  BY <1>1, <1>2, <1>4, StarBefore
  <1>7. Means(0, 0) <=> \E k \in Occurrences(rest, Part) : Means(Consumed + k + l, b + l)
    BY <1>1, <1>2, <1>4, <1>6, PartSearched
  <1>8. b + l \in 0..(Len(pattern) - 1) /\ pattern[b + l + 1] = AnyText
    <2> SUFFICES ASSUME b + l = Len(pattern) PROVE FALSE
      <3>1. PICK n \in Nat : n = Len(pattern)  BY <1>5
      <3>2. b + l \in 0..n  BY <1>4, <3>1
      <3>3. b + l # n => b + l \in 0..(n - 1)  BY <3>2
      <3>4. b + l = n \/ pattern[b + l + 1] = AnyText  BY <1>4, <3>1 DEF StandsAt
      <3> QED  BY <3>1, <3>3, <3>4
    <2>1. Pieces(pattern)[b + l] = <<>>
      <3>1. Len(pattern) \in 0..Len(pattern)  BY <1>5
      <3>2. Pieces(pattern)[Len(pattern)] = <<>>  BY <1>5, <3>1, PiecesStep DEF Cut
      <3> QED  BY <3>2
    <2>2. SubSeq(parts, at + 2, Len(parts)) = <<>>  BY <1>4, <2>1 DEF StandsAt
    <2>3. at + 1 = Len(parts)
      <3>1. Len(parts) \in Nat /\ at + 1 \in 0..Len(parts) /\ at + 2 = (at + 1) + 1
        BY <1>1, <1>5
      <3>2. Len(SubSeq(parts, at + 2, Len(parts))) = Len(parts) - (at + 1)
        BY <1>5, <3>1, BehindOf DEF Behind
      <3>3. Len(parts) - (at + 1) = 0  BY <2>2, <3>2
      <3> QED  BY <3>1, <3>3
    <2>4. pattern[b + l] # AnyText
      <3>1. b + l \in (b + 1)..(b + l)  BY <1>5
      <3> QED  BY <1>4, <3>1 DEF StandsAt
    <2> QED  BY <1>1, <1>5, <2>3, <2>4 DEF AnchoredEnd, Last
  <1>9. CASE Occurrences(rest, Part) # {}
    <2>1. PICK k \in Occurrences(rest, Part) :
             Consume(k) /\ \A x \in Occurrences(rest, Part) : k <= x
      BY <1>1, <1>9, PartFound DEF InnerPart
    <2>2. ASSUME NEW x \in Occurrences(rest, Part), Means(Consumed + x + l, b + l)
          PROVE  Means(Consumed + k + l, b + l)
      <3>1. k \in Nat /\ x \in Nat /\ k <= x /\ x + l <= Len(rest)
        BY <1>1, <1>5, <2>1, PartFound
      <3>2. Consumed + x + l \in 0..Len(text) /\ Consumed + k + l \in 0..(Consumed + x + l)
        BY <1>5, <3>1
      <3> QED  BY <1>8, <2>2, <3>2, SoonerWillDo
    <2>3. Means(0, 0) <=> Means(Consumed + k + l, b + l)  BY <1>7, <2>2
    <2>4. FirstPlaceWillDo'  BY <1>1, <1>2, <1>4, <2>1, <2>3, Consumes
    <2>5. pc' # "done"  BY <1>1, <2>1 DEF Consume
    <2> QED  BY <2>4, <2>5
  <1>10. CASE Occurrences(rest, Part) = {}
    <2>1. Return(FALSE)  BY <1>10 DEF InnerPart
    <2>2. MatchesMeaning'  BY <1>7, <1>10, <2>1, Answers
    <2> QED  BY <2>1, <2>2 DEF Return, FirstPlaceWillDo
  <1> QED  BY <1>9, <1>10

\* Behind the last of the pieces there are only `%`, and none if the end is anchored.
LEMMA NoneLeft ==
  ASSUME NEW p \in Seq(Characters), NEW e \in 0..Len(p), Pieces(p)[e] = <<>>
  PROVE  \A k \in (e + 1)..Len(p) : p[k] = AnyText
  BY NextPiece DEF Leads

LEMMA SuffixRight ==
  ASSUME TypeOK, RightPath, FirstPlaceWillDo, SuffixPart
  PROVE  FirstPlaceWillDo' /\ (pc' = "done" => MatchesMeaning')
  <1>1. /\ pc = "chunks" /\ at < Len(parts) /\ ~(at = 0 /\ AnchoredStart)
        /\ at + 1 = Len(parts) /\ AnchoredEnd
        /\ Return(Len(rest) - Len(Part) \in Occurrences(rest, Part))
    BY DEF SuffixPart, TypeOK
  <1>2. PICK e \in 0..Len(pattern) : Searching(e)  BY <1>1, SearchGoesOn
  <1>3. PICK b \in e..Len(pattern) : \E l \in 1..(Len(pattern) - b) : StandsAt(e, b, l)
    BY <1>1, <1>2, WherePart
  <1>4. PICK l \in 1..(Len(pattern) - b) : StandsAt(e, b, l)  BY <1>3
  <1>5. /\ pattern \in Seq(Characters) /\ text \in Seq(Characters) /\ rest \in Seq(Characters)
        /\ Consumed \in 0..Len(text) /\ Len(Part) = l /\ Len(rest) = Len(text) - Consumed
        /\ parts \in Seq(Seq(Characters)) /\ at \in Nat
    BY <1>1, <1>2, <1>4, Strings, PartFound DEF Searching, StandsAt, Consumed, TypeOK, Characters
  <1>6. b \in (e + 1)..Len(pattern)  BY <1>1, <1>2, <1>4, StarBefore
  <1>7. Means(0, 0) <=> \E k \in Occurrences(rest, Part) : Means(Consumed + k + l, b + l)
    BY <1>1, <1>2, <1>4, <1>6, PartSearched
  <1>8. b + l = Len(pattern)
    <2>1. Pieces(pattern)[b + l] = <<>>
      <3>1. at + 2 = (at + 1) + 1 /\ at + 1 \in 0..Len(parts)  BY <1>1, <1>5
      <3>2. /\ SubSeq(parts, at + 2, Len(parts)) \in Seq(Seq(Characters))
            /\ Len(SubSeq(parts, at + 2, Len(parts))) = Len(parts) - (at + 1)
        BY <1>5, <3>1, BehindOf DEF Behind
      <3>3. Len(parts) - (at + 1) = 0  BY <1>1, <1>5
      <3> QED  BY <1>4, <3>2, <3>3 DEF StandsAt
    <2>2. b + l \in 0..Len(pattern)  BY <1>5
    <2>3. \A k \in (b + l + 1)..Len(pattern) : pattern[k] = AnyText
      BY <1>5, <2>1, <2>2, NoneLeft
    <2> SUFFICES ASSUME b + l < Len(pattern) PROVE FALSE  BY <2>2
    <2>4. Len(pattern) \in (b + l + 1)..Len(pattern) /\ pattern # <<>>  BY <1>5
    <2> QED  BY <1>1, <2>3, <2>4 DEF AnchoredEnd, Last
  <1>9. ASSUME NEW k \in Occurrences(rest, Part)
        PROVE  Means(Consumed + k + l, b + l) <=> k = Len(rest) - Len(Part)
    <2>1. k \in Nat /\ k + l <= Len(rest)  BY <1>1, <1>5, PartFound
    <2>2. Consumed + k + l \in 0..Len(text)  BY <1>5, <2>1
    <2>3. Means(Consumed + k + l, Len(pattern)) <=> Consumed + k + l = Len(text)
      BY <1>5, <2>2, PatternEnds DEF Means
    <2>4. Consumed + k + l = Len(text) <=> k = Len(rest) - Len(Part)  BY <1>5, <2>1
    <2> QED  BY <1>8, <2>3, <2>4
  <1>10. Len(rest) - Len(Part) \in Occurrences(rest, Part) <=> Means(0, 0)  BY <1>7, <1>9
  <1>11. (Len(rest) - Len(Part) \in Occurrences(rest, Part)) \in BOOLEAN  OBVIOUS
  <1>12. MatchesMeaning'  BY <1>1, <1>10, <1>11, Answers
  <1> QED  BY <1>1, <1>12 DEF Return, FirstPlaceWillDo

LEMMA NoPartsRight ==
  ASSUME TypeOK, RightPath, FirstPlaceWillDo, NoParts
  PROVE  FirstPlaceWillDo' /\ (pc' = "done" => MatchesMeaning')
  <1> DEFINE a == ~(AnchoredStart /\ AnchoredEnd) \/ text = <<>>
  <1>1. pc = "chunks" /\ parts = <<>> /\ Return(a)  BY DEF NoParts
  <1>2. PICK e \in 0..Len(pattern) : Searching(e)  BY <1>1, SearchGoesOn
  <1>3. pattern \in Seq(Characters) /\ text \in Seq(Characters)  BY Strings
  <1>4. Pieces(pattern)[0] = <<>>
    <2>1. at = 0  BY <1>1 DEF TypeOK
    <2>2. e = 0 /\ Pieces(pattern)[e] = SubSeq(parts, at + 1, Len(parts))
      BY <1>2, <2>1 DEF Searching, FoundUpTo
    <2>3. SubSeq(parts, at + 1, Len(parts)) = <<>>  BY <1>1, <2>1
    <2> QED  BY <2>2, <2>3
  <1>5. 0 \in 0..Len(pattern) /\ 0 \in 0..Len(text)  BY <1>3
  <1>6. \A k \in (0 + 1)..Len(pattern) : pattern[k] = AnyText  BY <1>3, <1>4, <1>5, NoneLeft
  <1>7. Means(0, 0) <=> 0 < Len(pattern) \/ 0 = Len(text)
    BY <1>3, <1>5, <1>6, StarsAtTheEnd DEF Means
  <1>8. 0 < Len(pattern) <=> ~(AnchoredStart /\ AnchoredEnd)
    <2>1. CASE pattern = <<>>  BY <2>1 DEF AnchoredStart, AnchoredEnd
    <2>2. CASE pattern # <<>>
      <3>1. 1 \in (0 + 1)..Len(pattern) /\ Head(pattern) = pattern[1]  BY <1>3, <2>2
      <3> QED  BY <1>6, <2>2, <3>1 DEF AnchoredStart
    <2> QED  BY <2>1, <2>2
  <1>9. text = <<>> <=> 0 = Len(text)  BY <1>3
  <1>10. (a <=> Means(0, 0)) /\ a \in BOOLEAN  BY <1>7, <1>8, <1>9
  <1> HIDE DEF a
  <1>11. MatchesMeaning'  BY <1>1, <1>10, Answers
  <1> QED  BY <1>1, <1>11 DEF Return, FirstPlaceWillDo

LEMMA AllPartsRight ==
  ASSUME TypeOK, RightPath, FirstPlaceWillDo, AllParts
  PROVE  FirstPlaceWillDo' /\ (pc' = "done" => MatchesMeaning')
  <1> DEFINE a == ~AnchoredEnd \/ rest = <<>>
  <1>1. pc = "chunks" /\ parts # <<>> /\ at = Len(parts) /\ Return(a)  BY DEF AllParts
  <1>2. PICK e \in 0..Len(pattern) : Searching(e)  BY <1>1, SearchGoesOn
  <1>3. /\ pattern \in Seq(Characters) /\ text \in Seq(Characters) /\ rest \in Seq(Characters)
        /\ parts \in Seq(Seq(Characters)) /\ Len(parts) > 0 /\ at \in Nat
        /\ Consumed \in 0..Len(text) /\ Len(rest) = Len(text) - Consumed
    <2>1. rest \in Seq(Letters \cup {AnyText}) /\ Len(rest) \in Nat  BY DEF TypeOK
    <2>2. rest \in [1..Len(rest) -> Letters \cup {AnyText}]  BY <2>1
    <2>3. rest \in Seq(Characters)  BY <2>1, <2>2 DEF Characters
    <2>4. parts \in Seq(Seq(Characters)) /\ Len(parts) > 0  BY <1>1 DEF TypeOK, Characters
    <2> QED  BY <1>1, <1>2, <2>3, <2>4, Strings DEF Searching, Consumed, TypeOK
  <1>4. Pieces(pattern)[e] = <<>> /\ e > 0 /\ pattern[e] # AnyText
    <2>1. /\ Pieces(pattern)[e] = SubSeq(parts, at + 1, Len(parts))
          /\ e > 0 /\ pattern[e] # AnyText
      BY <1>1, <1>2, <1>3 DEF Searching, FoundUpTo
    <2>2. at \in 0..Len(parts)  BY <1>1, <1>3
    <2>3. /\ SubSeq(parts, at + 1, Len(parts)) \in Seq(Seq(Characters))
          /\ Len(SubSeq(parts, at + 1, Len(parts))) = Len(parts) - at
      BY <1>3, <2>2, BehindOf DEF Behind
    <2>4. Len(parts) - at = 0  BY <1>1, <1>3
    <2> QED  BY <2>1, <2>3, <2>4
  <1>5. \A k \in (e + 1)..Len(pattern) : pattern[k] = AnyText  BY <1>3, <1>4, NoneLeft
  <1>6. Means(Consumed, e) <=> e < Len(pattern) \/ Consumed = Len(text)
    BY <1>3, <1>5, StarsAtTheEnd DEF Means
  <1>7. e < Len(pattern) <=> ~AnchoredEnd
    <2>1. CASE e = Len(pattern)  BY <1>4, <2>1 DEF AnchoredEnd, Last
    <2>2. CASE e < Len(pattern)
      <3>1. Len(pattern) \in (e + 1)..Len(pattern) /\ pattern # <<>>  BY <1>3, <2>2
      <3> QED  BY <1>5, <2>2, <3>1 DEF AnchoredEnd, Last
    <2> QED  BY <1>3, <2>1, <2>2
  <1>8. rest = <<>> <=> Consumed = Len(text)  BY <1>3
  <1>9. (a <=> Means(0, 0)) /\ a \in BOOLEAN  BY <1>2, <1>6, <1>7, <1>8 DEF Searching
  <1> HIDE DEF a
  <1>10. MatchesMeaning'  BY <1>1, <1>9, Answers
  <1> QED  BY <1>1, <1>10 DEF Return, FirstPlaceWillDo

LEMMA CompileRight ==
  ASSUME TypeInv, Compile
  PROVE  RightPath' /\ FirstPlaceWillDo'
  <1> USE DEF TypeInv
  <1>1. /\ pc = "compile" /\ at' = 0 /\ rest' = text /\ text' = text /\ pattern' = pattern
    BY DEF Compile, AtTheStart, input
  <1>2. pattern \in Seq(Characters) /\ text \in Seq(Characters)  BY Strings
  <1>3. CASE Contains(pattern, AnyChar)
    <2>1. pc' = "chars"  BY <1>3 DEF Compile
    <2> QED  BY <1>1, <1>3, <2>1 DEF RightPath, FirstPlaceWillDo
  <1>4. CASE ~Contains(pattern, AnyChar)
    <2>1. pc' = "chunks" /\ parts' = Parts(pattern)  BY <1>4 DEF Compile
    <2>2. 0 \in 0..Len(pattern) /\ Len(text) - Len(text) = 0  BY <1>2
    <2>3. PICK t \in Seq(Seq(Characters)) : t = Parts(pattern)
      BY <1>2, <2>2, PiecesTyped DEF Parts
    <2>4. SubSeq(t, 0 + 1, Len(t)) = t
      <3>1. 0 \in 0..Len(t)  OBVIOUS
      <3>2. /\ SubSeq(t, 0 + 1, Len(t)) \in Seq(Seq(Characters))
            /\ Len(SubSeq(t, 0 + 1, Len(t))) = Len(t) - 0
            /\ \A i \in 1..(Len(t) - 0) : SubSeq(t, 0 + 1, Len(t))[i] = t[0 + i]
        BY <3>1, BehindOf DEF Behind
      <3> QED  BY <3>2, SameString
    <2>5. Behind(text, 0) = text
      <3>1. 0 \in 0..Len(text)  BY <1>2
      <3>2. /\ Behind(text, 0) \in Seq(Characters) /\ Len(Behind(text, 0)) = Len(text) - 0
            /\ \A i \in 1..(Len(text) - 0) : Behind(text, 0)[i] = text[0 + i]
        BY <1>2, <3>1, BehindOf
      <3> QED  BY <1>2, <3>2, SameString
    <2>6. FoundUpTo(0)'  BY <1>1, <2>1, <2>3, <2>4 DEF FoundUpTo, Parts
    <2>7. FirstPlaceWillDo'  BY <1>1, <1>2, <2>2, <2>5, <2>6 DEF FirstPlaceWillDo, Means
    <2> QED  BY <1>1, <1>4, <2>1, <2>7 DEF RightPath
  <1> QED  BY <1>3, <1>4

-----------------------------------------------------------------------------
(* Both matchers.                                                           *)

\* The turns of match_chars leave what is known of parts alone, and the other way round.
LEMMA CharsRight ==
  ASSUME TypeInv, RightPath, NothingInvented, NothingMissed,
         TakeChar \/ PassStar \/ GoBack \/ GiveUp \/ EndOfText
  PROVE  RightPath' /\ FirstPlaceWillDo' /\ MatchesMeaning'
  <1>1. CASE TakeChar \/ PassStar \/ GoBack
    <2>1. pc = "chars" /\ pc' = "chars" /\ pattern' = pattern
      BY <1>1 DEF TakeChar, PassStar, GoBack, InLoop, input
    <2> QED  BY <2>1 DEF RightPath, FirstPlaceWillDo, MatchesMeaning
  <1>2. CASE GiveUp \/ EndOfText
    <2>1. pc' = "done"  BY <1>2 DEF GiveUp, EndOfText, Return
    <2> QED  BY <1>2, <2>1, CharsAnswer DEF RightPath, FirstPlaceWillDo
  <1> QED  BY <1>1, <1>2

LEMMA ChunksRight ==
  ASSUME TypeInv, RightPath, FirstPlaceWillDo,
         NoParts \/ PrefixPart \/ SuffixPart \/ InnerPart \/ AllParts
  PROVE  RightPath' /\ FirstPlaceWillDo' /\ MatchesMeaning'
  <1>1. FirstPlaceWillDo' /\ (pc' = "done" => MatchesMeaning')
    BY NoPartsRight, PrefixRight, SuffixRight, InnerRight, AllPartsRight DEF TypeInv
  <1>2. pc = "chunks" /\ pattern' = pattern /\ pc' \in {"chunks", "done"}
    BY DEF NoParts, PrefixPart, SuffixPart, InnerPart, AllParts, Consume, Return, input
  <1> QED  BY <1>1, <1>2 DEF RightPath, MatchesMeaning

LEMMA InvariantInit == Init => IInv
  <1> SUFFICES ASSUME Init PROVE IInv  OBVIOUS
  <1>1. pc = "compile"  BY DEF Init
  <1> QED
    BY <1>1, TypeInit
    DEF IInv, TypeInv, RightPath, NothingInvented, NothingMissed, FirstPlaceWillDo, MatchesMeaning

LEMMA InvariantNext ==
  ASSUME IInv, [Next]_vars
  PROVE  IInv'
  <1>1. TypeInv'  BY TypeNext DEF IInv, TypeInv
  <1>2. NothingInvented' /\ NothingMissed'  BY InventedNext, MissedNext DEF IInv, TypeInv
  <1>3. RightPath' /\ FirstPlaceWillDo' /\ MatchesMeaning'
    <2>1. CASE Compile
      <3>1. pc' # "done"  BY <2>1 DEF Compile
      <3> QED  BY <2>1, <3>1, CompileRight DEF IInv, TypeInv, MatchesMeaning
    <2>2. CASE NoParts \/ PrefixPart \/ SuffixPart \/ InnerPart \/ AllParts
      BY <2>2, ChunksRight DEF IInv, TypeInv
    <2>3. CASE TakeChar \/ PassStar \/ GoBack \/ GiveUp \/ EndOfText
      BY <2>3, CharsRight DEF IInv, TypeInv
    <2>4. CASE UNCHANGED vars
      <3>1. /\ pc' = pc /\ text' = text /\ pattern' = pattern /\ answer' = answer
            /\ parts' = parts /\ at' = at /\ rest' = rest
        BY <2>4 DEF vars, input, chunks
      <3> QED
        BY <3>1 DEF IInv, RightPath, FirstPlaceWillDo, FoundUpTo, Means, MatchesMeaning, Meaning
    <2> QED  BY <2>1, <2>2, <2>3, <2>4 DEF Next, Done
  <1> QED  BY <1>1, <1>2, <1>3 DEF IInv, TypeInv

\* What both matchers know in the middle of their loops.
THEOREM LikeInvariant == Spec => []IInv
  <1> QED  BY InvariantInit, InvariantNext, PTL DEF Spec

\* LIKE answers what it means: never yes wrongly, and no wrongly at most for a pattern
\* with `_` on a text that holds a `%` (Pattern::matches, match_chars).
THEOREM AnswersMeaning == Spec => []MatchesMeaning
  <1>1. IInv => MatchesMeaning  BY DEF IInv
  <1> QED  BY <1>1, LikeInvariant, PTL
=============================================================================
