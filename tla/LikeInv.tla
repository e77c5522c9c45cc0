------------------------------ MODULE LikeInv ------------------------------
(* The inductive invariant behind MatchesMeaning: what both matchers know in  *)
(* the middle of their loops.                                                 *)
EXTENDS Like

\* Does the rest of the pattern behind j characters match that of the text behind i.
Means(i, j) == Meanings(text, pattern)[<<i, j>>]

AtTheStart ==
    pc = "compile" => at = 0 /\ rest = text /\ si = 0 /\ pi = 0 /\ starPi = NoStar

\* match_chars never believes in a match that is not there: what it looks for from
\* its cursors, or from behind the last `%`, makes a match of the whole.
NothingInvented ==
    pc = "chars" =>
        /\ Means(si, pi) => Means(0, 0)
        /\ starPi # NoStar => (Means(starSi, starPi) => Means(0, 0))

\* The characters the last `%` is followed by, up to the cursor, hold no other.
OneStar ==
    starPi # NoStar =>
        /\ si - starSi = pi - (starPi + 1)
        /\ \A k \in (starPi + 2)..pi : pattern[k] # AnyText

\* It never loses one: if there is a match, one goes on from the cursors or gives the
\* last `%` more of the text.  An earlier `%` need not be tried again.
NothingMissed ==
    pc = "chars" /\ ~Contains(text, AnyText) =>
        /\ OneStar
        /\ Means(0, 0) => \/ Means(si, pi)
                          \/ starPi # NoStar /\ starSi < Len(text) /\ Means(starSi + 1, starPi)

\* The parts found so far end behind e characters of the pattern.
FoundUpTo(e) ==
    /\ Pieces(pattern)[e] = SubSeq(parts, at + 1, Len(parts))
    /\ at = 0 => e = 0
    /\ at > 0 => e > 0 /\ pattern[e] # AnyText /\ (e < Len(pattern) => pattern[e + 1] = AnyText)

\* Nothing is lost by taking the first place where a part is found.
FirstPlaceWillDo ==
    pc = "chunks" =>
        LET n == Len(text) - Len(rest)
        IN  /\ Len(rest) <= Len(text) /\ rest = Behind(text, n)
            /\ \E e \in 0..Len(pattern) : FoundUpTo(e) /\ (Means(0, 0) <=> Means(n, e))

RightPath ==
    /\ pc = "chunks" => ~Contains(pattern, AnyChar)
    /\ pc = "chars" => Contains(pattern, AnyChar)

IInv ==
    /\ TypeOK /\ AtTheStart /\ RightPath
    /\ NothingInvented /\ NothingMissed /\ FirstPlaceWillDo
    /\ MatchesMeaning
=============================================================================
