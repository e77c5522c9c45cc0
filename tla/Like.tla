-------------------------------- MODULE Like --------------------------------
(***************************************************************************)
(* SQL LIKE as src/src/like.rs evaluates it: a pattern without `_` is cut  *)
(* into the literal chunks between its `%` and the chunks are looked up    *)
(* from left to right; any other pattern runs a greedy matcher that keeps  *)
(* one place to go back to, the last `%`.  One step of the specification   *)
(* is one turn of the loop.                                                *)
(*                                                                         *)
(* Strings are sequences of characters.  str::find and the slices of the   *)
(* code count bytes; in UTF-8 a whole character never starts inside        *)
(* another, so both ways of counting find the same places.                 *)
(***************************************************************************)
EXTENDS Integers, Sequences, FiniteSetsExt, SequencesExt

CONSTANTS
    Letters,        \* characters that stand for themselves
    MaxText,        \* bound: length of a text
    MaxPattern      \* bound: length of a pattern

AnyText == "%"
AnyChar == "_"

ASSUME LettersAssumption == {AnyText, AnyChar} \cap Letters = {}
ASSUME LengthsAssumption == MaxText \in Nat /\ MaxPattern \in Nat

\* Strings of at most n characters.
StringsUpTo(n, chars) == UNION {[1..k -> chars] : k \in 0..n}

VARIABLES
    text, pattern,      \* the arguments, which never change
    pc,                 \* "compile", "chunks", "chars" or "done"
    parts, at, rest,    \* Chunks: the pieces, how many are found, what is left of text
    si, pi,             \* match_chars: what is matched of text and of pattern
    starPi, starSi,     \* the last `%` gone through, and where its match ends
    answer

input  == <<text, pattern>>
chunks == <<parts, at, rest>>
chars  == <<si, pi, starPi, starSi>>
vars   == <<input, pc, chunks, chars, answer>>

NoStar == -1            \* usize::MAX

-----------------------------------------------------------------------------
AnchoredStart == pattern = <<>> \/ Head(pattern) # AnyText
AnchoredEnd   == pattern = <<>> \/ Last(pattern) # AnyText

\* split('%') without the empty pieces: the longest runs of other characters
\* among those of p behind the first i.
Pieces(p) ==
    LET end(i) == Min({k \in (i + 1)..Len(p) : k = Len(p) \/ p[k + 1] = AnyText})
        cut[i \in 0..Len(p)] ==
            IF i = Len(p) THEN <<>>
            ELSE IF p[i + 1] = AnyText THEN cut[i + 1]
            ELSE Cons(SubSeq(p, i + 1, end(i)), cut[end(i)])
    IN  cut

Parts(p) == Pieces(p)[0]

\* The places (numbers of characters before them) where part occurs in s.
Occurrences(s, part) ==
    {k \in 0..(Len(s) - Len(part)) : SubSeq(s, k + 1, k + Len(part)) = part}

Behind(s, k) == SubSeq(s, k + 1, Len(s))

Part == parts[at + 1]

Init ==
    /\ text \in StringsUpTo(MaxText, Letters \cup {AnyText})
    /\ pattern \in StringsUpTo(MaxPattern, Letters \cup {AnyText, AnyChar})
    /\ pc = "compile"
    /\ parts = <<>> /\ at = 0 /\ rest = text
    /\ si = 0 /\ pi = 0 /\ starPi = NoStar /\ starSi = 0
    /\ answer = FALSE

Compile ==
    /\ pc = "compile"
    /\ IF Contains(pattern, AnyChar)
       THEN pc' = "chars" /\ UNCHANGED parts
       ELSE pc' = "chunks" /\ parts' = Parts(pattern)
    /\ UNCHANGED <<input, at, rest, chars, answer>>

Return(a) == pc' = "done" /\ answer' = a /\ UNCHANGED <<input, chunks, chars>>

-----------------------------------------------------------------------------
(* Pattern::Chunks.                                                        *)

\* The part was found behind k characters of rest; the search goes on after it.
Consume(k) ==
    /\ at' = at + 1 /\ rest' = Behind(rest, k + Len(Part))
    /\ UNCHANGED <<input, pc, parts, chars, answer>>

NoParts ==
    /\ pc = "chunks" /\ parts = <<>>
    /\ Return(~(AnchoredStart /\ AnchoredEnd) \/ text = <<>>)

PrefixPart ==
    /\ pc = "chunks" /\ at < Len(parts) /\ at = 0 /\ AnchoredStart
    /\ IF 0 \in Occurrences(rest, Part) THEN Consume(0) ELSE Return(FALSE)

\* A slip: the tail would be looked for, and the first place it is found taken.
SuffixPartFound ==
    /\ pc = "chunks" /\ at + 1 = Len(parts) /\ AnchoredEnd /\ ~(at = 0 /\ AnchoredStart)
    /\ LET places == Occurrences(rest, Part)
       IN  Return(places # {} /\ Min(places) + Len(Part) = Len(rest))

SuffixPart ==
    /\ pc = "chunks" /\ at + 1 = Len(parts) /\ AnchoredEnd /\ ~(at = 0 /\ AnchoredStart)
    /\ Return(Len(rest) - Len(Part) \in Occurrences(rest, Part))

\* A slip: the last place the part is found is taken.
InnerPartLast ==
    /\ pc = "chunks" /\ at < Len(parts)
    /\ ~(at = 0 /\ AnchoredStart) /\ ~(at + 1 = Len(parts) /\ AnchoredEnd)
    /\ LET places == Occurrences(rest, Part)
       IN  IF places # {} THEN Consume(Max(places)) ELSE Return(FALSE)

InnerPart ==
    /\ pc = "chunks" /\ at < Len(parts)
    /\ ~(at = 0 /\ AnchoredStart) /\ ~(at + 1 = Len(parts) /\ AnchoredEnd)
    /\ LET places == Occurrences(rest, Part)
       IN  IF places # {} THEN Consume(Min(places)) ELSE Return(FALSE)

AllParts ==
    /\ pc = "chunks" /\ parts # <<>> /\ at = Len(parts)
    /\ Return(~AnchoredEnd \/ rest = <<>>)

-----------------------------------------------------------------------------
(* match_chars.                                                            *)

InLoop == pc = "chars" /\ si < Len(text)

\* The next character of the pattern takes the next one of the text; a `%` of
\* the text is taken by a `%` of the pattern like any other character.
Takes == pi < Len(pattern) /\ pattern[pi + 1] \in {AnyChar, text[si + 1]}

AtStar == pi < Len(pattern) /\ pattern[pi + 1] = AnyText

TakeChar ==
    /\ InLoop /\ Takes
    /\ si' = si + 1 /\ pi' = pi + 1
    /\ UNCHANGED <<input, pc, chunks, starPi, starSi, answer>>

PassStar ==
    /\ InLoop /\ ~Takes /\ AtStar
    /\ starPi' = pi /\ starSi' = si /\ pi' = pi + 1
    /\ UNCHANGED <<input, pc, chunks, si, answer>>

\* A slip: the star would be tried again on as many characters as before.
GoBackInPlace ==
    /\ InLoop /\ ~Takes /\ ~AtStar /\ starPi # NoStar
    /\ si' = starSi /\ pi' = starPi + 1
    /\ UNCHANGED <<input, pc, chunks, starPi, starSi, answer>>

\* A slip: the text would be read again from behind the place of the failure.
GoBackTooFar ==
    /\ InLoop /\ ~Takes /\ ~AtStar /\ starPi # NoStar
    /\ starSi' = si + 2 /\ si' = si + 2 /\ pi' = starPi + 1
    /\ UNCHANGED <<input, pc, chunks, starPi, answer>>

GoBack ==
    /\ InLoop /\ ~Takes /\ ~AtStar /\ starPi # NoStar
    /\ starSi' = starSi + 1 /\ si' = starSi + 1 /\ pi' = starPi + 1
    /\ UNCHANGED <<input, pc, chunks, starPi, answer>>

GiveUp == InLoop /\ ~Takes /\ ~AtStar /\ starPi = NoStar /\ Return(FALSE)

EndOfText ==
    /\ pc = "chars" /\ si = Len(text)
    /\ Return(\A k \in (pi + 1)..Len(pattern) : pattern[k] = AnyText)

-----------------------------------------------------------------------------
Done == pc = "done" /\ UNCHANGED vars

Next ==
    \/ Compile
    \/ NoParts \/ PrefixPart \/ SuffixPart \/ InnerPart \/ AllParts
    \/ TakeChar \/ PassStar \/ GoBack \/ GiveUp \/ EndOfText
    \/ Done

Spec == Init /\ [][Next]_vars

-----------------------------------------------------------------------------
(* Properties. *)

\* Every variable keeps its type; neither path leaves its strings, and the place
\* to go back to is a `%` already behind both cursors (like.rs's slices and
\* indexes, which would panic).
TypeOK ==
    /\ text \in Seq(Letters \cup {AnyText}) /\ pattern \in Seq(Letters \cup {AnyText, AnyChar})
    /\ pc \in {"compile", "chunks", "chars", "done"}
    /\ parts \in Seq(Seq(Letters \cup {AnyText, AnyChar})) /\ at \in 0..Len(parts)
    /\ rest \in Seq(Letters \cup {AnyText})
    /\ si \in 0..Len(text) /\ pi \in 0..Len(pattern)
    /\ starPi \in NoStar..(pi - 1) /\ starSi \in 0..si
    /\ starPi # NoStar => pattern[starPi + 1] = AnyText
    /\ answer \in BOOLEAN

\* What LIKE means: does the rest of p behind j characters match that of s behind i.
Meanings(s, p) ==
    LET m[place \in (0..Len(s)) \X (0..Len(p))] ==
            LET i == place[1]
                j == place[2]
            IN  \/ i = Len(s) /\ j = Len(p)
                \/ /\ j < Len(p) /\ p[j + 1] = AnyText
                   /\ m[<<i, j + 1>>] \/ (i < Len(s) /\ m[<<i + 1, j>>])
                \/ /\ i < Len(s) /\ j < Len(p) /\ p[j + 1] \in {AnyChar, s[i + 1]} \ {AnyText}
                   /\ m[<<i + 1, j + 1>>]
    IN  m

Meaning(s, p) == Meanings(s, p)[<<0, 0>>]

\* `matches` answers what LIKE means.  It never says yes wrongly, and it says no
\* wrongly at most for a pattern with `_` on a text that holds a `%` itself.
MatchesMeaning ==
    pc = "done" =>
        /\ answer => Meaning(text, pattern)
        /\ Meaning(text, pattern) => answer \/ (Contains(pattern, AnyChar) /\ Contains(text, AnyText))

\* Every turn of either loop comes closer to the end, so no pattern of a user
\* keeps a server busy for ever: in lexicographic order the last star, where its
\* match ends and the cursor grow (match_chars), or the parts found (Chunks).
LoopsAdvance ==
    [][pc' = pc /\ pc \in {"chunks", "chars"} =>
        \/ at' > at
        \/ starPi' > starPi
        \/ starPi' = starPi /\ starSi' > starSi
        \/ starPi' = starPi /\ starSi' = starSi /\ pi' > pi]_vars
=============================================================================
