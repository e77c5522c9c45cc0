\* Every pattern of up to 5 characters on every text of up to 5.
SPECIFICATION Spec
CONSTANTS
    Letters = {a, b}
    MaxText = 5
    MaxPattern = 5
SYMMETRY LetterSymmetry
INVARIANTS
    TypeOK
    MatchesMeaning
    IInv
PROPERTY
    LoopsAdvance
