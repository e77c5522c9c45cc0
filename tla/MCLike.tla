------------------------------- MODULE MCLike -------------------------------
(* Like on all short strings over a small alphabet.  Letters are only ever    *)
(* compared with each other, so they may change places.                      *)
EXTENDS LikeInv, TLC

LetterSymmetry == Permutations(Letters)
=============================================================================
