--------------------------- MODULE MCLoginBackoff ---------------------------
(***************************************************************************)
(* Values of the constants of LoginBackoff for TLC.  The spelled texts hold *)
(* the cases the normalisation tells apart: blank, and differing from the   *)
(* canonical form by case or by spaces.  The plain texts leave them out,    *)
(* where the question is one of interleavings and time.  The subject "x" is *)
(* an identifier and an address, two keys that must not be confused.        *)
(***************************************************************************)
EXTENDS LoginBackoffRefinement, TLC

MCSpelledText  == {"", " ", "x", "X", " X"}
MCSpelledTrim  == (" " :> "") @@ (" X" :> "X") @@ [t \in MCSpelledText |-> t]
MCSpelledLower == ("X" :> "x") @@ (" X" :> "x") @@ [t \in MCSpelledText |-> t]

MCPlainText == {"", "x"}
MCPlainSame == [t \in MCPlainText |-> t]

MCSymmetry == Permutations(Request)
=============================================================================
