------------------------------ MODULE MCAccess ------------------------------
(***************************************************************************)
(* An instance of Access for TLC: every text of at most three characters,  *)
(* and some longer ones with several colons, or blanks at the ends.        *)
(***************************************************************************)
EXTENDS Access, SequencesExt

CONSTANTS a, b

ShortTexts == BoundedSeq({a, b, Colon, Blank}, 3)
LongTexts == { <<a, Colon, b, Colon>>, <<a, Colon, Colon, b>>, <<a, b, Colon, b>>,
               <<a, Colon, b, b, b>>, <<Blank, a, Colon, b, Blank>> }
MCTexts == ShortTexts \cup LongTexts
MCChars == {a, b, Colon, Blank}
=============================================================================
