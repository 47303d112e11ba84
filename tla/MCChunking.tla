------------------------------ MODULE MCChunking ------------------------------
(* Texts, sizes, overlaps and steps small enough to try them all; negative *)
(* and zero arguments are refused.                                         *)
EXTENDS Chunking

CONSTANTS MaxLength, MaxNumber, MaxText

MCLengths == 0..MaxLength
MCNumbers == -1..MaxNumber
MCTexts == UNION {[1..n -> Characters] : n \in 0..MaxText}
============================================================================
