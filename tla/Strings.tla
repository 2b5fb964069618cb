------------------------------ MODULE Strings ------------------------------
(***************************************************************************)
(* What the code uses of std::string and std::string_view.  A text is a    *)
(* sequence of tokens.                                                     *)
(***************************************************************************)
EXTENDS Naturals, Sequences, SequencesExt

\* find_first_of: a position, or 0.
FindFirstOf(text, S) == SelectInSeq(text, LAMBDA t : t \in S)
\* What is before a position, and what starts at it.
Upto(text, i) == SubSeq(text, 1, i - 1)
From(text, i) == SubSeq(text, i, Len(text))

=============================================================================
