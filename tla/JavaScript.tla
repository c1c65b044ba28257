------------------------------ MODULE JavaScript ------------------------------
EXTENDS SequencesExt

\* undefined, and what is not there: a header, a token, an argument.
CONSTANT None

\* array.filter, for the elements that are in S.
Filtered(array, S) == FoldLeft(LAMBDA acc, e : IF e \in S THEN Append(acc, e) ELSE acc, <<>>, array)
=============================================================================
