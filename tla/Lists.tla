-------------------------------- MODULE Lists -------------------------------
(* The filter of Python's and JavaScript's lists, and sums. *)
EXTENDS Sequences, SequencesExt

\* The elements of seq that are in S, in their order. This is SelectSeq with a
\* set for the test, as a fold, which proofs can take apart.
Selected(seq, S) ==
    FoldLeft(LAMBDA kept, x : IF x \in S THEN Append(kept, x) ELSE kept, << >>, seq)

\* The sum of f over the finite set S.
SumOf(f, S) == MapThenSumSet(LAMBDA x : f[x], S)
=============================================================================
