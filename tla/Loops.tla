-------------------------------- MODULE Loops --------------------------------
(***************************************************************************)
(* The loops of the code: what `step` makes of a state along the elements  *)
(* of a sequence.                                                          *)
(***************************************************************************)
EXTENDS Integers, Sequences

\* Along the first n elements of seq
AlongTo(step(_, _), s, seq, n) ==
    LET at[i \in 0..n] == IF i = 0 THEN s ELSE step(at[i - 1], seq[i])
    IN at[n]

Along(step(_, _), s, seq) == AlongTo(step, s, seq, Len(seq))
==============================================================================
