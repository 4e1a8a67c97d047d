------------------------------ MODULE Iteration ------------------------------
(* Loops over a state that TLC computes step by step: FoldLeft hands every    *)
(* step the unevaluated rest of the fold, which for the states and the lengths*)
(* of the searches here is too deep.                                          *)
EXTENDS Integers, Sequences, TLC

\* The same function: TLC evaluates it here and not at every application.
Computed(function) == function @@ <<>>

\* Op(... Op(Op(start, 1), 2) ..., count); the element of a set is evaluated before Op.
Iterate(Op(_, _), start, count) ==
    LET after[i \in 0..count] ==
            IF i = 0 THEN start ELSE CHOOSE next \in {Op(s, i) : s \in {after[i - 1]}} : TRUE
    IN after[count]

IterateOver(Op(_, _), start, seq) == Iterate(LAMBDA s, i : Op(s, seq[i]), start, Len(seq))
=============================================================================
