-------------------------------- MODULE Sums --------------------------------
(***************************************************************************)
(* What SELECT sum(...) and a loop that adds up compute: over the rows of  *)
(* a table in the order of their ids, or over the elements of a finite     *)
(* set.  By recursion on the rows or on the set, so that the proofs can    *)
(* follow a table that grows or a row that changes.                        *)
(***************************************************************************)
EXTENDS Integers

\* f[1] + ... + f[n]
SumTo(f, n) ==
  LET s[i \in 0..n] == IF i = 0 THEN 0 ELSE s[i - 1] + f[i]
  IN  s[n]

\* The sum of qty[b] for the b of 1..n that are in S.
SumOver(qty, S, n) == SumTo([b \in 1..n |-> IF b \in S THEN qty[b] ELSE 0], n)

AnyOf(S) == CHOOSE x \in S : TRUE

\* The sum of f[x] for the x of the finite set S.
SumIn(f, S) ==
  LET s[T \in SUBSET S] == IF T = {} THEN 0 ELSE f[AnyOf(T)] + s[T \ {AnyOf(T)}]
  IN  s[S]
=============================================================================
