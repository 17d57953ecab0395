--------------------------- MODULE MCTextConvergence ---------------------------
(***************************************************************************)
(* TextConvergence on a small instance.                                    *)
(***************************************************************************)
EXTENDS TextConvergence, TLC

\* Which letter is which does not matter.
Letters == Permutations(Alphabet)

\* Two writers, each of whom can chain, undo or replace, and reads what the
\* other writes in every order.
MCQuota == (1 :> 2) @@ (2 :> 2)
================================================================================
