----------------------------- MODULE MCSession -----------------------------
(* An instance of Session small enough to explore exhaustively. *)
EXTENDS Session

\* Sessions and keys are interchangeable; addresses are taken in their order.
Symmetry == Permutations(Session) \cup Permutations(Slot)
=============================================================================
