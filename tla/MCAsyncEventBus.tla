-------------------------- MODULE MCAsyncEventBus --------------------------
(* An instance of AsyncEventBus small enough to explore exhaustively; its   *)
(* run checks liveness, so it uses no symmetry.                             *)
EXTENDS AsyncEventBus
=============================================================================
