-------------------------- MODULE MCSessionManager --------------------------
(* Instances of SessionManager for TLC. *)
EXTENDS SessionManager, TLC

\* Session ids and processes are interchangeable.
Symmetry == Permutations(Ids) \union Permutations(Pids)
=============================================================================
