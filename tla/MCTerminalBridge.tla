-------------------------- MODULE MCTerminalBridge --------------------------
(* Instances of TerminalBridge for TLC. *)
EXTENDS TerminalBridge, TLC

\* Sessions, processes and sockets are interchangeable.
Symmetry == Permutations(Ids) \union Permutations(Pids) \union Permutations(Socks)
=============================================================================
