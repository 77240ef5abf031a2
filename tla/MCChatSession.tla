--------------------------- MODULE MCChatSession ----------------------------
(* Small instances of ChatSession for TLC.                                 *)
EXTENDS ChatSession, TLC

\* Nothing distinguishes two clients, two accounts or two workers.
Symmetry == Permutations(Conns) \cup Permutations(Names)
              \cup Permutations(Workers)
=============================================================================
