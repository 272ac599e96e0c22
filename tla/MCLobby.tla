------------------------------ MODULE MCLobby ------------------------------
EXTENDS Lobby

CONSTANTS ann, Ann

\* One account has two spellings: the users table compares without case.
MCAccountOf == [n \in Name |-> IF n = Ann THEN ann ELSE n]

\* No definition of Lobby tells one connection from another, nor one account
\* with a single spelling from another.
Symmetry == Permutations(Conn) \cup Permutations(Name \ {ann, Ann})
=============================================================================
