------------------------------ MODULE MCServer ------------------------------
(***************************************************************************)
(* Server on small instances. Workers and clients are interchangeable: Init *)
(* and Next mention no particular one.                                     *)
(***************************************************************************)
EXTENDS Server, TLC

WorkersAndClients == Permutations(Threads) \cup Permutations(Conns)
=============================================================================
