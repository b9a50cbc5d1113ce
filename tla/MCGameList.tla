------------------------------ MODULE MCGameList ------------------------------
(* GameList on small instances.  Hosts are model values.                   *)
EXTENDS GameList, TLC

HostSymmetry == Permutations(Hosts)
===============================================================================
