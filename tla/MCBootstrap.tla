---------------------------- MODULE MCBootstrap -----------------------------
(* Small instances of Bootstrap; instances and names are interchangeable.  *)
EXTENDS Bootstrap, TLC

BootSymmetry == Permutations(Instances) \cup Permutations(Names)
=============================================================================
