---------------------------- MODULE MCWhetServer ----------------------------
(* WhetServer, with the symmetries that its safety runs use. *)
EXTENDS WhetServer, TLC

Symmetry ==
  Permutations(Name) \cup Permutations(Call) \cup Permutations(Dial)
    \cup Permutations(Closer) \cup Permutations(Acceptor)
=============================================================================
