--------------------------- MODULE MCSessionServer ----------------------------
(***************************************************************************)
(* Instances of SessionServer: two connections, one or two Sessions.       *)
(***************************************************************************)
EXTENDS SessionServer

CONSTANTS c1, c2, s1, s2

Symmetry == Permutations(Clients) \cup Permutations(Sessions)

=============================================================================
