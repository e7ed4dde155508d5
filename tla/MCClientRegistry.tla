-------------------------- MODULE MCClientRegistry --------------------------
(* ClientRegistry with clients as model values.                            *)
EXTENDS ClientRegistry

CONSTANTS c1, c2, c3

TwoClients == {c1, c2}
ThreeClients == {c1, c2, c3}
TwoCpus == {0, 1}
ThreeCpus == {0, 1, 2}
=============================================================================
