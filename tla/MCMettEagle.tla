----------------------------- MODULE MCMettEagle -----------------------------
(* MettEagle with two clients; the one in detail has one action.           *)
EXTENDS MettEagle

CONSTANTS c1, c2, a1, short, long

MCClient == {c1, c2}
MCCpu == {0, 1}
MCName == {a1}
MCValue == {short, long}
MCLong == {long}
=============================================================================
