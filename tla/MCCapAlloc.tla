----------------------------- MODULE MCCapAlloc -----------------------------
(* CapAlloc with threads and smart capabilities as model values.           *)
EXTENDS CapAlloc

CONSTANTS t1, t2, h1, h2, h3

MCThread == {t1, t2}
ThreeHandles == {h1, h2, h3}
=============================================================================
