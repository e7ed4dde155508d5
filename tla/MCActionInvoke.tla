--------------------------- MODULE MCActionInvoke ---------------------------
(* ActionInvoke on a small instance: actions and results are model values. *)
EXTENDS ActionInvoke

CONSTANTS a1, a2, short1, short2, long

MCName == {a1, a2}
MCValue == {short1, short2, long}
MCLong == {long}

(* The smaller instance of the run that is refuted.                        *)
TwoValues == {short1, long}
=============================================================================
