------------------------------- MODULE MCBundle -------------------------------
(***************************************************************************)
(* Small instances of Bundle for TLC.                                      *)
(***************************************************************************)
EXTENDS Bundle

CONSTANTS h1, f1, f2, e1, t1, l1, s1

MCLinkTo == [l \in Links |-> f1]
=============================================================================
