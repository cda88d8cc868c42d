----------------------------- MODULE MCTemplate -----------------------------
(* Instances of Template for TLC.                                          *)
EXTENDS Template
=============================================================================
