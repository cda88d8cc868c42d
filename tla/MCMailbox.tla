------------------------------ MODULE MCMailbox ------------------------------
(* Instances of Mailbox for TLC.                                           *)
EXTENDS Mailbox

\* The main thread creates the other one, which then takes a step of its own.
MCMaxOps == [t \in Threads |-> IF t = Main THEN 2 ELSE 1]
=============================================================================
