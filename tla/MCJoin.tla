------------------------------- MODULE MCJoin -------------------------------
(* Instances of Join for TLC.                                              *)
EXTENDS Join

CONSTANTS main, t1, t2

MCThreads == {main, t1, t2}

\* The main thread joins both others, or one of them does.
MCJoins ==
  { [t \in MCThreads |-> IF t = main THEN <<t1, t2>> ELSE <<>>],
    [t \in MCThreads |-> CASE t = main -> <<t1>> [] t = t1 -> <<t2>> [] OTHER -> <<>>],
    [t \in MCThreads |-> IF t = main THEN <<t1>> ELSE <<>>] }
=============================================================================
