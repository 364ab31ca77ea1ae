------------------------- MODULE MCDecisionRequest -------------------------
(* Instances of DecisionRequest for TLC.                                    *)
EXTENDS DecisionRequest, TLC
=============================================================================
