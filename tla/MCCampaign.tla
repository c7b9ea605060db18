----------------------------- MODULE MCCampaign -----------------------------
(***************************************************************************)
(* An instance of Campaign for TLC: two cells, of two runners.             *)
(***************************************************************************)
EXTENDS Campaign

CONSTANTS c1, c2

MCPlan == <<c1, c2>>
MCScript == [c \in Cell |-> IF c = c1 THEN "aiob" ELSE "dsbench"]
=============================================================================
