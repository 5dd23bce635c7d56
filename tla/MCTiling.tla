------------------------------ MODULE MCTiling ------------------------------
(* ShardPlan on short regions and small plan arguments.                    *)
EXTENDS ShardPlan
=============================================================================
