----------------------------- MODULE MCPlanLane -----------------------------
\* The plan lane with small constants; the .cfg files give the values.
EXTENDS PlanLane
=============================================================================
