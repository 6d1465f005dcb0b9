----------------------------- MODULE MCToolBatch -----------------------------
(* Values of the constants of ToolBatch for TLC: two calls that name two    *)
(* resources in opposite orders, the first of which runs an agent, and a    *)
(* third that runs alone.                                                   *)
EXTENDS ToolBatch

MCClaims == << <<1, 2>>, <<2, 1>>, << >> >>
MCFates  == << {"guardrail", "cancelled"}, {"panicked"}, {} >>
MCWrites == << {1, 2}, {1}, {} >>
==============================================================================
