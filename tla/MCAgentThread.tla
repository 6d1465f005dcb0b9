--------------------------- MODULE MCAgentThread ---------------------------
(* Small instances of AgentThread.                                         *)
EXTENDS AgentThread, TLC

CONSTANTS r1, r2, r3, c1, c2, s0, s1

\* Every request brings a message, asks for no schema and changes no setting.
PlainSchemas == [r \in Requests |-> NoSchema]
PlainSettings == [r \in Requests |-> NoConfig]
HostSymmetry == Permutations(Requests) \cup Permutations(Closers)

\* r1 brings settings; r2 asks for a schema of its own.
OneSchema == [r \in Requests |-> IF r = r2 THEN "schema" ELSE NoSchema]
OneSetting == [r \in Requests |-> IF r = r1 THEN s1 ELSE NoConfig]
=============================================================================
