----------------------------- MODULE MCAppServer -----------------------------
(* Values of the constants of AppServer for TLC.                            *)
EXTENDS AppServer, TLC

CONSTANTS c1, c2, t1, config

Profile(key, access, conn, kind) ==
    [key |-> key, access |-> access, conn |-> conn, kind |-> kind]

\* Requests that meet in a queue, from two connections.
QueueProfiles ==
    {Profile(config, access, c, "other") : access \in {"exclusive", "read"}, c \in {c1, c2}}
    \cup {Profile(config, "exclusive", c, "inventory") : c \in {c1, c2}}
    \cup {Profile(NoKey, "exclusive", c, "other") : c \in {c1, c2}}

MCSymmetry == Permutations(Connections)

\* Requests that change turns, from one connection.
TurnProfiles == {Profile(t1, "exclusive", c1, kind) : kind \in {"turn", "settings"}}
==============================================================================
