----------------------------- MODULE MCAgentTree -----------------------------
(* Instances of AgentTree for TLC: agents at /root/a, /root/a/b, /root/c.    *)
EXTENDS AgentTree

CONSTANTS a1, a2, b1, c1

\* Two incarnations of /root/a, a child of it, and a sibling.
MCPathOf ==
    [n \in All |-> CASE n = Root -> <<>>
                     [] n = b1 -> <<"a", "b">>
                     [] n = c1 -> <<"c">>
                     [] OTHER -> <<"a">>]

MCDepthFirst ==
    LET Used(p) == p \in Paths IN SelectSeq(<<<<"a">>, <<"a", "b">>, <<"c">>>>, Used)

\* The host's calls, and two agents at one path, are interchangeable.
MCSymmetry ==
    Permutations(Closers) \cup Permutations(Stoppers) \cup Permutations({a1, a2} \cap Nodes)
=============================================================================
