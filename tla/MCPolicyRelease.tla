-------------------------- MODULE MCPolicyRelease --------------------------
(* PolicyRelease as the TLC configurations instantiate it. *)
EXTENDS PolicyRelease, TLC
CONSTANTS a1, a2, c1, c2, reader

\* Requests do the same things: they may be exchanged.
WriterSymmetry == Permutations(Writers)

\* One role that everybody has and imports c1.
ForReader == [r \in {reader} |-> [a \in {Star} |-> {c1}]]

\* The same, but for a1, which is restricted to nothing.
NotForA1 == [r \in {reader} |-> [a \in {Star, a1} |-> IF a = a1 THEN {} ELSE {c1}]]

\* Two roles that import different capabilities.
TwoRoles ==
    [r \in {reader, Default} |-> [a \in {Star} |-> IF r = reader THEN {c1} ELSE {c2}]]

AllBindings == {NoRoles, ForReader, NotForA1, TwoRoles}
=============================================================================
