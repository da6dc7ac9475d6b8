---------------------------- MODULE MCPortRights ----------------------------
\* A port, a space with one name that may die, and a space with two names.
EXTENDS PortRights, TLC

CONSTANTS p1, s1, s2, a, b, c

OnePort == {p1}
TwoSpaces == {s1, s2}
Server == {s1}
ThreeSlots == {<<s1, a>>, <<s2, b>>, <<s2, c>>}
ClientNames == Permutations({b, c})
=============================================================================
