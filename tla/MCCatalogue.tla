----------------------------- MODULE MCCatalogue ------------------------------
(* Catalogue with two jobs and two sources that offer the same app.          *)
EXTENDS Catalogue, TLC

CONSTANTS s1, s2, a1

Both == {s1, s2}
OnceNew == [u \in Both |-> IF u = s1 THEN 2 ELSE 1]
SecondHollow == [u \in Both |-> IF u = s1 THEN {2} ELSE {}]
SameApp == [u \in Both |-> {a1}]
SomeLists == {<<s1>>, <<s2, s1>>}
=============================================================================
