---------------------------- MODULE MC_Sessions ----------------------------
(* Small instances of Sessions. *)
EXTENDS Sessions, TLC

CONSTANTS s1, s2, i1, i2, i3, ann, bob, x, y

\* Two browsers with ids of their own that want the same names; a suffixed
\* name is one of x and y.
MCSuffixed == [n \in Name |-> {x, y} \ {n}]
MCSubmitted ==
  [s \in Session |->
     IF s = s1 THEN {[id |-> i1, name |-> ann], [id |-> i2, name |-> bob]}
     ELSE {[id |-> i3, name |-> ann]}]
Suffixes == Permutations({x, y})
=============================================================================
