------------------------------ MODULE MC_Voting ------------------------------
EXTENDS Voting, TLC
CONSTANTS u1, u2, u3, s1, s2, t1, r1, r2
MCAuthor == [t \in Topic |-> u3]
MCOwnIdentity == s1 :> {u1, u2} @@ s2 :> {u3}
Requests == Permutations(Request)
=============================================================================
