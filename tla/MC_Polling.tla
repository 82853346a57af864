----------------------------- MODULE MC_Polling -----------------------------
EXTENDS BrowserPolling, TLC
CONSTANTS p1, p2, l1, l2, l3, m1, m2
Objects == Permutations(Listener) \cup Permutations(Poll) \cup Permutations(Message)
=============================================================================
