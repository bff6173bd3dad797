----------------------------- MODULE MCPiperPool ----------------------------
(* Requests and symmetry for the runs of PiperPool.                        *)
EXTENDS PiperPool, TLC

CONSTANTS t1, t2, t3, t4, m1, m2

\* Three requests for one model and one for another.
MCModelOf == [t \in {t1, t2, t3, t4} |-> IF t = t4 THEN m2 ELSE m1]

\* Threads with the same model are interchangeable, and so are addresses.
Symmetry == {p \in Permutations(Threads \cup Synths) :
               /\ \A t \in Threads : p[t] \in Threads
               /\ p[t4] = t4}

=============================================================================
