-------------------------- MODULE MCSupertonicPool --------------------------
(* Requests of the runs of SupertonicPool.                                 *)
EXTENDS SupertonicPool

CONSTANTS r1, r2, r3, r4, f1, m1, bad

\* Two requests for one style, one for another, one for a style with no file.
MCStyleOf ==
  [r \in {r1, r2, r3, r4} |->
     IF r = r4 THEN bad ELSE IF r = r3 THEN m1 ELSE f1]

=============================================================================
