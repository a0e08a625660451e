----------------------------- MODULE MCSessions -----------------------------
(* Model values and symmetry for Sessions.                                 *)
EXTENDS Sessions, TLC

CONSTANTS r1, r2, t1, t2, t3, alice, bob

MCRequests == {r1, r2}

(* Nothing in Sessions tells two requests, two tokens or two principals    *)
(* apart.  The run with the liveness property does without it.             *)
Symmetry == Permutations(MCRequests) \cup Permutations({t1, t2, t3})
              \cup Permutations({alice, bob})
=============================================================================
