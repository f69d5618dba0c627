--------------------------- MODULE MCBrowserPool ---------------------------
(* The pool on small instances.  Requests, replaceInst goroutines and        *)
(* browser pointers are interchangeable: nothing in the code orders them.    *)
EXTENDS BrowserPool, TLC

CONSTANTS j1, j2, r1, r2, b1, b2, b3, b4, nil

OneJob == {j1}
TwoJobs == {j1, j2}

OneReplacer == {r1}
TwoReplacers == {r1, r2}

OneInst == {b1}
TwoInst == {b1, b2}
FourInst == {b1, b2, b3, b4}

Symmetry == Permutations(Jobs) \cup Permutations(Replacers) \cup Permutations(Inst)

=============================================================================
