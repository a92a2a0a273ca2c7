--------------------------- MODULE MCSubscription ---------------------------
(* The instance of Subscription for TLC: two scripts, two calls at once    *)
(* and three handlers somebody still points to.                              *)
EXTENDS Subscription, TLC

CONSTANTS q1, q2, x, y, h1, h2, h3

MCCall == {q1, q2}
MCScript == {x, y}
MCHandler == {h1, h2, h3}

Symmetry == Permutations(MCCall) \cup Permutations(MCScript) \cup Permutations(MCHandler)
=============================================================================
