-------------------------- MODULE MCCircuitBreaker --------------------------
(* CircuitBreaker for TLC: calls are model values, interchangeable within    *)
(* their kind, so the safety runs use them up to permutation.                *)
EXTENDS CircuitBreaker, TLC

Symmetry == Permutations(RouterCalls) \cup Permutations(TaskCalls)

=============================================================================
