---------------------------- MODULE MCDashboard ----------------------------
(* A session of the dashboard with two conversations.                      *)
EXTENDS Dashboard, TLC

\* Ids and prompts are only compared, and the properties are invariants.
MCSymmetry == Permutations(Conversations) \cup Permutations(Prompts)

=============================================================================
