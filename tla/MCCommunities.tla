---------------------------- MODULE MCCommunities ----------------------------
EXTENDS Communities, TLC

\* Two names, as "tla+" and "tla", that give one slug.
OneSlug == [n \in Names |-> "tla"]
Symmetry == Permutations(Requests) \cup Permutations(Ids) \cup Permutations(Names) \cup Permutations(Users)
==============================================================================
