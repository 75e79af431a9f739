--------------------------- MODULE MCResearchRun ---------------------------
(* Instances of ResearchRun for TLC: every run belongs to the same user, so *)
(* that the index of active runs per owner is exercised.  Roles, and the    *)
(* requests of users, are interchangeable in the runs that check safety.    *)
EXTENDS ResearchRunInv, TLC

MCOneOwner == [r \in Runs |-> CHOOSE u \in Owners : TRUE]

MCAlike == Permutations(Roles) \cup Permutations(Requests)
=============================================================================
