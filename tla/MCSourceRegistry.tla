-------------------------- MODULE MCSourceRegistry --------------------------
(* An instance of SourceRegistry: two spellings of the seeded environment, *)
(* and another.                                                            *)
EXTENDS SourceRegistry, TLC

MCEnvNames == {"Default", "default", "lab"}
MCLower == [e \in MCEnvNames |-> IF e = "lab" THEN "lab" ELSE "default"]
MCNames == {"asa"}
Requests == Permutations(Threads)
=============================================================================
