--------------------------- MODULE MCMarketplace ---------------------------
(* Marketplace with two threads and two versions, and the readiness of small   *)
(* manifests: two secrets whose names share a variable, one that does not.     *)
EXTENDS Marketplace, PluginReadiness, TLC

Symmetry == Permutations(Threads) \union Permutations(Versions)

MCNormal == [n \in Names |-> IF n \in {"a_b", "a-b"} THEN "A_B" ELSE "C"]

Secret == {NoValue, "x"}

\* two declarations at most
Small == [permissions : SUBSET Permissions, secrets : UNION {[1..k -> Secrets] : k \in 0..2}]

(* What the theorems of MarketplaceProofs say of the list, a save and a run,   *)
(* evaluated on small manifests.                                               *)
ASSUME SmallManifests ==
  /\ ReadyIsAccepted(Small, Secret, 2) /\ AcceptedIsReady(Small, Secret, 2)
  /\ SavingKeepsReadiness(Small, Secret, 2)
  /\ BundledStays({"bundled", "other"}, Versions)
=============================================================================
