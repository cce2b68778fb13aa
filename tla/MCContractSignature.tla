------------------------- MODULE MCContractSignature -------------------------
(* Instances of ContractSignature for TLC. *)
EXTENDS ContractSignature, TLC

\* Handlers, replicas, contracts and requests are only compared: any permutation of
\* them maps behaviours to behaviours (safety runs only).
Symmetry ==
    Permutations(Requests) \cup Permutations(Replicas)
    \cup Permutations(Contracts) \cup Permutations(SignatureRequests)

=============================================================================
