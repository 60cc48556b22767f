------------------------------ MODULE MCNativeSync ------------------------------
(* Two devices, one or two notes. Write ids are pairs of a device and a counter.  *)
EXTENDS NativeSync, TLC

MCMutationId == Client \X (1 .. MaxWrites)
MCEnvelope == {seen \cup {w} : seen \in SUBSET MCMutationId, w \in MCMutationId}
MCRevision == 0 .. Cardinality(MCMutationId)
MCSymmetry == Permutations(Client) \cup Permutations(Object)
================================================================================
