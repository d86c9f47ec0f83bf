----------------------------- MODULE MCConsent -----------------------------
(* Consent on a small instance: two links of one order, a credential with  *)
(* an attestation and one without.                                         *)
EXTENDS Consent, TLC

CONSTANTS l1, l2, cAttested, cPlain, w1, w2

WorkerSymmetry == Permutations(Workers) \cup Permutations(Links)
=============================================================================
