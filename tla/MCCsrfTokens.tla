---------------------------- MODULE MCCsrfTokens ----------------------------
(* Small instances of CsrfTokens for TLC.                                  *)
EXTENDS CsrfTokens, TLC

\* Requests and addresses are interchangeable.
Symmetry == Permutations(Requests) \cup Permutations(Ips)
=============================================================================
