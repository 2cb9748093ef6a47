---------------------------- MODULE MCJwksCache -----------------------------
(* Small instances of JwksCache for TLC.                                   *)
EXTENDS JwksCache
=============================================================================
