-------------------------- MODULE MCKeycloakAdmin --------------------------
(* A small instance of KeycloakAdmin: one call of any operation beside one  *)
(* call that links an identity.                                             *)
EXTENDS KeycloakAdmin

CONSTANTS any, link

MCOperationsOf == [c \in {any, link} |-> IF c = any THEN Operations ELSE {Link}]
MCPermissions == {Null, {"users:write", "federated-identity:read", "federated-identity:write"}}
=============================================================================
