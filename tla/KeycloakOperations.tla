------------------------- MODULE KeycloakOperations -------------------------
(***************************************************************************)
(* The operations of the resource services of the Keycloak admin client:   *)
(* for each one the scopes it requires and the call of the external        *)
(* client it makes.                                                        *)
(***************************************************************************)
Op(scope, call) == [scopes |-> {scope}, call |-> call]

UserOperations == [
  List          |-> Op("users:read", "users.find"),
  Get           |-> Op("users:read", "users.findOne"),
  Create        |-> Op("users:write", "users.create"),
  Update        |-> Op("users:write", "users.update"),
  Delete        |-> Op("users:write", "users.del"),
  ResetPassword |-> Op("users:write", "users.resetPassword")]

UserRoleOperations == [
  AddRealmRoles     |-> Op("users:write", "users.addRealmRoleMappings"),
  GetRealmRoles     |-> Op("users:read", "users.listRealmRoleMappings"),
  DeleteRealmRoles  |-> Op("users:write", "users.delRealmRoleMappings"),
  AddClientRoles    |-> Op("users:write", "users.addClientRoleMappings"),
  GetClientRoles    |-> Op("users:read", "users.listClientRoleMappings"),
  DeleteClientRoles |-> Op("users:write", "users.delClientRoleMappings"),
  FindByFederatedIdentity |-> Op("users:read", "users.find")]

ClientOperations == [
  List           |-> Op("clients:read", "clients.find"),
  Get            |-> Op("clients:read", "clients.findOne"),
  FindByClientId |-> Op("clients:read", "clients.find"),
  Create         |-> Op("clients:write", "clients.create"),
  Update         |-> Op("clients:write", "clients.update"),
  Delete         |-> Op("clients:write", "clients.del"),
  GetSecret      |-> Op("clients:read", "clients.getClientSecret")]

ClientRoleOperations == [
  CreateProtocolMapper |-> Op("clients:write", "clients.addProtocolMapper"),
  ListProtocolMappers  |-> Op("clients:read", "clients.listProtocolMappers"),
  DeleteProtocolMapper |-> Op("clients:write", "clients.delProtocolMapper"),
  CreateRole           |-> Op("clients:write", "clients.createRole"),
  ListRoles            |-> Op("clients:read", "clients.listRoles"),
  FindRole             |-> Op("clients:read", "clients.findRole"),
  DeleteRole           |-> Op("clients:write", "clients.delRole")]

GroupOperations == [
  List         |-> Op("groups:read", "groups.find"),
  Get          |-> Op("groups:read", "groups.findOne"),
  Create       |-> Op("groups:write", "groups.create"),
  Update       |-> Op("groups:write", "groups.update"),
  Delete       |-> Op("groups:write", "groups.del"),
  AddMember    |-> Op("groups:write", "users.addToGroup"),
  RemoveMember |-> Op("groups:write", "users.delFromGroup")]

RoleOperations == [
  ListRealm  |-> Op("roles:read", "roles.find"),
  ListClient |-> Op("roles:read", "clients.listRoles"),
  GetByName  |-> Op("roles:read", "roles.findOneByName"),
  Create     |-> Op("roles:write", "roles.create"),
  Update     |-> Op("roles:write", "roles.updateByName"),
  Delete     |-> Op("roles:write", "roles.delByName")]

RealmOperations == [
  List   |-> Op("realms:read", "realms.find"),
  Get    |-> Op("realms:read", "realms.findOne"),
  Create |-> Op("realms:write", "realms.create"),
  Update |-> Op("realms:write", "realms.update"),
  Delete |-> Op("realms:write", "realms.del")]

IdentityProviderOperations == [
  List   |-> Op("identity-providers:read", "identityProviders.find"),
  Get    |-> Op("identity-providers:read", "identityProviders.findOne"),
  Create |-> Op("identity-providers:write", "identityProviders.create"),
  Update |-> Op("identity-providers:write", "identityProviders.update"),
  Delete |-> Op("identity-providers:write", "identityProviders.del")]

AuthenticationOperations == [
  GetFlows        |-> Op("authentication:read", "authenticationManagement.getFlows"),
  GetFlow         |-> Op("authentication:read", "authenticationManagement.getFlow"),
  CreateFlow      |-> Op("authentication:write", "authenticationManagement.createFlow"),
  DeleteFlow      |-> Op("authentication:write", "authenticationManagement.deleteFlow"),
  GetExecutions   |-> Op("authentication:read", "authenticationManagement.getExecutions"),
  CreateExecution |-> Op("authentication:write", "authenticationManagement.addExecution")]

EventOperations == [
  GetAdminEvents  |-> Op("events:read", "realms.findAdminEvents"),
  GetAccessEvents |-> Op("events:read", "realms.findEvents")]

Link == [scopes |-> {"federated-identity:write", "federated-identity:read"},
         call |-> "users.addToFederatedIdentity"]

\* Mutant of FederatedIdentityOperations: Unlink asks for the scope of List.
FederatedIdentityOperationsLax == [
  List   |-> Op("federated-identity:read", "users.listFederatedIdentities"),
  Link   |-> Link,
  Unlink |-> Op("federated-identity:read", "users.delFromFederatedIdentity")]

FederatedIdentityOperations == [
  List   |-> Op("federated-identity:read", "users.listFederatedIdentities"),
  Link   |-> Link,
  Unlink |-> Op("federated-identity:write", "users.delFromFederatedIdentity")]

\* The services of a KeycloakClient.
Services == {UserOperations, UserRoleOperations, ClientOperations, ClientRoleOperations,
             GroupOperations, RoleOperations, RealmOperations, IdentityProviderOperations,
             AuthenticationOperations, FederatedIdentityOperations, EventOperations}

Operations == UNION {{service[o] : o \in DOMAIN service} : service \in Services}

\* The calls with a GET behind them.
ReadCalls == {
  "users.find", "users.findOne", "users.listRealmRoleMappings", "users.listClientRoleMappings",
  "users.listFederatedIdentities", "clients.find", "clients.findOne", "clients.getClientSecret",
  "clients.listProtocolMappers", "clients.listRoles", "clients.findRole", "groups.find",
  "groups.findOne", "roles.find", "roles.findOneByName", "realms.find", "realms.findOne",
  "realms.findAdminEvents", "realms.findEvents", "identityProviders.find",
  "identityProviders.findOne", "authenticationManagement.getFlows",
  "authenticationManagement.getFlow", "authenticationManagement.getExecutions"}

KEYCLOAK_DEFAULT_SCOPES == {"users:read", "roles:read", "groups:read",
  "federated-identity:read", "events:read", "clients:read", "realms:read",
  "identity-providers:read", "authentication:read"}

WriteScopes == {"users:write", "roles:write", "groups:write", "federated-identity:write",
  "clients:write", "realms:write", "identity-providers:write", "authentication:write"}

KEYCLOAK_ALL_SCOPES == KEYCLOAK_DEFAULT_SCOPES \cup WriteScopes
=============================================================================
