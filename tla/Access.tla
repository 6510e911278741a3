------------------------------- MODULE Access -------------------------------
(***************************************************************************)
(* The middlewares every API request passes before its handler: the router *)
(* key gate (internal/auth/router_key.go) and the role of the caller       *)
(* (internal/auth/middleware.go, jwt.go), with the two tables they read on *)
(* each request (internal/metadata/security_repo.go) while the admin API   *)
(* changes them (internal/adminapi/handler.go).                            *)
(*                                                                         *)
(* The gate is two statements, and the tables may change in between.  What *)
(* a request carries is chosen where it is first read.  The text of keys,  *)
(* secrets and tokens is left out: a token is who signed it and what it    *)
(* claims.  Each statement may fail.                                       *)
(***************************************************************************)
EXTENDS Naturals, FiniteSets

CONSTANTS
  Requests,     (* requests that may be under way at a time                *)
  Keys,         (* router keys                                             *)
  OldKeys,      (* those the table holds, active, when the gateway starts  *)
  Secrets,      (* JWT secrets of the table                                *)
  ConfigSecret, (* auth.jwt_secret of config.yaml, or None                 *)
  Tokens,       (* the tokens clients have                                 *)
  Roles, DefaultRole,
  None

Rows == {"absent", "active", "inactive"}
Token ==
  [signer : {None} \union Secrets \union {ConfigSecret},   (* None: not valid at all *)
   role : {None} \union Roles,                             (* the role claim         *)
   allowed : SUBSET Roles]                                 (* the allowed_roles      *)

ASSUME AccessAssumption ==
  /\ OldKeys \subseteq Keys
  /\ DefaultRole \in Roles
  /\ Tokens \subseteq Token
  /\ None \notin Keys /\ None \notin Secrets /\ None \notin Roles /\ None \notin Tokens

VARIABLES
  routerKeys,  (* router_keys: whether a key has a row and is active       *)
  jwtSecrets,  (* jwt_secrets, likewise                                    *)
  caller,      (* where a request is, and what is known of its caller;
                  as history, the secrets in force when its role was
                  settled, and whether they could not be read             *)
  admitted     (* history: at some moment since the gate began its check   *)
               (* the table would have let the request pass               *)

accessVars == <<routerKeys, jwtSecrets, caller, admitted>>

-----------------------------------------------------------------------------
Active(table) == {k \in DOMAIN table : table[k] = "active"}

(* AddRouterKey, AddJWTSecret: the row is new, a name that is taken fails. *)
Insert(table, k) == [table EXCEPT ![k] = IF @ = "absent" THEN "active" ELSE @]

(* DeactivateRouterKey, DeactivateJWTSecret: no row, no change.            *)
Deactivate(table, k) == [table EXCEPT ![k] = IF @ = "absent" THEN @ ELSE "inactive"]

(* Any row counts, active or not.                                          *)
ValidateAnyRow(key) == routerKeys[key] # "absent"

ValidateRouterKey(key) == routerKeys[key] = "active"

(* The secrets a request is checked with: those of the table if it has any *)
(* and the read did not fail, otherwise the configured one.  The loader    *)
(* has no error to return (middleware.go:28): a read that failed looks     *)
(* like an empty table.                                                    *)
ActiveSecrets(failed) ==
  IF ~failed /\ Active(jwtSecrets) # {} THEN Active(jwtSecrets)
  ELSE {ConfigSecret} \ {None}

(* ParseBearer with each secret in turn.                                   *)
Verifies(token, secrets) == token # None /\ token.signer \in secrets

(* The header's role whatever the token says of it.                        *)
RoleByHeader(token, header, secrets) ==
  IF header # None THEN header
  ELSE IF Verifies(token, secrets) /\ token.role # None THEN token.role
  ELSE DefaultRole

(* resolveRole: a valid token's role, or the header's where the token or   *)
(* the lack of any secret allows it, or the default.                       *)
ResolveRole(token, header, secrets) ==
  IF Verifies(token, secrets)
  THEN IF header \in token.allowed THEN header
       ELSE IF token.role # None THEN token.role ELSE DefaultRole
  ELSE IF header # None /\ secrets = {} THEN header
  ELSE DefaultRole

-----------------------------------------------------------------------------
Nobody ==
  [stage |-> "idle", key |-> None, token |-> None, header |-> None,
   inForce |-> {}, unread |-> FALSE, role |-> None]

Caller ==
  [stage : {"idle", "key", "role", "ready", "handler"},
   key : {None} \union Keys, token : {None} \union Tokens,
   header : {None} \union Roles,
   inForce : SUBSET (Secrets \union ({ConfigSecret} \ {None})), unread : BOOLEAN,
   role : {None} \union Roles]

AccessTypeOK ==
  /\ routerKeys \in [Keys -> Rows]
  /\ jwtSecrets \in [Secrets -> Rows]
  /\ caller \in [Requests -> Caller]
  /\ admitted \in [Requests -> BOOLEAN]
  /\ \A r \in Requests : caller[r].stage \in {"ready", "handler"} => caller[r].role \in Roles

AccessInit ==
  /\ routerKeys = [k \in Keys |-> IF k \in OldKeys THEN "active" ELSE "absent"]
  /\ jwtSecrets = [s \in Secrets |-> "absent"]
  /\ caller = [r \in Requests |-> Nobody]
  /\ admitted = [r \in Requests |-> FALSE]

(* What a gate that looked at the table once would say.                    *)
WouldAdmit(keys, key) == Active(keys) = {} \/ (key # None /\ keys[key] = "active")

Refuse(r) ==
  /\ caller' = [caller EXCEPT ![r] = Nobody]
  /\ admitted' = [admitted EXCEPT ![r] = FALSE]

Admit(r, by) ==
  /\ caller' = [caller EXCEPT ![r] = [Nobody EXCEPT !.stage = "role"]]
  /\ admitted' = [admitted EXCEPT ![r] = by]

(* HasActiveRouterKeys: without an active key, or when the statement       *)
(* fails, every request passes; otherwise it needs a key.                  *)
CheckKeys(r, key) ==
  /\ caller[r].stage = "idle"
  /\ \/ Admit(r, TRUE)     (* the statement failed: open by the code's choice *)
     \/ Active(routerKeys) = {} /\ Admit(r, TRUE)
     \/ /\ Active(routerKeys) # {} /\ key # None
        /\ caller' = [caller EXCEPT ![r] = [Nobody EXCEPT !.stage = "key", !.key = key]]
        /\ admitted' = [admitted EXCEPT ![r] = WouldAdmit(routerKeys, key)]
  /\ UNCHANGED <<routerKeys, jwtSecrets>>

(* ValidateRouterKey: a second statement; its failure is a refusal.        *)
ValidateKey(r) ==
  /\ caller[r].stage = "key"
  /\ \/ ValidateRouterKey(caller[r].key) /\ Admit(r, admitted[r])
     \/ Refuse(r)
  /\ UNCHANGED <<routerKeys, jwtSecrets>>

(* The JWT middleware: the role is settled for the whole request.          *)
SetRole(r, token, header, failed) ==
  /\ caller[r].stage = "role"
  /\ caller' = [caller EXCEPT ![r] =
       [stage |-> "ready", key |-> None, token |-> token, header |-> header,
        inForce |-> ActiveSecrets(FALSE), unread |-> failed,
        role |-> ResolveRole(token, header, ActiveSecrets(failed))]]
  /\ admitted' = [admitted EXCEPT ![r] = FALSE]
  /\ UNCHANGED <<routerKeys, jwtSecrets>>
=============================================================================
