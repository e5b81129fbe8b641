-------------------------- MODULE MCFlameTokens ----------------------------
(* A small instance of FlameTokens for TLC.                                *)
EXTENDS FlameTokens, TLC

Symmetry == Permutations(Requests)

(* No scope, and a scope that is narrower than another.                    *)
Both == {"read", "write"}
MCScopes == {{}, {"read"}, Both}

(* A confidential client with every grant, and a public one without        *)
(* refresh tokens.                                                         *)
MCRegistered == [web |-> {"u1", "u2"}, app |-> {"u1"}]
MCPermitted == [web |-> Grants, app |-> {"password", "code"}]

MCLifespan == [access |-> 1, refresh |-> 1, code |-> 1]

(* What a grant to web has left at time 0.                                 *)
Granted(type, scope, uri, expires) ==
  [type |-> type, scope |-> scope, uri |-> uri, expires |-> expires,
   client |-> "web", owner |-> "o1",
   grant |-> [id |-> 1, client |-> "web", owner |-> "o1", scope |-> scope,
              uri |-> uri]]

Pair(scope) == <<Granted("access", scope, None, 0), Granted("refresh", scope, None, 1)>>
Code == <<Granted("code", Both, "u1", 0)>>

(* From nothing; a refresh token that is exchanged or revoked, and an      *)
(* access token that is used; an owner who approves with an access token;  *)
(* and a code.                                                             *)
MCSetups ==
  {[tokens |-> <<>>, next |-> 1, calls |-> 2, asked |-> MCScopes,
    kinds |-> {"password", "credentials", "authorize"}],
   [tokens |-> Pair(Both), next |-> 3, calls |-> 3, asked |-> {{"read"}},
    kinds |-> {"refresh", "revoke"}],
   [tokens |-> Pair({"read"}), next |-> 3, calls |-> 2, asked |-> MCScopes,
    kinds |-> {"authorize", "introspect", "refresh", "revoke"}],
   [tokens |-> Pair({"read"}), next |-> 3, calls |-> 2, asked |-> {{}, {"read"}},
    kinds |-> {"approve", "implicit", "code"}],
   [tokens |-> Code, next |-> 2, calls |-> 3, asked |-> {{"read"}},
    kinds |-> {"code", "refresh"}]}
=============================================================================
