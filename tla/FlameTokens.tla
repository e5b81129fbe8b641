---------------------------- MODULE FlameTokens ----------------------------
(***************************************************************************)
(* Access tokens, refresh tokens and authorization codes: the authenticator*)
(* of flame/authenticator.go with the models and the policy of flame and   *)
(* the signatures of heat/jwt.go.                                          *)
(*                                                                         *)
(* Every request is an actor that reads and writes clients, resource owners*)
(* and tokens one document at a time, without a transaction.  It may fail  *)
(* between any two steps: a store call fails, TokensIssued fails, the      *)
(* process crashes or the response is lost.                                *)
(*                                                                         *)
(* The strategies of the policy answer with any scope of Scopes, or reject.*)
(* A request knows only tokens that an answer has carried.  Left out are   *)
(* requests that change nothing whatever they find: a GET of the           *)
(* authorization endpoint, which redirects, and a request without a token  *)
(* for an authorizer that does not force one, which is passed on.          *)
(***************************************************************************)
EXTENDS Integers

CONSTANTS
  Clients,       \* the clients
  Confidential,  \* the clients that have a secret
  Owners,        \* the resource owners
  None,          \* no client, no owner, no redirect URI
  Scopes,        \* the scopes granted and asked for, sets of names
  URIs,          \* the redirect URIs
  Registered,    \* the URIs that are valid for every client
  Permitted,     \* the grants the policy permits every client
  Lifespan,      \* the lifespan of a token by its type
  Second,        \* the length of a second, to which a signature is rounded
  Delay,         \* the age beyond its expiry of a token that is removed
  Requests,      \* the concurrent requests
  Setups,        \* what to begin with: the tokens, the kinds of requests, the
                 \* scopes they ask for and, as a bound, their number
  MaxTokens,     \* bound: the tokens saved
  MaxTime,       \* bound: the time
  MaxFaults      \* bound: requests that fail, clients and owners removed

Types == {"access", "refresh", "code"}
Grants == {"password", "credentials", "implicit", "code", "refresh"}

NoID == 0
Ids == 1..MaxTokens

(* Requests by their kinds, and the steps they are at.                     *)
Approvals == {"implicit", "approve"}
Exchanges == {"refresh", "code"}
Kinds == Approvals \cup Exchanges \cup
           {"authorize", "password", "credentials", "revoke", "introspect"}
Stages == {"idle", "client", "token", "owner", "access", "refresh", "code",
           "delete", "answer", "served"}

(* A decision of the policy, known by the first token issued for it.       *)
Grant == [id : Ids \cup {NoID}, client : Clients \cup {None},
          owner : Owners \cup {None}, scope : Scopes, uri : URIs \cup {None}]

(* A stored token, with the grant it goes back to, and a signed one.       *)
Token == [type : Types, scope : Scopes, expires : Nat, uri : URIs \cup {None},
          client : Clients, owner : Owners \cup {None}, grant : Grant]
Signed == [id : Ids \cup {NoID}, expires : Nat]

OfGrant(t) ==
  /\ t.grant.id \in Ids
  /\ t.client = t.grant.client /\ t.owner = t.grant.owner /\ t.uri = t.grant.uri
  /\ t.scope \subseteq t.grant.scope

ASSUME FlameAssumption ==
  /\ Confidential \subseteq Clients
  /\ None \notin Owners \cup Clients \cup URIs
  /\ {} \in Scopes
  /\ Registered \in [Clients -> SUBSET URIs]
  /\ Permitted \in [Clients -> SUBSET Grants]
  /\ Lifespan \in [Types -> Nat \ {0}]
  /\ Second \in Nat \ {0} /\ Delay \in Nat
  /\ MaxTokens \in Nat /\ MaxTime \in Nat /\ MaxFaults \in Nat

(* What earlier grants have left.                                          *)
ASSUME SetupAssumption ==
  \A s \in Setups :
    /\ s.kinds \subseteq Kinds /\ s.asked \subseteq Scopes /\ s.calls \in Nat
    /\ s.next \in 1..(MaxTokens + 1)
    /\ s.tokens \in [1..(s.next - 1) -> Token]
    /\ \A id \in DOMAIN s.tokens :
         /\ OfGrant(s.tokens[id])
         /\ s.tokens[id].expires <= Lifespan[s.tokens[id].type]

VARIABLES
  setup,     \* what this instance begins with
  calls,     \* the requests that have arrived
  now,       \* the time
  clients,   \* the stored clients
  owners,    \* the stored resource owners
  tokens,    \* the stored tokens by their IDs
  next,      \* the ID of the next token
  known,     \* the signed tokens that answers have carried
  requests,  \* the state of every request
  spent,     \* history: the tokens a successful answer has used up or revoked
  faults     \* history: the faults so far

vars == <<setup, calls, now, clients, owners, tokens, next, known, requests, spent, faults>>

store == <<clients, owners, tokens, next>>
history == <<spent, faults>>
instance == <<setup, calls>>

NoToken == [id |-> NoID, expires |-> 0]
NoGrant == [id |-> NoID, client |-> None, owner |-> None, scope |-> {}, uri |-> None]

-----------------------------------------------------------------------------
(* Requests.  A request has a kind and carries what its kind calls for: the*)
(* client and the valid ones among its credentials, a signed token, a scope*)
(* and a redirect URI.  The authorizer may load the client and the owner.  *)
(* Later the fields hold what the request has read and what it issues.     *)

Blank == [kind |-> "none", stage |-> "idle", client |-> None, owner |-> None,
          token |-> NoToken, scope |-> {}, uri |-> None, load |-> {},
          grant |-> NoGrant, since |-> 0, issued |-> {}, barred |-> FALSE]

Request == [kind : Kinds \cup {"none"}, stage : Stages, client : Clients \cup {None},
            owner : Owners \cup {None}, token : Signed, scope : Scopes,
            uri : URIs \cup {None}, load : SUBSET {"client", "owner"},
            grant : Grant, since : Nat, issued : SUBSET Signed, barred : BOOLEAN]

ClientsOf(kind) == IF kind = "authorize" THEN {None} ELSE Clients
OwnersOf(kind) == IF kind = "password" THEN Owners ELSE {None}
TokensOf(kind) == IF kind \in {"password", "credentials"} THEN {NoToken} ELSE known
ScopesOf(kind) == IF kind \in Exchanges \cup {"authorize"} THEN setup.asked ELSE {{}}
URIsOf(kind) == IF kind \in Approvals \cup {"code"} THEN URIs ELSE {None}
LoadsOf(kind) ==
  IF kind = "authorize" THEN {{}, {"client"}, {"client", "owner"}} ELSE {{}}

(* What may arrive as a request of a kind.                                 *)
Inputs(kind) ==
  {[Blank EXCEPT !.kind = kind, !.client = i.client, !.owner = i.owner,
                 !.token = i.token, !.scope = i.scope, !.uri = i.uri, !.load = i.load] :
     i \in [client : ClientsOf(kind), owner : OwnersOf(kind), token : TokensOf(kind),
            scope : ScopesOf(kind), uri : URIsOf(kind), load : LoadsOf(kind)]}

At(r, stage) == requests[r].stage = stage
Go(r, q) == requests' = [requests EXCEPT ![r] = q]
Refuse(r) == Go(r, Blank)

(* A token is expired when its expiry is before the time; the signature    *)
(* holds both in whole seconds.                                            *)
Expired(t) == t.expires < now
SignatureExpired(t) == t.expires \div Second < now \div Second

Found(q) == q.token.id \in DOMAIN tokens
Stored(q) == tokens[q.token.id]
Usable(q, type) == Found(q) /\ Stored(q).type = type /\ ~Expired(Stored(q))

(* Whether the token of a request is of no use already when it arrives, or *)
(* the client or the owner that it is going to load does not exist.        *)
Barred(q) ==
  \/ q.token.id \in spent
  \/ q.token # NoToken /\ Expired(q.token)
  \/ /\ Found(q)
     /\ \/ "client" \in q.load /\ Stored(q).client \notin clients
        \/ /\ q.kind \in Exchanges \cup Approvals \/ "owner" \in q.load
           /\ Stored(q).owner \notin owners \cup {None}

(* The kinds of requests that may arrive.                                  *)
Arriving(r) == IF At(r, "idle") /\ calls < setup.calls THEN setup.kinds ELSE {}

(* A request arrives that is not refused at once.                          *)
Arrive(r, q) ==
  /\ calls' = calls + 1
  /\ Go(r, [q EXCEPT !.barred = Barred(q)])
  /\ UNCHANGED <<setup, now, known, store, history>>

-----------------------------------------------------------------------------
(* The client.  A request whose client is not found, not permitted or not  *)
(* authenticated is refused, and so is a token by its signature alone.     *)

ClientFound(c) == c \in clients

(* The secret is only asked of a confidential client, and a password grant *)
(* asks for the password of the owner too.                                 *)
Proofs == SUBSET {"secret", "password"}

Authenticated(q, proofs) ==
  /\ q.client \in Confidential => "secret" \in proofs
  /\ q.kind = "password" => "password" \in proofs
  /\ q.kind = "credentials" => q.client \in Confidential

Answering(q, stage) == [q EXCEPT !.stage = stage]

(* What is issued is settled: the scope, the client and the owner.         *)
Issuing(q, scope) ==
  [q EXCEPT !.stage = IF q.kind = "approve" THEN "code" ELSE "access",
            !.scope = scope, !.since = now, !.token.expires = 0,
            !.load = {}]

authorizationEndpoint(r) ==
  \E kind \in Approvals \cap Arriving(r) : \E q \in Inputs(kind) :
    /\ ClientFound(q.client)
    /\ q.uri \in Registered[q.client]
    /\ (IF kind = "implicit" THEN "implicit" ELSE "code") \in Permitted[q.client]
    /\ ~SignatureExpired(q.token)
    /\ Arrive(r, Answering(q, "token"))

(* The client may use the grant type.                                      *)
Permits(q) ==
  /\ ClientFound(q.client)
  /\ q.kind \in Permitted[q.client]
  /\ \E proofs \in Proofs : Authenticated(q, proofs)

tokenEndpoint(r) ==
  \E kind \in (Exchanges \cup {"password"}) \cap Arriving(r) : \E q \in Inputs(kind) :
    /\ Permits(q)
    /\ \/ kind = "password" /\ Arrive(r, Answering(q, "owner"))
       \/ kind # "password" /\ ~SignatureExpired(q.token) /\ Arrive(r, Answering(q, "token"))

(* A client on its own gets the scope the strategy grants, with no owner.  *)
handleClientCredentialsGrant(r) ==
  \E kind \in {"credentials"} \cap Arriving(r) : \E q \in Inputs(kind) :
    /\ Permits(q)
    /\ \E s \in Scopes : Arrive(r, Issuing(q, s))

(* An expired token counts as revoked and as inactive.                     *)
managementEndpoint(r) ==
  \E kind \in {"revoke", "introspect"} \cap Arriving(r) : \E q \in Inputs(kind) :
    /\ ClientFound(q.client)
    /\ \E proofs \in Proofs : Authenticated(q, proofs)
    /\ \/ ~SignatureExpired(q.token) /\ Arrive(r, Answering(q, "token"))
       \/ SignatureExpired(q.token) /\ kind = "revoke" /\ Arrive(r, Answering(q, "answer"))

AuthorizerEntered(r) ==
  \E kind \in {"authorize"} \cap Arriving(r) : \E q \in Inputs(kind) :
    ~SignatureExpired(q.token) /\ Arrive(r, Answering(q, "token"))

(* The authorizer loads the client of the token, and then its owner.       *)
LoadClient(r) ==
  LET q == requests[r] IN
  /\ At(r, "client") /\ q.kind = "authorize"
  /\ IF ClientFound(q.client)
     THEN Go(r, Answering(q, IF q.owner # None /\ "owner" \in q.load
                             THEN "owner" ELSE "served"))
     ELSE Refuse(r)
  /\ UNCHANGED <<instance, now, known, store, history>>

-----------------------------------------------------------------------------
(* The token.                                                              *)

(* The data of a stored token settles the client and the owner.            *)
Holding(q, stage) ==
  [q EXCEPT !.stage = stage, !.client = Stored(q).client, !.owner = Stored(q).owner]

Authorizer(r) ==
  LET q == requests[r] IN
  /\ At(r, "token") /\ q.kind = "authorize"
  /\ IF /\ Usable(q, "access")
        /\ q.scope \subseteq Stored(q).scope
     THEN Go(r, Holding(q, IF q.load = {} THEN "served" ELSE "client"))
     ELSE Refuse(r)
  /\ UNCHANGED <<instance, now, known, store, history>>

(* The owner of an access token approves; the client is the one that asked.*)
Approve(r) ==
  LET q == requests[r] IN
  /\ At(r, "token") /\ q.kind \in Approvals
  /\ IF Usable(q, "access") /\ Stored(q).owner # None
     THEN Go(r, [q EXCEPT !.stage = "owner", !.owner = Stored(q).owner])
     ELSE Refuse(r)
  /\ UNCHANGED <<instance, now, known, store, history>>

(* Mutated: the scope of the stored token is not compared.                 *)
AnyScope(q) == Usable(q, q.kind) /\ Stored(q).client = q.client

Redeemable(q) ==
  /\ Usable(q, q.kind)
  /\ Stored(q).client = q.client
  /\ q.scope \subseteq Stored(q).scope

(* A request without a scope inherits it, and all of them the redirect URI.*)
Redeem(q) ==
  [q EXCEPT !.stage = "owner", !.owner = Stored(q).owner, !.uri = Stored(q).uri,
            !.scope = IF q.scope = {} THEN Stored(q).scope ELSE q.scope,
            !.grant = Stored(q).grant]

handleRefreshTokenGrant(r) ==
  LET q == requests[r] IN
  /\ At(r, "token") /\ q.kind = "refresh"
  /\ IF Redeemable(q) THEN Go(r, Redeem(q)) ELSE Refuse(r)
  /\ UNCHANGED <<instance, now, known, store, history>>

(* A code is redeemed with the redirect URI that it was issued for.        *)
handleAuthorizationCodeGrant(r) ==
  LET q == requests[r] IN
  /\ At(r, "token") /\ q.kind = "code"
  /\ IF Redeemable(q) /\ q.uri \in Registered[q.client] /\ q.uri = Stored(q).uri
     THEN Go(r, Redeem(q))
     ELSE Refuse(r)
  /\ UNCHANGED <<instance, now, known, store, history>>

(* A client may revoke its own tokens; a token that is not stored counts.  *)
Revoke(r) ==
  LET q == requests[r] IN
  /\ At(r, "token") /\ q.kind = "revoke"
  /\ IF ~Found(q) THEN Go(r, Answering(q, "answer"))
     ELSE IF Stored(q).client = q.client THEN Go(r, Answering(q, "delete"))
     ELSE Refuse(r)
  /\ UNCHANGED <<instance, now, known, store, history>>

(* Whether a token of the client is active.                                *)
Introspect(r) ==
  LET q == requests[r] IN
  /\ At(r, "token") /\ q.kind = "introspect"
  /\ IF /\ Found(q) /\ Stored(q).client = q.client
        /\ ~Expired(Stored(q)) /\ Stored(q).type \in {"access", "refresh"}
     THEN Go(r, Answering(q, "served"))
     ELSE Refuse(r)
  /\ UNCHANGED <<instance, now, known, store, history>>

-----------------------------------------------------------------------------
(* The resource owner, and the strategies that grant or reject.            *)

Exists(owner) == owner \in owners \cup {None}

LoadOwner(r) ==
  LET q == requests[r] IN
  /\ At(r, "owner") /\ q.kind = "authorize"
  /\ IF Exists(q.owner) THEN Go(r, Answering(q, "served")) ELSE Refuse(r)
  /\ UNCHANGED <<instance, now, known, store, history>>

(* The owner of a token that is exchanged must still exist, if it has one. *)
GetOwner(r) ==
  LET q == requests[r] IN
  /\ At(r, "owner") /\ q.kind \in Exchanges
  /\ IF Exists(q.owner) THEN Go(r, Issuing(q, q.scope)) ELSE Refuse(r)
  /\ UNCHANGED <<instance, now, known, store, history>>

OwnerFound(owner) == owner \in owners

handleResourceOwnerPasswordCredentialsGrant(r) ==
  LET q == requests[r] IN
  /\ At(r, "owner") /\ q.kind = "password"
  /\ \/ Refuse(r)
     \/ OwnerFound(q.owner) /\ \E s \in Scopes : Go(r, Issuing(q, s))
  /\ UNCHANGED <<instance, now, known, store, history>>

(* The strategy approves for an existing owner, or rejects.                *)
ApproveStrategy(r) ==
  LET q == requests[r] IN
  /\ At(r, "owner") /\ q.kind \in Approvals
  /\ \/ Refuse(r)
     \/ Exists(q.owner) /\ \E s \in Scopes : Go(r, Issuing(q, s))
  /\ UNCHANGED <<instance, now, known, store, history>>

-----------------------------------------------------------------------------
(* Tokens are issued, then the one that was exchanged is deleted.          *)

(* Mutated: an exchange does not issue a new refresh token.                *)
NotRenewed(q) ==
  q.kind \in {"password", "credentials"} /\ "refresh" \in Permitted[q.client]

Refreshable(q) == q.kind # "implicit" /\ "refresh" \in Permitted[q.client]

After(q) ==
  IF q.stage = "access" /\ Refreshable(q) THEN "refresh"
  ELSE IF q.stage # "code" /\ q.kind \in Exchanges THEN "delete"
  ELSE "answer"

(* The grant at the root of what a request issues.                         *)
Root(q) ==
  IF q.grant # NoGrant THEN q.grant
  ELSE [id |-> next, client |-> q.client, owner |-> q.owner,
        scope |-> q.scope, uri |-> q.uri]

(* When all is issued, only the exchanged token is still needed.           *)
Saved(q, signed) ==
  IF After(q) = "refresh"
  THEN [q EXCEPT !.stage = "refresh", !.grant = Root(q), !.issued = @ \cup {signed}]
  ELSE [Blank EXCEPT !.kind = q.kind, !.stage = After(q), !.token.id = q.token.id,
                     !.issued = q.issued \cup {signed}, !.barred = q.barred]

(* A token is saved and then signed, which fails once it is expired.       *)
saveToken(r, type) ==
  LET q == requests[r]
      token == [type |-> type, scope |-> q.scope, uri |-> q.uri,
                expires |-> q.since + Lifespan[type], client |-> q.client,
                owner |-> q.owner, grant |-> Root(q)]
      signed == [id |-> next, expires |-> token.expires]
  IN /\ next \in Ids
     /\ tokens' = [id \in DOMAIN tokens \cup {next} |->
                    IF id = next THEN token ELSE tokens[id]]
     /\ next' = next + 1
     /\ IF now < token.expires
        THEN Go(r, Saved(q, signed))
        ELSE Refuse(r)

SaveAccess(r) ==
  /\ At(r, "access")
  /\ saveToken(r, "access")
  /\ UNCHANGED <<instance, now, clients, owners, known, history>>

SaveRefresh(r) ==
  /\ At(r, "refresh")
  /\ saveToken(r, "refresh")
  /\ UNCHANGED <<instance, now, clients, owners, known, history>>

SaveCode(r) ==
  /\ At(r, "code")
  /\ saveToken(r, "code")
  /\ UNCHANGED <<instance, now, clients, owners, known, history>>

Without(id) == [i \in DOMAIN tokens \ {id} |-> tokens[i]]

(* Mutated: the access token is deleted that was just issued.              *)
DeletedIssued(q) == IF q.issued = {} THEN NoID ELSE (CHOOSE t \in q.issued : TRUE).id

Deleted(q) == q.token.id

deleteToken(r) ==
  LET q == requests[r] IN
  /\ At(r, "delete")
  /\ tokens' = Without(Deleted(q))
  /\ Go(r, Answering(q, "answer"))
  /\ UNCHANGED <<instance, now, clients, owners, next, known, history>>

(* TokensIssued has been called, and the response is written.              *)
Answer(r) ==
  LET q == requests[r] IN
  /\ At(r, "answer")
  /\ known' = known \cup q.issued
  /\ spent' = IF q.kind \in Exchanges \cup {"revoke"} THEN spent \cup {q.token.id} ELSE spent
  /\ Go(r, Blank)
  /\ UNCHANGED <<instance, now, store, faults>>

(* The next handler has run, or the token was reported as active.          *)
Served(r) ==
  /\ At(r, "served")
  /\ Go(r, Blank)
  /\ UNCHANGED <<instance, now, known, store, history>>

-----------------------------------------------------------------------------
(* A step fails, TokensIssued fails, or the response is lost.              *)
Fail(r) ==
  /\ ~At(r, "idle") /\ faults < MaxFaults
  /\ faults' = faults + 1
  /\ Go(r, Blank)
  /\ UNCHANGED <<instance, now, known, store, spent>>

RemoveClient(c) ==
  /\ c \in clients /\ faults < MaxFaults
  /\ faults' = faults + 1
  /\ clients' = clients \ {c}
  /\ UNCHANGED <<instance, now, owners, tokens, next, known, requests, spent>>

RemoveOwner(o) ==
  /\ o \in owners /\ faults < MaxFaults
  /\ faults' = faults + 1
  /\ owners' = owners \ {o}
  /\ UNCHANGED <<instance, now, clients, tokens, next, known, requests, spent>>

(* The database removes tokens some time after they have expired.          *)
RemoveExpired(id) ==
  /\ id \in DOMAIN tokens /\ tokens[id].expires + Delay < now
  /\ tokens' = Without(id)
  /\ UNCHANGED <<instance, now, clients, owners, next, known, requests, history>>

Tick ==
  /\ now < MaxTime
  /\ now' = now + 1
  /\ UNCHANGED <<instance, known, requests, store, history>>

Init ==
  /\ setup \in Setups /\ calls = 0
  /\ now = 0
  /\ clients = Clients /\ owners = Owners
  /\ tokens = setup.tokens /\ next = setup.next
  /\ known = {[id |-> id, expires |-> setup.tokens[id].expires] : id \in DOMAIN setup.tokens}
  /\ requests = [r \in Requests |-> Blank]
  /\ spent = {} /\ faults = 0

Endpoint(r) ==
  \/ authorizationEndpoint(r) \/ tokenEndpoint(r) \/ managementEndpoint(r)
  \/ handleClientCredentialsGrant(r) \/ AuthorizerEntered(r)
  \/ Authorizer(r) \/ LoadClient(r) \/ LoadOwner(r)
  \/ Approve(r) \/ ApproveStrategy(r)
  \/ handleResourceOwnerPasswordCredentialsGrant(r)
  \/ handleRefreshTokenGrant(r) \/ handleAuthorizationCodeGrant(r) \/ GetOwner(r)
  \/ Revoke(r) \/ Introspect(r)
  \/ SaveAccess(r) \/ SaveRefresh(r) \/ SaveCode(r) \/ deleteToken(r)
  \/ Answer(r) \/ Served(r)
  \/ Fail(r)

Next ==
  \/ \E r \in Requests : Endpoint(r)
  \/ \E c \in Clients : RemoveClient(c)
  \/ \E o \in Owners : RemoveOwner(o)
  \/ \E id \in Ids : RemoveExpired(id)
  \/ Tick

Spec == Init /\ [][Next]_vars

-----------------------------------------------------------------------------
(* The type of every variable.                                             *)
TypeOK ==
  /\ setup \in Setups /\ calls \in 0..setup.calls
  /\ now \in 0..MaxTime /\ faults \in 0..MaxFaults
  /\ clients \subseteq Clients /\ owners \subseteq Owners
  /\ next \in 1..(MaxTokens + 1)
  /\ DOMAIN tokens \subseteq 1..(next - 1) /\ tokens \in [DOMAIN tokens -> Token]
  /\ known \subseteq [id : 1..(next - 1), expires : Nat]
  /\ requests \in [Requests -> Request]
  /\ spent \subseteq Ids

(* Every token goes back to one decision of the policy: however often it   *)
(* was renewed or narrowed, it is of the client, the owner and the redirect*)
(* URI of that grant, and its scope does not exceed it.                    *)
Descends == \A id \in DOMAIN tokens : OfGrant(tokens[id])

FlameInv == TypeOK /\ Descends

(* A request is honored: it was passed on, or tokens are issued for it.    *)
Honored(q) ==
  /\ q.kind # "revoke"
  /\ q.stage \in {"access", "refresh", "code", "delete", "answer", "served"}

(* What has ended is never honored again: not a code or a refresh token    *)
(* whose exchange was answered, not a token whose revocation was, not an   *)
(* expired one, and nothing for a client or an owner that is gone, as far  *)
(* as the request arrives afterwards.                                      *)
EndedForGood == \A r \in Requests : requests[r].barred => ~Honored(requests[r])

(* A signed token with which a grant can be renewed.                       *)
Renews(t, g) ==
  /\ t.id \in DOMAIN tokens /\ ~Expired(tokens[t.id])
  /\ tokens[t.id].type = "refresh" /\ tokens[t.id].grant.id = g

(* The refresh token of a request is deleted, its successor not yet known. *)
Renewed(r) == At(r, "answer") /\ requests[r].kind = "refresh"

(* A grant is in the hands of its client as long as an answer has carried  *)
(* such a token, or is about to.                                           *)
InHand(g) ==
  \/ \E t \in known : Renews(t, g)
  \/ \E r \in Requests : Renewed(r) /\ \E t \in requests[r].issued : Renews(t, g)

(* However exchanges overlap and fail, a client only loses its last refresh*)
(* token of a grant when that expires or is revoked, or when the request   *)
(* that has deleted it fails before its answer carries the successor.      *)
NeverStranded ==
  [][\A g \in Ids : InHand(g) /\ ~InHand(g)' =>
       \/ Tick
       \/ \E r \in Requests :
            \/ requests[r].kind = "revoke" /\ deleteToken(r)
            \/ Renewed(r) /\ Fail(r)]_vars
=============================================================================
