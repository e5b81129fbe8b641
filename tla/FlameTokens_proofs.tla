------------------------- MODULE FlameTokens_proofs -------------------------
(***************************************************************************)
(* Proofs about FlameTokens: its types, that every token descends from a   *)
(* grant, that what has ended is never honored again, and that a client    *)
(* loses its last refresh token of a grant in no other way than it must.   *)
(***************************************************************************)
EXTENDS FlameTokens, TLAPS

(* The parts of the inductive invariant.  Which steps a kind of request    *)
(* passes, and what it carries there.                                      *)
Shaped(q) ==
  q.stage # "idle" =>
    /\ q.kind \in Kinds
    /\ q.kind \in Exchanges \cup {"revoke"} => q.token.id \in Ids
    /\ q.kind \notin Exchanges /\ q.stage \in {"token", "client", "owner"} =>
         q.grant = NoGrant
    /\ q.kind = "authorize" => q.stage \in {"token", "client", "owner", "served"}
    /\ q.kind = "revoke" => q.stage \in {"token", "delete", "answer"}
    /\ q.kind # "authorize" => q.load = {} /\ q.stage # "client"
    /\ q.kind # "authorize" /\ q.stage \in {"token", "owner", "access", "refresh", "code"} =>
         q.client \in Clients
    /\ q.stage = "delete" => q.kind \in Exchanges \cup {"revoke"}
    /\ q.stage = "code" => q.kind = "approve"
    /\ q.kind = "refresh" /\ q.stage \in {"token", "owner", "access", "refresh"} =>
         "refresh" \in Permitted[q.client]

(* A request issues for one grant, that of the token that it exchanges.    *)
Traced(q) ==
  /\ q.grant = NoGrant \/ OfGrant(q)
  /\ q.kind \in Exchanges /\ q.stage \in {"owner", "access", "refresh"} =>
       /\ q.grant # NoGrant
       /\ Found(q) => Stored(q).grant = q.grant /\ Stored(q).type = q.kind

(* A request about to be answered leaves its token deleted or expired.     *)
Over(q) ==
  q.stage = "answer" /\ q.kind \in Exchanges \cup {"revoke"} /\ Found(q) =>
    Expired(Stored(q))

(* A signed token expires when the stored one does.                        *)
Matches(t) == t.id \in DOMAIN tokens => tokens[t.id].expires = t.expires

Signs(q) == \A t \in q.issued : t.id \in 1..(next - 1) /\ Matches(t)

Gone(owner) == owner \notin owners \cup {None}

(* The stored token of a request is expired, or its client or owner gone.  *)
Doomed(q) ==
  Found(q) =>
    \/ Expired(Stored(q))
    \/ "client" \in q.load /\ Stored(q).client \notin clients
    \/ /\ q.kind \in Exchanges \cup Approvals \/ "owner" \in q.load
       /\ Gone(Stored(q).owner)

(* A barred request is still before the check that refuses it.             *)
Hopeless(q) ==
  q.barred =>
    /\ ~Honored(q)
    /\ q.stage = "token" => Doomed(q)
    /\ q.stage = "client" => q.client \notin clients \/ ("owner" \in q.load /\ Gone(q.owner))
    /\ q.stage = "owner" => Gone(q.owner)

Settled(q) ==
  q.token.id < next /\ Traced(q) /\ Over(q) /\ Signs(q) /\ Hopeless(q)

Good(q) == Shaped(q) /\ Settled(q)

Recorded ==
  /\ \A t \in known : Matches(t)
  /\ \A id \in spent : id < next /\ (id \in DOMAIN tokens => Expired(tokens[id]))

IInv ==
  /\ TypeOK /\ Descends /\ Recorded
  /\ \A r \in Requests : Good(requests[r])

-----------------------------------------------------------------------------
(* The types of what the steps make of a request.                          *)

LEMMA BlankGood ==
  ASSUME TypeOK
  PROVE  Blank \in Request /\ Good(Blank)
<1>1. Blank \in Request
  BY FlameAssumption DEF Blank, Request, Stages, NoToken, NoGrant, Signed, Grant, NoID
<1>2. Good(Blank)
  BY DEF Blank, Good, Shaped, Settled, Traced, Over, Signs, Hopeless, TypeOK,
    NoToken, NoID
<1>3. QED
  BY <1>1, <1>2

LEMMA RequestTypes ==
  ASSUME NEW q \in Request, NEW stage \in Stages
  PROVE  /\ [q EXCEPT !.stage = stage] \in Request
         /\ \A b \in BOOLEAN : [q EXCEPT !.barred = b] \in Request
         /\ \A c \in Clients \cup {None}, o \in Owners \cup {None} :
              [q EXCEPT !.stage = stage, !.client = c, !.owner = o] \in Request
         /\ \A o \in Owners \cup {None} :
              [q EXCEPT !.stage = stage, !.owner = o] \in Request
         /\ \A o \in Owners \cup {None}, u \in URIs \cup {None}, s \in Scopes, g \in Grant :
              [q EXCEPT !.stage = stage, !.owner = o, !.uri = u, !.scope = s, !.grant = g]
                \in Request
         /\ \A g \in Grant, i \in SUBSET Signed :
              [q EXCEPT !.stage = stage, !.grant = g, !.issued = i] \in Request
  BY Zenon DEF Request

LEMMA IssuingTypes ==
  ASSUME NEW q \in Request, NEW scope \in Scopes, now \in Nat
  PROVE  Issuing(q, scope) \in Request
<1> DEFINE stage == IF q.kind = "approve" THEN "code" ELSE "access"
           token == [q.token EXCEPT !.expires = 0]
<1>1. stage \in Stages
  BY DEF Stages
<1>2. token \in Signed
  BY DEF Signed, Request
<1>3. {} \in SUBSET {"client", "owner"}
  OBVIOUS
<1> HIDE DEF stage, token
<1>4. [q EXCEPT !.stage = stage, !.scope = scope, !.since = now, !.token = token,
                !.load = {}] \in Request
  BY <1>1, <1>2, <1>3, Zenon DEF Request
<1>5. QED
  BY <1>4 DEF Issuing, stage, token


(* What arrives is well typed.                                             *)
LEMMA InputTypes ==
  ASSUME TypeOK, NEW kind \in Kinds, NEW q \in Inputs(kind)
  PROVE  /\ q \in Request
         /\ q.kind = kind /\ q.stage = "idle" /\ q.grant = NoGrant /\ q.issued = {}
         /\ kind # "authorize" => q.client \in Clients /\ q.load = {}
         /\ kind \in {"password", "credentials"} => q.token = NoToken
         /\ kind \notin {"password", "credentials"} => q.token \in known
<1> DEFINE Fields ==
             [client : ClientsOf(kind), owner : OwnersOf(kind), token : TokensOf(kind),
              scope : ScopesOf(kind), uri : URIsOf(kind), load : LoadsOf(kind)]
<1>1. PICK i \in Fields :
        q = [Blank EXCEPT !.kind = kind, !.client = i.client, !.owner = i.owner,
                          !.token = i.token, !.scope = i.scope, !.uri = i.uri,
                          !.load = i.load]
  BY DEF Inputs
<1>2. /\ i.client \in Clients \cup {None} /\ i.owner \in Owners \cup {None}
      /\ i.uri \in URIs \cup {None} /\ i.load \in SUBSET {"client", "owner"}
  BY DEF ClientsOf, OwnersOf, URIsOf, LoadsOf
<1>3. i.scope \in Scopes
  BY FlameAssumption, SetupAssumption DEF ScopesOf, TypeOK
<1>4. i.token \in Signed
  BY FlameAssumption DEF TokensOf, TypeOK, Signed, NoToken, NoID, Ids
<1>5. kind \in Kinds \cup {"none"}
  OBVIOUS
<1>6. Blank \in Request
  BY BlankGood
<1>7. q \in Request
  BY <1>1, <1>2, <1>3, <1>4, <1>5, <1>6, Zenon DEF Request
<1>8. /\ q.kind = kind /\ q.client = i.client /\ q.token = i.token /\ q.load = i.load
      /\ q.stage = "idle" /\ q.grant = NoGrant /\ q.issued = {}
  BY <1>1 DEF Blank
<1>9. kind # "authorize" => i.client \in Clients /\ i.load = {}
  BY DEF ClientsOf, LoadsOf
<1>10. /\ kind \in {"password", "credentials"} => i.token = NoToken
       /\ kind \notin {"password", "credentials"} => i.token \in known
  BY DEF TokensOf
<1>11. QED
  BY <1>7, <1>8, <1>9, <1>10

-----------------------------------------------------------------------------
(* What a request relies on outlasts the steps of the others: time passes, *)
(* clients, owners and tokens disappear, and tokens get new IDs.           *)
Steady ==
  /\ now' >= now /\ next' >= next
  /\ clients' \subseteq clients /\ owners' \subseteq owners
  /\ \A id \in 0..(next - 1) :
       id \in DOMAIN tokens' => id \in DOMAIN tokens /\ tokens'[id] = tokens[id]

LEMMA SettledStays ==
  ASSUME TypeOK, TypeOK', Steady, NEW q \in Request, Settled(q)
  PROVE  Settled(q)'
<1>1. /\ now \in Nat /\ now' \in Nat /\ next \in Nat /\ next' \in Nat
      /\ \A id \in DOMAIN tokens : tokens[id] \in Token
  BY FlameAssumption DEF TypeOK
<1>2. q.token.id \in Nat /\ q.token.id < next /\ q.token.id \in 0..(next - 1)
  BY <1>1 DEF Settled, Request, Signed, Ids, NoID
<1>3. Found(q)' => Found(q) /\ Stored(q)' = Stored(q)
  BY <1>2 DEF Found, Stored, Steady
<1>4. Found(q) => Stored(q).expires \in Nat
  BY <1>1 DEF Found, Stored, Token
<1>5. Found(q)' /\ Expired(Stored(q)) => Expired(Stored(q))'
  BY <1>1, <1>3, <1>4 DEF Expired, Steady
<1>6. q.token.id < next'
  BY <1>1, <1>2 DEF Steady
<1>7. Traced(q)'
  BY <1>3 DEF Settled, Traced
<1>8. Over(q)'
  BY <1>3, <1>5 DEF Settled, Over
<1>9. Signs(q)'
  <2> SUFFICES ASSUME NEW t \in q.issued
               PROVE  t.id \in 1..(next' - 1) /\ Matches(t)'
    BY DEF Signs
  <2>1. t.id \in 1..(next - 1) /\ Matches(t)
    BY DEF Settled, Signs
  <2>2. t.id \in 1..(next' - 1) /\ t.id \in 0..(next - 1)
    BY <1>1, <2>1 DEF Steady
  <2>3. QED
    BY <2>1, <2>2 DEF Matches, Steady
<1>10. \A o : Gone(o) => Gone(o)'
  BY DEF Gone, Steady
<1>11. Doomed(q) => Doomed(q)'
  BY <1>3, <1>5, <1>10 DEF Doomed, Steady
<1>12. Hopeless(q)'
  BY <1>10, <1>11 DEF Settled, Hopeless, Honored, Steady
<1>13. QED
  BY <1>6, <1>7, <1>8, <1>9, <1>12 DEF Settled

LEMMA RecordedStays ==
  ASSUME TypeOK, TypeOK', Steady, Recorded, UNCHANGED <<known, spent>>
  PROVE  Recorded'
<1>1. /\ now \in Nat /\ now' \in Nat /\ next \in Nat /\ next' \in Nat
      /\ \A id \in DOMAIN tokens : tokens[id].expires \in Nat
      /\ spent \subseteq Ids
  BY FlameAssumption DEF TypeOK, Token
<1>2. ASSUME NEW t \in known
      PROVE  Matches(t)'
  <2>1. t.id \in 0..(next - 1) /\ Matches(t)
    BY <1>1 DEF TypeOK, Recorded
  <2>2. QED
    BY <2>1 DEF Matches, Steady
<1>3. ASSUME NEW id \in spent
      PROVE  id < next' /\ (id \in DOMAIN tokens' => Expired(tokens[id])')
  <2>1. id < next /\ (id \in DOMAIN tokens => Expired(tokens[id])) /\ id \in 0..(next - 1)
    BY <1>1 DEF Recorded, Ids
  <2>2. id \in DOMAIN tokens' => id \in DOMAIN tokens /\ tokens'[id] = tokens[id]
    BY <2>1 DEF Steady
  <2>3. QED
    BY <1>1, <2>1, <2>2 DEF Steady, Expired
<1>4. QED
  BY <1>2, <1>3 DEF Recorded

-----------------------------------------------------------------------------
(* A step of a request that leaves clients, owners and tokens alone.       *)
LEMMA GoKeeps ==
  ASSUME IInv, NEW r \in Requests, NEW q \in Request, Good(q), Go(r, q),
         UNCHANGED <<setup, now, store>>,
         calls' \in 0..setup.calls, faults' \in 0..MaxFaults,
         known' \subseteq [id : 1..(next - 1), expires : Nat], spent' \subseteq Ids,
         Recorded'
  PROVE  IInv'
<1>1. requests' = [requests EXCEPT ![r] = q] /\ requests \in [Requests -> Request]
  BY DEF IInv, TypeOK, Go
<1>2. requests' \in [Requests -> Request]
  BY <1>1
<1>3. TypeOK'
  BY <1>2 DEF IInv, TypeOK, store
<1>4. Descends'
  BY DEF IInv, Descends, OfGrant, store
<1>5. ASSUME NEW x, Good(x)
      PROVE  Good(x)'
  BY <1>5 DEF Good, Shaped, Settled, Traced, Over, Signs, Hopeless, Found, Stored,
    Matches, Expired, Honored, Doomed, Gone, store
<1>6. ASSUME NEW x \in Requests
      PROVE  Good(requests[x])'
  <2>1. Good(requests'[x])
    BY <1>1 DEF IInv
  <2>2. QED
    BY <2>1, <1>5
<1>7. QED
  BY <1>3, <1>4, <1>6 DEF IInv


(* The usual case: nothing but the request changes.                        *)
LEMMA GoAlone ==
  ASSUME IInv, NEW r \in Requests, NEW q \in Request, Good(q), Go(r, q),
         UNCHANGED <<setup, now, known, store, spent>>,
         calls' \in 0..setup.calls, faults' \in 0..MaxFaults
  PROVE  IInv'
<1>1. /\ known' \subseteq [id : 1..(next - 1), expires : Nat] /\ spent' \subseteq Ids
  BY DEF IInv, TypeOK
<1>2. Recorded'
  BY DEF IInv, Recorded, Matches, Expired, store
<1>3. QED
  BY <1>1, <1>2, GoKeeps

LEMMA BlankKeeps ==
  ASSUME IInv, NEW r \in Requests, Go(r, Blank),
         UNCHANGED <<setup, now, known, store, spent>>,
         calls' \in 0..setup.calls, faults' \in 0..MaxFaults
  PROVE  IInv'
  BY BlankGood, GoAlone DEF IInv

-----------------------------------------------------------------------------
(* The rounded expiry of a signature is passed after the exact one.        *)
LEMMA SignedLate ==
  ASSUME TypeOK, NEW t \in known, SignatureExpired(t)
  PROVE  Expired(t)
<1>1. t.expires \in Nat /\ now \in Nat /\ Second \in Nat \ {0}
  BY FlameAssumption DEF TypeOK
<1>2. \A a, b, s \in Nat : s > 0 /\ b <= a => b \div s <= a \div s
  OBVIOUS
<1>3. QED
  BY <1>1, <1>2 DEF SignatureExpired, Expired

(* A request that arrives is barred for a reason that a check will find.   *)
LEMMA ArrivingGood ==
  ASSUME IInv, NEW kind \in Kinds, NEW q \in Inputs(kind), NEW stage \in Stages,
         \/ stage = "token" /\ kind \notin {"password", "credentials"}
         \/ stage = "owner" /\ kind = "password"
         \/ stage = "answer" /\ kind = "revoke" /\ SignatureExpired(q.token),
         kind = "refresh" => "refresh" \in Permitted[q.client],
         NEW x, x = [Answering(q, stage) EXCEPT !.barred = Barred(Answering(q, stage))]
  PROVE  x \in Request /\ Good(x)
<1> DEFINE y == Answering(q, stage)
<1>1. /\ q \in Request
      /\ q.kind = kind /\ q.stage = "idle" /\ q.grant = NoGrant /\ q.issued = {}
      /\ kind # "authorize" => q.client \in Clients /\ q.load = {}
      /\ kind \in {"password", "credentials"} => q.token = NoToken
      /\ kind \notin {"password", "credentials"} => q.token \in known
  BY InputTypes DEF IInv
<1>2. Barred(y) \in BOOLEAN
  BY DEF Barred
<1>3. y \in Request /\ [y EXCEPT !.barred = Barred(y)] \in Request
  BY <1>1, <1>2, RequestTypes DEF Answering
<1>4. /\ x \in Request
      /\ x.kind = kind /\ x.stage = stage /\ x.grant = NoGrant /\ x.issued = {}
      /\ x.client = q.client /\ x.owner = q.owner /\ x.load = q.load /\ x.token = q.token
      /\ x.barred = Barred(y)
  BY <1>1, <1>3 DEF Answering, Request
<1>5. Barred(y) = Barred(q)
  BY <1>1 DEF Barred, Answering, Found, Stored, Request
<1>6. /\ next \in Nat /\ next > 0
      /\ kind \notin {"password", "credentials"} =>
           x.token.id \in Ids /\ x.token.id < next /\ Matches(x.token)
      /\ kind \in {"password", "credentials"} => x.token = NoToken
  BY <1>1, <1>4, FlameAssumption DEF IInv, TypeOK, Recorded, Ids
<1>7. Shaped(x)
  BY <1>1, <1>4, <1>6 DEF Shaped, Kinds, Exchanges, Approvals
<1>8. Over(x)
  BY <1>1, <1>4, <1>6, SignedLate DEF IInv, Over, Found, Stored, Expired, Matches
<1>9. ~Found(x) \/ kind \notin {"password", "credentials"}
  BY <1>6 DEF Found, NoToken, NoID, IInv, TypeOK
<1>10. x.barred /\ stage = "token" => Doomed(x)
  <2> SUFFICES ASSUME Barred(q), Found(x), stage = "token" PROVE Doomed(x)
    BY <1>4, <1>5 DEF Doomed
  <2>1. Matches(x.token) /\ x.token # NoToken
    BY <1>6, <1>9 DEF NoToken, NoID, Ids
  <2>2. x.token.id \in spent => Expired(Stored(x))
    BY DEF IInv, Recorded, Found, Stored
  <2>3. Expired(x.token) => Expired(Stored(x))
    BY <2>1 DEF Matches, Found, Stored, Expired
  <2>4. QED
    BY <1>1, <1>4, <2>2, <2>3 DEF Barred, Doomed, Gone, Found, Stored
<1>11. kind = "password" => ~x.barred
  BY <1>1, <1>4, <1>5, <1>6, <1>9
    DEF Barred, NoToken, NoID, Found, Stored, IInv, TypeOK, Ids, Exchanges, Approvals
<1>12. Hopeless(x)
  BY <1>4, <1>10, <1>11 DEF Hopeless, Honored
<1>13. Settled(x)
  BY <1>4, <1>6, <1>8, <1>12 DEF Settled, Traced, Signs, NoToken, NoID, Exchanges
<1>14. QED
  BY <1>4, <1>7, <1>13 DEF Good


LEMMA ArriveKeeps ==
  ASSUME IInv, NEW r \in Requests, NEW kind \in Arriving(r), NEW y, Arrive(r, y),
         [y EXCEPT !.barred = Barred(y)] \in Request,
         Good([y EXCEPT !.barred = Barred(y)])
  PROVE  IInv'
<1>1. calls < setup.calls /\ calls \in 0..setup.calls /\ setup.calls \in Nat
  BY SetupAssumption DEF Arriving, IInv, TypeOK
<1>2. calls' \in 0..setup.calls /\ faults' \in 0..MaxFaults
  BY <1>1 DEF Arrive, history, IInv, TypeOK
<1>3. QED
  BY <1>2, GoAlone DEF Arrive, history

LEMMA IssuingArrives ==
  ASSUME IInv, NEW q \in Inputs("credentials"), NEW s \in Scopes,
         NEW x, x = [Issuing(q, s) EXCEPT !.barred = Barred(Issuing(q, s))]
  PROVE  x \in Request /\ Good(x)
<1> DEFINE y == Issuing(q, s)
<1>1. /\ q \in Request
      /\ q.kind = "credentials" /\ q.grant = NoGrant /\ q.issued = {}
      /\ q.client \in Clients /\ q.token = NoToken
  BY InputTypes DEF IInv, Kinds
<1>2. now \in Nat /\ next \in Nat /\ next > 0
  BY FlameAssumption DEF IInv, TypeOK
<1>3. y \in Request /\ [y EXCEPT !.barred = Barred(y)] \in Request
  <2>1. y \in Request
    BY <1>1, <1>2, IssuingTypes
  <2>2. Barred(y) \in BOOLEAN
    BY DEF Barred
  <2> HIDE DEF y
  <2>3. QED
    BY <2>1, <2>2, RequestTypes DEF Stages
<1>4. /\ x \in Request
      /\ x.kind = "credentials" /\ x.stage = "access" /\ x.grant = NoGrant /\ x.issued = {}
      /\ x.client \in Clients /\ x.load = {} /\ x.token = NoToken /\ x.barred = Barred(y)
  BY <1>1, <1>3 DEF Issuing, Request, NoToken
<1>5. y.token = NoToken /\ y.kind = "credentials" /\ y.load = {}
  BY <1>1 DEF Issuing, Request, NoToken
<1>6. ~Barred(y)
  BY <1>5 DEF Barred, Found, NoToken, NoID, IInv, TypeOK, Ids
<1>7. Shaped(x)
  BY <1>4 DEF Shaped, Kinds, Exchanges
<1>8. Settled(x)
  BY <1>2, <1>4, <1>6
    DEF Settled, Traced, Over, Signs, Hopeless, NoToken, NoID, Exchanges
<1>9. QED
  BY <1>4, <1>7, <1>8 DEF Good

LEMMA ArrivalsKeep ==
  ASSUME IInv, NEW r \in Requests,
         \/ authorizationEndpoint(r) \/ tokenEndpoint(r) \/ managementEndpoint(r)
         \/ handleClientCredentialsGrant(r) \/ AuthorizerEntered(r)
  PROVE  IInv'
<1>1. Arriving(r) \subseteq Kinds
  BY SetupAssumption DEF Arriving, IInv, TypeOK
<1>2. "token" \in Stages /\ "owner" \in Stages /\ "answer" \in Stages
  BY DEF Stages
<1>3. CASE authorizationEndpoint(r)
  <2>1. PICK kind \in Approvals \cap Arriving(r) : \E q \in Inputs(kind) :
               Arrive(r, Answering(q, "token"))
    BY <1>3, Zenon DEF authorizationEndpoint
  <2>2. PICK q \in Inputs(kind) : Arrive(r, Answering(q, "token"))
    BY <2>1
  <2>3. kind \in Kinds /\ kind \notin {"password", "credentials"} /\ kind # "refresh"
    BY <1>1 DEF Approvals
  <2>4. QED
    BY <1>2, <2>2, <2>3, ArrivingGood, ArriveKeeps
<1>4. CASE tokenEndpoint(r)
  <2>1. PICK kind \in (Exchanges \cup {"password"}) \cap Arriving(r) :
               \E q \in Inputs(kind) :
                 /\ Permits(q)
                 /\ \/ kind = "password" /\ Arrive(r, Answering(q, "owner"))
                    \/ kind # "password" /\ Arrive(r, Answering(q, "token"))
    BY <1>4, Zenon DEF tokenEndpoint
  <2>2. PICK q \in Inputs(kind) :
               /\ Permits(q)
               /\ \/ kind = "password" /\ Arrive(r, Answering(q, "owner"))
                  \/ kind # "password" /\ Arrive(r, Answering(q, "token"))
    BY <2>1
  <2>3. kind \in Kinds /\ kind # "credentials"
    BY <1>1 DEF Exchanges
  <2>4. q.kind = kind
    BY <2>3, InputTypes DEF IInv
  <2>5. kind = "refresh" => "refresh" \in Permitted[q.client]
    BY <2>2, <2>4 DEF Permits
  <2>6. CASE kind = "password" /\ Arrive(r, Answering(q, "owner"))
    BY <1>2, <2>3, <2>5, <2>6, ArrivingGood, ArriveKeeps
  <2>7. CASE kind # "password" /\ Arrive(r, Answering(q, "token"))
    BY <1>2, <2>3, <2>5, <2>7, ArrivingGood, ArriveKeeps
  <2>8. QED
    BY <2>2, <2>6, <2>7
<1>5. CASE managementEndpoint(r)
  <2>1. PICK kind \in {"revoke", "introspect"} \cap Arriving(r) : \E q \in Inputs(kind) :
               \/ Arrive(r, Answering(q, "token"))
               \/ /\ SignatureExpired(q.token) /\ kind = "revoke"
                  /\ Arrive(r, Answering(q, "answer"))
    BY <1>5, Zenon DEF managementEndpoint
  <2>2. PICK q \in Inputs(kind) :
               \/ Arrive(r, Answering(q, "token"))
               \/ /\ SignatureExpired(q.token) /\ kind = "revoke"
                  /\ Arrive(r, Answering(q, "answer"))
    BY <2>1
  <2>3. kind \in Kinds /\ kind \notin {"password", "credentials"} /\ kind # "refresh"
    BY <1>1
  <2>4. CASE Arrive(r, Answering(q, "token"))
    BY <1>2, <2>3, <2>4, ArrivingGood, ArriveKeeps
  <2>5. CASE /\ SignatureExpired(q.token) /\ kind = "revoke"
             /\ Arrive(r, Answering(q, "answer"))
    BY <1>2, <2>3, <2>5, ArrivingGood, ArriveKeeps
  <2>6. QED
    BY <2>2, <2>4, <2>5
<1>6. CASE handleClientCredentialsGrant(r)
  <2>1. PICK kind \in {"credentials"} \cap Arriving(r) : \E q \in Inputs(kind) :
               \E s \in Scopes : Arrive(r, Issuing(q, s))
    BY <1>6, Zenon DEF handleClientCredentialsGrant
  <2>2. PICK q \in Inputs("credentials"), s \in Scopes : Arrive(r, Issuing(q, s))
    BY <2>1
  <2>3. QED
    BY <2>2, IssuingArrives, ArriveKeeps
<1>7. CASE AuthorizerEntered(r)
  <2>1. PICK kind \in {"authorize"} \cap Arriving(r) : \E q \in Inputs(kind) :
               Arrive(r, Answering(q, "token"))
    BY <1>7, Zenon DEF AuthorizerEntered
  <2>2. PICK q \in Inputs(kind) : Arrive(r, Answering(q, "token"))
    BY <2>1
  <2>3. kind \in Kinds /\ kind \notin {"password", "credentials"} /\ kind # "refresh"
    BY <1>1
  <2>4. QED
    BY <1>2, <2>2, <2>3, ArrivingGood, ArriveKeeps
<1>8. QED
  BY <1>3, <1>4, <1>5, <1>6, <1>7


-----------------------------------------------------------------------------
(* The steps of a request that only read.                                  *)

LEMMA GoOnly ==
  ASSUME IInv, NEW r \in Requests, NEW q \in Request, Good(q), Go(r, q),
         UNCHANGED <<instance, now, known, store, history>>
  PROVE  IInv'
<1>1. calls' \in 0..setup.calls /\ faults' \in 0..MaxFaults
  BY DEF IInv, TypeOK, instance, history
<1>2. QED
  BY <1>1, GoAlone DEF instance, history

LEMMA RefuseOnly ==
  ASSUME IInv, NEW r \in Requests, Refuse(r),
         UNCHANGED <<instance, now, known, store, history>>
  PROVE  IInv'
  BY BlankGood, GoOnly DEF Refuse, IInv

(* What the invariant says of one request and of the token it has found.   *)
LEMMA Requested ==
  ASSUME IInv, NEW r \in Requests
  PROVE  /\ requests[r] \in Request /\ Good(requests[r])
         /\ Found(requests[r]) =>
              /\ Stored(requests[r]) \in Token /\ OfGrant(Stored(requests[r]))
              /\ requests[r].token.id \in Ids
         /\ now \in Nat /\ next \in Nat
<1>1. requests[r] \in Request /\ Good(requests[r])
  BY DEF IInv, TypeOK
<1>2. now \in Nat /\ next \in Nat /\ DOMAIN tokens \subseteq Ids
  BY FlameAssumption DEF IInv, TypeOK, Ids
<1>3. QED
  BY <1>1, <1>2 DEF IInv, TypeOK, Descends, Found, Stored

LEMMA AuthorizerKeeps ==
  ASSUME IInv, NEW r \in Requests, Authorizer(r)
  PROVE  IInv'
<1> DEFINE q == requests[r]
           stage == IF q.load = {} THEN "served" ELSE "client"
           x == Holding(q, stage)
<1>1. CASE Refuse(r)
  BY <1>1, RefuseOnly DEF Authorizer
<1>2. CASE Usable(q, "access") /\ Go(r, x)
  <2>1. /\ q \in Request /\ Good(q) /\ Stored(q) \in Token
        /\ q.stage = "token" /\ q.kind = "authorize" /\ q.grant = NoGrant
    BY <1>2, Requested DEF Authorizer, At, Usable, Good, Shaped, Exchanges
  <2>2. stage \in Stages
    BY DEF Stages
  <2>3. x \in Request
    <3> HIDE DEF stage
    <3>1. QED
      BY <2>1, <2>2, RequestTypes DEF Holding, Token
  <2>4. /\ x.kind = "authorize" /\ x.stage = stage /\ x.grant = NoGrant
        /\ x.client = Stored(q).client /\ x.owner = Stored(q).owner
        /\ x.load = q.load /\ x.token = q.token /\ x.issued = q.issued
        /\ x.barred = q.barred
    BY <2>1 DEF Holding, Request
  <2>5. Shaped(x)
    BY <2>1, <2>4 DEF Shaped, Exchanges, Good
  <2>6. Hopeless(x)
    BY <1>2, <2>1, <2>4
      DEF Good, Settled, Hopeless, Doomed, Usable, Honored, Gone, Exchanges, Approvals
  <2>7. Good(x)
    BY <2>1, <2>4, <2>5, <2>6 DEF Good, Settled, Traced, Over, Signs, Exchanges
  <2> HIDE DEF x
  <2>8. QED
    BY <1>2, <2>3, <2>7, GoOnly DEF Authorizer
<1>3. QED
  BY <1>1, <1>2 DEF Authorizer

LEMMA LoadsKeep ==
  ASSUME IInv, NEW r \in Requests, LoadClient(r) \/ LoadOwner(r)
  PROVE  IInv'
<1> DEFINE q == requests[r]
<1>1. /\ q \in Request /\ Good(q) /\ q.kind = "authorize" /\ q.stage \in {"client", "owner"}
      /\ UNCHANGED <<instance, now, known, store, history>>
  BY Requested DEF LoadClient, LoadOwner, At
<1>2. CASE Refuse(r)
  BY <1>1, <1>2, RefuseOnly
<1>3. ASSUME NEW stage \in {"owner", "served"}, Go(r, Answering(q, stage)),
             q.barred => stage = "owner" /\ Gone(q.owner)
      PROVE  IInv'
  <2> DEFINE x == Answering(q, stage)
  <2>1. x \in Request
    BY <1>1, RequestTypes DEF Answering, Stages
  <2>2. /\ x.kind = "authorize" /\ x.stage = stage /\ x.grant = q.grant
        /\ x.client = q.client /\ x.owner = q.owner /\ x.scope = q.scope /\ x.uri = q.uri
        /\ x.load = q.load /\ x.token = q.token /\ x.issued = q.issued
        /\ x.barred = q.barred
    BY <1>1 DEF Answering, Request
  <2>3. Shaped(x)
    BY <1>1, <2>2 DEF Shaped, Exchanges, Good
  <2>4. Good(x)
    BY <1>1, <1>3, <2>2, <2>3
      DEF Good, Settled, Traced, OfGrant, Over, Signs, Hopeless, Honored, Exchanges
  <2>5. Go(r, x)
    BY <1>3
  <2> HIDE DEF x
  <2>6. QED
    BY <1>1, <2>1, <2>4, <2>5, GoOnly
<1>4. q.barred => /\ q.stage = "client" /\ ClientFound(q.client) =>
                       "owner" \in q.load /\ Gone(q.owner)
                  /\ q.stage = "owner" => ~Exists(q.owner)
  BY <1>1 DEF Good, Settled, Hopeless, Gone, Exists, ClientFound
<1>5. CASE LoadClient(r)
  <2>1. CASE ~Refuse(r)
    <3>1. PICK stage \in {"owner", "served"} :
               /\ stage = IF q.owner # None /\ "owner" \in q.load THEN "owner" ELSE "served"
               /\ Go(r, Answering(q, stage))
      BY <1>5, <2>1 DEF LoadClient
    <3>2. q.barred => stage = "owner" /\ Gone(q.owner)
      BY <1>4, <1>5, <2>1, <3>1 DEF LoadClient, At, Gone
    <3>3. QED
      BY <1>3, <3>1, <3>2
  <2>2. QED
    BY <1>2, <2>1
<1>6. CASE LoadOwner(r)
  BY <1>2, <1>3, <1>4, <1>6 DEF LoadOwner, At
<1>7. QED
  BY <1>5, <1>6


LEMMA ApproveKeeps ==
  ASSUME IInv, NEW r \in Requests, Approve(r)
  PROVE  IInv'
<1> DEFINE q == requests[r]
           x == [q EXCEPT !.stage = "owner", !.owner = Stored(q).owner]
<1>1. CASE Refuse(r)
  BY <1>1, RefuseOnly DEF Approve
<1>2. CASE Usable(q, "access") /\ Go(r, x)
  <2>1. /\ q \in Request /\ Good(q) /\ Stored(q) \in Token
        /\ q.stage = "token" /\ q.kind \in Approvals /\ q.kind \notin Exchanges
        /\ q.grant = NoGrant
    BY <1>2, Requested
      DEF Approve, At, Usable, Good, Shaped, Exchanges, Approvals
  <2>2. x \in Request
    BY <2>1, RequestTypes DEF Stages, Token
  <2>3. /\ x.kind = q.kind /\ x.stage = "owner" /\ x.grant = NoGrant
        /\ x.client = q.client /\ x.owner = Stored(q).owner
        /\ x.load = q.load /\ x.token = q.token /\ x.issued = q.issued
        /\ x.barred = q.barred
    BY <2>1 DEF Request
  <2>4. Shaped(x)
    BY <2>1, <2>3 DEF Shaped, Exchanges, Approvals, Good
  <2>5. Hopeless(x)
    BY <1>2, <2>1, <2>3
      DEF Good, Settled, Hopeless, Doomed, Usable, Honored, Gone, Shaped, Exchanges, Approvals
  <2>6. Good(x)
    BY <2>1, <2>3, <2>4, <2>5 DEF Good, Settled, Traced, Over, Signs
  <2> HIDE DEF x
  <2>7. QED
    BY <1>2, <2>2, <2>6, GoOnly DEF Approve
<1>3. QED
  BY <1>1, <1>2 DEF Approve

(* What a request issues is settled when the owner has been found.         *)
LEMMA IssuingGood ==
  ASSUME IInv, NEW r \in Requests, NEW scope \in Scopes,
         At(r, "owner"), requests[r].kind \in Exchanges \cup Approvals \cup {"password"},
         Exists(requests[r].owner),
         requests[r].kind \in Exchanges => scope = requests[r].scope
  PROVE  Issuing(requests[r], scope) \in Request /\ Good(Issuing(requests[r], scope))
<1> DEFINE q == requests[r]
           x == Issuing(q, scope)
<1>1. q \in Request /\ Good(q) /\ now \in Nat /\ q.stage = "owner"
  BY Requested DEF At
<1>2. x \in Request
  BY <1>1, IssuingTypes
<1>3. /\ x.kind = q.kind /\ x.stage = IF q.kind = "approve" THEN "code" ELSE "access"
      /\ x.grant = q.grant /\ x.client = q.client /\ x.owner = q.owner /\ x.uri = q.uri
      /\ x.scope = scope /\ x.load = {} /\ x.token.id = q.token.id
      /\ x.issued = q.issued /\ x.barred = q.barred
  BY <1>1 DEF Issuing, Request, Signed
<1>4. Shaped(x)
  BY <1>1, <1>3 DEF Shaped, Exchanges, Approvals, Good
<1>5. q.grant # NoGrant => q.kind \in Exchanges
  BY <1>1 DEF Good, Shaped
<1>6. Traced(x)
  BY <1>1, <1>3, <1>5 DEF Good, Settled, Traced, OfGrant, Found, Stored
<1>7. ~q.barred
  BY <1>1 DEF Good, Settled, Hopeless, Gone, Exists
<1>8. Good(x)
  BY <1>1, <1>3, <1>4, <1>6, <1>7 DEF Good, Settled, Over, Signs, Hopeless
<1>9. QED
  BY <1>2, <1>8

LEMMA OwnersKeep ==
  ASSUME IInv, NEW r \in Requests,
         \/ ApproveStrategy(r) \/ GetOwner(r)
         \/ handleResourceOwnerPasswordCredentialsGrant(r)
  PROVE  IInv'
<1> DEFINE q == requests[r]
<1>1. UNCHANGED <<instance, now, known, store, history>>
  BY DEF ApproveStrategy, GetOwner, handleResourceOwnerPasswordCredentialsGrant
<1>2. CASE Refuse(r)
  BY <1>1, <1>2, RefuseOnly
<1>3. CASE ~Refuse(r)
  <2>1. q.scope \in Scopes
    BY Requested DEF Request
  <2>2. PICK s \in Scopes :
          /\ At(r, "owner") /\ q.kind \in Exchanges \cup Approvals \cup {"password"}
          /\ Exists(q.owner) /\ Go(r, Issuing(q, s))
          /\ q.kind \in Exchanges => s = q.scope
    BY <1>3, <2>1 DEF ApproveStrategy, GetOwner, Exists, OwnerFound, Exchanges, Approvals,
      handleResourceOwnerPasswordCredentialsGrant
  <2>3. Issuing(q, s) \in Request /\ Good(Issuing(q, s))
    BY <2>2, IssuingGood
  <2>4. QED
    BY <1>1, <2>2, <2>3, GoOnly
<1>4. QED
  BY <1>2, <1>3

LEMMA RedeemKeeps ==
  ASSUME IInv, NEW r \in Requests,
         handleRefreshTokenGrant(r) \/ handleAuthorizationCodeGrant(r)
  PROVE  IInv'
<1> DEFINE q == requests[r]
           x == Redeem(q)
<1>1. UNCHANGED <<instance, now, known, store, history>>
  BY DEF handleRefreshTokenGrant, handleAuthorizationCodeGrant
<1>2. CASE Refuse(r)
  BY <1>1, <1>2, RefuseOnly
<1>3. CASE ~Refuse(r)
  <2>1. /\ q.stage = "token" /\ q.kind \in Exchanges /\ Redeemable(q) /\ Go(r, x)
    BY <1>3 DEF handleRefreshTokenGrant, handleAuthorizationCodeGrant, At, Exchanges
  <2>2. /\ q \in Request /\ Good(q) /\ Stored(q) \in Token /\ OfGrant(Stored(q))
        /\ Found(q) /\ Stored(q).type = q.kind /\ ~Expired(Stored(q))
        /\ Stored(q).client = q.client /\ q.scope \subseteq Stored(q).scope
    BY <2>1, Requested DEF Redeemable, Usable
  <2>3. x \in Request
    <3> DEFINE s == IF q.scope = {} THEN Stored(q).scope ELSE q.scope
    <3>1. s \in Scopes
      BY <2>2 DEF Token, Request
    <3>2. /\ Stored(q).owner \in Owners \cup {None} /\ Stored(q).uri \in URIs \cup {None}
          /\ Stored(q).grant \in Grant /\ "owner" \in Stages
      BY <2>2 DEF Token, Stages
    <3> HIDE DEF s
    <3>3. [q EXCEPT !.stage = "owner", !.owner = Stored(q).owner, !.uri = Stored(q).uri,
                    !.scope = s, !.grant = Stored(q).grant] \in Request
      BY <2>2, <3>1, <3>2, RequestTypes
    <3>4. QED
      BY <3>3 DEF s, Redeem
  <2>4. /\ x.kind = q.kind /\ x.stage = "owner" /\ x.grant = Stored(q).grant
        /\ x.client = q.client /\ x.owner = Stored(q).owner /\ x.uri = Stored(q).uri
        /\ x.scope \subseteq Stored(q).scope
        /\ x.load = q.load /\ x.token = q.token /\ x.issued = q.issued
        /\ x.barred = q.barred
    BY <2>2 DEF Redeem, Request
  <2>5. Shaped(x)
    BY <2>1, <2>2, <2>4 DEF Shaped, Exchanges, Good
  <2>6. Traced(x)
    <3>1. NoGrant.id \notin Ids
      BY FlameAssumption DEF NoGrant, NoID, Ids
    <3>2. OfGrant(x) /\ x.grant # NoGrant
      BY <2>2, <2>4, <3>1 DEF OfGrant
    <3>3. Found(x) => Stored(x).grant = x.grant /\ Stored(x).type = x.kind
      BY <2>2, <2>4 DEF Found, Stored
    <3>4. QED
      BY <3>2, <3>3 DEF Traced
  <2>7. Hopeless(x)
    BY <2>1, <2>2, <2>4 DEF Good, Settled, Hopeless, Doomed, Honored, Gone, Shaped, Exchanges
  <2>8. Good(x)
    BY <2>2, <2>4, <2>5, <2>6, <2>7 DEF Good, Settled, Over, Signs
  <2> HIDE DEF x
  <2>9. QED
    BY <1>1, <2>1, <2>3, <2>8, GoOnly
<1>4. QED
  BY <1>2, <1>3

LEMMA ManagedKeep ==
  ASSUME IInv, NEW r \in Requests, Revoke(r) \/ Introspect(r)
  PROVE  IInv'
<1> DEFINE q == requests[r]
<1>1. /\ UNCHANGED <<instance, now, known, store, history>>
      /\ q.stage = "token" /\ q.kind \in {"revoke", "introspect"}
  BY DEF Revoke, Introspect, At
<1>2. CASE Refuse(r)
  BY <1>1, <1>2, RefuseOnly
<1>3. CASE ~Refuse(r)
  <2>1. PICK stage \in {"answer", "delete", "served"} :
          /\ Go(r, Answering(q, stage))
          /\ q.kind = "introspect" => stage = "served" /\ Found(q) /\ ~Expired(Stored(q))
          /\ q.kind = "revoke" => stage # "served"
          /\ stage = "answer" => ~Found(q)
    BY <1>3 DEF Revoke, Introspect
  <2> DEFINE x == Answering(q, stage)
  <2>2. q \in Request /\ Good(q) /\ stage \in Stages
    BY Requested DEF Stages
  <2>3. x \in Request
    BY <2>2, RequestTypes DEF Answering
  <2>4. /\ x.kind = q.kind /\ x.stage = stage /\ x.grant = q.grant
        /\ x.client = q.client /\ x.owner = q.owner /\ x.scope = q.scope /\ x.uri = q.uri
        /\ x.load = q.load /\ x.token = q.token /\ x.issued = q.issued
        /\ x.barred = q.barred
    BY <2>2 DEF Answering, Request
  <2>5. Shaped(x)
    BY <1>1, <2>1, <2>2, <2>4 DEF Shaped, Exchanges, Good
  <2>6. Traced(x) /\ Over(x)
    BY <1>1, <2>1, <2>2, <2>4
      DEF Good, Settled, Traced, OfGrant, Over, Found, Stored, Exchanges
  <2>7. Hopeless(x)
    BY <1>1, <2>1, <2>2, <2>4
      DEF Good, Shaped, Settled, Hopeless, Doomed, Honored, Exchanges, Approvals
  <2>8. Good(x)
    BY <1>1, <2>2, <2>4, <2>5, <2>6, <2>7 DEF Good, Settled, Signs, Exchanges
  <2>9. Go(r, x)
    BY <2>1
  <2> HIDE DEF x
  <2>10. QED
    BY <1>1, <2>3, <2>8, <2>9, GoOnly
<1>4. QED
  BY <1>2, <1>3

LEMMA ReturnsKeep ==
  ASSUME IInv, NEW r \in Requests, Answer(r) \/ Served(r) \/ Fail(r)
  PROVE  IInv'
<1> DEFINE q == requests[r]
<1>1. CASE Served(r)
  BY <1>1, RefuseOnly DEF Served, Refuse
<1>2. CASE Fail(r)
  <2>1. calls' \in 0..setup.calls /\ faults' \in 0..MaxFaults
    BY <1>2, FlameAssumption DEF Fail, IInv, TypeOK, instance
  <2>2. QED
    BY <1>2, <2>1, BlankKeeps DEF Fail, instance
<1>3. CASE Answer(r)
  <2>1. q \in Request /\ Good(q) /\ q.stage = "answer" /\ next \in Nat
    BY <1>3, Requested DEF Answer, At
  <2>2. known' \subseteq [id : 1..(next - 1), expires : Nat]
    <3>1. ASSUME NEW t \in q.issued
          PROVE  t \in [id : 1..(next - 1), expires : Nat]
      BY <2>1 DEF Good, Settled, Signs, Request, Signed
    <3>2. QED
      BY <1>3, <3>1 DEF Answer, IInv, TypeOK
  <2>3. q.kind \in Exchanges \cup {"revoke"} => q.token.id \in Ids /\ q.token.id < next
    BY <2>1 DEF Good, Shaped, Settled
  <2>4. spent' \subseteq Ids
    BY <1>3, <2>3 DEF Answer, IInv, TypeOK
  <2>5. \A t \in known' : Matches(t)
    BY <1>3, <2>1 DEF Answer, IInv, Recorded, Good, Settled, Signs
  <2>6. \A id \in spent' : id < next /\ (id \in DOMAIN tokens => Expired(tokens[id]))
    BY <1>3, <2>1, <2>3
      DEF Answer, IInv, Recorded, Good, Settled, Over, Found, Stored
  <2>7. Recorded'
    BY <1>3, <2>5, <2>6 DEF Answer, Recorded, Matches, Expired, store
  <2>8. /\ UNCHANGED <<setup, now, store>>
        /\ calls' \in 0..setup.calls /\ faults' \in 0..MaxFaults
    BY <1>3 DEF Answer, IInv, TypeOK, instance
  <2>9. Blank \in Request /\ Good(Blank)
    BY BlankGood DEF IInv
  <2>10. Go(r, Blank)
    BY <1>3 DEF Answer
  <2>11. QED
    BY <2>2, <2>4, <2>7, <2>8, <2>9, <2>10, GoKeeps
<1>4. QED
  BY <1>1, <1>2, <1>3


-----------------------------------------------------------------------------
(* Tokens are saved.  The token and the signed token of a request.         *)
NewToken(q, type) ==
  [type |-> type, scope |-> q.scope, uri |-> q.uri, expires |-> q.since + Lifespan[type],
   client |-> q.client, owner |-> q.owner, grant |-> Root(q)]

NewSigned(q, type) == [id |-> next, expires |-> q.since + Lifespan[type]]

(* The request when its token is saved.                                    *)
Continued(q, type) ==
  IF now < q.since + Lifespan[type] THEN Saved(q, NewSigned(q, type)) ELSE Blank

Saving(r, type) ==
  /\ requests[r].stage \in {"access", "refresh", "code"}
  /\ type \in Types
  /\ requests[r].stage = "refresh" => type = "refresh"
  /\ saveToken(r, type)
  /\ UNCHANGED <<instance, now, clients, owners, known, history>>

LEMMA SavedToken ==
  ASSUME IInv, NEW r \in Requests, NEW type, Saving(r, type)
  PROVE  LET q == requests[r]  t == NewToken(q, type) IN
         /\ next \in Ids /\ next' = next + 1
         /\ t \in Token /\ OfGrant(t) /\ t.type = type /\ t.grant = Root(q)
         /\ NewSigned(q, type) = [id |-> next, expires |-> t.expires]
         /\ tokens' = [id \in DOMAIN tokens \cup {next} |-> IF id = next THEN t ELSE tokens[id]]
         /\ requests' = [requests EXCEPT ![r] = Continued(q, type)]
<1> DEFINE q == requests[r]
           t == NewToken(q, type)
<1>1. q \in Request /\ Good(q) /\ next \in Ids /\ type \in Types
  BY Requested DEF Saving, saveToken
<1>2. q.client \in Clients /\ q.since + Lifespan[type] \in Nat
  BY <1>1, FlameAssumption
    DEF Good, Shaped, Request, Types, Kinds, Exchanges, Approvals, Saving
<1>3. Root(q) \in Grant /\ Root(q).id \in Ids
  BY <1>1, <1>2 DEF Root, Grant, Good, Settled, Traced, OfGrant, Request
<1>4. t \in Token
  BY <1>1, <1>2, <1>3 DEF NewToken, Token, Request
<1>5. /\ t.type = type /\ t.grant = Root(q) /\ t.client = q.client /\ t.owner = q.owner
      /\ t.uri = q.uri /\ t.scope = q.scope /\ t.expires = q.since + Lifespan[type]
  BY DEF NewToken
<1>6. OfGrant(t)
  BY <1>1, <1>3, <1>5 DEF OfGrant, Root, Good, Settled, Traced
<1>7. NewSigned(q, type) = [id |-> next, expires |-> t.expires]
  BY <1>5 DEF NewSigned
<1>8. /\ next' = next + 1
      /\ tokens' = [id \in DOMAIN tokens \cup {next} |-> IF id = next THEN t ELSE tokens[id]]
  BY DEF Saving, saveToken, NewToken
<1>9. requests' = [requests EXCEPT ![r] = Continued(q, type)]
  BY DEF Saving, saveToken, Continued, NewSigned, Go, Refuse
<1>10. QED
  BY <1>1, <1>4, <1>5, <1>6, <1>7, <1>8, <1>9

LEMMA ContinuedTypes ==
  ASSUME IInv, NEW r \in Requests, NEW type, Saving(r, type)
  PROVE  Continued(requests[r], type) \in Request
<1> DEFINE q == requests[r]
           signed == NewSigned(q, type)
           issued == q.issued \cup {signed}
<1>1. q \in Request /\ Root(q) \in Grant /\ signed \in Signed
  <2> DEFINE t == NewToken(q, type)
  <2>1. /\ t \in Token /\ t.grant = Root(q) /\ next \in Ids
        /\ signed = [id |-> next, expires |-> t.expires]
    BY SavedToken
  <2> HIDE DEF t, signed
  <2>2. t.grant \in Grant /\ t.expires \in Nat
    BY <2>1 DEF Token
  <2>3. QED
    BY <2>1, <2>2, Requested DEF Signed
<1>2. issued \in SUBSET Signed
  BY <1>1 DEF Request
<1>3. Blank \in Request
  BY BlankGood DEF IInv
<1>4. After(q) \in Stages /\ "refresh" \in Stages
  BY DEF After, Stages
<1>5. /\ q.kind \in Kinds \cup {"none"} /\ q.barred \in BOOLEAN
      /\ [Blank.token EXCEPT !.id = q.token.id] \in Signed
  BY <1>1 DEF Request, Signed, Blank, NoToken
<1> HIDE DEF issued
<1>6. [q EXCEPT !.stage = "refresh", !.grant = Root(q), !.issued = issued] \in Request
  BY <1>1, <1>2, <1>4, RequestTypes
<1>7. [Blank EXCEPT !.kind = q.kind, !.stage = After(q),
                    !.token = [Blank.token EXCEPT !.id = q.token.id],
                    !.issued = issued, !.barred = q.barred] \in Request
  BY <1>2, <1>3, <1>4, <1>5, Zenon DEF Request
<1>8. Saved(q, signed) \in Request
  BY <1>6, <1>7 DEF Saved, issued
<1>9. QED
  BY <1>3, <1>8 DEF Continued


LEMMA SavingSteady ==
  ASSUME IInv, NEW r \in Requests, NEW type, Saving(r, type)
  PROVE  /\ TypeOK' /\ Steady
         /\ DOMAIN tokens' = DOMAIN tokens \cup {next}
         /\ tokens'[next] = NewToken(requests[r], type)
         /\ \A id \in DOMAIN tokens : id # next /\ tokens'[id] = tokens[id]
         /\ NewToken(requests[r], type).grant.id \in Ids
<1> DEFINE q == requests[r]
           t == NewToken(q, type)
<1>1. /\ next \in Ids /\ next' = next + 1 /\ next \in Nat
      /\ t \in Token /\ OfGrant(t) /\ t.grant = Root(q)
      /\ tokens' = [id \in DOMAIN tokens \cup {next} |-> IF id = next THEN t ELSE tokens[id]]
      /\ requests' = [requests EXCEPT ![r] = Continued(q, type)]
      /\ UNCHANGED <<setup, calls, now, clients, owners, known, spent, faults>>
  BY SavedToken, Requested DEF Saving, instance, history
<1>2. Continued(q, type) \in Request
  BY ContinuedTypes
<1>3. \A id \in DOMAIN tokens : id \in 1..(next - 1) /\ id # next /\ tokens[id] \in Token
  BY <1>1 DEF IInv, TypeOK
<1> HIDE DEF t, q
<1>4. /\ DOMAIN tokens' = DOMAIN tokens \cup {next} /\ tokens'[next] = t
      /\ \A id \in DOMAIN tokens : tokens'[id] = tokens[id]
  BY <1>1, <1>3
<1>5. tokens' \in [DOMAIN tokens' -> Token] /\ DOMAIN tokens' \subseteq 1..(next' - 1)
  <2>1. DOMAIN tokens' \subseteq 1..(next' - 1)
    BY <1>1, <1>3, <1>4 DEF Ids
  <2>2. \A id \in DOMAIN tokens' : tokens'[id] \in Token
    BY <1>1, <1>3, <1>4
  <2>3. tokens' = [id \in DOMAIN tokens' |-> tokens'[id]]
    BY <1>1
  <2>4. QED
    BY <2>1, <2>2, <2>3
<1>6. next' \in 1..(MaxTokens + 1)
  BY <1>1, FlameAssumption DEF Ids
<1>7. requests' \in [Requests -> Request]
  BY <1>1, <1>2 DEF IInv, TypeOK
<1>8. known' \subseteq [id : 1..(next' - 1), expires : Nat]
  <2>1. 1..(next - 1) \subseteq 1..(next' - 1)
    BY <1>1
  <2>2. QED
    BY <1>1, <2>1 DEF IInv, TypeOK
<1>9. t.grant.id \in Ids
  BY <1>1 DEF OfGrant
<1>10. TypeOK'
  BY <1>1, <1>5, <1>6, <1>7, <1>8, <1>9 DEF IInv, TypeOK
<1>11. Steady
  BY <1>1, <1>3, <1>4, FlameAssumption DEF Steady, IInv, TypeOK
<1>12. QED
  BY <1>3, <1>4, <1>9, <1>10, <1>11 DEF t, q

LEMMA SavingDescends ==
  ASSUME IInv, NEW r \in Requests, NEW type, Saving(r, type)
  PROVE  Descends'
<1> DEFINE t == NewToken(requests[r], type)
<1>1. /\ DOMAIN tokens' = DOMAIN tokens \cup {next} /\ tokens'[next] = t
      /\ \A id \in DOMAIN tokens : tokens'[id] = tokens[id]
      /\ OfGrant(t)
  BY SavingSteady, SavedToken
<1> HIDE DEF t
<1>2. QED
  BY <1>1 DEF IInv, Descends, OfGrant

(* The request that saves a token goes on to what remains to be done.      *)
LEMMA ContinuedGood ==
  ASSUME IInv, NEW r \in Requests, NEW type, Saving(r, type),
         NEW q, q = requests[r], NEW x, x = Continued(q, type)
  PROVE  Good(x)'
<1>1. PICK n, t, signed : n = next /\ t = NewToken(q, type) /\ signed = NewSigned(q, type)
  OBVIOUS
<1>2. /\ q \in Request /\ Good(q) /\ n = next /\ n \in Nat /\ n > 0
      /\ q.stage \in {"access", "refresh", "code"} /\ type \in Types
      /\ q.stage = "refresh" => type = "refresh"
  BY <1>1, Requested DEF Saving, IInv, TypeOK
<1>3. /\ DOMAIN tokens' = DOMAIN tokens \cup {n} /\ tokens'[n] = t
      /\ \A id \in DOMAIN tokens : id # n /\ tokens'[id] = tokens[id]
      /\ t.grant = Root(q) /\ t.type = type /\ OfGrant(t) /\ next' = n + 1
      /\ signed = [id |-> n, expires |-> t.expires]
  <2>1. LET v == NewToken(requests[r], type) IN
        /\ DOMAIN tokens' = DOMAIN tokens \cup {next} /\ tokens'[next] = v
        /\ \A id \in DOMAIN tokens : id # next /\ tokens'[id] = tokens[id]
        /\ v.grant = Root(requests[r]) /\ v.type = type /\ OfGrant(v) /\ next' = next + 1
        /\ NewSigned(requests[r], type) = [id |-> next, expires |-> v.expires]
    BY SavingSteady, SavedToken
  <2>2. QED
    BY <1>1, <2>1
<1>4. t.client = q.client /\ t.owner = q.owner /\ t.uri = q.uri /\ t.scope = q.scope
  BY <1>1 DEF NewToken
<1>5. q.token.id \in Nat /\ q.token.id < n /\ ~q.barred
  BY <1>2 DEF Good, Settled, Hopeless, Honored, Shaped, Request, Signed, Ids, NoID, Kinds
<1>6. Settled(q)'
  BY <1>2, SettledStays, SavingSteady DEF IInv, Good
<1>7. \A i \in q.issued \cup {signed} : i.id \in 1..(next' - 1) /\ Matches(i)'
  <2>1. \A i \in q.issued : i.id \in 1..(next' - 1) /\ Matches(i)'
    BY <1>6 DEF Settled, Signs
  <2>2. signed.id \in 1..(next' - 1) /\ Matches(signed)'
    BY <1>2, <1>3 DEF Matches
  <2>3. QED
    BY <2>1, <2>2
<1>8. CASE x = Blank
  BY <1>2, <1>3, <1>8 DEF Blank, Good, Shaped, Settled, Traced, Over, Signs, Hopeless,
    NoToken, NoID
<1>9. CASE x = Saved(q, signed) /\ After(q) = "refresh"
  <2>1. /\ x.kind = q.kind /\ x.stage = "refresh" /\ x.grant = Root(q)
        /\ x.client = q.client /\ x.owner = q.owner /\ x.uri = q.uri /\ x.scope = q.scope
        /\ x.load = q.load /\ x.token = q.token /\ x.barred = q.barred
        /\ x.issued = q.issued \cup {signed}
    BY <1>2, <1>9 DEF Saved, Request
  <2>2. q.stage = "access" /\ "refresh" \in Permitted[q.client]
    BY <1>2, <1>9 DEF After, Refreshable
  <2>3. Shaped(x)
    BY <1>2, <2>1, <2>2 DEF Shaped, Good, Exchanges
  <2>4. OfGrant(x)
    BY <1>3, <1>4, <2>1 DEF OfGrant
  <2>5. q.kind \in Exchanges =>
          q.grant # NoGrant /\ Root(q) = q.grant /\ (Found(q)' => Stored(q)'.grant = q.grant
                                                      /\ Stored(q)'.type = q.kind)
    BY <1>6, <2>2 DEF Settled, Traced, Root
  <2>6. Traced(x)'
    BY <2>1, <2>4, <2>5 DEF Traced, OfGrant, Found, Stored
  <2>7. Settled(x)'
    BY <1>2, <1>3, <1>5, <1>7, <2>1, <2>6 DEF Settled, Over, Signs, Hopeless
  <2>8. QED
    BY <2>1, <2>3, <2>7 DEF Good, Shaped
<1>10. CASE x = Saved(q, signed) /\ After(q) # "refresh"
  <2>1. /\ x.kind = q.kind /\ x.stage = After(q) /\ x.grant = NoGrant /\ x.load = {}
        /\ x.token.id = q.token.id /\ x.barred = q.barred
        /\ x.issued = q.issued \cup {signed}
    BY <1>10 DEF Saved, Blank, NoToken
  <2>2. /\ q.kind \in Kinds \ {"authorize", "revoke"}
        /\ q.stage = "code" => q.kind = "approve"
        /\ q.kind = "refresh" => "refresh" \in Permitted[q.client]
    BY <1>2 DEF Good, Shaped
  <2>3. q.kind = "refresh" => q.stage = "refresh"
    BY <1>2, <1>10, <2>2 DEF After, Refreshable
  <2>4. /\ After(q) \in {"answer", "delete"}
        /\ q.kind \in Exchanges => After(q) = "delete" /\ q.stage # "code"
        /\ After(q) = "delete" => q.kind \in Exchanges
    BY <1>2, <1>10, <2>2 DEF After, Exchanges
  <2>5. Shaped(x)
    BY <1>2, <2>1, <2>2, <2>3, <2>4 DEF Shaped, Good, Exchanges
  <2>6. Settled(x)'
    BY <1>2, <1>3, <1>5, <1>7, <2>1, <2>2, <2>3, <2>4
      DEF Settled, Traced, Over, Signs, Hopeless
  <2>7. QED
    BY <2>5, <2>6 DEF Good, Shaped
<1>11. QED
  BY <1>1, <1>8, <1>9, <1>10 DEF Continued

LEMMA SavingKeeps ==
  ASSUME IInv, NEW r \in Requests, NEW type, Saving(r, type)
  PROVE  IInv'
<1>1. TypeOK' /\ Steady /\ Descends'
  BY SavingSteady, SavingDescends
<1>2. Recorded'
  BY <1>1, RecordedStays DEF IInv, Saving, history
<1>3. PICK q, x : q = requests[r] /\ x = Continued(q, type)
  OBVIOUS
<1>4. Good(x)' /\ requests' = [requests EXCEPT ![r] = x]
  BY <1>3, ContinuedGood, SavedToken
<1>5. ASSUME NEW p \in Requests
      PROVE  Good(requests[p])'
  <2>1. CASE p = r
    <3>1. requests'[p] = x
      BY <1>4, <2>1 DEF IInv, TypeOK
    <3>2. QED
      BY <1>4, <3>1
  <2>2. CASE p # r
    <3>1. requests'[p] = requests[p]
      BY <1>4, <2>2 DEF IInv, TypeOK
    <3>2. PICK o \in Request : o = requests[p] /\ Good(o)
      BY Requested
    <3>3. Settled(o)'
      BY <1>1, <3>2, SettledStays DEF IInv, Good
    <3>4. Good(o)'
      BY <3>2, <3>3 DEF Good, Shaped
    <3>5. QED
      BY <3>1, <3>2, <3>4
  <2>3. QED
    BY <2>1, <2>2
<1>6. QED
  BY <1>1, <1>2, <1>5 DEF IInv


-----------------------------------------------------------------------------
(* Tokens, clients and owners are removed, and time passes.                *)

Dropping(id) ==
  /\ tokens' = Without(id)
  /\ UNCHANGED <<instance, now, clients, owners, next, known, history>>

LEMMA DroppingKeeps ==
  ASSUME IInv, NEW id \in Int, Dropping(id), requests' \in [Requests -> Request],
         NEW q \in Request, Good(q)
  PROVE  /\ TypeOK' /\ Steady /\ Descends' /\ Recorded'
         /\ Settled(q)'
<1>1. /\ DOMAIN tokens' = DOMAIN tokens \ {id}
      /\ \A i \in DOMAIN tokens' : i \in DOMAIN tokens /\ tokens'[i] = tokens[i]
      /\ tokens' = [i \in DOMAIN tokens' |-> tokens[i]]
  BY DEF Dropping, Without
<1>2. DOMAIN tokens \subseteq Nat /\ next \in Nat /\ now \in Nat
  BY FlameAssumption DEF IInv, TypeOK
<1>3. tokens' \in [DOMAIN tokens' -> Token]
  BY <1>1 DEF IInv, TypeOK
<1>4. TypeOK'
  BY <1>1, <1>3 DEF Dropping, instance, history, IInv, TypeOK
<1>5. Steady
  BY <1>1, <1>2 DEF Dropping, Steady
<1>6. Recorded'
  BY <1>4, <1>5, RecordedStays DEF IInv, Dropping, history
<1>7. Settled(q)'
  BY <1>4, <1>5, SettledStays DEF IInv, Good
<1>8. Descends'
  BY <1>1 DEF IInv, Descends, OfGrant
<1>9. QED
  BY <1>4, <1>5, <1>6, <1>7, <1>8

LEMMA RemoveExpiredKeeps ==
  ASSUME IInv, NEW id \in Ids, RemoveExpired(id)
  PROVE  IInv'
<1>1. Dropping(id) /\ requests' = requests /\ id \in Int
  BY FlameAssumption DEF RemoveExpired, Dropping, Ids
<1>2. requests' \in [Requests -> Request]
  BY <1>1 DEF IInv, TypeOK
<1>3. Blank \in Request /\ Good(Blank)
  BY BlankGood DEF IInv
<1>4. TypeOK' /\ Descends' /\ Recorded'
  BY <1>1, <1>2, <1>3, DroppingKeeps
<1>5. ASSUME NEW r \in Requests
      PROVE  Good(requests[r])'
  <2>1. PICK q \in Request : q = requests[r] /\ Good(q)
    BY Requested
  <2>2. Good(q)'
    BY <1>1, <1>2, <2>1, DroppingKeeps DEF Good, Shaped
  <2>3. QED
    BY <1>1, <2>1, <2>2
<1>6. QED
  BY <1>4, <1>5 DEF IInv

LEMMA deleteTokenKeeps ==
  ASSUME IInv, NEW r \in Requests, deleteToken(r)
  PROVE  IInv'
<1>1. PICK q \in Request :
        q = requests[r] /\ Good(q) /\ q.stage = "delete" /\ q.token.id \in Int
  BY Requested DEF deleteToken, At, Request, Signed, Ids, NoID
<1>2. PICK x : x = Answering(q, "answer")
  OBVIOUS
<1>3. /\ x \in Request
      /\ x.kind = q.kind /\ x.stage = "answer" /\ x.grant = q.grant
      /\ x.client = q.client /\ x.owner = q.owner /\ x.scope = q.scope /\ x.uri = q.uri
      /\ x.load = q.load /\ x.token = q.token /\ x.issued = q.issued
      /\ x.barred = q.barred
  <2>1. [q EXCEPT !.stage = "answer"] \in Request
    BY RequestTypes DEF Stages
  <2>2. QED
    BY <1>2, <2>1 DEF Answering, Request
<1>4. requests' = [requests EXCEPT ![r] = x] /\ requests \in [Requests -> Request]
  BY <1>1, <1>2 DEF deleteToken, Go, IInv, TypeOK
<1>5. requests' \in [Requests -> Request]
  BY <1>3, <1>4
<1>6. Dropping(q.token.id)
  BY <1>1 DEF deleteToken, Dropping, Deleted
<1>7. TypeOK' /\ Descends' /\ Recorded' /\ Settled(q)'
  BY <1>1, <1>5, <1>6, DroppingKeeps
<1>8. q.token.id \notin DOMAIN tokens'
  BY <1>6 DEF Dropping, Without
<1>9. Good(x)'
  <2>1. Shaped(x)
    BY <1>1, <1>3 DEF Good, Shaped
  <2>2. Traced(x)' /\ Over(x)'
    BY <1>3, <1>7, <1>8 DEF Settled, Traced, OfGrant, Over, Found, Stored
  <2>3. Hopeless(x)'
    BY <1>1, <1>3 DEF Good, Settled, Hopeless, Honored
  <2>4. QED
    BY <1>3, <1>7, <2>1, <2>2, <2>3 DEF Good, Shaped, Settled, Signs
<1>10. ASSUME NEW p \in Requests
       PROVE  Good(requests[p])'
  <2>1. CASE p = r
    <3>1. requests'[p] = x
      BY <1>4, <2>1
    <3>2. QED
      BY <1>9, <3>1
  <2>2. CASE p # r
    <3>1. PICK y \in Request : y = requests[p] /\ Good(y)
      BY Requested
    <3>2. Good(y)'
      BY <1>1, <1>5, <1>6, <3>1, DroppingKeeps DEF Good, Shaped
    <3>3. requests'[p] = y
      BY <1>4, <2>2, <3>1
    <3>4. QED
      BY <3>2, <3>3
  <2>3. QED
    BY <2>1, <2>2
<1>11. QED
  BY <1>7, <1>10 DEF IInv

LEMMA AroundKeeps ==
  ASSUME IInv,
         Tick \/ (\E c \in Clients : RemoveClient(c)) \/ (\E o \in Owners : RemoveOwner(o))
  PROVE  IInv'
<1>1. /\ UNCHANGED <<setup, calls, tokens, next, known, requests, spent>>
      /\ clients' \subseteq clients /\ owners' \subseteq owners
      /\ now' \in 0..MaxTime /\ now' >= now /\ faults' \in 0..MaxFaults
  BY FlameAssumption DEF Tick, RemoveClient, RemoveOwner, instance, store, history, IInv, TypeOK
<1>2. TypeOK'
  BY <1>1 DEF IInv, TypeOK
<1>3. Steady
  BY <1>1, FlameAssumption DEF Steady, IInv, TypeOK
<1>4. Recorded'
  BY <1>1, <1>2, <1>3, RecordedStays DEF IInv
<1>5. Descends'
  BY <1>1 DEF IInv, Descends, OfGrant
<1>6. ASSUME NEW r \in Requests
      PROVE  Good(requests[r])'
  <2>1. PICK q \in Request : q = requests[r] /\ Good(q)
    BY Requested
  <2>2. Settled(q)'
    BY <1>2, <1>3, <2>1, SettledStays DEF IInv, Good
  <2>3. QED
    BY <1>1, <2>1, <2>2 DEF Good, Shaped
<1>7. QED
  BY <1>2, <1>4, <1>5, <1>6 DEF IInv

-----------------------------------------------------------------------------
LEMMA InitInv == Init => IInv
<1> SUFFICES ASSUME Init PROVE IInv
  OBVIOUS
<1>1. /\ setup \in Setups /\ setup.calls \in Nat /\ next \in 1..(MaxTokens + 1)
      /\ tokens \in [1..(next - 1) -> Token] /\ \A id \in DOMAIN tokens : OfGrant(tokens[id])
      /\ next = setup.next /\ tokens = setup.tokens
  BY SetupAssumption DEF Init
<1>2. DOMAIN tokens = 1..(next - 1) /\ \A id \in DOMAIN tokens : tokens[id].expires \in Nat
  BY <1>1 DEF Token
<1>3. known \subseteq [id : 1..(next - 1), expires : Nat] /\ \A t \in known : Matches(t)
  BY <1>1, <1>2 DEF Init, Matches
<1>4. \A r \in Requests : requests[r] = Blank
  BY DEF Init
<1>5. requests \in [Requests -> Request]
  BY <1>4, FlameAssumption
    DEF Init, Blank, Request, Stages, NoToken, NoGrant, Signed, Grant, NoID
<1>6. TypeOK
  BY <1>1, <1>2, <1>3, <1>5, FlameAssumption DEF Init, TypeOK
<1>7. Recorded
  BY <1>3 DEF Init, Recorded
<1>8. \A r \in Requests : Good(requests[r])
  BY <1>4, <1>6, BlankGood
<1>9. QED
  BY <1>1, <1>6, <1>7, <1>8 DEF IInv, Descends

LEMMA StepInv == IInv /\ [Next]_vars => IInv'
<1> SUFFICES ASSUME IInv, [Next]_vars PROVE IInv'
  OBVIOUS
<1>1. CASE UNCHANGED vars
  BY <1>1 DEF vars, IInv, TypeOK, Descends, OfGrant, Recorded, Good, Shaped, Settled,
    Traced, Over, Signs, Hopeless, Found, Stored, Matches, Expired, Honored,
    Doomed, Gone
<1>2. ASSUME NEW r \in Requests, Endpoint(r)
      PROVE  IInv'
  <2>1. CASE SaveAccess(r)
    <3>1. Saving(r, "access")
      BY <2>1 DEF SaveAccess, Saving, At, Types, history
    <3>2. QED
      BY <3>1, SavingKeeps
  <2>2. CASE SaveRefresh(r)
    <3>1. Saving(r, "refresh")
      BY <2>2 DEF SaveRefresh, Saving, At, Types
    <3>2. QED
      BY <3>1, SavingKeeps
  <2>3. CASE SaveCode(r)
    <3>1. Saving(r, "code")
      BY <2>3 DEF SaveCode, Saving, At, Types, history
    <3>2. QED
      BY <3>1, SavingKeeps
  <2>4. QED
    BY <1>2, <2>1, <2>2, <2>3, ArrivalsKeep, AuthorizerKeeps, LoadsKeep, ApproveKeeps,
      OwnersKeep, RedeemKeeps, ManagedKeep, deleteTokenKeeps, ReturnsKeep DEF Endpoint
<1>3. QED
  BY <1>1, <1>2, RemoveExpiredKeeps, AroundKeeps DEF Next

LEMMA InvHolds == Spec => []IInv
  BY InitInv, StepInv, PTL DEF Spec

(* The authenticator keeps the tokens of every client and owner apart:     *)
(* every stored token stays within the grant it goes back to.              *)
THEOREM FlameInvHolds == Spec => []FlameInv
<1>1. IInv => FlameInv
  BY DEF IInv, FlameInv
<1>2. QED
  BY <1>1, InvHolds, PTL

(* No request that arrives with a token, a client or an owner that has     *)
(* ended is honored by any endpoint or by the authorizer.                  *)
THEOREM EndedForGoodHolds == Spec => []EndedForGood
<1>1. IInv => EndedForGood
  BY DEF IInv, EndedForGood, Good, Settled, Hopeless
<1>2. QED
  BY <1>1, InvHolds, PTL

-----------------------------------------------------------------------------
(* Why a grant stays in hand.  A request exchanges or revokes a token that *)
(* is known; a refresh token does not outlast one issued for it.           *)
Lasting(q) ==
  /\ q.token.id \in {NoID} \cup {t.id : t \in known}
  /\ q.since <= now
  /\ q.kind = "refresh" /\ q.stage \in {"access", "refresh"} /\ Found(q) =>
       Stored(q).expires <= q.since + Lifespan["refresh"]

InTime ==
  \A id \in DOMAIN tokens :
    tokens[id].type = "refresh" => tokens[id].expires <= now + Lifespan["refresh"]

(* Nobody else knows a token before the answer that carries it.            *)
Apart ==
  \A r \in Requests : \A t \in requests[r].issued :
    /\ \A u \in known : u.id # t.id
    /\ \A p \in Requests \ {r} : \A u \in requests[p].issued : u.id # t.id

(* A refresh token that is about to be deleted has a successor that is     *)
(* stored as long as it has not expired.                                   *)
Successor(t, old) ==
  /\ t.expires >= old.expires
  /\ t.id \in DOMAIN tokens => tokens[t.id].type = "refresh" /\ tokens[t.id].grant = old.grant
  /\ t.id \notin DOMAIN tokens => Expired(t)

Succeeded(q) ==
  q.stage = "delete" /\ q.kind \in Exchanges /\ Found(q) =>
    /\ Stored(q).type = q.kind
    /\ q.kind = "refresh" => \E t \in q.issued : Successor(t, Stored(q))

HandInv ==
  InTime /\ Apart /\ \A r \in Requests : Lasting(requests[r]) /\ Succeeded(requests[r])

(* A token that was issued is only removed once it has expired.            *)
Spared == \A r \in Requests : \A t \in requests[r].issued :
            t.id \in DOMAIN tokens /\ t.id \notin DOMAIN tokens' => Expired(t)'

(* The requests that do not move keep what was said of them.               *)
LEMMA OthersLast ==
  ASSUME IInv, TypeOK', HandInv, Steady, Spared, known \subseteq known',
         NEW r \in Requests, NEW q, q = requests[r]
  PROVE  Lasting(q)' /\ Succeeded(q)'
<1>1. /\ q \in Request /\ Settled(q) /\ Lasting(q) /\ Succeeded(q)
      /\ now \in Nat /\ now' \in Nat /\ next \in Nat
  BY Requested, FlameAssumption DEF HandInv, Good, TypeOK
<1>2. q.token.id \in 0..(next - 1) /\ q.since \in Nat
  BY <1>1 DEF Settled, Request, Signed, Ids, NoID
<1>3. Found(q)' => Found(q) /\ Stored(q)' = Stored(q)
  BY <1>2 DEF Found, Stored, Steady
<1>4. q.since <= now'
  BY <1>1, <1>2 DEF Lasting, Steady
<1>5. Lasting(q)'
  BY <1>1, <1>3, <1>4 DEF Lasting
<1>6. ASSUME NEW t \in q.issued, NEW old, Successor(t, old)
      PROVE  Successor(t, old)'
  <2>1. t.id \in 1..(next - 1) /\ t.expires \in Nat
    BY <1>1 DEF Settled, Signs, Request, Signed
  <2>2. t.id \in DOMAIN tokens' => t.id \in DOMAIN tokens /\ tokens'[t.id] = tokens[t.id]
    BY <1>1, <2>1 DEF Steady
  <2>3. Expired(t) => Expired(t)'
    BY <1>1, <2>1 DEF Expired, Steady
  <2>4. t.id \notin DOMAIN tokens' => Expired(t)'
    BY <1>6, <2>3 DEF Spared, Successor
  <2>5. QED
    BY <1>6, <2>2, <2>4 DEF Successor
<1>7. Succeeded(q)'
  BY <1>1, <1>3, <1>6 DEF Succeeded
<1>8. QED
  BY <1>5, <1>7

LEMMA StaysInTime ==
  ASSUME TypeOK, TypeOK', InTime, now' >= now,
         \A id \in DOMAIN tokens' : id \in DOMAIN tokens /\ tokens'[id] = tokens[id]
  PROVE  InTime'
<1>1. now \in Nat /\ now' \in Nat /\ Lifespan["refresh"] \in Nat
  BY FlameAssumption DEF TypeOK, Types
<1>2. ASSUME NEW id \in DOMAIN tokens', tokens'[id].type = "refresh"
      PROVE  tokens'[id].expires <= now' + Lifespan["refresh"]
  <2>1. tokens[id].expires \in Nat /\ tokens[id].expires <= now + Lifespan["refresh"]
    BY <1>2 DEF TypeOK, Token, InTime
  <2>2. QED
    BY <1>1, <1>2, <2>1
<1>3. QED
  BY <1>2 DEF InTime

(* A request moves: it issues at most a new token, and what becomes known  *)
(* is what it had issued.                                                  *)
LEMMA StaysApart ==
  ASSUME IInv, Apart, NEW r \in Requests, NEW x,
         requests' = [requests EXCEPT ![r] = x],
         \A t \in x.issued : t \in requests[r].issued \/ t.id = next,
         \A u \in known' : u \in known \/ (u \in requests[r].issued /\ x.issued = {})
  PROVE  Apart'
<1>1. /\ requests'[r] = x
      /\ \A p \in Requests \ {r} : requests'[p] = requests[p]
  BY DEF IInv, TypeOK
<1>2. next \in Nat /\ \A u \in known : u.id \in 1..(next - 1)
  BY Requested DEF IInv, TypeOK
<1>3. \A p \in Requests : \A t \in requests[p].issued : t.id \in 1..(next - 1)
  BY Requested DEF Good, Settled, Signs
<1>4. ASSUME NEW p \in Requests, NEW t \in requests'[p].issued, NEW u \in known'
      PROVE  u.id # t.id
  <2>1. CASE p = r
    BY <1>1, <1>2, <1>4, <2>1 DEF Apart
  <2>2. CASE p # r
    BY <1>1, <1>4, <2>2 DEF Apart
  <2>3. QED
    BY <2>1, <2>2
<1>5. ASSUME NEW p \in Requests, NEW o \in Requests \ {p},
             NEW t \in requests'[p].issued, NEW u \in requests'[o].issued
      PROVE  u.id # t.id
  <2>1. CASE p = r
    BY <1>1, <1>2, <1>3, <1>5, <2>1 DEF Apart
  <2>2. CASE o = r
    BY <1>1, <1>2, <1>3, <1>5, <2>2 DEF Apart
  <2>3. CASE p # r /\ o # r
    BY <1>1, <1>5, <2>3 DEF Apart
  <2>4. QED
    BY <2>1, <2>2, <2>3
<1>6. QED
  BY <1>4, <1>5 DEF Apart

-----------------------------------------------------------------------------
(* A step of a request that leaves the stored tokens alone.                *)
Quiet(q, x) ==
  /\ x.issued \subseteq q.issued
  /\ x.token.id \in {NoID} \cup {t.id : t \in known}
  /\ x.since <= now
  /\ x.stage # "refresh" /\ (x.stage = "access" => x.since = now)
  /\ x.stage = "delete" => x.kind = "revoke"

LEMMA QuietKeeps ==
  ASSUME IInv, IInv', HandInv, NEW r \in Requests, NEW x, Quiet(requests[r], x), Go(r, x),
         UNCHANGED <<now, store>>,
         known' = known \/ (known' = known \cup requests[r].issued /\ x = Blank)
  PROVE  HandInv'
<1>1. /\ requests' = [requests EXCEPT ![r] = x] /\ requests'[r] = x
      /\ x.issued \subseteq requests[r].issued
  BY DEF Go, IInv, TypeOK, Quiet
<1>2. Steady /\ Spared /\ known \subseteq known' /\ TypeOK /\ TypeOK'
  BY FlameAssumption DEF Steady, Spared, store, IInv, TypeOK
<1>3. InTime'
  BY <1>2, StaysInTime DEF HandInv, Steady, store
<1>4. Apart'
  <2>1. x = Blank => x.issued = {}
    BY DEF Blank
  <2>2. QED
    BY <1>1, <2>1, StaysApart DEF HandInv
<1>5. Good(x)' /\ now' = now /\ x.kind = "refresh" => x.stage # "delete"
  BY <1>1 DEF IInv, Quiet
<1>6. Lasting(x)'
  <2>1. x.token.id \in {NoID} \cup {t.id : t \in known'} /\ x.since <= now'
    BY <1>2 DEF Quiet
  <2>2. ASSUME x.kind = "refresh", x.stage \in {"access", "refresh"}, Found(x)'
        PROVE  tokens'[x.token.id].expires <= x.since + Lifespan["refresh"]
    <3>1. x.since = now' /\ x.stage = "access"
      BY <2>2 DEF Quiet
    <3>2. tokens'[x.token.id].type = "refresh" /\ x.token.id \in DOMAIN tokens'
      BY <1>1, <2>2, <3>1 DEF IInv, Good, Settled, Traced, Found, Stored, Exchanges
    <3>3. QED
      BY <1>3, <3>1, <3>2 DEF InTime
  <2>3. QED
    BY <2>1, <2>2 DEF Lasting, Stored, Found
<1>7. Succeeded(x)'
  BY DEF Succeeded, Quiet, Exchanges
<1>8. ASSUME NEW p \in Requests
      PROVE  Lasting(requests[p])' /\ Succeeded(requests[p])'
  <2>1. CASE p = r
    BY <1>1, <1>6, <1>7, <2>1
  <2>2. CASE p # r
    <3>1. PICK q : q = requests[p] /\ requests'[p] = q
      BY <1>1, <2>2 DEF IInv, TypeOK
    <3>2. Lasting(q)' /\ Succeeded(q)'
      BY <1>2, <3>1, OthersLast
    <3>3. QED
      BY <3>1, <3>2
  <2>3. QED
    BY <2>1, <2>2
<1>9. QED
  BY <1>3, <1>4, <1>8 DEF HandInv

-----------------------------------------------------------------------------
(* What the steps of a request that only read make of it.                  *)
LEMMA BlankQuiet ==
  ASSUME IInv, NEW q
  PROVE  Quiet(q, Blank)
  BY FlameAssumption DEF Quiet, Blank, NoToken, IInv, TypeOK

LEMMA ArrivingQuiet ==
  ASSUME IInv, NEW kind \in Kinds, NEW i \in Inputs(kind),
         NEW stage \in {"token", "owner", "answer"},
         NEW y, y = Answering(i, stage), NEW x, x = [y EXCEPT !.barred = Barred(y)],
         NEW q
  PROVE  Quiet(q, x)
<1>1. /\ i \in Request /\ i.issued = {} /\ now \in Nat
      /\ i.token = NoToken \/ i.token \in known
  BY InputTypes, FlameAssumption DEF IInv, TypeOK
<1>2. i.since = 0
  BY DEF Inputs, Blank
<1>3. x.stage = stage /\ x.issued = {} /\ x.token = i.token /\ x.since = 0
  BY <1>1, <1>2 DEF Answering, Request
<1>4. QED
  BY <1>1, <1>3 DEF Quiet, NoToken

LEMMA ReadingQuiet ==
  ASSUME IInv, HandInv, NEW r \in Requests, NEW q, q = requests[r], NEW s,
         NEW stage \in {"client", "owner", "served", "answer", "delete"},
         stage = "delete" => q.kind = "revoke"
  PROVE  /\ Quiet(q, Answering(q, stage)) /\ Quiet(q, Issuing(q, s)) /\ Quiet(q, Redeem(q))
         /\ stage # "delete" => Quiet(q, Holding(q, stage))
         /\ Quiet(q, [q EXCEPT !.stage = "owner", !.owner = Stored(q).owner])
<1>1. q \in Request /\ Lasting(q) /\ now \in Nat
  BY Requested DEF HandInv
<1>2. ASSUME NEW x, x.issued = q.issued, x.token.id = q.token.id, x.since \in {q.since, now},
             x.stage \notin {"refresh", "delete"}, x.stage = "access" => x.since = now
      PROVE  Quiet(q, x)
  BY <1>1, <1>2 DEF Quiet, Lasting
<1>3. Quiet(q, Answering(q, stage))
  BY <1>1 DEF Quiet, Lasting, Answering, Request
<1>4. Quiet(q, Issuing(q, s))
  <2>1. PICK x : x = Issuing(q, s)
    OBVIOUS
  <2>2. /\ x.issued = q.issued /\ x.token.id = q.token.id /\ x.since = now
        /\ x.stage \in {"access", "code"}
    BY <1>1, <2>1 DEF Issuing, Request, Signed
  <2>3. QED
    BY <1>2, <2>1, <2>2
<1>5. Quiet(q, Redeem(q))
  <2>1. PICK x : x = Redeem(q)
    OBVIOUS
  <2>2. /\ x.issued = q.issued /\ x.token.id = q.token.id /\ x.since = q.since
        /\ x.stage = "owner"
    BY <1>1, <2>1 DEF Redeem, Request
  <2>3. QED
    BY <1>2, <2>1, <2>2
<1>6. stage # "delete" => Quiet(q, Holding(q, stage))
  <2>1. PICK x : x = Holding(q, stage)
    OBVIOUS
  <2>2. /\ x.issued = q.issued /\ x.token.id = q.token.id /\ x.since = q.since
        /\ x.stage = stage
    BY <1>1, <2>1 DEF Holding, Request
  <2>3. QED
    BY <1>2, <2>1, <2>2
<1>7. Quiet(q, [q EXCEPT !.stage = "owner", !.owner = Stored(q).owner])
  <2>1. PICK x : x = [q EXCEPT !.stage = "owner", !.owner = Stored(q).owner]
    OBVIOUS
  <2>2. /\ x.issued = q.issued /\ x.token.id = q.token.id /\ x.since = q.since
        /\ x.stage = "owner"
    BY <1>1, <2>1 DEF Request
  <2>3. QED
    BY <1>2, <2>1, <2>2
<1>8. QED
  BY <1>3, <1>4, <1>5, <1>6, <1>7

(* The steps that leave the stored tokens alone.                           *)
Reading(r) ==
  \/ authorizationEndpoint(r) \/ tokenEndpoint(r) \/ managementEndpoint(r)
  \/ handleClientCredentialsGrant(r) \/ AuthorizerEntered(r)
  \/ Authorizer(r) \/ LoadClient(r) \/ LoadOwner(r)
  \/ Approve(r) \/ ApproveStrategy(r)
  \/ handleResourceOwnerPasswordCredentialsGrant(r)
  \/ handleRefreshTokenGrant(r) \/ handleAuthorizationCodeGrant(r) \/ GetOwner(r)
  \/ Revoke(r) \/ Introspect(r) \/ Served(r)

LEMMA ReadingSteps ==
  ASSUME IInv, HandInv, NEW r \in Requests, Reading(r)
  PROVE  /\ \E x : Quiet(requests[r], x) /\ Go(r, x)
         /\ UNCHANGED <<now, store, known>> /\ ~At(r, "answer")
<1> DEFINE q == requests[r]
           Moves == /\ \E x : Quiet(q, x) /\ Go(r, x)
                    /\ UNCHANGED <<now, store, known>> /\ ~At(r, "answer")
<1>1. ASSUME NEW kind \in Kinds, NEW i \in Inputs(kind),
             NEW stage \in {"token", "owner", "answer"}, Arrive(r, Answering(i, stage)),
             At(r, "idle")
      PROVE  Moves
  BY <1>1, ArrivingQuiet DEF Arrive, At
<1>2. setup.kinds \subseteq Kinds /\ \A kind \in Arriving(r) : kind \in Kinds /\ At(r, "idle")
  BY SetupAssumption DEF Arriving, IInv, TypeOK
<1>3. CASE authorizationEndpoint(r)
  <2>1. PICK kind \in Arriving(r) : \E i \in Inputs(kind) : Arrive(r, Answering(i, "token"))
    BY <1>3, Zenon DEF authorizationEndpoint
  <2>2. QED
    BY <1>1, <1>2, <2>1
<1>4. CASE tokenEndpoint(r)
  <2>1. PICK kind \in Arriving(r) : \E i \in Inputs(kind), stage \in {"token", "owner", "answer"} :
          Arrive(r, Answering(i, stage))
    BY <1>4 DEF tokenEndpoint
  <2>2. QED
    BY <1>1, <1>2, <2>1
<1>5. CASE managementEndpoint(r)
  <2>1. PICK kind \in Arriving(r) : \E i \in Inputs(kind), stage \in {"token", "owner", "answer"} :
          Arrive(r, Answering(i, stage))
    BY <1>5 DEF managementEndpoint
  <2>2. QED
    BY <1>1, <1>2, <2>1
<1>6. CASE AuthorizerEntered(r)
  <2>1. PICK kind \in Arriving(r) : \E i \in Inputs(kind) : Arrive(r, Answering(i, "token"))
    BY <1>6, Zenon DEF AuthorizerEntered
  <2>2. QED
    BY <1>1, <1>2, <2>1
<1>7. CASE handleClientCredentialsGrant(r)
  <2>1. PICK i \in Inputs("credentials"), s \in Scopes : Arrive(r, Issuing(i, s))
    BY <1>7 DEF handleClientCredentialsGrant
  <2>2. At(r, "idle")
    BY <1>2, <1>7 DEF handleClientCredentialsGrant
  <2>3. i \in Request /\ i.issued = {} /\ i.token = NoToken /\ i.kind = "credentials" /\ now \in Nat
    BY InputTypes, FlameAssumption DEF IInv, TypeOK, Kinds
  <2>4. PICK y : y = Issuing(i, s)
    OBVIOUS
  <2>5. PICK x : x = [y EXCEPT !.barred = Barred(y)]
    OBVIOUS
  <2>6. y.issued = {} /\ y.token.id = NoID /\ y.since = now /\ y.stage = "access"
    BY <2>3, <2>4 DEF Issuing, Request, NoToken
  <2>7. x.issued = {} /\ x.token.id = NoID /\ x.since = now /\ x.stage = "access"
    BY <2>3, <2>4, <2>5, <2>6, IssuingTypes DEF Request
  <2>8. Quiet(q, x)
    BY <2>3, <2>7 DEF Quiet
  <2>9. QED
    BY <2>1, <2>2, <2>4, <2>5, <2>8 DEF Arrive, At
<1>8. CASE Refuse(r) /\ UNCHANGED <<now, store, known>> /\ ~At(r, "answer")
  BY <1>8, BlankQuiet DEF Refuse
<1>9. CASE Authorizer(r) \/ LoadClient(r) \/ LoadOwner(r)
  <2>1. UNCHANGED <<now, store, known>> /\ ~At(r, "answer")
    BY <1>9 DEF Authorizer, LoadClient, LoadOwner, At
  <2>2. \/ Refuse(r)
        \/ \E stage \in {"client", "owner", "served"} :
             Go(r, Answering(q, stage)) \/ Go(r, Holding(q, stage))
    BY <1>9 DEF Authorizer, LoadClient, LoadOwner
  <2>3. QED
    BY <1>8, <2>1, <2>2, ReadingQuiet
<1>10. CASE Approve(r)
  <2>1. UNCHANGED <<now, store, known>> /\ ~At(r, "answer")
    BY <1>10 DEF Approve, At
  <2>2. \/ Refuse(r)
        \/ Go(r, [q EXCEPT !.stage = "owner", !.owner = Stored(q).owner])
    BY <1>10 DEF Approve
  <2>3. QED
    BY <1>8, <2>1, <2>2, ReadingQuiet
<1>11. CASE ApproveStrategy(r) \/ handleResourceOwnerPasswordCredentialsGrant(r) \/ GetOwner(r)
  <2>1. UNCHANGED <<now, store, known>> /\ ~At(r, "answer")
    BY <1>11 DEF ApproveStrategy, handleResourceOwnerPasswordCredentialsGrant, GetOwner, At
  <2>2. Refuse(r) \/ \E s : Go(r, Issuing(q, s))
    BY <1>11 DEF ApproveStrategy, handleResourceOwnerPasswordCredentialsGrant, GetOwner
  <2>3. QED
    BY <1>8, <2>1, <2>2, ReadingQuiet
<1>12. CASE handleRefreshTokenGrant(r) \/ handleAuthorizationCodeGrant(r)
  <2>1. UNCHANGED <<now, store, known>> /\ ~At(r, "answer")
    BY <1>12 DEF handleRefreshTokenGrant, handleAuthorizationCodeGrant, At
  <2>2. Refuse(r) \/ Go(r, Redeem(q))
    BY <1>12 DEF handleRefreshTokenGrant, handleAuthorizationCodeGrant
  <2>3. QED
    BY <1>8, <2>1, <2>2, ReadingQuiet
<1>13. CASE Revoke(r) \/ Introspect(r)
  <2>1. UNCHANGED <<now, store, known>> /\ ~At(r, "answer")
    BY <1>13 DEF Revoke, Introspect, At
  <2>2. \/ Refuse(r)
        \/ \E stage \in {"served", "answer", "delete"} :
             Go(r, Answering(q, stage)) /\ (stage = "delete" => q.kind = "revoke")
    BY <1>13 DEF Revoke, Introspect
  <2>3. QED
    BY <1>8, <2>1, <2>2, ReadingQuiet
<1>14. CASE Served(r)
  BY <1>14, BlankQuiet DEF Served, At
<1>15. QED
  BY <1>3, <1>4, <1>5, <1>6, <1>7, <1>9, <1>10, <1>11, <1>12, <1>13, <1>14 DEF Reading

-----------------------------------------------------------------------------
(* A request moves, and no token that was issued goes before its time.     *)
LEMMA MovingKeeps ==
  ASSUME IInv, IInv', HandInv, NEW r \in Requests, NEW x,
         requests' = [requests EXCEPT ![r] = x],
         Steady, Spared, UNCHANGED known, InTime', Apart', Lasting(x)', Succeeded(x)'
  PROVE  HandInv'
<1>1. requests'[r] = x /\ TypeOK' /\ known \subseteq known'
  BY DEF IInv, TypeOK
<1>2. ASSUME NEW p \in Requests
      PROVE  Lasting(requests[p])' /\ Succeeded(requests[p])'
  <2>1. CASE p = r
    BY <1>1, <2>1
  <2>2. CASE p # r
    <3>1. PICK q : q = requests[p] /\ requests'[p] = q
      BY <2>2 DEF IInv, TypeOK
    <3>2. Lasting(q)' /\ Succeeded(q)'
      BY <1>1, <3>1, OthersLast
    <3>3. QED
      BY <3>1, <3>2
  <2>3. QED
    BY <2>1, <2>2
<1>3. QED
  BY <1>2 DEF HandInv

(* A token that is saved last is the successor of the one exchanged.       *)
LEMMA SavingHands ==
  ASSUME IInv, IInv', HandInv, NEW r \in Requests, NEW type, Saving(r, type)
  PROVE  HandInv'
<1>1. PICK q, x, n, t, signed :
        /\ q = requests[r] /\ x = Continued(q, type)
        /\ n = next /\ t = NewToken(q, type) /\ signed = NewSigned(q, type)
  OBVIOUS
<1>2. /\ q \in Request /\ Good(q) /\ Lasting(q) /\ n \in Nat /\ now \in Nat
      /\ q.stage \in {"access", "refresh", "code"} /\ type \in Types
      /\ q.stage = "refresh" => type = "refresh"
  BY <1>1, Requested DEF Saving, HandInv
<1>3. /\ TypeOK /\ TypeOK' /\ Steady
      /\ DOMAIN tokens' = DOMAIN tokens \cup {n} /\ tokens'[n] = t
      /\ \A id \in DOMAIN tokens : id # n /\ tokens'[id] = tokens[id]
  BY <1>1, SavingSteady DEF IInv
<1>4. /\ t.grant = Root(q) /\ t.type = type /\ signed = [id |-> n, expires |-> t.expires]
      /\ requests' = [requests EXCEPT ![r] = x]
  BY <1>1, SavedToken
<1>5. t.expires = q.since + Lifespan[type]
  BY <1>1 DEF NewToken
<1>6. now' = now /\ UNCHANGED known
  BY DEF Saving
<1>7. q.since \in Nat /\ q.since <= now /\ Lifespan[type] \in Nat
  BY <1>2, FlameAssumption DEF Lasting, Request
<1>8. InTime'
  <2>1. ASSUME NEW id \in DOMAIN tokens', tokens'[id].type = "refresh"
        PROVE  tokens'[id].expires <= now' + Lifespan["refresh"]
    <3>1. CASE id = n
      BY <1>2, <1>3, <1>4, <1>5, <1>6, <1>7, <2>1, <3>1
    <3>2. CASE id # n
      BY <1>3, <1>6, <2>1, <3>2 DEF HandInv, InTime
    <3>3. QED
      BY <3>1, <3>2
  <2>2. QED
    BY <2>1 DEF InTime
<1>9. \/ x = Blank
      \/ /\ x = Saved(q, signed) /\ x.kind = q.kind /\ x.token.id = q.token.id
         /\ x.issued = q.issued \cup {signed}
         /\ \/ x.stage = "refresh" /\ q.stage = "access" /\ x.token = q.token
               /\ x.since = q.since
            \/ x.stage = After(q) /\ After(q) # "refresh" /\ x.since = 0
  <2>1. x = Blank \/ x = Saved(q, signed)
    BY <1>1 DEF Continued
  <2>2. CASE x = Saved(q, signed) /\ After(q) = "refresh"
    BY <1>2, <2>2 DEF Saved, After, Request
  <2>3. CASE x = Saved(q, signed) /\ After(q) # "refresh"
    BY <1>2, <2>3 DEF Saved, Blank, NoToken
  <2>4. QED
    BY <2>1, <2>2, <2>3
<1>10. Apart'
  <2>1. \A i \in x.issued : i \in q.issued \/ i.id = n
    BY <1>4, <1>9 DEF Blank
  <2>2. QED
    BY <1>1, <1>4, <1>6, <2>1, StaysApart DEF HandInv
<1>11. q.token.id \in Nat /\ q.token.id < n
  BY <1>1, <1>2 DEF Good, Settled, Request, Signed, Ids, NoID
<1>12. Found(q)' => Found(q) /\ tokens'[q.token.id] = tokens[q.token.id]
  BY <1>3, <1>11 DEF Found
<1>13. Lasting(x)'
  <2>1. CASE x = Blank
    BY <1>6, <1>7, <1>2, <2>1 DEF Lasting, Blank, NoToken
  <2>2. CASE x.stage = "refresh" /\ x # Blank
    <3>1. /\ x.kind = q.kind /\ x.token = q.token /\ x.since = q.since /\ q.stage = "access"
      BY <1>2, <1>9, <2>2 DEF After
    <3>2. QED
      BY <1>2, <1>6, <1>12, <3>1 DEF Lasting, Found, Stored
  <2>3. CASE x.stage # "refresh" /\ x # Blank
    <3>1. x.token.id = q.token.id /\ x.since = 0 /\ x.stage # "access"
      BY <1>9, <2>3 DEF After
    <3>2. QED
      BY <1>2, <1>6, <2>3, <3>1 DEF Lasting
  <2>4. QED
    BY <2>1, <2>2, <2>3
<1>14. Succeeded(x)'
  <2>1. SUFFICES ASSUME x.stage = "delete", x.kind \in Exchanges, Found(x)'
                 PROVE  /\ tokens'[x.token.id].type = x.kind
                        /\ x.kind = "refresh" =>
                             \E i \in x.issued : Successor(i, tokens[x.token.id])'
    BY DEF Succeeded, Stored
  <2>2. /\ x.kind = q.kind /\ x.token.id = q.token.id /\ After(q) = "delete"
        /\ x.issued = q.issued \cup {signed}
    BY <1>9, <2>1 DEF Blank
  <2>3. Found(q) /\ tokens'[q.token.id] = tokens[q.token.id] /\ Found(q)'
    BY <1>12, <2>1, <2>2 DEF Found
  <2>4. q.stage \in {"access", "refresh"}
    BY <1>2, <2>2 DEF After
  <2>5. tokens[q.token.id].type = q.kind /\ tokens[q.token.id].grant = Root(q)
    BY <1>2, <2>1, <2>2, <2>3, <2>4 DEF Good, Settled, Traced, Root, Found, Stored
  <2>6. ASSUME x.kind = "refresh"
        PROVE  Successor(signed, tokens[q.token.id])'
    <3>1. "refresh" \in Permitted[q.client]
      BY <1>2, <2>2, <2>4, <2>6 DEF Good, Shaped
    <3>2. q.stage = "refresh" /\ type = "refresh"
      BY <1>2, <2>2, <2>4, <2>6, <3>1 DEF After, Refreshable
    <3>3. tokens[q.token.id].expires <= t.expires
      BY <1>2, <1>5, <2>2, <2>3, <2>6, <3>2 DEF Lasting, Found, Stored
    <3>4. /\ signed.id = n /\ signed.expires = t.expires
          /\ t.expires \in Nat /\ tokens[q.token.id].expires \in Nat
      BY <1>4, <1>5, <1>7, <2>3 DEF IInv, TypeOK, Token, Found
    <3>5. QED
      BY <1>3, <1>4, <2>3, <2>5, <3>2, <3>3, <3>4 DEF Successor
  <2>7. QED
    BY <2>2, <2>3, <2>5, <2>6
<1>15. Spared
  BY <1>3 DEF Spared
<1>16. QED
  BY <1>3, <1>4, <1>6, <1>8, <1>10, <1>13, <1>14, <1>15, MovingKeeps

(* Only a token that is known is exchanged or revoked.                     *)
LEMMA DeletingSpares ==
  ASSUME IInv, HandInv, NEW r \in Requests, deleteToken(r)
  PROVE  /\ requests[r].token.id \in {t.id : t \in known}
         /\ Spared /\ Steady
         /\ DOMAIN tokens' = DOMAIN tokens \ {requests[r].token.id}
         /\ \A id \in DOMAIN tokens' : tokens'[id] = tokens[id]
<1>1. PICK q : q = requests[r]
  OBVIOUS
<1>2. q \in Request /\ Good(q) /\ Lasting(q) /\ q.stage = "delete" /\ now \in Nat /\ next \in Nat
  BY <1>1, Requested DEF HandInv, deleteToken, At
<1>3. q.token.id \in Ids
  BY <1>2 DEF Good, Shaped
<1>4. q.token.id \in {t.id : t \in known}
  BY <1>2, <1>3 DEF Lasting, Ids, NoID
<1>5. /\ DOMAIN tokens' = DOMAIN tokens \ {q.token.id}
      /\ \A id \in DOMAIN tokens' : tokens'[id] = tokens[id]
  BY <1>1 DEF deleteToken, Deleted, Without
<1>6. Spared
  BY <1>4, <1>5 DEF Spared, HandInv, Apart
<1>7. Steady
  BY <1>2, <1>5 DEF deleteToken, Steady
<1>8. QED
  BY <1>1, <1>4, <1>5, <1>6, <1>7

LEMMA DeletingHands ==
  ASSUME IInv, IInv', HandInv, NEW r \in Requests, deleteToken(r)
  PROVE  HandInv'
<1>1. PICK q, x : q = requests[r] /\ x = Answering(q, "answer")
  OBVIOUS
<1>2. q \in Request /\ Lasting(q)
  BY <1>1, Requested DEF HandInv
<1>3. /\ x.issued = q.issued /\ x.token = q.token /\ x.since = q.since /\ x.stage = "answer"
      /\ x.kind = q.kind
  BY <1>1, <1>2 DEF Answering, Request
<1>4. requests' = [requests EXCEPT ![r] = x] /\ now' = now /\ UNCHANGED known
  BY <1>1 DEF deleteToken, Go
<1>5. /\ Spared /\ Steady
      /\ \A id \in DOMAIN tokens' : id \in DOMAIN tokens /\ tokens'[id] = tokens[id]
  BY DeletingSpares
<1>6. InTime'
  BY <1>4, <1>5, StaysInTime DEF HandInv, IInv, Steady
<1>7. Apart'
  BY <1>1, <1>3, <1>4, StaysApart DEF HandInv
<1>8. Lasting(x)' /\ Succeeded(x)'
  BY <1>2, <1>3, <1>4 DEF Lasting, Succeeded
<1>9. QED
  BY <1>4, <1>5, <1>6, <1>7, <1>8, MovingKeeps

LEMMA AroundHands ==
  ASSUME IInv, IInv', HandInv,
         \/ Tick \/ (\E id \in Ids : RemoveExpired(id))
         \/ (\E c \in Clients : RemoveClient(c)) \/ (\E o \in Owners : RemoveOwner(o))
  PROVE  HandInv'
<1>1. /\ UNCHANGED <<known, requests>> /\ now' >= now /\ next' = next /\ now \in Nat
      /\ clients' \subseteq clients /\ owners' \subseteq owners /\ next \in Nat
  BY FlameAssumption DEF Tick, RemoveExpired, RemoveClient, RemoveOwner, store, IInv, TypeOK
<1>2. /\ DOMAIN tokens' \subseteq DOMAIN tokens
      /\ \A id \in DOMAIN tokens' : tokens'[id] = tokens[id]
      /\ \A id \in DOMAIN tokens \ DOMAIN tokens' : tokens[id].expires < now'
  <2>1. CASE Tick \/ (\E c \in Clients : RemoveClient(c)) \/ (\E o \in Owners : RemoveOwner(o))
    BY <2>1 DEF Tick, RemoveClient, RemoveOwner, store
  <2>2. ASSUME NEW id \in Ids, RemoveExpired(id)
        PROVE  /\ DOMAIN tokens' = DOMAIN tokens \ {id} /\ now' = now
               /\ \A i \in DOMAIN tokens' : tokens'[i] = tokens[i]
               /\ tokens[id].expires < now
    <3>1. /\ DOMAIN tokens' = DOMAIN tokens \ {id} /\ now' = now
          /\ \A i \in DOMAIN tokens' : tokens'[i] = tokens[i]
      BY <2>2 DEF RemoveExpired, Without
    <3>2. tokens[id].expires \in Nat /\ Delay \in Nat /\ tokens[id].expires + Delay < now
      BY <2>2, FlameAssumption DEF RemoveExpired, IInv, TypeOK, Token
    <3>3. QED
      BY <1>1, <3>1, <3>2
  <2>3. QED
    BY <2>1, <2>2
<1>3. Steady
  BY <1>1, <1>2 DEF Steady
<1>4. Spared
  <2>1. ASSUME NEW r \in Requests, NEW t \in requests[r].issued,
               t.id \in DOMAIN tokens, t.id \notin DOMAIN tokens'
        PROVE  t.expires < now'
    <3>1. tokens[t.id].expires = t.expires
      BY <2>1, Requested DEF Good, Settled, Signs, Matches
    <3>2. QED
      BY <1>2, <2>1, <3>1
  <2>2. QED
    BY <2>1 DEF Spared, Expired
<1>5. InTime'
  BY <1>1, <1>2, StaysInTime DEF HandInv, IInv
<1>6. Apart'
  BY <1>1 DEF HandInv, Apart
<1>7. ASSUME NEW r \in Requests
      PROVE  Lasting(requests[r])' /\ Succeeded(requests[r])'
  <2>1. PICK q : q = requests[r] /\ requests'[r] = q
    BY <1>1
  <2>2. Lasting(q)' /\ Succeeded(q)'
    BY <1>1, <1>3, <1>4, <2>1, OthersLast DEF IInv
  <2>3. QED
    BY <2>1, <2>2
<1>8. QED
  BY <1>5, <1>6, <1>7 DEF HandInv

LEMMA HandsInit == Init => HandInv
<1> SUFFICES ASSUME Init PROVE HandInv
  OBVIOUS
<1>1. InTime
  <2>1. now = 0 /\ Lifespan["refresh"] \in Nat
    BY FlameAssumption DEF Init, Types
  <2>2. \A id \in DOMAIN tokens : tokens[id].expires <= Lifespan[tokens[id].type]
    BY SetupAssumption DEF Init
  <2>3. QED
    BY <2>1, <2>2 DEF InTime
<1>2. \A r \in Requests : requests[r] = Blank
  BY DEF Init
<1>3. QED
  BY <1>1, <1>2, FlameAssumption
    DEF HandInv, Apart, Lasting, Succeeded, Blank, NoToken, Init

LEMMA HandsStep == IInv /\ IInv' /\ HandInv /\ [Next]_vars => HandInv'
<1> SUFFICES ASSUME IInv, IInv', HandInv, [Next]_vars PROVE HandInv'
  OBVIOUS
<1>1. CASE UNCHANGED vars
  BY <1>1 DEF vars, HandInv, InTime, Apart, Lasting, Succeeded, Successor, Found, Stored, Expired
<1>2. ASSUME NEW r \in Requests, Endpoint(r)
      PROVE  HandInv'
  <2>1. CASE Reading(r)
    <3>1. PICK x : Quiet(requests[r], x) /\ Go(r, x) /\ UNCHANGED <<now, store, known>>
      BY <2>1, ReadingSteps
    <3>2. QED
      BY <3>1, QuietKeeps
  <2>2. CASE Answer(r) \/ Fail(r)
    <3>1. /\ Go(r, Blank) /\ UNCHANGED <<now, store>>
          /\ known' = known \/ known' = known \cup requests[r].issued
      BY <2>2 DEF Answer, Fail
    <3>2. QED
      BY <3>1, BlankQuiet, QuietKeeps
  <2>3. CASE SaveAccess(r) \/ SaveRefresh(r) \/ SaveCode(r)
    <3>1. PICK type : Saving(r, type)
      BY <2>3 DEF SaveAccess, SaveRefresh, SaveCode, Saving, At, Types
    <3>2. QED
      BY <3>1, SavingHands
  <2>4. QED
    BY <1>2, <2>1, <2>2, <2>3, DeletingHands DEF Endpoint, Reading
<1>3. QED
  BY <1>1, <1>2, AroundHands DEF Next

-----------------------------------------------------------------------------
(* The steps after which a client may be without a refresh token.          *)
Excused ==
  \/ Tick
  \/ \E r \in Requests :
       \/ requests[r].kind = "revoke" /\ deleteToken(r)
       \/ Renewed(r) /\ Fail(r)

(* What renews a grant does so until the token is deleted.                 *)
LEMMA HandsKept ==
  ASSUME IInv, NEW g, NEW t, Renews(t, g)', known \subseteq known',
         \/ t \in known
         \/ \E r \in Requests :
              /\ Renewed(r) /\ t \in requests[r].issued
              /\ requests'[r] = requests[r] \/ known' = known \cup requests[r].issued
  PROVE  InHand(g)'
<1>1. CASE t \in known'
  BY <1>1 DEF InHand
<1>2. CASE \E r \in Requests :
             Renewed(r) /\ t \in requests[r].issued /\ requests'[r] = requests[r]
  BY <1>2 DEF InHand, Renewed, At
<1>3. QED
  BY <1>1, <1>2

LEMMA EndpointHands ==
  ASSUME IInv, HandInv, NEW g, InHand(g), NEW r \in Requests, Endpoint(r), ~Excused
  PROVE  InHand(g)'
<1>1. PICK t : /\ Renews(t, g)
               /\ \/ t \in known
                  \/ \E p \in Requests : Renewed(p) /\ t \in requests[p].issued
  BY DEF InHand
<1>2. ASSUME NEW x, Go(r, x), ~Renewed(r), NEW p \in Requests, Renewed(p)
      PROVE  requests'[p] = requests[p]
  BY <1>2 DEF Go, IInv, TypeOK
<1>3. CASE Reading(r)
  <2>1. PICK x : Go(r, x)
    BY <1>3, ReadingSteps
  <2>2. UNCHANGED <<now, store, known>> /\ ~Renewed(r)
    BY <1>3, ReadingSteps DEF Renewed
  <2>3. Renews(t, g)'
    BY <1>1, <2>2 DEF Renews, Expired, store
  <2>4. QED
    BY <1>1, <1>2, <2>1, <2>2, <2>3, HandsKept
<1>4. CASE Answer(r)
  <2>1. Renews(t, g)' /\ known' = known \cup requests[r].issued
    BY <1>1, <1>4 DEF Answer, Renews, Expired, store
  <2>2. \A p \in Requests \ {r} : requests'[p] = requests[p]
    BY <1>4 DEF Answer, Go, IInv, TypeOK
  <2>3. QED
    BY <1>1, <2>1, <2>2, HandsKept
<1>5. CASE Fail(r)
  <2>1. Renews(t, g)' /\ known' = known /\ ~Renewed(r) /\ Go(r, Blank)
    BY <1>1, <1>5 DEF Fail, Renews, Expired, store, Excused
  <2>2. QED
    BY <1>1, <1>2, <2>1, HandsKept
<1>6. CASE SaveAccess(r) \/ SaveRefresh(r) \/ SaveCode(r)
  <2>1. PICK type : Saving(r, type)
    BY <1>6 DEF SaveAccess, SaveRefresh, SaveCode, Saving, At, Types
  <2>2. /\ t.id \in DOMAIN tokens => t.id \in DOMAIN tokens' /\ tokens'[t.id] = tokens[t.id]
        /\ now' = now /\ known' = known /\ ~Renewed(r)
    BY <2>1, SavingSteady DEF Saving, Renewed, At
  <2>3. Renews(t, g)'
    BY <1>1, <2>2 DEF Renews, Expired
  <2>4. PICK x : Go(r, x)
    BY <2>1, SavedToken DEF Go
  <2>5. QED
    BY <1>1, <1>2, <2>2, <2>3, <2>4, HandsKept
<1>7. CASE deleteToken(r)
  <2>1. PICK q, x : q = requests[r] /\ x = Answering(q, "answer")
    OBVIOUS
  <2>2. /\ q \in Request /\ Good(q) /\ Succeeded(q) /\ q.stage = "delete" /\ now \in Nat
        /\ Go(r, x) /\ now' = now /\ known' = known
    BY <1>7, <2>1, Requested DEF HandInv, deleteToken, At
  <2>3. q.kind \in Exchanges /\ q.token.id \in Ids
    BY <1>7, <2>1, <2>2 DEF Good, Shaped, Excused
  <2>4. x.kind = q.kind /\ x.stage = "answer" /\ x.issued = q.issued
    BY <2>1, <2>2 DEF Answering, Request
  <2>5. /\ q.token.id \in {u.id : u \in known}
        /\ DOMAIN tokens' = DOMAIN tokens \ {q.token.id}
        /\ \A id \in DOMAIN tokens' : tokens'[id] = tokens[id]
    BY <1>7, <2>1, DeletingSpares
  <2>6. ~Renewed(r)
    BY <2>1, <2>2 DEF Renewed, At
  <2>7. CASE t.id # q.token.id
    <3>1. Renews(t, g)'
      BY <1>1, <2>2, <2>5, <2>7 DEF Renews, Expired
    <3>2. QED
      BY <1>1, <1>2, <2>2, <2>6, <3>1, HandsKept
  <2>8. CASE t.id = q.token.id
    <3>1. /\ Found(q) /\ Stored(q) = tokens[t.id] /\ q.kind = "refresh"
          /\ Stored(q).grant.id = g /\ ~Expired(Stored(q))
      BY <1>1, <2>2, <2>3, <2>8 DEF Renews, Found, Stored, Succeeded
    <3>2. PICK u \in q.issued : Successor(u, Stored(q))
      BY <2>2, <2>3, <3>1 DEF Succeeded
    <3>3. u.expires \in Nat /\ Stored(q).expires \in Nat
      BY <2>2, <3>1, <3>2 DEF Request, Signed, IInv, TypeOK, Token, Found, Stored
    <3>4. ~Expired(u)
      BY <2>2, <3>1, <3>2, <3>3 DEF Expired, Successor
    <3>5. /\ u.id \in DOMAIN tokens /\ tokens[u.id].type = "refresh"
          /\ tokens[u.id].grant.id = g /\ tokens[u.id].expires = u.expires
      BY <2>2, <3>1, <3>2, <3>4 DEF Successor, Good, Settled, Signs, Matches
    <3>6. u.id # q.token.id
      BY <2>1, <2>5, <3>2 DEF HandInv, Apart
    <3>7. Renews(u, g)'
      BY <2>2, <2>5, <3>4, <3>5, <3>6 DEF Renews, Expired
    <3>8. requests'[r] = x
      BY <2>2 DEF Go, IInv, TypeOK
    <3>9. Renewed(r)' /\ u \in requests'[r].issued
      BY <2>4, <3>1, <3>2, <3>8 DEF Renewed, At
    <3>10. QED
      BY <3>7, <3>9 DEF InHand
  <2>9. QED
    BY <2>7, <2>8
<1>8. QED
  BY <1>3, <1>4, <1>5, <1>6, <1>7 DEF Endpoint, Reading

LEMMA AroundInHand ==
  ASSUME IInv, HandInv, NEW g, InHand(g),
         \/ \E id \in Ids : RemoveExpired(id)
         \/ \E c \in Clients : RemoveClient(c)
         \/ \E o \in Owners : RemoveOwner(o)
  PROVE  InHand(g)'
<1>1. UNCHANGED <<now, known, requests>>
  BY DEF RemoveExpired, RemoveClient, RemoveOwner
<1>2. ASSUME NEW t, Renews(t, g)
      PROVE  Renews(t, g)'
  <2>1. ASSUME NEW id \in Ids, RemoveExpired(id)
        PROVE  id # t.id
    <3>1. tokens[id].expires \in Nat /\ Delay \in Nat /\ now \in Nat
      BY <2>1, FlameAssumption DEF RemoveExpired, IInv, TypeOK, Token
    <3>2. QED
      BY <1>2, <2>1, <3>1 DEF RemoveExpired, Renews, Expired
  <2>2. t.id \in DOMAIN tokens' /\ tokens'[t.id] = tokens[t.id]
    BY <1>2, <2>1 DEF RemoveExpired, RemoveClient, RemoveOwner, Without, Renews
  <2>3. QED
    BY <1>1, <1>2, <2>2 DEF Renews, Expired
<1>3. QED
  BY <1>1, <1>2 DEF InHand, Renewed, At

(* However exchanges overlap and fail, a client only loses its last refresh*)
(* token of a grant when that expires or is revoked, or when the request   *)
(* that has deleted it fails before its answer carries the successor.      *)
THEOREM NeverStrandedHolds == Spec => NeverStranded
<1>1. IInv /\ HandInv /\ [Next]_vars =>
        [\A g \in Ids : InHand(g) /\ ~InHand(g)' => Excused]_vars
  <2>1. SUFFICES ASSUME IInv, HandInv, Next, NEW g \in Ids, InHand(g), ~InHand(g)', ~Excused
                 PROVE  FALSE
    OBVIOUS
  <2>2. QED
    BY <2>1, EndpointHands, AroundInHand DEF Next, Excused
<1>2. [\A g \in Ids : InHand(g) /\ ~InHand(g)' => Excused]_vars =>
        [\A g \in Ids : InHand(g) /\ ~InHand(g)' =>
           \/ Tick
           \/ \E r \in Requests :
                \/ requests[r].kind = "revoke" /\ deleteToken(r)
                \/ Renewed(r) /\ Fail(r)]_vars
  BY Zenon DEF Excused
<1>3. QED
  BY <1>1, <1>2, InvHolds, HandsInit, HandsStep, PTL DEF Spec, NeverStranded

=============================================================================
