------------------------ MODULE FireController_proofs -----------------------
(***************************************************************************)
(* Proofs about FireController: a create token makes one document, updates *)
(* are consistent, a deleted document stays as it is, a user changes only  *)
(* what the authorizers allow, and a walk along the links of a list shows  *)
(* what stays as it is, for any number of clients, documents and users and *)
(* any configuration of the controller.                                    *)
(***************************************************************************)
EXTENDS FireController, FiniteSetTheorems, SequenceTheorems, WellFoundedInduction, TLAPS

(***************************************************************************)
(* Types.                                                                  *)
(***************************************************************************)
Requests == [op : Operations \cup {"none"}, user : Users \cup {"none"},
             id : Ids \cup {None}]

(* A query has its fields, and numbers where pages are cut.                *)
QueryFields ==
  {"filters", "search", "sort", "kind", "size", "number", "before", "after"}

IsQuery(q) ==
  /\ q = [f \in QueryFields |-> q[f]]
  /\ q.size \in Int /\ q.number \in Int

WalkFields == {"user", "back", "asked", "next", "seen", "steady", "quiet"}

IsWalk(w) ==
  /\ w = [f \in WalkFields |-> w[f]]
  /\ w.seen \in Seq(Ids) /\ w.steady \subseteq Ids
  /\ \A q \in w.next : IsQuery(q)

IsCopy(s) ==
  /\ s.id \in Ids /\ s.children \subseteq Ids
  /\ DOMAIN s.attrs \subseteq Fields
  /\ "ut" \in DOMAIN s.attrs => s.attrs.ut \in 0..minted

Types ==
  /\ conf \in Configs
  /\ store \in Views
  /\ pc \in [Procs -> {"idle", "begun", "loaded", "saved"}]
  /\ req \in [Procs -> Requests]
  /\ snap \in [Procs -> Views] /\ model \in [Procs -> Doc \cup {Free, Gone}]
  /\ copy = [r \in Procs |-> copy[r]]
  /\ \A r \in Procs : \A s \in copy[r] : IsCopy(s) /\ conf.consistent
  /\ walk = [r \in Procs |-> walk[r]] /\ \A r \in Procs : IsWalk(walk[r])
  /\ born \in [Ids -> [ct : Tokens \cup {Blank}, knew : SUBSET Ids]]
  /\ minted \in Nat /\ calls \in Nat

(***************************************************************************)
(* Requests.                                                               *)
(***************************************************************************)
Holds(r) == pc[r] \in {"loaded", "saved"}

(* The transaction of a request that has loaded a document holds it: it is *)
(* as it was, not deleted, and the user may see it.                        *)
Holding(r) ==
  Holds(r) /\ req[r].op # "create" =>
    /\ req[r].id \in Ids
    /\ store[req[r].id] = snap[r][req[r].id]
    /\ req[r].id \in Selected(conf, store, req[r].user, {req[r].id})

Locked(doc) == [doc EXCEPT !.lk = @ + 1]

(* What a request that has begun is, and what it writes.                   *)
Begun(r) ==
  pc[r] # "idle" =>
    /\ req[r].op \in Operations /\ req[r].user \in Users
    /\ req[r].op # "create" => req[r].id \in Ids
    /\ req[r].op \in Partials => ~conf.consistent

Loading(r) ==
  pc[r] = "loaded" =>
    req[r].op # "create" /\ model[r] = Locked(store[req[r].id])

Old(r) == IF req[r].op = "create" THEN Zero ELSE store[req[r].id]

Saving(r) ==
  pc[r] = "saved" =>
    /\ req[r].op = "create" => req[r].id \in Ids /\ store[req[r].id] = Free
    /\ req[r].op # "delete" =>
         /\ model[r] \in Doc
         /\ \A f \in Fields \ {"ut"} :
              model[r][f] # Old(r)[f] => f \in Writable[req[r].user]
    /\ req[r].op = "delete" =>
         model[r] \in {Gone, [Locked(store[req[r].id]) EXCEPT !.del = TRUE]}

RequestInv(r) == Begun(r) /\ Holding(r) /\ Loading(r) /\ Saving(r)

Creates(r) == pc[r] = "saved" /\ req[r].op = "create"

Writes(r) == pc[r] = "saved" /\ req[r].op \in {"create", "update"}

(* No two requests hold a document, write a create token or an update      *)
(* token.                                                                  *)
Apart(r, q) ==
  /\ Holds(r) /\ Holds(q) => req[r].id # req[q].id
  /\ conf.idempotent /\ conf.indexed /\ Creates(r) /\ Creates(q) =>
       model[r].ct # model[q].ct
  /\ conf.consistent /\ Writes(r) /\ Writes(q) => model[r].ut # model[q].ut

(***************************************************************************)
(* Create tokens.                                                          *)
(***************************************************************************)

(* The documents there have been.                                          *)
Used == {d \in Ids : store[d] # Free}

(* Neither document was there as the request of the other began.           *)
Overlapped(d, e) ==
  ~conf.indexed /\ d \notin born[e].knew /\ e \notin born[d].knew

StoredOnce ==
  /\ \A d \in Stored(store) : store[d].ct = born[d].ct /\ born[d].knew \subseteq Used
  /\ \A d, e \in Stored(store) :
       d # e /\ store[d].ct = store[e].ct => store[d].ct = Blank \/ Overlapped(d, e)

(* A document whose token is about to be written once more is not one the  *)
(* request could know of.                                                  *)
NewToken(r) ==
  Creates(r) =>
    /\ model[r].ct # Blank
    /\ \A d \in Stored(store) : store[d].ct = model[r].ct =>
         ~conf.indexed /\ d \notin Stored(snap[r])

(* The documents a transaction sees are used, and have the tokens it sees. *)
SnapTrue(r) ==
  /\ Stored(snap[r]) \subseteq Used
  /\ \A d \in Stored(snap[r]) \cap Stored(store) : snap[r][d].ct = store[d].ct

TokenKept(r) ==
  pc[r] = "saved" /\ req[r].op # "create" /\ model[r] # Gone =>
    model[r].ct = store[req[r].id].ct

CreateTokens ==
  StoredOnce /\ \A r \in Procs : NewToken(r) /\ TokenKept(r) /\ SnapTrue(r)

(***************************************************************************)
(* Update tokens.                                                          *)
(***************************************************************************)
VersionsApart ==
  /\ \A d \in Stored(store) : store[d].ut \in 1..minted
  /\ \A d, e \in Stored(store) : d # e => store[d].ut # store[e].ut

Carries(s, t) == "ut" \in DOMAIN s.attrs /\ s.attrs.ut = t

(* A resource shows a document as it is.                                   *)
Shows(s, d) ==
  s.id = d /\ \A f \in DOMAIN s.attrs : s.attrs[f] = store[d][f]

(* A copy with the token of a document shows it as it is.                  *)
CopyTrue(s) ==
  \A d \in Stored(store) : Carries(s, store[d].ut) => Shows(s, d)

Fresh(r) ==
  Writes(r) =>
    /\ model[r].ut \in 1..minted
    /\ \A d \in Stored(store) : store[d].ut # model[r].ut
    /\ \A q \in Procs : \A s \in copy[q] : ~Carries(s, model[r].ut)

Brings(r) ==
  pc[r] = "saved" /\ req[r].op = "update" =>
    \E s \in copy[r] : Carries(s, store[req[r].id].ut)

UpdateTokens ==
  /\ VersionsApart
  /\ \A r \in Procs : Fresh(r) /\ Brings(r) /\ \A s \in copy[r] : CopyTrue(s)

IInv ==
  /\ Types
  /\ \A r \in Procs : RequestInv(r)
  /\ \A r, q \in Procs : r # q => Apart(r, q)
  /\ conf.idempotent => CreateTokens
  /\ conf.consistent => UpdateTokens


-----------------------------------------------------------------------------
(***************************************************************************)
(* Pages of lists.                                                         *)
(***************************************************************************)
LEMMA IdsFinite == IsFiniteSet(Ids)
<1>1. PICK n \in Ids \cup {None} : \A d \in Ids : d <= n
  BY ListsAssumption
<1>2. n \in Nat /\ Ids \subseteq 0..n
  BY <1>1, ListsAssumption DEF None
<1>3. IsFiniteSet(0..n)
  BY <1>2, FS_Interval
<1> QED
  BY <1>2, <1>3, FS_Subset

LEMMA MaxIds ==
  Max({0} \cup Ids) \in Nat /\ \A d \in Ids : d <= Max({0} \cup Ids)
<1> DEFINE S == {0} \cup Ids
<1>1. PICK n \in Ids \cup {None} : \A d \in Ids : d <= n
  BY ListsAssumption
<1>2. n \in S /\ S \subseteq Nat /\ \A m \in S : n >= m
  BY <1>1, ListsAssumption DEF None
<1> HIDE DEF S
<1>3. Max(S) \in S /\ \A m \in S : Max(S) >= m
  BY <1>2 DEF Max
<1>4. \A m \in S : m <= Max(S)
  BY <1>2, <1>3
<1> QED
  BY <1>2, <1>3, <1>4 DEF S

LEMMA FindAllPages ==
  ASSUME NEW view, NEW docs, IsFiniteSet(docs), NEW sorting,
         NEW skip \in Nat, NEW limit \in Nat,
         NEW page \in FindAll(view, docs, sorting, skip, limit)
  PROVE  page \in Seq(docs)
<1>1. PICK s \in SetToSeqs(docs) :
        page = IF limit = 0 THEN s
               ELSE SubSeq(s, skip + 1, Min({skip + limit, Len(s)}))
  BY DEF FindAll
<1>2. Cardinality(docs) \in Nat
  BY FS_CardinalityType
<1>3. s \in [1..Cardinality(docs) -> docs]
  BY DEF SetToSeqs
<1>4. s \in Seq(docs)
  BY <1>2, <1>3, SeqDef
<1>5. CASE limit # 0
  <2> DEFINE n == Min({skip + limit, Len(s)})
  <2>1. Len(s) \in Nat /\ skip + limit \in Nat
    BY <1>4, LenProperties
  <2>2. \E x \in {skip + limit, Len(s)} : \A y \in {skip + limit, Len(s)} : x <= y
    BY <2>1
  <2>3. n \in {skip + limit, Len(s)} /\ n <= Len(s)
    BY <2>2 DEF Min
  <2> HIDE DEF n
  <2>4. n \in Int /\ \A i \in (skip + 1)..n : i \in 1..Len(s)
    BY <2>1, <2>3
  <2>5. \A i \in (skip + 1)..n : s[i] \in docs
    BY <1>4, <2>4, ElementOfSeq
  <2>6. SubSeq(s, skip + 1, n) \in Seq(docs)
    BY <2>4, <2>5, SubSeqProperties
  <2> QED
    BY <1>1, <1>5, <2>6 DEF n
<1> QED
  BY <1>1, <1>4, <1>5

LEMMA FindAllWithin ==
  ASSUME NEW view, NEW S, IsFiniteSet(S), NEW D \in SUBSET S, NEW sorting,
         NEW skip \in Nat, NEW limit \in Nat,
         NEW page \in FindAll(view, D, sorting, skip, limit)
  PROVE  page \in Seq(S)
<1>1. IsFiniteSet(D)
  BY FS_Subset
<1>2. page \in Seq(D)
  BY <1>1, FindAllPages
<1> QED
  BY <1>2, SeqMonotonic

LEMMA ReversePage ==
  ASSUME NEW S, NEW page \in Seq(S)
  PROVE  Reverse(page) \in Seq(S)
<1>1. Len(page) \in Nat
  BY LenProperties
<1>2. \A i \in 1..Len(page) : page[Len(page) - i + 1] \in S
  BY <1>1, ElementOfSeq
<1>3. Reverse(page) \in [1..Len(page) -> S]
  BY <1>2 DEF Reverse
<1> QED
  BY <1>1, <1>3, SeqDef

(* The pagination that is added to a query.                                *)
LEMMA DefaultsOf ==
  ASSUME NEW c \in Configs, NEW q, IsQuery(q)
  PROVE  /\ IsQuery(Defaults(c, q))
         /\ ~cursorPagination(c, Defaults(c, q)) /\ Defaults(c, q).size > 0 =>
              Defaults(c, q).number \in Nat \ {0}
<1> DEFINE size == IF c.limit > 0 /\ q.size <= 0 THEN c.limit ELSE q.size
           number == IF ~cursorPagination(c, q) /\ size > 0 /\ q.number <= 0
                     THEN 1 ELSE q.number
           after == IF /\ cursorPagination(c, q) /\ size > 0
                       /\ q.after = NoCursor /\ q.before = NoCursor
                    THEN blankCursor ELSE q.after
<1>1. c.limit \in Nat
  BY ControllerAssumption
<1>2. size \in Int /\ number \in Int
  BY <1>1 DEF IsQuery
<1>3. Defaults(c, q) = [q EXCEPT !.size = size, !.number = number, !.after = after]
  BY DEF Defaults
<1> HIDE DEF size, number, after
<1>4. Defaults(c, q) =
        [f \in QueryFields |-> IF f = "size" THEN size
                               ELSE IF f = "number" THEN number
                               ELSE IF f = "after" THEN after ELSE q[f]]
  BY <1>3 DEF IsQuery, QueryFields
<1>5. IsQuery(Defaults(c, q))
  BY <1>2, <1>4 DEF IsQuery, QueryFields
<1>6. cursorPagination(c, Defaults(c, q)) = cursorPagination(c, q)
      /\ Defaults(c, q).size = size /\ Defaults(c, q).number = number
  BY <1>4 DEF cursorPagination, QueryFields
<1>7. ~cursorPagination(c, q) /\ size > 0 => number \in Nat \ {0}
  BY <1>2 DEF number, IsQuery
<1> QED
  BY <1>5, <1>6, <1>7

(* A page holds documents that the user may see.                           *)
LEMMA PagesOf ==
  ASSUME NEW c \in Configs, NEW view, NEW u, NEW asked, IsQuery(asked),
         NEW within \in SUBSET Ids,
         NEW page \in loadModels(c, view, u, asked, within)
  PROVE  page \in Seq(Selected(c, view, u, within))
<1> DEFINE q == Defaults(c, asked)
           docs == Matching(c, view, u, q, within)
           sorting == Sorting(c, q)
           S == Selected(c, view, u, within)
<1>1. IsQuery(q) /\ (~cursorPagination(c, q) /\ q.size > 0 => q.number \in Nat \ {0})
  BY DefaultsOf
<1>2. docs \subseteq S /\ S \subseteq Ids
  BY DEF Matching, Selected, Live, Stored
<1>3. /\ q.size <= 0 => page \in FindAll(view, docs, TextScoreSort(q, sorting), 0, 0)
      /\ ~(q.size <= 0) /\ cursorPagination(c, q) =>
           page \in CursorPage(view, docs, sorting, q)
      /\ ~(q.size <= 0) /\ ~cursorPagination(c, q) =>
           page \in OffsetPage(view, docs, sorting, q)
  BY DEF loadModels
<1> SUFFICES page \in Seq(S)
  OBVIOUS
<1> HIDE DEF q, docs, sorting, S
<1>4. q.size \in Int
  BY <1>1 DEF IsQuery
<1>5. IsFiniteSet(S) /\ docs \in SUBSET S
  BY <1>2, IdsFinite, FS_Subset
<1>6. 0 \in Nat
  OBVIOUS
<1>7. CASE q.size <= 0
  <2>1. page \in FindAll(view, docs, TextScoreSort(q, sorting), 0, 0)
    BY <1>3, <1>7
  <2> QED
    BY <1>5, <1>6, <2>1, FindAllWithin, Zenon
<1>8. CASE ~(q.size <= 0) /\ cursorPagination(c, q)
  <2> DEFINE before == q.before # NoCursor
             cursor == IF before THEN q.before ELSE q.after
             order == IF before THEN ReverseSort(sorting) ELSE sorting
             beyond == {d \in docs : cursor = blankCursor
                                        \/ Beyond(Keys(view, d, order), cursor, order)}
             pages == FindAll(view, beyond, TextScoreSort(q, order), 0, q.size)
  <2>1. page \in IF before THEN {Reverse(p) : p \in pages} ELSE pages
    BY <1>3, <1>8 DEF CursorPage
  <2>2. beyond \in SUBSET S
    BY <1>5
  <2>3. q.size \in Nat
    BY <1>4, <1>8
  <2> HIDE DEF beyond, order, before, pages
  <2>4. ASSUME NEW p \in pages
        PROVE  p \in Seq(S)
    BY <1>5, <1>6, <2>2, <2>3, <2>4, FindAllWithin, Zenon DEF pages
  <2> QED
    BY <2>1, <2>4, ReversePage
<1>9. CASE ~(q.size <= 0) /\ ~cursorPagination(c, q)
  <2>1. q.number - 1 \in Nat /\ q.size \in Nat
    BY <1>1, <1>4, <1>9
  <2>2. \A m, n \in Nat : m * n \in Nat
    OBVIOUS
  <2>3. (q.number - 1) * q.size \in Nat
    BY <2>1, <2>2
  <2>4. page \in FindAll(view, docs, TextScoreSort(q, sorting),
                         (q.number - 1) * q.size, q.size)
    BY <1>3, <1>9 DEF OffsetPage
  <2> QED
    BY <1>5, <2>1, <2>3, <2>4, FindAllWithin, Zenon
<1> QED
  BY <1>7, <1>8, <1>9

LEMMA CutQuery ==
  ASSUME NEW q, IsQuery(q), NEW x, NEW y
  PROVE  /\ IsQuery([q EXCEPT !.before = x, !.after = y])
         /\ IsQuery([q EXCEPT !.after = y, !.before = x])
<1>1. [q EXCEPT !.before = x] = [f \in QueryFields |-> IF f = "before" THEN x ELSE q[f]]
  BY DEF IsQuery, QueryFields
<1>2. [q EXCEPT !.after = y] = [f \in QueryFields |-> IF f = "after" THEN y ELSE q[f]]
  BY DEF IsQuery, QueryFields
<1> QED
  BY <1>1, <1>2 DEF IsQuery, QueryFields

(* The links of a page are queries.                                        *)
LEMMA LinksOf ==
  ASSUME NEW c \in Configs, NEW view, NEW u, NEW asked, IsQuery(asked),
         NEW within \in SUBSET Ids, NEW models
  PROVE  LET links == listLinks(c, view, u, asked, within, models)
         IN \A q \in links.first \cup links.last \cup links.previous
                       \cup links.next : IsQuery(q)
<1> DEFINE q == Defaults(c, asked)
           count == Cardinality(Matching(c, view, u, q, within))
<1>1. IsQuery(q)
  BY DefaultsOf
<1>2. IsFiniteSet(Matching(c, view, u, q, within))
  <2>1. Matching(c, view, u, q, within) \subseteq Ids
    BY DEF Matching, Selected, Live, Stored
  <2> QED
    BY <2>1, IdsFinite, FS_Subset
<1>3. count \in Nat
  BY <1>2, FS_CardinalityType
<1> HIDE DEF count, q
<1>4. \A n \in Int : IsQuery([q EXCEPT !.number = n])
  BY <1>1 DEF IsQuery, QueryFields
<1>5. \A x, y : /\ IsQuery([q EXCEPT !.before = x, !.after = y])
                /\ IsQuery([q EXCEPT !.after = y, !.before = x])
  BY <1>1, CutQuery
<1>6. q.size \in Int /\ q.number \in Int
  BY <1>1 DEF IsQuery
<1>7. CASE q.size <= 0
  <2>1. listLinks(c, view, u, asked, within, models)
          = [first |-> NullLink, last |-> NullLink, previous |-> NullLink, next |-> NullLink]
    BY <1>7 DEF listLinks, q
  <2> QED
    BY <2>1 DEF NullLink
<1>8. CASE ~(q.size <= 0) /\ cursorPagination(c, q)
  <2>1. listLinks(c, view, u, asked, within, models)
          = CursorLinks(view, q, Sorting(c, q), models)
    BY <1>8 DEF listLinks, q
  <2> DEFINE previous == [q EXCEPT !.after = NoCursor,
                                    !.before = Keys(view, Head(models), Sorting(c, q))]
             next == [q EXCEPT !.after = Keys(view, Last(models), Sorting(c, q)),
                                !.before = NoCursor]
             first == [q EXCEPT !.before = NoCursor, !.after = blankCursor]
             last == [q EXCEPT !.before = blankCursor, !.after = NoCursor]
             links == CursorLinks(view, q, Sorting(c, q), models)
  <2>2. IsQuery(previous) /\ IsQuery(next) /\ IsQuery(first) /\ IsQuery(last)
    BY <1>5
  <2>3. /\ links.first = {first} /\ links.last = {last}
        /\ links.previous \in {{}, {last}, {previous}}
        /\ links.next \in {{}, {first}, {next}}
    BY DEF CursorLinks, NullLink
  <2> HIDE DEF first, last, previous, next, links
  <2> QED
    BY <2>1, <2>2, <2>3 DEF links
<1>9. CASE ~(q.size <= 0) /\ ~cursorPagination(c, q)
  <2>1. listLinks(c, view, u, asked, within, models) = OffsetLinks(q, count)
    BY <1>9 DEF listLinks, q, count
  <2>2. (count + q.size - 1) \div q.size \in Int
    BY <1>3, <1>6, <1>9
  <2> QED
    BY <1>4, <1>6, <2>1, <2>2 DEF OffsetLinks, NullLink
<1> QED
  BY <1>7, <1>8, <1>9

-----------------------------------------------------------------------------
(***************************************************************************)
(* The steps of a request.                                                 *)
(***************************************************************************)
LEMMA RequestKept ==
  ASSUME NEW q \in Procs, RequestInv(q), conf' = conf,
         pc'[q] = pc[q], req'[q] = req[q], snap'[q] = snap[q], model'[q] = model[q],
         Holds(q) => store'[req[q].id] = store[req[q].id]
  PROVE  RequestInv(q)'
<1>1. Begun(q)'
  BY DEF RequestInv, Begun
<1>2. Holding(q)'
  BY DEF RequestInv, Holding, Holds, Selected, Live, Stored
<1>3. Loading(q)'
  BY DEF RequestInv, Loading, Holds
<1>4. Saving(q)'
  BY DEF RequestInv, Saving, Holds, Old
<1> QED
  BY <1>1, <1>2, <1>3, <1>4 DEF RequestInv

(* A step of one request keeps what the others rely on.                    *)
LEMMA RequestStep ==
  ASSUME IInv, Types', NEW r \in Procs,
         UNCHANGED <<conf, store, copy, born>>, minted' \in {minted, minted + 1},
         \A q \in Procs \ {r} : /\ pc'[q] = pc[q] /\ req'[q] = req[q]
                                /\ snap'[q] = snap[q] /\ model'[q] = model[q],
         RequestInv(r)', \A q \in Procs \ {r} : Apart(r, q)',
         conf.idempotent => NewToken(r)' /\ TokenKept(r)' /\ SnapTrue(r)',
         conf.consistent => Fresh(r)' /\ Brings(r)'
  PROVE  IInv'
<1>1. \A q \in Procs : RequestInv(q)'
  BY RequestKept DEF IInv
<1>2. ASSUME NEW p \in Procs, NEW q \in Procs, p # q
      PROVE  Apart(p, q)'
  <2>1. CASE p = r
    BY <1>2, <2>1
  <2>2. CASE q = r
    <3>1. Apart(q, p)'
      BY <1>2, <2>2
    <3> QED
      BY <3>1 DEF Apart
  <2>3. CASE p # r /\ q # r
    BY <1>2, <2>3 DEF IInv, Apart, Holds, Creates, Writes
  <2> QED
    BY <2>1, <2>2, <2>3
<1>3. ASSUME conf.idempotent
      PROVE  CreateTokens'
  <2>1. StoredOnce'
    BY <1>3 DEF IInv, CreateTokens, StoredOnce, Stored, Used, Overlapped
  <2>2. ASSUME NEW q \in Procs \ {r}
        PROVE  NewToken(q)' /\ TokenKept(q)' /\ SnapTrue(q)'
    BY <1>3
    DEF IInv, CreateTokens, NewToken, TokenKept, SnapTrue, Creates, Stored, Used
  <2> QED
    BY <1>3, <2>1, <2>2 DEF CreateTokens
<1>4. ASSUME conf.consistent
      PROVE  UpdateTokens'
  <2>1. \A n : n \in 1..minted => n \in 1..minted'
    BY DEF IInv, Types
  <2>2. VersionsApart'
    BY <1>4, <2>1 DEF IInv, UpdateTokens, VersionsApart, Stored
  <2>3. ASSUME NEW q \in Procs \ {r}
        PROVE  Fresh(q)' /\ Brings(q)'
    BY <1>4, <2>1 DEF IInv, UpdateTokens, Fresh, Brings, Writes, Carries, Stored
  <2>4. ASSUME NEW q \in Procs, NEW s \in copy[q]
        PROVE  CopyTrue(s)'
    BY <1>4 DEF IInv, UpdateTokens, CopyTrue, Carries, Shows, Stored
  <2> QED
    BY <1>4, <2>2, <2>3, <2>4 DEF UpdateTokens
<1> QED
  BY <1>1, <1>2, <1>3, <1>4 DEF IInv

(* A step that leaves a request without a transaction, or before it has    *)
(* loaded its document.                                                    *)
LEMMA NothingHeld ==
  ASSUME IInv, Types', NEW r \in Procs,
         UNCHANGED <<conf, store, copy, born, minted>>,
         \A q \in Procs \ {r} : /\ pc'[q] = pc[q] /\ req'[q] = req[q]
                                /\ snap'[q] = snap[q] /\ model'[q] = model[q],
         pc'[r] \in {"idle", "begun"}, Begun(r)', snap'[r] \in {store, NoView}
  PROVE  IInv'
<1>1. RequestInv(r)'
  BY DEF RequestInv, Holding, Loading, Saving, Holds
<1>2. \A q \in Procs \ {r} : Apart(r, q)'
  BY DEF Apart, Holds, Creates, Writes
<1>3. NewToken(r)' /\ TokenKept(r)' /\ Fresh(r)' /\ Brings(r)'
  BY DEF NewToken, TokenKept, Fresh, Brings, Creates, Writes
<1>4. SnapTrue(r)'
  BY DEF SnapTrue, Stored, Used, NoView
<1> QED
  BY <1>1, <1>2, <1>3, <1>4, RequestStep

-----------------------------------------------------------------------------
LEMMA NoWalkIsWalk == IsWalk(NoWalk)
<1>1. NoWalk = [f \in WalkFields |-> NoWalk[f]]
  BY DEF NoWalk, WalkFields
<1>2. <<>> \in Seq(Ids)
  OBVIOUS
<1> QED
  BY <1>1, <1>2 DEF IsWalk, NoWalk

LEMMA InitInv == ASSUME Init PROVE IInv
<1>1. PICK vals \in [conf.initial -> Values \ Invalid] :
        store = [d \in Ids |-> IF d \in conf.initial
                               THEN [Zero EXCEPT !.val = vals[d], !.ut = d] ELSE Free]
  BY DEF Init
<1>2. minted \in Nat /\ \A d \in Ids : d <= minted /\ d \in Nat \ {0}
  BY MaxIds, ListsAssumption DEF Init, None
<1>3. \A d \in conf.initial : [Zero EXCEPT !.val = vals[d], !.ut = d] \in Doc
  BY <1>1, <1>2, ControllerAssumption DEF Init, Doc, Zero, Blank, None
<1>4. Types
  <2>1. store \in Views
    BY <1>1, <1>3 DEF Views
  <2>2. NoView \in Views
    BY DEF NoView, Views
  <2>3. NoRequest \in Requests
    BY DEF NoRequest, Requests, None
  <2>4. Unborn \in [ct : Tokens \cup {Blank}, knew : SUBSET Ids]
    BY DEF Unborn
  <2> QED
    BY <1>2, <2>1, <2>2, <2>3, <2>4, NoWalkIsWalk DEF Init, Types
<1>5. \A r \in Procs : pc[r] = "idle" /\ copy[r] = {}
  BY DEF Init
<1>6. \A d \in Stored(store) :
        d \in Ids /\ store[d].ut = d /\ store[d].ct = Blank /\ born[d] = Unborn
  BY <1>1 DEF Stored, Zero, Init
<1>7. StoredOnce
  BY <1>6 DEF StoredOnce, Unborn
<1>8. VersionsApart
  BY <1>2, <1>6 DEF VersionsApart
<1>9. \A r \in Procs : SnapTrue(r)
  BY DEF Init, SnapTrue, Stored, NoView
<1> QED
  BY <1>4, <1>5, <1>7, <1>8, <1>9
  DEF IInv, RequestInv, Begun, Holding, Loading, Saving, Holds, Apart, Creates, Writes,
      CreateTokens, NewToken, TokenKept, UpdateTokens, Fresh, Brings

-----------------------------------------------------------------------------
(***************************************************************************)
(* Reads.                                                                  *)
(***************************************************************************)

(* A resource is made of a document and what refers to it.                 *)
LEMMA Constructed ==
  ASSUME NEW u \in Users, NEW d, NEW doc, NEW relationships,
         NEW s, s = constructResource(u, d, doc, relationships)
  PROVE  /\ s.id = d /\ DOMAIN s.attrs = Readable[u] /\ DOMAIN s.attrs \subseteq Fields
         /\ \A f \in DOMAIN s.attrs : s.attrs[f] = doc[f]
         /\ s.children = IF d \in DOMAIN relationships THEN relationships[d] ELSE {}
BY ControllerAssumption DEF constructResource

LEMMA PreloadedIds ==
  ASSUME NEW c, NEW view, NEW u, NEW docs, NEW d \in docs
  PROVE  preloadRelationships(c, view, u, docs)[d] \subseteq Ids
BY DEF preloadRelationships, Selected, Live, Stored

(* A client is shown documents as they are stored.                         *)
LEMMA ShownStep ==
  ASSUME IInv, NEW r \in Procs, Idle(r), NEW resources, Shown(r, resources),
         \A s \in resources : /\ s.id \in Stored(store) /\ s.children \subseteq Ids
                              /\ DOMAIN s.attrs \subseteq Fields /\ Shows(s, s.id)
  PROVE  IInv'
<1>1. PICK s \in resources : copy' = [copy EXCEPT ![r] = Kept(s)]
  BY DEF Shown
<1>2. UNCHANGED <<conf, store, pc, req, snap, model, walk, born, minted, calls>>
  BY DEF Shown
<1>3. s.id \in Stored(store) /\ s.children \subseteq Ids
      /\ DOMAIN s.attrs \subseteq Fields /\ Shows(s, s.id)
  OBVIOUS
<1>4. s.id \in Ids /\ store[s.id] \in Doc
  BY <1>3 DEF Stored, IInv, Types, Views
<1>5. Kept(s) \subseteq {s} /\ (Kept(s) # {} => conf.consistent)
  BY DEF Kept
<1>6. copy'[r] = Kept(s) /\ \A q \in Procs \ {r} : copy'[q] = copy[q]
  BY <1>1 DEF IInv, Types
<1>7. pc[r] = "idle"
  BY DEF Idle
<1>8. ASSUME conf.consistent
      PROVE  /\ \A t : Carries(s, t) => t = store[s.id].ut /\ t \in 1..minted
             /\ \A d \in Stored(store) : Carries(s, store[d].ut) => d = s.id
  BY <1>3, <1>8 DEF IInv, UpdateTokens, VersionsApart, Carries, Shows
<1>9. Types'
  <2>1. copy' = [q \in Procs |-> copy'[q]]
    BY <1>1 DEF IInv, Types
  <2>2. IsCopy(s) \/ ~conf.consistent
    BY <1>3, <1>4, <1>8, <1>7 DEF IsCopy, Carries, IInv, Types
  <2>3. \A q \in Procs : \A x \in copy'[q] : IsCopy(x)' /\ conf'.consistent
    BY <1>2, <1>5, <1>6, <2>2 DEF IsCopy, IInv, Types
  <2> QED
    BY <1>2, <2>1, <2>3 DEF IInv, Types
<1>10. \A q \in Procs : RequestInv(q)'
  BY <1>2, RequestKept DEF IInv
<1>11. \A p, q \in Procs : p # q => Apart(p, q)'
  BY <1>2 DEF IInv, Apart, Holds, Creates, Writes
<1>12. ASSUME conf.idempotent
       PROVE  CreateTokens'
  BY <1>2, <1>12
  DEF IInv, CreateTokens, StoredOnce, NewToken, TokenKept, SnapTrue, Creates, Stored,
      Used, Overlapped
<1>13. ASSUME conf.consistent
       PROVE  UpdateTokens'
  <2>1. VersionsApart'
    BY <1>2, <1>13 DEF IInv, UpdateTokens, VersionsApart, Stored
  <2>2. ASSUME NEW q \in Procs
        PROVE  Fresh(q)'
    <3>1. ASSUME Writes(q)
          PROVE  ~Carries(s, model[q].ut)
      BY <1>3, <1>8, <1>13, <3>1 DEF IInv, UpdateTokens, Fresh
    <3>2. \A p \in Procs : \A x \in copy'[p] : x = s \/ x \in copy[p]
      BY <1>5, <1>6
    <3> QED
      BY <1>2, <1>13, <3>1, <3>2 DEF IInv, UpdateTokens, Fresh, Writes, Carries, Stored
  <2>3. ASSUME NEW q \in Procs
        PROVE  Brings(q)'
    BY <1>2, <1>6, <1>7, <1>13 DEF IInv, UpdateTokens, Brings, Carries
  <2>4. ASSUME NEW q \in Procs, NEW x \in copy'[q]
        PROVE  CopyTrue(x)'
    <3>1. CASE x \in copy[q]
      BY <1>2, <1>13, <3>1 DEF IInv, UpdateTokens, CopyTrue, Carries, Shows, Stored
    <3>2. CASE x = s
      BY <1>2, <1>3, <1>8, <1>13, <3>2 DEF CopyTrue, Carries, Shows, Stored
    <3> QED
      BY <1>5, <1>6, <3>1, <3>2
  <2> QED
    BY <1>2, <2>1, <2>2, <2>3, <2>4 DEF UpdateTokens
<1> QED
  BY <1>2, <1>9, <1>10, <1>11, <1>12, <1>13 DEF IInv

LEMMA ListedShown ==
  ASSUME NEW c, NEW u \in Users, NEW page \in Seq(Stored(store)),
         NEW s \in resourcesForModels(c, store, u, page)
  PROVE  /\ s.id \in Stored(store) /\ s.children \subseteq Ids
         /\ DOMAIN s.attrs \subseteq Fields /\ Shows(s, s.id)
<1> DEFINE relationships == preloadRelationships(c, store, u, Range(page))
<1>1. PICK d \in Range(page) : s = constructResource(u, d, store[d], relationships)
  BY DEF resourcesForModels
<1>2. d \in Stored(store)
  BY <1>1, ElementOfSeq, LenProperties DEF Range
<1>3. relationships[d] \subseteq Ids
  BY <1>1, PreloadedIds
<1> HIDE DEF relationships
<1> QED
  BY <1>1, <1>2, <1>3, Constructed DEF Shows

LEMMA FoundShown ==
  ASSUME NEW c, NEW u \in Users, NEW d \in Stored(store),
         NEW s \in {resourceForModel(c, store, u, d)}
  PROVE  /\ s.id \in Stored(store) /\ s.children \subseteq Ids
         /\ DOMAIN s.attrs \subseteq Fields /\ Shows(s, s.id)
<1> DEFINE relationships == preloadRelationships(c, store, u, {d})
<1>1. s = constructResource(u, d, store[d], relationships)
  BY DEF resourceForModel
<1>2. relationships[d] \subseteq Ids
  BY PreloadedIds
<1> HIDE DEF relationships
<1> QED
  BY <1>1, <1>2, Constructed DEF Shows

LEMMA AskedQueries ==
  /\ \A sort : IsQuery(AllOf(sort))
  /\ \A q \in Queries : IsQuery(q)
  /\ \A q \in Walks : conf \in Configs => IsQuery(q)
<1>1. ASSUME NEW sort
      PROVE  IsQuery(AllOf(sort))
  <2>1. ASSUME NEW e, NEW n, NEW q,
               q = [filters |-> e, search |-> {}, sort |-> sort, kind |-> "", size |-> 0,
                    number |-> 0, before |-> n, after |-> n]
        PROVE  IsQuery(q)
    <3>1. q = [f \in QueryFields |-> q[f]]
      BY <2>1 DEF QueryFields
    <3>2. q.size = 0 /\ q.number = 0
      BY <2>1
    <3> QED
      BY <3>1, <3>2 DEF IsQuery
  <2> QED
    BY <2>1, Zenon DEF AllOf
<1>2. ASSUME NEW q, IsQuery(q), NEW x
      PROVE  IsQuery([q EXCEPT !.filters = x])
  BY <1>2 DEF IsQuery, QueryFields
<1>3. ASSUME NEW q, IsQuery(q), NEW x
      PROVE  IsQuery([q EXCEPT !.search = x])
  BY <1>3 DEF IsQuery, QueryFields
<1>4. ASSUME NEW q, IsQuery(q), NEW x, NEW y \in Int
      PROVE  IsQuery(Paged(q, x, y))
  <2>1. [q EXCEPT !.kind = x] =
          [f \in QueryFields |-> IF f = "kind" THEN x ELSE q[f]]
    BY <1>4 DEF IsQuery, QueryFields
  <2>2. Paged(q, x, y) =
          [f \in QueryFields |-> IF f = "size" THEN y ELSE IF f = "kind" THEN x ELSE q[f]]
    BY <2>1 DEF Paged, QueryFields
  <2> QED
    BY <1>4, <2>2 DEF IsQuery, QueryFields
<1>5. \A q \in Queries : IsQuery(q)
  BY <1>1, <1>2 DEF Queries
<1>6. ASSUME conf \in Configs, NEW q \in Walks
      PROVE  IsQuery(q)
  <2>1. conf.limit \in Nat
    BY <1>6, ControllerAssumption
  <2>2. IsQuery([AllOf(<<>>) EXCEPT !.search = Values])
    BY <1>1, <1>3
  <2>3. \A size \in 0..conf.limit : size \in Int
    BY <2>1
  <2> QED
    BY <1>1, <1>4, <1>6, <2>2, <2>3 DEF Walks
<1> QED
  BY <1>1, <1>5, <1>6

(* A list is made of stored documents.                                     *)
LEMMA ListedStored ==
  ASSUME conf \in Configs, NEW u, NEW q, IsQuery(q), NEW within \in SUBSET Ids,
         NEW page \in loadModels(conf, store, u, q, within)
  PROVE  page \in Seq(Stored(store)) /\ page \in Seq(Ids)
<1>1. page \in Seq(Selected(conf, store, u, within))
  BY PagesOf
<1>2. Selected(conf, store, u, within) \subseteq Stored(store) /\ Stored(store) \subseteq Ids
  BY DEF Selected, Live, Stored
<1> QED
  BY <1>1, <1>2, SeqMonotonic

LEMMA ListStep ==
  ASSUME IInv, NEW r \in Procs, listResources(r)
  PROVE  IInv'
<1>1. PICK u \in Users, q \in Queries : \E page \in loadModels(conf, store, u, q, Ids) :
        Shown(r, resourcesForModels(conf, store, u, page))
  BY DEF listResources
<1>2. PICK page \in loadModels(conf, store, u, q, Ids) :
        Shown(r, resourcesForModels(conf, store, u, page))
  BY <1>1
<1>3. page \in Seq(Stored(store))
  BY <1>2, AskedQueries, ListedStored DEF IInv, Types
<1>4. \A s \in resourcesForModels(conf, store, u, page) :
        /\ s.id \in Stored(store) /\ s.children \subseteq Ids
        /\ DOMAIN s.attrs \subseteq Fields /\ Shows(s, s.id)
  BY <1>3, ListedShown
<1> QED
  BY <1>2, <1>4, ShownStep DEF listResources

LEMMA FindStep ==
  ASSUME IInv, NEW r \in Procs, findResource(r)
  PROVE  IInv'
<1>1. PICK u \in Users, d \in Ids :
        Loaded(conf, u, d) /\ Shown(r, {resourceForModel(conf, store, u, d)})
  BY DEF findResource
<1>2. d \in Stored(store)
  BY <1>1 DEF Loaded, Selected, Live
<1>3. \A s \in {resourceForModel(conf, store, u, d)} :
        /\ s.id \in Stored(store) /\ s.children \subseteq Ids
        /\ DOMAIN s.attrs \subseteq Fields /\ Shows(s, s.id)
  BY <1>2, FoundShown
<1>4. Idle(r)
  BY DEF findResource
<1> QED
  BY <1>1, <1>3, <1>4, ShownStep

LEMMA RelatedStep ==
  ASSUME IInv, NEW r \in Procs, getRelatedResources(r)
  PROVE  IInv'
<1>1. PICK u \in Users, d \in Ids, rel \in {"parent", "links", "children"} :
        \E page \in loadModels(conf, store, u, AllOf(<<>>), Within(rel, d) \cap Ids) :
          Shown(r, resourcesForModels(conf, store, u, page))
  BY DEF getRelatedResources
<1> DEFINE within == Within(rel, d) \cap Ids
<1>2. PICK page \in loadModels(conf, store, u, AllOf(<<>>), within) :
        Shown(r, resourcesForModels(conf, store, u, page))
  BY <1>1
<1>3. within \in SUBSET Ids /\ IsQuery(AllOf(<<>>))
  BY AskedQueries
<1> HIDE DEF within
<1>4. page \in Seq(Stored(store))
  BY <1>2, <1>3, ListedStored DEF IInv, Types
<1>5. \A s \in resourcesForModels(conf, store, u, page) :
        /\ s.id \in Stored(store) /\ s.children \subseteq Ids
        /\ DOMAIN s.attrs \subseteq Fields /\ Shows(s, s.id)
  BY <1>4, ListedShown
<1>6. Idle(r)
  BY DEF getRelatedResources
<1> QED
  BY <1>2, <1>5, <1>6, ShownStep

-----------------------------------------------------------------------------
(***************************************************************************)
(* Walks: a step changes only the walk.                                    *)
(***************************************************************************)
LEMMA WalkStep ==
  ASSUME IInv, NEW r \in Procs, NEW w, IsWalk(w),
         walk' = [walk EXCEPT ![r] = w],
         UNCHANGED <<conf, store, pc, req, snap, model, copy, born, minted, calls>>
  PROVE  IInv'
<1>1. walk' = [q \in Procs |-> walk'[q]] /\ \A q \in Procs : walk'[q] \in {w, walk[q]}
  BY DEF IInv, Types
<1>2. \A q \in Procs : IsWalk(walk'[q])
  BY <1>1 DEF IInv, Types
<1>3. Types'
  BY <1>1, <1>2 DEF IInv, Types, IsCopy
<1>4. RequestInv(r)'
  BY RequestKept DEF IInv
<1>5. \A q \in Procs \ {r} : Apart(r, q)'
  BY DEF IInv, Apart, Holds, Creates, Writes
<1>6. conf.idempotent => NewToken(r)' /\ TokenKept(r)' /\ SnapTrue(r)'
  BY DEF IInv, CreateTokens, NewToken, TokenKept, SnapTrue, Creates, Stored, Used
<1>7. conf.consistent => Fresh(r)' /\ Brings(r)'
  BY DEF IInv, UpdateTokens, Fresh, Brings, Writes, Carries, Stored
<1> QED
  BY <1>3, <1>4, <1>5, <1>6, <1>7, RequestStep

LEMMA StartStep ==
  ASSUME IInv, NEW r \in Procs, Start(r)
  PROVE  IInv'
<1>1. PICK u \in Users, q \in Walks, back \in BOOLEAN :
        \E page \in loadModels(conf, store, u, q, Ids) :
         LET links == listLinks(conf, store, u, q, Ids, page)
         IN walk' = [walk EXCEPT ![r] =
              [user |-> u, back |-> back, asked |-> {Defaults(conf, q)}, seen |-> <<>>,
               next |-> IF back THEN links.last ELSE links.first,
               steady |-> Matching(conf, store, u, Defaults(conf, q), Ids), quiet |-> TRUE]]
  BY DEF Start
<1>2. PICK page \in loadModels(conf, store, u, q, Ids) :
         LET links == listLinks(conf, store, u, q, Ids, page)
         IN walk' = [walk EXCEPT ![r] =
              [user |-> u, back |-> back, asked |-> {Defaults(conf, q)}, seen |-> <<>>,
               next |-> IF back THEN links.last ELSE links.first,
               steady |-> Matching(conf, store, u, Defaults(conf, q), Ids), quiet |-> TRUE]]
  BY <1>1
<1> DEFINE links == listLinks(conf, store, u, q, Ids, page)
           next == IF back THEN links.last ELSE links.first
           asked == {Defaults(conf, q)}
           steady == Matching(conf, store, u, Defaults(conf, q), Ids)
           w == [user |-> u, back |-> back, asked |-> asked, seen |-> <<>>,
                 next |-> next, steady |-> steady, quiet |-> TRUE]
<1>3. conf \in Configs /\ IsQuery(q)
  BY AskedQueries DEF IInv, Types
<1>4. \A x \in links.first \cup links.last : IsQuery(x)
  BY <1>3, LinksOf
<1>5. walk' = [walk EXCEPT ![r] = w]
  BY <1>2
<1>6. steady \subseteq Ids
  BY DEF Matching, Selected, Live, Stored
<1> HIDE DEF links
<1>7. \A x \in next : IsQuery(x)
  BY <1>4
<1> HIDE DEF next, steady, asked
<1>8. IsWalk(w)
  <2>1. w = [f \in WalkFields |-> w[f]]
    BY DEF WalkFields
  <2>2. <<>> \in Seq(Ids)
    OBVIOUS
  <2> QED
    BY <1>6, <1>7, <2>1, <2>2 DEF IsWalk
<1> HIDE DEF w
<1> QED
  BY <1>5, <1>8, WalkStep DEF Start

LEMMA FollowStep ==
  ASSUME IInv, NEW r \in Procs, Follow(r)
  PROVE  IInv'
<1>1. PICK q \in walk[r].next : \E page \in loadModels(conf, store, walk[r].user, q, Ids) :
       LET links == listLinks(conf, store, walk[r].user, q, Ids, page)
       IN walk' = IF walk[r].back
            THEN [walk EXCEPT ![r].seen = page \o @, ![r].next = links.previous]
            ELSE [walk EXCEPT ![r].seen = @ \o page, ![r].next = links.next]
  BY DEF Follow
<1>2. PICK page \in loadModels(conf, store, walk[r].user, q, Ids) :
       LET links == listLinks(conf, store, walk[r].user, q, Ids, page)
       IN walk' = IF walk[r].back
            THEN [walk EXCEPT ![r].seen = page \o @, ![r].next = links.previous]
            ELSE [walk EXCEPT ![r].seen = @ \o page, ![r].next = links.next]
  BY <1>1
<1> DEFINE links == listLinks(conf, store, walk[r].user, q, Ids, page)
           next == IF walk[r].back THEN links.previous ELSE links.next
           seen == IF walk[r].back THEN page \o walk[r].seen ELSE walk[r].seen \o page
           w == [f \in WalkFields |-> IF f = "seen" THEN seen
                                     ELSE IF f = "next" THEN next ELSE walk[r][f]]
<1>3. conf \in Configs /\ IsQuery(q) /\ IsWalk(walk[r])
  BY DEF IInv, Types, IsWalk
<1>4. \A x \in links.previous \cup links.next : IsQuery(x)
  BY <1>3, LinksOf
<1>5. page \in Seq(Ids)
  BY <1>3, ListedStored
<1>6. seen \in Seq(Ids)
  BY <1>3, <1>5, ConcatProperties DEF IsWalk
<1>7. walk' = [[walk EXCEPT ![r].seen = seen] EXCEPT ![r].next = next]
  BY <1>2
<1> HIDE DEF links, seen
<1>8. \A x \in next : IsQuery(x)
  BY <1>4
<1> HIDE DEF next
<1>9. [walk[r] EXCEPT !.seen = seen]
        = [f \in WalkFields |-> IF f = "seen" THEN seen ELSE walk[r][f]]
  BY <1>3 DEF IsWalk, WalkFields
<1>10. walk' = [walk EXCEPT ![r] = [[walk[r] EXCEPT !.seen = seen] EXCEPT !.next = next]]
  BY <1>7 DEF IInv, Types
<1>11. walk' = [walk EXCEPT ![r] = w]
  BY <1>9, <1>10 DEF WalkFields
<1>12. IsWalk(w)
  BY <1>3, <1>6, <1>8 DEF IsWalk, WalkFields
<1> HIDE DEF w
<1> QED
  BY <1>11, <1>12, WalkStep DEF Follow

LEMMA StopStep ==
  ASSUME IInv, NEW r \in Procs, Stop(r)
  PROVE  IInv'
BY NoWalkIsWalk, WalkStep DEF Stop

(* A change of a document takes it from what the walks count on.           *)
LEMMA WalksDisturbed ==
  ASSUME Types, NEW d,
         walk' = [q \in Procs |-> IF walk[q] = NoWalk THEN NoWalk ELSE Disturbed(walk[q], d)]
  PROVE  walk' = [q \in Procs |-> walk'[q]] /\ \A q \in Procs : IsWalk(walk'[q])
<1>1. ASSUME NEW w, IsWalk(w)
      PROVE  IsWalk(Disturbed(w, d))
  <2>1. [w EXCEPT !.steady = w.steady \ {d}]
          = [f \in WalkFields |-> IF f = "steady" THEN w.steady \ {d} ELSE w[f]]
    BY <1>1 DEF IsWalk, WalkFields
  <2>2. Disturbed(w, d)
          = [f \in WalkFields |-> IF f = "quiet" THEN FALSE
                                 ELSE IF f = "steady" THEN w.steady \ {d} ELSE w[f]]
    BY <2>1 DEF Disturbed, WalkFields
  <2> QED
    BY <1>1, <2>2 DEF IsWalk, WalkFields
<1> QED
  BY <1>1, NoWalkIsWalk DEF Types

-----------------------------------------------------------------------------
(***************************************************************************)
(* Requests that write, until they have saved their document.              *)
(***************************************************************************)
LEMMA BeginStep ==
  ASSUME IInv, NEW r \in Procs, Begin(r)
  PROVE  IInv'
<1>1. PICK op \in Operations, u \in Users, d \in Ids \cup {None} :
        /\ (op = "create") <=> (d = None)
        /\ op \in Partials => ~conf.consistent
        /\ req' = [req EXCEPT ![r] = [op |-> op, user |-> u, id |-> d]]
  BY DEF Begin
<1>2. /\ pc' = [pc EXCEPT ![r] = "begun"] /\ snap' = [snap EXCEPT ![r] = store]
      /\ calls' = calls + 1 /\ UNCHANGED <<conf, store, model, copy, walk, born, minted>>
  BY DEF Begin
<1>3. [op |-> op, user |-> u, id |-> d] \in Requests
  BY DEF Requests
<1>4. Types'
  BY <1>1, <1>2, <1>3 DEF IInv, Types, IsCopy
<1>5. Begun(r)'
  BY <1>1, <1>2 DEF IInv, Types, Begun
<1>6. pc'[r] = "begun" /\ snap'[r] = store /\ \A q \in Procs \ {r} : /\ pc'[q] = pc[q] /\ req'[q] = req[q]
                                                /\ snap'[q] = snap[q] /\ model'[q] = model[q]
  BY <1>1, <1>2 DEF IInv, Types
<1> QED
  BY <1>2, <1>4, <1>5, <1>6, NothingHeld

LEMMA StoredDoc ==
  ASSUME Types, NEW d \in Stored(store)
  PROVE  d \in Ids /\ store[d] \in Doc
BY DEF Types, Views, Stored

LEMMA LockedDoc ==
  ASSUME NEW doc \in Doc
  PROVE  /\ Locked(doc) \in Doc /\ Locked(doc).del = doc.del
         /\ \A f \in Fields : Locked(doc)[f] = doc[f]
BY DEF Locked, Doc, Fields

LEMMA LoadStep ==
  ASSUME IInv, NEW r \in Procs, loadModel(r)
  PROVE  IInv'
<1> DEFINE d == req[r].id
<1>1. /\ pc[r] = "begun" /\ req[r].op # "create"
      /\ d \in Selected(conf, snap[r], req[r].user, {d})
      /\ d \notin Held(r) /\ store[d] = snap[r][d]
      /\ pc' = [pc EXCEPT ![r] = "loaded"]
      /\ model' = [model EXCEPT ![r] = Locked(snap[r][d])]
      /\ UNCHANGED <<conf, store, req, snap, copy, walk, born, minted, calls>>
  BY DEF loadModel, Locked
<1>2. d \in Stored(store) /\ d \in Selected(conf, store, req[r].user, {d})
  BY <1>1 DEF Selected, Live, Stored
<1>3. d \in Ids /\ Locked(store[d]) \in Doc
  BY <1>2, StoredDoc, LockedDoc DEF IInv
<1>4. pc'[r] = "loaded" /\ model'[r] = Locked(store[d])
  BY <1>1 DEF IInv, Types
<1>5. \A q \in Procs \ {r} : pc'[q] = pc[q] /\ model'[q] = model[q]
  BY <1>1 DEF IInv, Types
<1>6. Types'
  BY <1>1, <1>3 DEF IInv, Types, IsCopy
<1>7. RequestInv(r)'
  BY <1>1, <1>2, <1>3, <1>4 DEF IInv, RequestInv, Begun, Holding, Loading, Saving
<1>8. \A q \in Procs \ {r} : Apart(r, q)'
  BY <1>1, <1>4, <1>5 DEF Apart, Holds, Held, Creates, Writes
<1>9. NewToken(r)' /\ TokenKept(r)' /\ Fresh(r)' /\ Brings(r)'
  BY <1>4 DEF NewToken, TokenKept, Fresh, Brings, Creates, Writes
<1>10. conf.idempotent => SnapTrue(r)'
  BY <1>1 DEF IInv, CreateTokens, SnapTrue, Stored, Used
<1> QED
  BY <1>1, <1>5, <1>6, <1>7, <1>8, <1>9, <1>10, RequestStep

-----------------------------------------------------------------------------
(* A document with the zero value of val.                                  *)
Drafts == [val : Values \cup {0}, parent : Ids \cup {None}, links : SUBSET Ids,
           ct : Tokens \cup {Blank}, ut : Nat, del : BOOLEAN, lk : Nat]

DocFields == Fields \cup {"del", "lk"}

LEMMA DraftsOf ==
  /\ Zero \in Drafts /\ Doc \subseteq Drafts
  /\ \A doc \in Drafts : doc.val \notin Invalid => doc \in Doc
  /\ \A doc \in Drafts : doc = [f \in DocFields |-> doc[f]]
<1>1. Zero \in Drafts
  BY DEF Zero, Drafts, None, Blank
<1>2. Doc \subseteq Drafts
  BY DEF Doc, Drafts
<1>3. \A doc \in Drafts : doc.val \notin Invalid => doc \in Doc
  BY ControllerAssumption DEF Doc, Drafts
<1>4. \A doc \in Drafts : doc = [f \in DocFields |-> doc[f]]
  BY DEF Drafts, DocFields, Fields
<1> QED
  BY <1>1, <1>2, <1>3, <1>4

LEMMA KnownNat == ASSUME IInv, NEW r \in Procs PROVE KnownTokens(r) \subseteq Nat
<1>1. minted \in Nat /\ \A s \in copy[r] : "ut" \in DOMAIN s.attrs => s.attrs.ut \in 0..minted
  BY DEF IInv, Types, IsCopy
<1>2. \A s \in copy[r] : "ut" \in DOMAIN s.attrs => s.attrs.ut \in Nat
  BY <1>1
<1> QED
  BY <1>2 DEF KnownTokens

LEMMA ChosenOf ==
  ASSUME NEW f, NEW S, NEW option \in Option(f, S), NEW other
  PROVE  /\ option = {} => Chosen(option, other) = other
         /\ option # {} => Chosen(option, other) \in S
<1>1. CASE option = {}
  BY <1>1 DEF Chosen
<1>2. CASE option # {}
  <2>1. PICK x \in S : option = {x}
    BY <1>2 DEF Option
  <2> QED
    BY <2>1 DEF Chosen
<1> QED
  BY <1>1, <1>2

(* What a request makes of a document.                                     *)
LEMMA Assigned ==
  ASSUME IInv, NEW r \in Procs, NEW u \in Users, NEW doc \in Drafts,
         NEW data \in Data(r), NEW made, made = assignData(u, doc, data)
  PROVE  /\ made \in Drafts
         /\ \A f \in DocFields \ AssignedFields(u, data) : made[f] = doc[f]
         /\ "ut" \in AssignedFields(u, data) => made.ut \in KnownTokens(r)
<1>1. /\ data.val \in Option("val", Values) /\ data.parent \in Option("parent", Ids \cup {None})
      /\ data.links \in Option("links", LinkSets) /\ data.ct \in Option("ct", Tokens)
      /\ data.ut \in Option("ut", KnownTokens(r))
  BY DEF Data
<1>2. doc = [f \in DocFields |-> doc[f]]
  BY DraftsOf
<1>3. DOMAIN doc = DocFields
  BY <1>2
<1>4. made = [f \in DocFields |-> IF f \in AssignedFields(u, data)
                                 THEN Chosen(data[f], doc[f]) ELSE doc[f]]
  BY <1>3 DEF assignData
<1>5. \A f \in AssignedFields(u, data) : data[f] # {} /\ f \in Fields
  BY DEF AssignedFields
<1>6. \A f \in DocFields \ AssignedFields(u, data) : made[f] = doc[f]
  BY <1>4
<1>7. \A f \in AssignedFields(u, data) : made[f] = Chosen(data[f], doc[f])
  BY <1>4, <1>5 DEF DocFields
<1>8. /\ "val" \in AssignedFields(u, data) => made.val \in Values
      /\ "parent" \in AssignedFields(u, data) => made.parent \in Ids \cup {None}
      /\ "links" \in AssignedFields(u, data) => made.links \in LinkSets
      /\ "ct" \in AssignedFields(u, data) => made.ct \in Tokens
      /\ "ut" \in AssignedFields(u, data) => made.ut \in KnownTokens(r)
  BY <1>1, <1>5, <1>7, ChosenOf
<1>9. /\ made.val \in Values \cup {0} /\ made.parent \in Ids \cup {None}
      /\ made.links \in SUBSET Ids /\ made.ct \in Tokens \cup {Blank} /\ made.ut \in Nat
      /\ made.del \in BOOLEAN /\ made.lk \in Nat
  <2>1. /\ doc.val \in Values \cup {0} /\ doc.parent \in Ids \cup {None}
        /\ doc.links \in SUBSET Ids /\ doc.ct \in Tokens \cup {Blank} /\ doc.ut \in Nat
        /\ doc.del \in BOOLEAN /\ doc.lk \in Nat
    BY DEF Drafts
  <2>2. \A f \in {"val", "parent", "links", "ct", "ut"} :
          f \notin AssignedFields(u, data) => made[f] = doc[f]
    BY <1>6 DEF DocFields, Fields
  <2>3. made.del = doc.del /\ made.lk = doc.lk
    BY <1>5, <1>6 DEF DocFields, Fields
  <2>4. made.val \in Values \cup {0} /\ made.parent \in Ids \cup {None}
    BY <1>8, <2>1, <2>2
  <2>5. made.links \in SUBSET Ids /\ made.ct \in Tokens \cup {Blank}
    BY <1>8, <2>1, <2>2, ListsAssumption
  <2>6. made.ut \in Nat
    BY <1>8, <2>1, <2>2, KnownNat
  <2> QED
    BY <2>1, <2>3, <2>4, <2>5, <2>6
<1>10. made = [f \in DocFields |-> made[f]]
  BY <1>4
<1>11. made \in Drafts
  BY <1>9, <1>10 DEF Drafts, DocFields, Fields
<1> QED
  BY <1>6, <1>8, <1>11

-----------------------------------------------------------------------------
(* What may be saved.                                                      *)
Savable(r, d, doc) ==
  LET op == req[r].op
  IN /\ d \in Ids
     /\ op = "create" => pc[r] = "begun" /\ store[d] = Free /\ d \notin Held(r)
     /\ op # "create" => pc[r] = "loaded" /\ d = req[r].id
     /\ op # "delete" =>
          /\ doc \in Doc
          /\ \A f \in Fields \ {"ut"} :
               doc[f] # (IF op = "create" THEN Zero ELSE store[d])[f] => f \in Writable[req[r].user]
     /\ op = "delete" => doc \in {Gone, [Locked(store[d]) EXCEPT !.del = TRUE]}
     /\ conf.idempotent /\ op = "create" =>
          /\ doc.ct # Blank /\ \A e \in Stored(snap[r]) : snap[r][e].ct # doc.ct
          /\ conf.indexed => \A e \in Stored(store) : store[e].ct # doc.ct
          /\ conf.indexed => \A q \in Procs \ {r} : Creates(q) => model[q].ct # doc.ct
     /\ conf.idempotent /\ op # "create" /\ doc # Gone => doc.ct = store[d].ct
     /\ conf.consistent /\ op \in {"create", "update"} =>
          minted' = minted + 1 /\ doc.ut = minted + 1
     /\ conf.consistent /\ op = "update" => \E s \in copy[r] : Carries(s, store[d].ut)

LEMMA SavedStep ==
  ASSUME IInv, NEW r \in Procs, pc[r] \in {"begun", "loaded"}, NEW d, NEW doc,
         Savable(r, d, doc), Saved(r, d, doc), minted' \in {minted, minted + 1}
  PROVE  IInv'
<1>1. /\ pc' = [pc EXCEPT ![r] = "saved"]
      /\ req' = [req EXCEPT ![r].id = d]
      /\ model' = [model EXCEPT ![r] = doc]
      /\ UNCHANGED <<conf, store, snap, copy, walk, born, calls>>
  BY DEF Saved
<1>2. req[r] \in Requests /\ req[r].op \in Operations /\ d \in Ids
  BY DEF IInv, Types, RequestInv, Begun, Savable
<1>3. /\ pc'[r] = "saved" /\ model'[r] = doc
      /\ req'[r] = [req[r] EXCEPT !.id = d]
  BY <1>1 DEF IInv, Types
<1>4. req'[r] \in Requests /\ req'[r].id = d /\ req'[r].op = req[r].op
      /\ req'[r].user = req[r].user
  BY <1>2, <1>3 DEF Requests
<1>5. \A q \in Procs \ {r} : /\ pc'[q] = pc[q] /\ req'[q] = req[q]
                            /\ snap'[q] = snap[q] /\ model'[q] = model[q]
  BY <1>1 DEF IInv, Types
<1>6. RequestInv(r)
  BY DEF IInv
<1>7. req[r].op # "create" =>
        /\ d = req[r].id /\ store[d] = snap[r][d] /\ d \in Selected(conf, store, req[r].user, {d})
        /\ d \in Stored(store)
  BY <1>6 DEF RequestInv, Holding, Holds, Savable, Selected, Live
<1>8. doc \in Doc \cup {Free, Gone}
  <2>1. CASE req[r].op # "delete"
    BY <2>1 DEF Savable
  <2>2. CASE req[r].op = "delete"
    <3>1. Locked(store[d]) \in Doc
      BY <1>7, <2>2, StoredDoc, LockedDoc DEF IInv
    <3>2. [Locked(store[d]) EXCEPT !.del = TRUE] \in Doc
      BY <3>1 DEF Doc
    <3> QED
      BY <2>2, <3>2 DEF Savable
  <2> QED
    BY <2>1, <2>2
<1>9. minted' \in Nat /\ \A n \in 0..minted : n \in 0..minted'
  BY DEF IInv, Types
<1>10. Types'
  <2>1. req' \in [Procs -> Requests]
    BY <1>1, <1>3, <1>4 DEF IInv, Types
  <2>2. \A q \in Procs : \A s \in copy[q] : IsCopy(s)' /\ conf.consistent
    BY <1>9 DEF IInv, Types, IsCopy
  <2> QED
    BY <1>1, <1>8, <1>9, <2>1, <2>2 DEF IInv, Types
<1>11. RequestInv(r)'
  <2>1. Begun(r)'
    BY <1>1, <1>2, <1>4, <1>6 DEF RequestInv, Begun
  <2>2. Holding(r)'
    BY <1>1, <1>4, <1>7, <1>2 DEF Holding
  <2>3. Loading(r)'
    BY <1>3 DEF Loading
  <2>4. Saving(r)'
    BY <1>1, <1>2, <1>3, <1>4 DEF Saving, Savable, Old
  <2> QED
    BY <2>1, <2>2, <2>3, <2>4 DEF RequestInv
<1>12. \A q \in Procs \ {r} : Apart(r, q)'
  <2> SUFFICES ASSUME NEW q \in Procs \ {r}
               PROVE  Apart(r, q)'
    OBVIOUS
  <2>1. Holds(q) => req[q].id # d
    BY <1>7 DEF Savable, Held, Holds, IInv, Apart
  <2>2. conf.idempotent /\ conf.indexed /\ req[r].op = "create" /\ Creates(q) =>
          model[q].ct # doc.ct
    BY DEF Savable
  <2>3. conf.consistent /\ Writes(q) => model[q].ut \in 1..minted
    BY DEF IInv, UpdateTokens, Fresh
  <2>4. conf.consistent /\ Writes(q) /\ req[r].op \in {"create", "update"} =>
          doc.ut # model[q].ut
    BY <2>3 DEF Savable, IInv, Types
  <2> QED
    BY <1>1, <1>3, <1>4, <1>5, <2>1, <2>2, <2>4 DEF Apart, Holds, Creates, Writes
<1>13. ASSUME conf.idempotent
       PROVE  NewToken(r)' /\ TokenKept(r)' /\ SnapTrue(r)'
  <2>1. SnapTrue(r)
    BY <1>13 DEF IInv, CreateTokens
  <2>2. SnapTrue(r)'
    BY <1>1, <2>1 DEF SnapTrue, Stored, Used
  <2>3. TokenKept(r)'
    BY <1>1, <1>3, <1>4, <1>13 DEF Savable, TokenKept
  <2>4. NewToken(r)'
    BY <1>1, <1>3, <1>4, <1>13, <2>1 DEF Savable, NewToken, SnapTrue, Creates, Stored
  <2> QED
    BY <2>2, <2>3, <2>4
<1>14. ASSUME conf.consistent
       PROVE  Fresh(r)' /\ Brings(r)'
  <2>1. \A e \in Stored(store) : store[e].ut \in 1..minted
    BY <1>14 DEF IInv, UpdateTokens, VersionsApart
  <2>2. \A q \in Procs : \A s \in copy[q] : "ut" \in DOMAIN s.attrs => s.attrs.ut \in 0..minted
    BY DEF IInv, Types, IsCopy
  <2>3. minted \in Nat
    BY DEF IInv, Types
  <2>4. Fresh(r)'
    BY <1>1, <1>3, <1>4, <1>14, <2>1, <2>2, <2>3
    DEF Savable, Fresh, Writes, Carries, Stored
  <2>5. Brings(r)'
    BY <1>1, <1>3, <1>4, <1>14 DEF Savable, Brings, Carries
  <2> QED
    BY <2>4, <2>5
<1> QED
  BY <1>1, <1>5, <1>10, <1>11, <1>12, <1>13, <1>14, RequestStep

LEMMA CreateStep ==
  ASSUME IInv, NEW r \in Procs, createResource(r)
  PROVE  IInv'
<1> DEFINE u == req[r].user
<1>1. PICK data \in Data(r), d \in {d \in Ids : store[d] = Free} \ Held(r) :
        LET made == assignData(u, Zero, data)
            doc == IF conf.consistent THEN [made EXCEPT !.ut = minted + 1] ELSE made
        IN /\ verifyReadOnly(u, Zero, made, data)
           /\ Valid(r, Zero, made)
           /\ conf.idempotent => InsertIfMissing(r, doc)
           /\ Saved(r, d, doc)
  BY DEF createResource
<1>2. PICK made : made = assignData(u, Zero, data)
  OBVIOUS
<1>3. PICK doc : doc = IF conf.consistent THEN [made EXCEPT !.ut = minted + 1] ELSE made
  OBVIOUS
<1>4. /\ verifyReadOnly(u, Zero, made, data) /\ Valid(r, Zero, made)
      /\ conf.idempotent => InsertIfMissing(r, doc)
      /\ Saved(r, d, doc)
  BY <1>1, <1>2, <1>3
<1>5. pc[r] = "begun" /\ req[r].op = "create"
      /\ minted' = IF conf.consistent THEN minted + 1 ELSE minted
  BY DEF createResource
<1>6. u \in Users /\ minted \in Nat
  BY <1>5 DEF IInv, Types, RequestInv, Begun
<1>7. /\ made \in Drafts
      /\ \A f \in DocFields \ AssignedFields(u, data) : made[f] = Zero[f]
  BY <1>2, <1>6, Assigned, DraftsOf
<1>8. made \in Doc
  BY <1>4, <1>7, DraftsOf DEF Valid
<1>9. \A f \in Fields : made[f] # Zero[f] => f \in Writable[u]
  BY <1>4, <1>7 DEF verifyReadOnly, Modified, DocFields
<1>10. /\ doc \in Doc /\ \A f \in Fields \ {"ut"} : doc[f] = made[f]
       /\ conf.consistent => doc.ut = minted + 1
  BY <1>3, <1>6, <1>8 DEF Doc, Fields
<1>11. Savable(r, d, doc)
  BY <1>1, <1>4, <1>5, <1>9, <1>10
  DEF Savable, InsertIfMissing, UniqueToken, Creates
<1> QED
  BY <1>4, <1>5, <1>11, SavedStep

(* A request that has loaded its document holds it.                        *)
LEMMA LoadedDoc ==
  ASSUME IInv, NEW r \in Procs, pc[r] = "loaded", NEW d, d = req[r].id
  PROVE  /\ d \in Stored(store) /\ store[d] \in Doc
         /\ model[r] = Locked(store[d]) /\ model[r] \in Doc
         /\ \A f \in Fields : model[r][f] = store[d][f]
         /\ req[r].op # "create" /\ req[r].user \in Users
<1>1. req[r].op # "create" /\ model[r] = Locked(store[d]) /\ req[r].user \in Users
      /\ d \in Selected(conf, store, req[r].user, {d})
  BY DEF IInv, RequestInv, Begun, Loading, Holding, Holds
<1>2. d \in Stored(store)
  BY <1>1 DEF Selected, Live
<1> QED
  BY <1>1, <1>2, StoredDoc, LockedDoc DEF IInv

LEMMA UpdateStep ==
  ASSUME IInv, NEW r \in Procs, updateResource(r)
  PROVE  IInv'
<1>1. PICK u, original : u = req[r].user /\ original = model[r]
  OBVIOUS
<1>2. PICK data \in Data(r) :
        LET doc == assignData(u, ResetToken(original), data)
        IN /\ verifyReadOnly(u, original, doc, data)
           /\ Valid(r, original, doc)
           /\ CreateTokenKept(original, doc)
           /\ ReplaceFirst(r, original, doc)
           /\ Saved(r, req[r].id, IF conf.consistent THEN [doc EXCEPT !.ut = minted + 1] ELSE doc)
  BY <1>1 DEF updateResource
<1>3. PICK d, reset, doc, new :
        /\ d = req[r].id /\ reset = ResetToken(original)
        /\ doc = assignData(u, reset, data)
        /\ new = IF conf.consistent THEN [doc EXCEPT !.ut = minted + 1] ELSE doc
  OBVIOUS
<1>4. /\ verifyReadOnly(u, original, doc, data) /\ Valid(r, original, doc)
      /\ CreateTokenKept(original, doc) /\ ReplaceFirst(r, original, doc)
      /\ Saved(r, d, new)
  BY <1>2, <1>3
<1>5. pc[r] = "loaded" /\ req[r].op = "update"
      /\ minted' = IF conf.consistent THEN minted + 1 ELSE minted
  BY DEF updateResource
<1>6. /\ d \in Stored(store) /\ original \in Doc /\ u \in Users /\ minted \in Nat
      /\ \A f \in Fields : original[f] = store[d][f]
  BY <1>1, <1>3, <1>5, LoadedDoc DEF IInv, Types
<1>7. /\ reset \in Doc /\ (conf.consistent => reset.ut = 0)
      /\ \A f \in Fields \ {"ut"} : reset[f] = original[f]
  BY <1>3, <1>6 DEF ResetToken, Doc, Fields
<1>8. /\ doc \in Drafts
      /\ \A f \in DocFields \ AssignedFields(u, data) : doc[f] = reset[f]
      /\ "ut" \in AssignedFields(u, data) => doc.ut \in KnownTokens(r)
  BY <1>3, <1>6, <1>7, Assigned, DraftsOf
<1>9. doc \in Doc
  BY <1>4, <1>8, DraftsOf DEF Valid
<1>10. \A f \in Fields \ {"ut"} : doc[f] # store[d][f] => f \in Writable[u]
  BY <1>4, <1>6, <1>7, <1>8 DEF verifyReadOnly, Modified, DocFields
<1>11. /\ new \in Doc /\ \A f \in Fields \ {"ut"} : new[f] = doc[f]
       /\ conf.consistent => new.ut = minted + 1
  BY <1>3, <1>6, <1>9 DEF Doc, Fields
<1>12. conf.idempotent => new.ct = store[d].ct
  BY <1>4, <1>6, <1>11 DEF CreateTokenKept, Fields
<1>13. ASSUME conf.consistent
       PROVE  \E s \in copy[r] : Carries(s, store[d].ut)
  <2>1. store[d].ut \in 1..minted /\ doc.ut = store[d].ut
    BY <1>4, <1>6, <1>13 DEF IInv, UpdateTokens, VersionsApart, ReplaceFirst, Fields
  <2>2. doc.ut # 0
    BY <1>6, <2>1
  <2>3. "ut" \in AssignedFields(u, data)
    BY <1>7, <1>8, <1>13, <2>2 DEF DocFields, Fields
  <2>4. doc.ut \in {s.attrs.ut : s \in {s \in copy[r] : "ut" \in DOMAIN s.attrs}}
    BY <1>8, <2>2, <2>3 DEF KnownTokens
  <2> QED
    BY <2>1, <2>4 DEF Carries
<1>14. Savable(r, d, new)
  BY <1>1, <1>3, <1>5, <1>6, <1>10, <1>11, <1>12, <1>13 DEF Savable, Stored, Fields
<1> QED
  BY <1>4, <1>5, <1>14, SavedStep

LEMMA DeleteStep ==
  ASSUME IInv, NEW r \in Procs, deleteResource(r)
  PROVE  IInv'
<1>1. PICK d, doc :
        d = req[r].id /\ doc = IF conf.soft THEN [model[r] EXCEPT !.del = TRUE] ELSE Gone
  OBVIOUS
<1>2. /\ pc[r] = "loaded" /\ req[r].op = "delete"
      /\ Saved(r, d, doc) /\ minted' = minted
  BY <1>1 DEF deleteResource
<1>3. d \in Stored(store) /\ store[d] \in Doc /\ model[r] = Locked(store[d])
      /\ Locked(store[d]) \in Doc /\ \A f \in Fields : Locked(store[d])[f] = store[d][f]
  BY <1>1, <1>2, LoadedDoc
<1>4. [Locked(store[d]) EXCEPT !.del = TRUE].ct = store[d].ct
  BY <1>3 DEF Doc, Fields
<1>5. Savable(r, d, doc)
  BY <1>1, <1>2, <1>3, <1>4 DEF Savable, Stored
<1> QED
  BY <1>2, <1>5, SavedStep

LEMMA PartialStep ==
  ASSUME IInv, NEW r \in Procs, pc[r] = "loaded", req[r].op \in Partials, UNCHANGED minted,
         NEW rel \in {"parent", "links"}, NEW value,
         rel = "parent" => value \in Ids \cup {None}, rel = "links" => value \in SUBSET Ids,
         PartialUpdate(r, rel, value)
  PROVE  IInv'
<1>1. PICK d, doc : d = req[r].id /\ doc = [model[r] EXCEPT ![rel] = value]
  OBVIOUS
<1>2. rel \in Writable[req[r].user] /\ Saved(r, d, doc)
  BY <1>1 DEF PartialUpdate
<1>3. /\ d \in Stored(store) /\ model[r] \in Doc
      /\ \A f \in Fields : model[r][f] = store[d][f]
  BY <1>1, LoadedDoc
<1>4. doc \in Doc /\ \A f \in Fields \ {rel} : doc[f] = model[r][f]
  <2>1. CASE rel = "parent"
    BY <1>1, <1>3, <2>1 DEF Doc, Fields
  <2>2. CASE rel = "links"
    BY <1>1, <1>3, <2>2 DEF Doc, Fields
  <2> QED
    BY <2>1, <2>2
<1>5. ~conf.consistent
  BY DEF IInv, RequestInv, Begun
<1>6. Savable(r, d, doc)
  BY <1>1, <1>2, <1>3, <1>4, <1>5 DEF Savable, Partials, Stored, Fields
<1> QED
  BY <1>2, <1>6, SavedStep DEF IInv, Types

LEMMA RelationshipStep ==
  ASSUME IInv, NEW r \in Procs,
         setRelationship(r) \/ appendToRelationship(r) \/ removeFromRelationship(r)
  PROVE  IInv'
<1>1. ASSUME NEW x \in LinkSets
      PROVE  x \in SUBSET Ids
  BY ListsAssumption
<1>2. CASE setRelationship(r)
  <2>1. pc[r] = "loaded" /\ req[r].op \in Partials /\ UNCHANGED minted
    BY <1>2 DEF setRelationship, Partials
  <2>2. CASE \E x \in Ids \cup {None} : PartialUpdate(r, "parent", x)
    BY <2>1, <2>2, PartialStep
  <2>3. CASE \E x \in LinkSets : PartialUpdate(r, "links", x)
    BY <1>1, <2>1, <2>3, PartialStep
  <2> QED
    BY <1>2, <2>2, <2>3 DEF setRelationship
<1>3. CASE appendToRelationship(r)
  <2>1. pc[r] = "loaded" /\ req[r].op \in Partials /\ UNCHANGED minted
    BY <1>3 DEF appendToRelationship, Partials
  <2>2. model[r] \in Doc
    BY <2>1, LoadedDoc
  <2>3. PICK x \in LinkSets : PartialUpdate(r, "links", model[r].links \cup x)
    BY <1>3 DEF appendToRelationship
  <2>4. model[r].links \cup x \in SUBSET Ids
    BY <1>1, <2>2 DEF Doc
  <2> QED
    BY <2>1, <2>3, <2>4, PartialStep
<1>4. CASE removeFromRelationship(r)
  <2>1. pc[r] = "loaded" /\ req[r].op \in Partials /\ UNCHANGED minted
    BY <1>4 DEF removeFromRelationship, Partials
  <2>2. model[r] \in Doc
    BY <2>1, LoadedDoc
  <2>3. PICK x \in LinkSets : PartialUpdate(r, "links", model[r].links \ x)
    BY <1>4 DEF removeFromRelationship
  <2>4. model[r].links \ x \in SUBSET Ids
    BY <2>2 DEF Doc
  <2> QED
    BY <2>1, <2>3, <2>4, PartialStep
<1> QED
  BY <1>2, <1>3, <1>4

-----------------------------------------------------------------------------
(***************************************************************************)
(* The end of a request, and of a document.                                *)
(***************************************************************************)
LEMMA EndedTypes ==
  ASSUME IInv, NEW r \in Procs, Ended(r)
  PROVE  /\ pc' \in [Procs -> {"idle", "begun", "loaded", "saved"}]
         /\ req' \in [Procs -> Requests] /\ snap' \in [Procs -> Views]
         /\ model' \in [Procs -> Doc \cup {Free, Gone}]
         /\ pc'[r] = "idle" /\ snap'[r] = NoView
         /\ \A q \in Procs \ {r} : /\ pc'[q] = pc[q] /\ req'[q] = req[q]
                                   /\ snap'[q] = snap[q] /\ model'[q] = model[q]
<1>1. NoRequest \in Requests /\ NoView \in Views
  BY DEF NoRequest, Requests, NoView, Views, None
<1> QED
  BY <1>1 DEF Ended, IInv, Types

LEMMA AbortStep ==
  ASSUME IInv, NEW r \in Procs, Abort(r)
  PROVE  IInv'
<1>1. Ended(r) /\ UNCHANGED <<conf, store, copy, walk, born, minted, calls>>
  BY DEF Abort
<1>2. Types'
  BY <1>1, EndedTypes DEF IInv, Types, IsCopy
<1>3. Begun(r)'
  BY <1>1, EndedTypes DEF Begun
<1> QED
  BY <1>1, <1>2, <1>3, EndedTypes, NothingHeld

(* What a request commits.                                                 *)
LEMMA CommittedDoc ==
  ASSUME IInv, NEW r \in Procs, pc[r] = "saved", NEW d, d = req[r].id
  PROVE  /\ d \in Ids /\ req[r].op \in Operations /\ req[r].user \in Users
         /\ req[r].op # "delete" => model[r] \in Doc
         /\ req[r].op = "create" => store[d] = Free
         /\ req[r].op # "create" => d \in Stored(store) /\ store[d] \in Doc
         /\ req[r].op = "delete" =>
              \/ model[r] = Gone
              \/ /\ model[r] \in Doc /\ model[r].del
                 /\ \A f \in Fields : model[r][f] = store[d][f]
<1>1. RequestInv(r)
  BY DEF IInv
<1>2. req[r].op # "create" => d \in Stored(store) /\ store[d] \in Doc
  BY <1>1, StoredDoc DEF RequestInv, Holding, Holds, Selected, Live, IInv
<1>3. ASSUME req[r].op = "delete"
      PROVE  \/ model[r] = Gone
             \/ /\ model[r] \in Doc /\ model[r].del
                /\ \A f \in Fields : model[r][f] = store[d][f]
  <2>1. Locked(store[d]) \in Doc /\ \A f \in Fields : Locked(store[d])[f] = store[d][f]
    BY <1>2, <1>3, LockedDoc
  <2>2. model[r] \in {Gone, [Locked(store[d]) EXCEPT !.del = TRUE]}
    BY <1>1, <1>3 DEF RequestInv, Saving
  <2> QED
    BY <2>1, <2>2 DEF Doc, Fields
<1> QED
  BY <1>1, <1>2, <1>3 DEF RequestInv, Begun, Saving, Stored

LEMMA AnsweredShown ==
  ASSUME IInv, NEW r \in Procs, pc[r] = "saved", req[r].op \in {"create", "update"},
         NEW s \in Answered(r)
  PROVE  /\ conf.consistent
         /\ s.id = req[r].id /\ s.children \subseteq Ids /\ DOMAIN s.attrs \subseteq Fields
         /\ \A f \in DOMAIN s.attrs : s.attrs[f] = model[r][f]
<1> DEFINE d == req[r].id
           u == req[r].user
           view == [snap[r] EXCEPT ![d] = model[r]]
<1>1. u \in Users /\ d \in Ids /\ view[d] = model[r]
  BY CommittedDoc DEF IInv, Types, Views
<1> HIDE DEF view
<1>2. CASE req[r].op = "create"
  <2>1. s \in Kept(constructResource(u, d, model[r], [e \in {} |-> {}]))
    BY <1>2 DEF Answered
  <2>2. conf.consistent /\ s = constructResource(u, d, model[r], [e \in {} |-> {}])
    BY <2>1 DEF Kept
  <2>3. DOMAIN [e \in {} |-> {}] = {}
    OBVIOUS
  <2> QED
    BY <1>1, <2>2, <2>3, Constructed
<1>3. CASE req[r].op = "update"
  <2> DEFINE relationships == preloadRelationships(conf, view, u, {d})
  <2>1. s \in Kept(resourceForModel(conf, view, u, d))
    BY <1>3 DEF Answered, view
  <2>2. conf.consistent /\ s = constructResource(u, d, view[d], relationships)
    BY <2>1 DEF Kept, resourceForModel
  <2>3. relationships[d] \subseteq Ids
    BY PreloadedIds
  <2> HIDE DEF relationships
  <2> QED
    BY <1>1, <2>2, <2>3, Constructed
<1> QED
  BY <1>2, <1>3

LEMMA CommitStep ==
  ASSUME IInv, NEW r \in Procs, Commit(r)
  PROVE  IInv'
<1>1. PICK d : d = req[r].id
  OBVIOUS
<1>2. /\ pc[r] = "saved" /\ store' = [store EXCEPT ![d] = model[r]]
      /\ born' = IF req[r].op = "create" THEN [born EXCEPT ![d] = Birth(r)] ELSE born
      /\ walk' = [q \in Procs |-> IF walk[q] = NoWalk THEN NoWalk ELSE Disturbed(walk[q], d)]
      /\ copy' = [copy EXCEPT ![r] = Answered(r)] \/ UNCHANGED copy
      /\ Ended(r) /\ UNCHANGED <<conf, minted, calls>>
  BY <1>1 DEF Commit
<1>3. /\ d \in Ids /\ req[r].op \in Operations
      /\ req[r].op # "delete" => model[r] \in Doc
      /\ req[r].op = "create" => store[d] = Free
      /\ req[r].op # "create" => d \in Stored(store) /\ store[d] \in Doc
      /\ req[r].op = "delete" =>
           \/ model[r] = Gone
           \/ model[r] \in Doc /\ \A f \in Fields : model[r][f] = store[d][f]
  BY <1>1, <1>2, CommittedDoc
<1>4. model[r] \in Doc \cup {Free, Gone}
  BY DEF IInv, Types
<1>5. store'[d] = model[r] /\ \A e \in Ids \ {d} : store'[e] = store[e]
  BY <1>2, <1>3 DEF IInv, Types, Views
<1>6. \A e \in Stored(store)' : e \in Ids /\ (e # d => e \in Stored(store) /\ store'[e] = store[e])
  BY <1>5 DEF Stored
<1>7. \A q \in Procs \ {r} : Holds(q) => req[q].id # d
  BY <1>1, <1>2 DEF IInv, Apart, Holds
<1>8. \A q \in Procs : copy'[q] = copy[q] \/ (q = r /\ copy'[q] = Answered(r))
  BY <1>2 DEF IInv, Types
<1>9. \A s \in copy'[r] : \/ s \in copy[r]
                          \/ /\ req[r].op \in {"create", "update"} /\ conf.consistent
                             /\ s.id = d /\ s.children \subseteq Ids
                             /\ DOMAIN s.attrs \subseteq Fields
                             /\ \A f \in DOMAIN s.attrs : s.attrs[f] = model[r][f]
  <2>1. CASE req[r].op \in {"create", "update"}
    BY <1>1, <1>2, <1>8, <2>1, AnsweredShown
  <2>2. CASE req[r].op = "delete"
    BY <1>8, <2>2 DEF Answered
  <2>3. CASE req[r].op \notin {"create", "update", "delete"}
    BY <1>8, <2>3 DEF Answered
  <2> QED
    BY <2>1, <2>2, <2>3
<1>10. \A q \in Procs : RequestInv(q)'
  <2>1. ASSUME NEW q \in Procs \ {r}
        PROVE  RequestInv(q)'
    <3>1. Holds(q) => store'[req[q].id] = store[req[q].id]
      BY <1>2, <1>7
    <3>2. pc'[q] = pc[q] /\ req'[q] = req[q] /\ snap'[q] = snap[q] /\ model'[q] = model[q]
      BY <1>2, EndedTypes
    <3> QED
      BY <1>2, <3>1, <3>2, RequestKept DEF IInv
  <2>2. RequestInv(r)'
    BY <1>2, EndedTypes DEF RequestInv, Begun, Holding, Loading, Saving, Holds
  <2> QED
    BY <2>1, <2>2
<1>11. ASSUME NEW p \in Procs, NEW q \in Procs, p # q
       PROVE  Apart(p, q)'
  <2>1. CASE p = r \/ q = r
    BY <1>2, <2>1, EndedTypes DEF Apart, Holds, Creates, Writes
  <2>2. CASE p # r /\ q # r
    BY <1>2, <1>11, <2>2, EndedTypes DEF IInv, Apart, Holds, Creates, Writes
  <2> QED
    BY <2>1, <2>2
<1>12. ASSUME conf.idempotent
       PROVE  CreateTokens'
  <2>1. CreateTokens /\ NewToken(r) /\ TokenKept(r) /\ SnapTrue(r)
    BY <1>12 DEF IInv, CreateTokens
  <2>2. /\ req[r].op = "create" =>
             \A e \in Stored(store) : store[e].ct = model[r].ct =>
               ~conf.indexed /\ e \notin Stored(snap[r])
        /\ req[r].op # "create" /\ model[r] # Gone => model[r].ct = store[d].ct
    BY <1>1, <1>2, <2>1 DEF NewToken, TokenKept, Creates
  <2>3. Used \subseteq Used' /\ (req[r].op = "create" => d \notin Used)
    <3>1. store'[d] # Free
      BY <1>3, <1>5, MarksAssumption
    <3> QED
      BY <1>3, <1>5, <3>1 DEF Used
  <2>4. StoredOnce'
    <3>1. CASE req[r].op = "create"
      <4>1. /\ born'[d].ct = model[r].ct /\ born'[d].knew = Stored(snap[r])
            /\ \A e \in Ids \ {d} : born'[e] = born[e]
        BY <1>2, <1>3, <3>1 DEF IInv, Types, Birth
      <4>2. \A e \in Stored(store)' \ {d} :
              /\ e \in Stored(store) /\ store'[e] = store[e] /\ born'[e] = born[e]
              /\ store[e].ct = born[e].ct /\ born[e].knew \subseteq Used
        BY <1>6, <2>1, <4>1 DEF CreateTokens, StoredOnce
      <4>3. store'[d].ct = model[r].ct /\ Stored(snap[r]) \subseteq Used
        BY <1>5, <2>1 DEF SnapTrue
      <4>4. \A e \in Stored(store)' :
              store'[e].ct = born'[e].ct /\ born'[e].knew \subseteq Used'
        BY <2>3, <4>1, <4>2, <4>3
      <4>5. ASSUME NEW e \in Stored(store)' \ {d}, store'[e].ct = store'[d].ct
            PROVE  Overlapped(d, e)' /\ Overlapped(e, d)'
        <5>1. ~conf.indexed /\ e \notin Stored(snap[r])
          BY <2>2, <3>1, <4>2, <4>3, <4>5
        <5>2. d \notin born[e].knew
          BY <2>3, <3>1, <4>2
        <5> QED
          BY <1>2, <4>1, <4>2, <5>1, <5>2 DEF Overlapped
      <4>6. ASSUME NEW e \in Stored(store)' \ {d}, NEW x \in Stored(store)' \ {d},
                   e # x, store'[e].ct = store'[x].ct
            PROVE  store'[e].ct = Blank \/ Overlapped(e, x)'
        <5>1. store[e].ct = Blank \/ Overlapped(e, x)
          BY <2>1, <4>2, <4>6 DEF CreateTokens, StoredOnce
        <5> QED
          BY <1>2, <4>2, <5>1 DEF Overlapped
      <4> QED
        BY <4>4, <4>5, <4>6 DEF StoredOnce
    <3>2. CASE req[r].op # "create"
      <4>1. d \in Stored(store)' => model[r] # Gone
        BY <1>5 DEF Stored
      <4>2. \A e \in Stored(store)' : e \in Stored(store) /\ store'[e].ct = store[e].ct
        BY <1>3, <1>5, <1>6, <2>2, <3>2, <4>1
      <4>3. born' = born /\ conf' = conf
        BY <1>2, <3>2
      <4> QED
        BY <2>1, <2>3, <4>2, <4>3 DEF CreateTokens, StoredOnce, Overlapped
    <3> QED
      BY <3>1, <3>2
  <2>5. ASSUME NEW q \in Procs \ {r}
        PROVE  NewToken(q)'
    <3>1. /\ Creates(q)' = Creates(q) /\ model'[q] = model[q]
          /\ snap'[q] = snap[q] /\ conf' = conf
      BY <1>2, EndedTypes DEF Creates
    <3>2. ASSUME Creates(q), NEW e \in Stored(store)', store'[e].ct = model[q].ct
          PROVE  ~conf.indexed /\ e \notin Stored(snap[q])
      <4>1. \A x \in Stored(store) : store[x].ct = model[q].ct =>
              ~conf.indexed /\ x \notin Stored(snap[q])
        BY <2>1, <3>2 DEF CreateTokens, NewToken
      <4>2. CASE e # d
        BY <1>6, <4>1, <4>2, <3>2
      <4>3. CASE e = d /\ req[r].op = "create"
        <5>1. d \notin Stored(snap[q])
          BY <2>1, <2>3, <4>3 DEF CreateTokens, SnapTrue
        <5>2. ~conf.indexed
          BY <1>2, <1>5, <1>12, <3>2, <4>3 DEF IInv, Apart, Creates
        <5> QED
          BY <4>3, <5>1, <5>2
      <4>4. CASE e = d /\ req[r].op # "create"
        <5>1. model[r] # Gone
          BY <1>5, <3>2, <4>4 DEF Stored
        <5> QED
          BY <1>3, <1>5, <2>2, <3>2, <4>1, <4>4, <5>1
      <4> QED
        BY <4>2, <4>3, <4>4
    <3>3. Creates(q) => model[q].ct # Blank
      BY <2>1 DEF CreateTokens, NewToken
    <3>4. Stored(snap[q])' = Stored(snap[q])
      BY <3>1 DEF Stored
    <3> QED
      BY <3>1, <3>2, <3>3, <3>4 DEF NewToken
  <2>6. ASSUME NEW q \in Procs \ {r}
        PROVE  TokenKept(q)'
    <3>1. Holds(q) => store'[req[q].id] = store[req[q].id]
      BY <1>2, <1>7
    <3> QED
      BY <1>2, <2>1, <3>1, EndedTypes DEF CreateTokens, TokenKept, Holds
  <2>7. NewToken(r)' /\ TokenKept(r)' /\ SnapTrue(r)'
    <3>1. NewToken(r)' /\ TokenKept(r)'
      BY <1>2, EndedTypes DEF NewToken, TokenKept, Creates
    <3>2. snap'[r] = NoView
      BY <1>2, EndedTypes
    <3> QED
      BY <3>1, <3>2 DEF SnapTrue, Stored, NoView
  <2>8. ASSUME NEW q \in Procs \ {r}
        PROVE  SnapTrue(q)'
    <3>1. Stored(snap[q])' = Stored(snap[q]) /\ snap'[q] = snap[q]
      BY <1>2, EndedTypes DEF Stored
    <3>2. SnapTrue(q)
      BY <2>1 DEF CreateTokens
    <3>3. ASSUME NEW e \in Stored(snap[q]), e \in Stored(store)'
          PROVE  snap[q][e].ct = store'[e].ct
      <4>1. CASE e # d
        BY <1>6, <3>2, <3>3, <4>1 DEF SnapTrue
      <4>2. CASE e = d
        <5>1. req[r].op # "create"
          BY <2>3, <3>2, <3>3, <4>2 DEF SnapTrue
        <5>2. store'[d].ct = store[d].ct
          BY <1>5, <2>2, <3>3, <4>2, <5>1 DEF Stored
        <5> QED
          BY <1>3, <3>2, <3>3, <4>2, <5>1, <5>2 DEF SnapTrue
      <4> QED
        BY <4>1, <4>2
    <3> QED
      BY <2>3, <3>1, <3>2, <3>3 DEF SnapTrue
  <2> QED
    BY <2>4, <2>5, <2>6, <2>7, <2>8 DEF CreateTokens
<1>13. ASSUME conf.consistent
       PROVE  UpdateTokens'
  <2>1. UpdateTokens /\ Fresh(r)
    BY <1>13 DEF IInv, UpdateTokens
  <2>2. \/ Writes(r) /\ model[r] \in Doc
        \/ /\ req[r].op = "delete" /\ d \in Stored(store)
           /\ model[r] = Gone \/ \A f \in Fields : model[r][f] = store[d][f]
    <3>1. req[r].op \notin Partials
      BY <1>2, <1>13 DEF IInv, RequestInv, Begun
    <3> QED
      BY <1>2, <1>3, <3>1 DEF Writes, Operations
  <2>3. ASSUME Writes(r)
        PROVE  /\ model[r].ut \in 1..minted
               /\ \A e \in Stored(store) : store[e].ut # model[r].ut
               /\ \A q \in Procs : \A s \in copy[q] : ~Carries(s, model[r].ut)
    BY <2>1, <2>3 DEF Fresh
  <2>4. ASSUME d \in Stored(store)', ~Writes(r)
        PROVE  d \in Stored(store) /\ \A f \in Fields : store'[d][f] = store[d][f]
    <3>1. store'[d] # Gone
      BY <2>4 DEF Stored
    <3> QED
      BY <1>5, <2>2, <2>4, <3>1
  <2>5. "ut" \in Fields
    BY DEF Fields
  <2>6. VersionsApart'
    <3>1. ASSUME NEW e \in Stored(store)'
          PROVE  /\ store'[e].ut \in 1..minted
                 /\ \/ e = d /\ Writes(r) /\ store'[e].ut = model[r].ut
                    \/ ~(e = d /\ Writes(r)) /\ e \in Stored(store) /\ store'[e].ut = store[e].ut
      <4>1. CASE e = d /\ Writes(r)
        BY <1>5, <2>3, <4>1
      <4>2. CASE e = d /\ ~Writes(r)
        BY <2>1, <2>4, <2>5, <3>1, <4>2 DEF UpdateTokens, VersionsApart
      <4>3. CASE e # d
        BY <1>6, <2>1, <3>1, <4>3 DEF UpdateTokens, VersionsApart
      <4> QED
        BY <4>1, <4>2, <4>3
    <3>2. \A e, x \in Stored(store)' : e # x => store'[e].ut # store'[x].ut
      BY <2>1, <2>3, <3>1 DEF UpdateTokens, VersionsApart
    <3> QED
      BY <1>2, <3>1, <3>2 DEF VersionsApart
  <2>7. ASSUME NEW q \in Procs \ {r}
        PROVE  Fresh(q)'
    <3>1. Writes(q)' = Writes(q) /\ model'[q] = model[q]
      BY <1>2, EndedTypes DEF Writes
    <3> SUFFICES ASSUME Writes(q)
                 PROVE  /\ model[q].ut \in 1..minted
                        /\ \A e \in Stored(store)' : store'[e].ut # model[q].ut
                        /\ \A p \in Procs : \A s \in copy'[p] : ~Carries(s, model[q].ut)
      BY <1>2, <3>1 DEF Fresh, Carries
    <3>2. /\ model[q].ut \in 1..minted
          /\ \A e \in Stored(store) : store[e].ut # model[q].ut
          /\ \A p \in Procs : \A s \in copy[p] : ~Carries(s, model[q].ut)
      BY <2>1 DEF UpdateTokens, Fresh
    <3>3. Writes(r) => model[r].ut # model[q].ut
      BY <1>13 DEF IInv, Apart
    <3>4. \A e \in Stored(store)' : store'[e].ut # model[q].ut
      BY <1>5, <1>6, <2>4, <2>5, <3>2, <3>3
    <3>5. \A p \in Procs : \A s \in copy'[p] : ~Carries(s, model[q].ut)
      BY <1>2, <1>8, <1>9, <3>2, <3>3 DEF Carries, Writes
    <3> QED
      BY <3>2, <3>4, <3>5
  <2>8. ASSUME NEW q \in Procs \ {r}
        PROVE  Brings(q)'
    <3>1. Holds(q) => store'[req[q].id] = store[req[q].id]
      BY <1>2, <1>7
    <3>2. copy'[q] = copy[q]
      BY <1>8
    <3> QED
      BY <1>2, <2>1, <3>1, <3>2, EndedTypes DEF UpdateTokens, Brings, Holds, Carries
  <2>9. Fresh(r)' /\ Brings(r)'
    BY <1>2, EndedTypes DEF Fresh, Brings, Writes
  <2>10. ASSUME NEW q \in Procs, NEW s \in copy'[q], NEW e \in Stored(store)',
                Carries(s, store'[e].ut)
         PROVE  s.id = e /\ \A f \in DOMAIN s.attrs : s.attrs[f] = store'[e][f]
    <3>1. DOMAIN s.attrs \subseteq Fields
      BY <1>8, <1>9, <2>10 DEF IInv, Types, IsCopy
    <3>2. CASE s \in copy[q] /\ e # d
      BY <1>6, <2>1, <2>10, <3>2 DEF UpdateTokens, CopyTrue, Shows
    <3>3. CASE s \in copy[q] /\ e = d
      <4>1. ~Writes(r)
        BY <1>5, <2>3, <2>10, <3>3
      <4>2. d \in Stored(store) /\ \A f \in Fields : store'[d][f] = store[d][f]
        BY <2>4, <2>10, <3>3, <4>1
      <4>3. Carries(s, store[d].ut)
        BY <2>5, <2>10, <3>3, <4>2
      <4>4. Shows(s, d)
        BY <2>1, <3>3, <4>2, <4>3 DEF UpdateTokens, CopyTrue
      <4> QED
        BY <3>1, <3>3, <4>2, <4>4 DEF Shows
    <3>4. CASE s \notin copy[q]
      <4>1. /\ req[r].op \in {"create", "update"} /\ s.id = d
            /\ \A f \in DOMAIN s.attrs : s.attrs[f] = model[r][f]
        BY <1>8, <1>9, <2>10, <3>4
      <4>2. Writes(r)
        BY <1>2, <4>1 DEF Writes
      <4>3. s.attrs.ut = model[r].ut /\ s.attrs.ut = store'[e].ut
        BY <2>10, <4>1 DEF Carries
      <4>4. e = d
        BY <1>6, <2>3, <2>10, <4>2, <4>3
      <4> QED
        BY <1>5, <4>1, <4>4
    <3> QED
      BY <3>2, <3>3, <3>4
  <2>11. \A q \in Procs : \A s \in copy'[q] : CopyTrue(s)'
    BY <2>10 DEF CopyTrue, Carries, Shows
  <2> QED
    BY <2>6, <2>7, <2>8, <2>9, <2>11 DEF UpdateTokens
<1>14. Types'
  <2>1. store' \in Views
    BY <1>2, <1>4 DEF IInv, Types, Views
  <2>2. copy' = [q \in Procs |-> copy'[q]]
    BY <1>2 DEF IInv, Types
  <2>3. ASSUME conf.consistent, NEW s \in copy'[r], s \notin copy[r]
        PROVE  IsCopy(s)'
    <3>1. req[r].op \in {"create", "update"} /\ s.id = d /\ s.children \subseteq Ids
          /\ DOMAIN s.attrs \subseteq Fields
          /\ \A f \in DOMAIN s.attrs : s.attrs[f] = model[r][f]
      BY <1>9, <2>3
    <3>2. model[r].ut \in 0..minted
      BY <1>2, <2>3, <3>1 DEF IInv, UpdateTokens, Fresh, Writes
    <3> QED
      BY <1>2, <1>3, <3>1, <3>2 DEF IsCopy
  <2>4. \A q \in Procs : \A s \in copy'[q] : IsCopy(s)' /\ conf'.consistent
    BY <1>2, <1>8, <1>9, <2>3 DEF IInv, Types, IsCopy
  <2>5. walk' = [q \in Procs |-> walk'[q]] /\ \A q \in Procs : IsWalk(walk'[q])
    BY <1>2, WalksDisturbed DEF IInv
  <2>6. born' \in [Ids -> [ct : Tokens \cup {Blank}, knew : SUBSET Ids]]
    <3>1. CASE req[r].op = "create"
      <4>1. model[r].ct \in Tokens \cup {Blank}
        BY <1>3, <3>1 DEF Doc
      <4>2. Birth(r) \in [ct : Tokens \cup {Blank}, knew : SUBSET Ids]
        BY <4>1 DEF Birth, Stored
      <4> QED
        BY <1>2, <3>1, <4>2 DEF IInv, Types
    <3>2. CASE req[r].op # "create"
      BY <1>2, <3>2 DEF IInv, Types
    <3> QED
      BY <3>1, <3>2
  <2> QED
    BY <1>2, <2>1, <2>2, <2>4, <2>5, <2>6, EndedTypes DEF IInv, Types
<1> QED
  BY <1>2, <1>10, <1>11, <1>12, <1>13, <1>14 DEF IInv

LEMMA ExpireStep ==
  ASSUME IInv, Expire
  PROVE  IInv'
<1>1. PICK d \in Stored(store) :
        /\ conf.soft /\ store[d].del
        /\ store' = [store EXCEPT ![d] = Gone]
        /\ walk' = [q \in Procs |-> IF walk[q] = NoWalk THEN NoWalk ELSE Disturbed(walk[q], d)]
  BY DEF Expire
<1>2. UNCHANGED <<conf, pc, req, snap, model, copy, born, minted, calls>>
  BY DEF Expire
<1>3. store'[d] = Gone /\ \A e \in Ids \ {d} : store'[e] = store[e]
  BY <1>1 DEF IInv, Types, Views, Stored
<1>4. \A e \in Stored(store)' : e \in Stored(store) /\ store'[e] = store[e]
  BY <1>3 DEF Stored
<1>5. ASSUME NEW q \in Procs, Holds(q)
      PROVE  req[q].id # d /\ store'[req[q].id] = store[req[q].id]
  <2>1. RequestInv(q)
    BY DEF IInv
  <2>2. req[q].op # "create" => req[q].id # d
    BY <1>1, <1>5, <2>1 DEF RequestInv, Holding, Selected, Live
  <2>3. req[q].op = "create" => pc[q] = "saved"
    BY <1>5, <2>1 DEF RequestInv, Loading, Holds
  <2>4. req[q].op = "create" => req[q].id # d
    BY <1>1, <2>1, <2>3 DEF RequestInv, Saving, Stored
  <2> QED
    BY <1>1, <2>2, <2>4 DEF IInv, Types, Views
<1>6. Types'
  <2>1. store' \in Views
    BY <1>1 DEF IInv, Types, Views
  <2>2. walk' = [q \in Procs |-> walk'[q]] /\ \A q \in Procs : IsWalk(walk'[q])
    BY <1>1, WalksDisturbed DEF IInv
  <2> QED
    BY <1>2, <2>1, <2>2 DEF IInv, Types, IsCopy
<1>7. \A q \in Procs : RequestInv(q)'
  BY <1>2, <1>5, RequestKept DEF IInv
<1>8. \A p, q \in Procs : p # q => Apart(p, q)'
  BY <1>2 DEF IInv, Apart, Holds, Creates, Writes
<1>9. ASSUME conf.idempotent
      PROVE  CreateTokens'
  <2>1. CreateTokens
    BY <1>9 DEF IInv
  <2>2. Used \subseteq Used'
    BY <1>3, MarksAssumption DEF Used
  <2>3. StoredOnce'
    BY <1>2, <1>4, <2>1, <2>2 DEF CreateTokens, StoredOnce, Overlapped
  <2>4. ASSUME NEW q \in Procs
        PROVE  NewToken(q)' /\ SnapTrue(q)'
    <3>1. Stored(snap[q])' = Stored(snap[q])
      BY <1>2 DEF Stored
    <3> QED
      BY <1>2, <1>4, <2>1, <2>2, <3>1 DEF CreateTokens, NewToken, SnapTrue, Creates
  <2>5. \A q \in Procs : TokenKept(q)'
    BY <1>2, <1>5, <2>1 DEF CreateTokens, TokenKept, Holds
  <2> QED
    BY <2>3, <2>4, <2>5 DEF CreateTokens
<1>10. ASSUME conf.consistent
       PROVE  UpdateTokens'
  BY <1>2, <1>4, <1>5, <1>10
  DEF IInv, UpdateTokens, VersionsApart, Fresh, Brings, CopyTrue, Carries, Shows, Writes, Holds
<1> QED
  BY <1>2, <1>6, <1>7, <1>8, <1>9, <1>10 DEF IInv

-----------------------------------------------------------------------------
(***************************************************************************)
(* What holds in every behaviour.                                          *)
(***************************************************************************)
LEMMA NextInv == ASSUME IInv, [Next]_vars PROVE IInv'
<1>1. CASE Expire
  BY <1>1, ExpireStep
<1>2. ASSUME NEW r \in Procs,
             \/ listResources(r) \/ findResource(r) \/ getRelatedResources(r)
             \/ Start(r) \/ Follow(r) \/ Stop(r)
      PROVE  IInv'
  BY <1>2, ListStep, FindStep, RelatedStep, StartStep, FollowStep, StopStep
<1>3. ASSUME NEW r \in Procs,
             \/ Begin(r) \/ loadModel(r)
             \/ createResource(r) \/ updateResource(r) \/ deleteResource(r)
             \/ setRelationship(r) \/ appendToRelationship(r) \/ removeFromRelationship(r)
      PROVE  IInv'
  BY <1>3, BeginStep, LoadStep, CreateStep, UpdateStep, DeleteStep, RelationshipStep
<1>4. ASSUME NEW r \in Procs, Commit(r) \/ Abort(r)
      PROVE  IInv'
  BY <1>4, CommitStep, AbortStep
<1>5. CASE UNCHANGED vars
  BY <1>5
  DEF vars, IInv, Types, IsCopy, RequestInv, Begun, Holding, Loading, Saving, Old, Holds,
      Apart, Creates, Writes, CreateTokens, StoredOnce, NewToken, TokenKept, SnapTrue, Used,
      Overlapped, UpdateTokens, VersionsApart, Fresh, Brings, CopyTrue, Carries, Shows, Stored, Selected, Live
<1> QED
  BY <1>1, <1>2, <1>3, <1>4, <1>5 DEF Next

(* The inductive invariant: the documents that requests hold stay as they  *)
(* are and can be seen by their users, and the tokens of documents,        *)
(* requests and copies tell what they stand for (controller.go).           *)
THEOREM ControllerInvariant == Spec => []IInv
<1>1. Init => IInv
  BY InitInv
<1>2. IInv /\ [Next]_vars => IInv'
  BY NextInv
<1> QED
  BY <1>1, <1>2, PTL DEF Spec

LEMMA FireInvFollows == ASSUME IInv PROVE FireInv
<1>1. TypeOK
  <2>1. \A r \in Procs : pc[r] # "idle" => /\ req[r].op \in Operations /\ req[r].user \in Users
                                           /\ req[r].id \in Ids \cup {None}
    BY DEF IInv, Types, RequestInv, Begun, Requests
  <2> QED
    BY <2>1 DEF IInv, Types, IsCopy, IsWalk, TypeOK
<1>2. CreatedOnce
  BY DEF IInv, CreateTokens, StoredOnce, Overlapped, CreatedOnce
<1> QED
  BY <1>1, <1>2 DEF FireInv

(* Whatever clients send, and send again, a create token makes one         *)
(* document, by the lookup in the transaction and because it cannot be     *)
(* changed (coal.Manager.InsertIfMissing, Controller.createResource), with *)
(* or without a unique index; without it, creates sent at the same time    *)
(* excepted, neither of which could know of the other.                     *)
THEOREM FireInvHolds == Spec => []FireInv
<1>1. IInv => FireInv
  BY FireInvFollows
<1> QED
  BY <1>1, ControllerInvariant, PTL

-----------------------------------------------------------------------------
LEMMA StoreChanges ==
  ASSUME [Next]_vars, store' # store
  PROVE  Expire \/ \E r \in Procs : Commit(r)
<1>1. \A q \in Procs : ~(listResources(q) \/ findResource(q) \/ getRelatedResources(q))
  BY DEF listResources, findResource, getRelatedResources, Shown
<1>2. \A q \in Procs : ~(Start(q) \/ Follow(q) \/ Stop(q) \/ Begin(q) \/ loadModel(q))
  BY DEF Start, Follow, Stop, Begin, loadModel
<1>3. \A q \in Procs : ~(createResource(q) \/ updateResource(q) \/ deleteResource(q))
  BY DEF createResource, updateResource, deleteResource, Saved
<1>4. \A q \in Procs :
        ~(setRelationship(q) \/ appendToRelationship(q) \/ removeFromRelationship(q))
  BY DEF setRelationship, appendToRelationship, removeFromRelationship, PartialUpdate, Saved
<1>5. \A q \in Procs : ~Abort(q)
  BY DEF Abort
<1> QED
  BY <1>1, <1>2, <1>3, <1>4, <1>5 DEF Next, vars

LEMMA CommitsOnly ==
  ASSUME IInv, [Next]_vars, NEW r \in Procs, Committed(r)
  PROVE  Commit(r)
<1>1. pc[r] = "saved" /\ pc'[r] = "idle" /\ store' # store
  BY DEF Committed
<1>2. ~Expire
  BY <1>1 DEF Expire
<1>3. PICK q \in Procs : Commit(q)
  BY <1>1, <1>2, StoreChanges
<1>4. q = r
  BY <1>1, <1>3, EndedTypes DEF Commit
<1> QED
  BY <1>3, <1>4

LEMMA CommittedStore ==
  ASSUME IInv, [Next]_vars, NEW r \in Procs, Committed(r), NEW d, d = req[r].id
  PROVE  /\ pc[r] = "saved" /\ d \in Ids /\ store'[d] = model[r]
         /\ \A e \in Ids \ {d} : store'[e] = store[e]
<1>1. Commit(r)
  BY CommitsOnly
<1>2. pc[r] = "saved" /\ store' = [store EXCEPT ![d] = model[r]]
  BY <1>1 DEF Commit
<1> QED
  BY <1>2, CommittedDoc DEF IInv, Types, Views

LEMMA ConsistentUpdatesStep ==
  ASSUME IInv, [Next]_vars, NEW r \in Procs, Committed(r), conf.consistent,
         req[r].op \notin {"create", "delete"}
  PROVE  \E s \in copy[r] : /\ s.id = req[r].id
                            /\ \A f \in DOMAIN s.attrs : s.attrs[f] = store[req[r].id][f]
<1>1. PICK d : d = req[r].id
  OBVIOUS
<1>2. pc[r] = "saved"
  BY <1>1, CommittedStore
<1>3. req[r].op = "update" /\ d \in Stored(store)
  BY <1>1, <1>2, CommittedDoc DEF IInv, RequestInv, Begun, Operations
<1>4. PICK s \in copy[r] : Carries(s, store[d].ut)
  BY <1>1, <1>2, <1>3 DEF IInv, UpdateTokens, Brings
<1>5. Shows(s, d)
  BY <1>3, <1>4 DEF IInv, UpdateTokens, CopyTrue
<1> QED
  BY <1>1, <1>5 DEF Shows

(* With consistent updates, a request replaces a document only if its      *)
(* client's copy shows it as it is (Controller.updateResource).            *)
THEOREM ConsistentUpdatesHolds == Spec => ConsistentUpdates
<1>1. IInv /\ [Next]_vars =>
        [\A r \in Procs : Committed(r) /\ conf.consistent /\ req[r].op \notin {"create", "delete"} =>
           \E s \in copy[r] : /\ s.id = req[r].id
                              /\ \A f \in DOMAIN s.attrs : s.attrs[f] = store[req[r].id][f]]_vars
  BY ConsistentUpdatesStep
<1> QED
  BY <1>1, ControllerInvariant, PTL DEF Spec, ConsistentUpdates

LEMMA DeletedStaysStep ==
  ASSUME IInv, [Next]_vars, NEW d \in Stored(store), conf.soft, store[d].del
  PROVE  store'[d] \in {store[d], Gone}
<1>1. CASE Expire
  BY <1>1 DEF Expire, IInv, Types, Views, Stored
<1>2. CASE \E r \in Procs : Commit(r)
  <2>1. PICK r \in Procs : Commit(r)
    BY <1>2
  <2>2. pc[r] = "saved" /\ store' = [store EXCEPT ![req[r].id] = model[r]]
    BY <2>1 DEF Commit
  <2>3. req[r].op # "create" => req[r].id # d
    BY <2>2 DEF IInv, RequestInv, Holding, Holds, Selected, Live
  <2>4. req[r].op = "create" => req[r].id # d
    BY <2>2, CommittedDoc DEF Stored
  <2> QED
    BY <2>2, <2>3, <2>4 DEF IInv, Types, Views, Stored
<1>3. CASE UNCHANGED store
  BY <1>3
<1> QED
  BY <1>1, <1>2, <1>3, StoreChanges

(* No request brings a soft deleted document back: it can not be loaded, a *)
(* request that has loaded a document holds it, and identifiers are not    *)
(* used again (Controller.loadModel, softDeleteResource).                  *)
THEOREM DeletedStaysHolds == Spec => DeletedStays
<1>1. IInv /\ [Next]_vars =>
        [\A d \in Stored(store) : conf.soft /\ store[d].del => store'[d] \in {store[d], Gone}]_vars
  BY DeletedStaysStep
<1> QED
  BY <1>1, ControllerInvariant, PTL DEF Spec, DeletedStays

LEMMA AuthorizedChangesStep ==
  ASSUME IInv, [Next]_vars, NEW r \in Procs, Committed(r),
         NEW d, d = req[r].id, NEW old, old = IF req[r].op = "create" THEN Zero ELSE store[d]
  PROVE  /\ req[r].op # "create" => store[d].val \in Allowed[req[r].user]
         /\ req[r].op # "delete" =>
              \A f \in Fields \ {"ut"} : store'[d][f] # old[f] => f \in Writable[req[r].user]
<1>1. pc[r] = "saved" /\ store'[d] = model[r] /\ RequestInv(r)
  BY CommittedStore DEF IInv
<1>2. req[r].op # "create" => store[d].val \in Allowed[req[r].user]
  BY <1>1 DEF RequestInv, Holding, Holds, Selected
<1>3. req[r].op # "delete" =>
        \A f \in Fields \ {"ut"} : store'[d][f] # old[f] => f \in Writable[req[r].user]
  BY <1>1 DEF RequestInv, Saving, Old
<1> QED
  BY <1>2, <1>3

(* A request changes only what its user may see, as it is, and of it only  *)
(* the fields he may write (Controller.loadModel, assignData).             *)
THEOREM AuthorizedChangesHolds == Spec => AuthorizedChanges
<1>1. IInv /\ [Next]_vars =>
        [\A r \in Procs : Committed(r) =>
           LET d == req[r].id
               old == IF req[r].op = "create" THEN Zero ELSE store[d]
               new == store'[d]
           IN /\ req[r].op # "create" => store[d].val \in Allowed[req[r].user]
              /\ req[r].op # "delete" =>
                   \A f \in Fields \ {"ut"} : new[f] # old[f] => f \in Writable[req[r].user]]_vars
  BY AuthorizedChangesStep
<1> QED
  BY <1>1, ControllerInvariant, PTL DEF Spec, AuthorizedChanges

-----------------------------------------------------------------------------
(***************************************************************************)
(* Walks through the pages of a list.                                      *)
(***************************************************************************)
SortFields == {"val", "parent", "ut", "_id"}

Orders == Seq([key : SortFields, desc : BOOLEAN])

(* d comes after e.                                                        *)
After(view, d, e, order) == Beyond(Keys(view, d, order), Keys(view, e, order), order)

Distinct(view, docs, order) ==
  \A d, e \in docs : Keys(view, d, order) = Keys(view, e, order) => d = e

(* The pages of a list have all but their place in common.                 *)
Continues(p, q) ==
  /\ p.filters = q.filters /\ p.search = q.search /\ p.sort = q.sort
  /\ p.kind = q.kind /\ p.size = q.size

InOrder(view, seen, steady, order) ==
  \A i, j \in DOMAIN seen : i < j /\ seen[i] \in steady /\ seen[j] \in steady =>
    After(view, seen[j], seen[i], order)

(* The documents beyond a cursor.                                          *)
Ahead(view, docs, cursor, order) ==
  {d \in docs : cursor = blankCursor \/ Beyond(Keys(view, d, order), cursor, order)}

(* What has been seen of the documents that stay is what the cursor has    *)
(* passed, also when the document it was made of has changed.              *)
Passed(view, shown, steady, cursor, order) ==
  /\ cursor \in [DOMAIN order -> Int]
  /\ \A d \in steady : d \in shown <=> ~Beyond(Keys(view, d, order), cursor, order)

Reached(view, seen, steady, cursor, order) ==
  IF cursor = blankCursor THEN seen = <<>>
                          ELSE Passed(view, Range(seen), steady, cursor, order)

(* A page that is not full is the last one.                                *)
Complete(page, size, shown, steady) ==
  Len(page) # size => steady \subseteq shown

(* A page goes on from what has been seen, or back from it.                *)
Onward(view, seen, steady, p, order) ==
  p.before = NoCursor /\ p.after # NoCursor /\ Reached(view, seen, steady, p.after, order)

Backward(view, seen, steady, p, order) ==
  /\ p.after = NoCursor /\ p.before # NoCursor
  /\ Reached(view, seen, steady, p.before, ReverseSort(order))

AtCursor(view, w, p, order) ==
  IF w.back THEN Backward(view, w.seen, w.steady, p, order)
            ELSE Onward(view, w.seen, w.steady, p, order)

(* The piece of s from skip on that has at most size elements.             *)
Piece(page, s, skip, size) ==
  /\ Len(page) = IF skip + size <= Len(s) THEN size
                 ELSE IF skip < Len(s) THEN Len(s) - skip ELSE 0
  /\ \A i \in DOMAIN page : page[i] = s[skip + i]

(* What is before skip, and what is behind it.                             *)
UpTo(seen, s, skip) ==
  /\ Len(seen) = IF skip < Len(s) THEN skip ELSE Len(s)
  /\ \A i \in DOMAIN seen : seen[i] = s[i]

From(seen, s, skip) ==
  /\ Len(seen) = IF skip < Len(s) THEN Len(s) - skip ELSE 0
  /\ \A i \in DOMAIN seen : seen[i] = s[skip + i]

(* What has been seen of a list that does not change are the pages before  *)
(* the number, or behind it.                                               *)
Below(lists, seen, p) ==
  p.number # 0 /\ \A s \in lists : UpTo(seen, s, (p.number - 1) * p.size)

Above(lists, seen, p) ==
  \A s \in lists : (p.number = 0 => Len(s) = 0) /\ From(seen, s, p.number * p.size)

AtNumber(w, p, lists) ==
  IF w.back THEN Above(lists, w.seen, p) ELSE Below(lists, w.seen, p)

(* What has been seen of the documents that stay is in order, and all of   *)
(* them if there is no page left.                                          *)
Seen(view, seen, steady, order, next) ==
  InOrder(view, seen, steady, order) /\ (next = {} => steady \subseteq Range(seen))

CursorWalk(c, view, w, q) ==
  LET order == Sorting(c, q)
  IN /\ Seen(view, w.seen, w.steady, order, w.next)
     /\ \A p \in w.next : AtCursor(view, w, p, order)

OffsetWalk(c, view, w, q) ==
  LET order == TextScoreSort(q, q.sort)
  IN /\ w.steady = Matching(c, view, w.user, q, Ids)
     /\ Distinct(view, w.steady, order) =>
          /\ Seen(view, w.seen, w.steady, order, w.next)
          /\ \A p \in w.next :
               p.number \in Nat /\ AtNumber(w, p, FindAll(view, w.steady, order, 0, 0))

(* A walk asks for a list, is at one of its pages or done, and has shown   *)
(* what comes before, by cursor whatever changes, by number if nothing     *)
(* does.                                                                   *)
Paging(c, view, w) ==
  \A q \in w.asked :
    /\ IsQuery(q) /\ q.size \in Nat \ {0} /\ q.sort \in Orders
    /\ w.steady \subseteq Matching(c, view, w.user, q, Ids)
    /\ \A p \in w.next : IsQuery(p) /\ Continues(p, q)
    /\ cursorPagination(c, q) /\ q.search = {} => CursorWalk(c, view, w, q)
    /\ ~cursorPagination(c, q) /\ w.quiet => OffsetWalk(c, view, w, q)

-----------------------------------------------------------------------------
(***************************************************************************)
(* The order of keys.                                                      *)
(***************************************************************************)
LEMMA FirstIndex ==
  ASSUME NEW T \in SUBSET Nat, T # {}
  PROVE  \E i \in T : \A j \in T : i <= j
<1>1. PICK i \in T : \A j \in T : <<j, i>> \notin OpToRel(<, Nat)
  BY WFMin, NatLessThanWellFounded
<1>2. \A j \in T : ~(j < i)
  BY <1>1 DEF OpToRel
<1> QED
  BY <1>2

LEMMA OrderOf ==
  ASSUME NEW order \in Orders
  PROVE  /\ Len(order) \in Nat /\ DOMAIN order = 1..Len(order)
         /\ \A i \in DOMAIN order : order[i].key \in SortFields /\ order[i].desc \in BOOLEAN
<1>1. Len(order) \in Nat /\ DOMAIN order = 1..Len(order)
  BY LenProperties DEF Orders
<1>2. \A i \in DOMAIN order : order[i] \in [key : SortFields, desc : BOOLEAN]
  BY <1>1, ElementOfSeq DEF Orders
<1> QED
  BY <1>1, <1>2

LEMMA BeyondTransitive ==
  ASSUME NEW order \in Orders, NEW a \in [DOMAIN order -> Int], NEW b \in [DOMAIN order -> Int],
         NEW c \in [DOMAIN order -> Int], Beyond(a, b, order), Beyond(b, c, order)
  PROVE  Beyond(a, c, order)
<1>1. Len(order) \in Nat /\ DOMAIN order = 1..Len(order)
  BY OrderOf
<1>2. PICK i \in DOMAIN order :
        /\ \A j \in 1..(i - 1) : a[j] = b[j]
        /\ IF order[i].desc THEN a[i] < b[i] ELSE a[i] > b[i]
  BY DEF Beyond
<1>3. PICK k \in DOMAIN order :
        /\ \A j \in 1..(k - 1) : b[j] = c[j]
        /\ IF order[k].desc THEN b[k] < c[k] ELSE b[k] > c[k]
  BY DEF Beyond
<1> DEFINE m == IF i < k THEN i ELSE k
<1>4. m \in DOMAIN order /\ m \in Int /\ i \in Int /\ k \in Int /\ m <= i /\ m <= k
  BY <1>1
<1>5. \A j \in 1..(m - 1) : a[j] = c[j]
  BY <1>1, <1>2, <1>3, <1>4
<1>6. a[m] \in Int /\ b[m] \in Int /\ c[m] \in Int
  BY <1>4
<1>7. IF order[m].desc THEN a[m] < c[m] ELSE a[m] > c[m]
  <2>1. CASE i < k
    BY <1>1, <1>2, <1>3, <1>6, <2>1
  <2>2. CASE k < i
    BY <1>1, <1>2, <1>3, <1>6, <2>2
  <2>3. CASE k = i
    BY <1>1, <1>2, <1>3, <1>6, <2>3
  <2> QED
    BY <1>4, <2>1, <2>2, <2>3
<1> HIDE DEF m
<1> QED
  BY <1>4, <1>5, <1>7 DEF Beyond

LEMMA BeyondIrreflexive ==
  ASSUME NEW order \in Orders, NEW a \in [DOMAIN order -> Int]
  PROVE  ~Beyond(a, a, order)
BY DEF Beyond

LEMMA BeyondTotal ==
  ASSUME NEW order \in Orders, NEW a \in [DOMAIN order -> Int], NEW b \in [DOMAIN order -> Int],
         a # b
  PROVE  Beyond(a, b, order) \/ Beyond(b, a, order)
<1>1. Len(order) \in Nat /\ DOMAIN order = 1..Len(order)
  BY OrderOf
<1> DEFINE T == {i \in DOMAIN order : a[i] # b[i]}
<1>2. T \in SUBSET Nat
  BY <1>1
<1>3. T # {}
  OBVIOUS
<1>4. PICK i \in T : \A j \in T : i <= j
  BY <1>2, <1>3, FirstIndex
<1>5. i \in DOMAIN order /\ i \in Nat
  BY <1>2, <1>4
<1>6. a[i] \in Int /\ b[i] \in Int /\ a[i] # b[i]
  BY <1>4, <1>5
<1>7. \A j \in 1..(i - 1) : a[j] = b[j]
  BY <1>1, <1>4, <1>5
<1>8. a[i] < b[i] \/ a[i] > b[i]
  BY <1>6
<1>9. a[i] < b[i] <=> b[i] > a[i]
  BY <1>6
<1>10. a[i] > b[i] <=> b[i] < a[i]
  BY <1>6
<1> QED
  BY <1>5, <1>7, <1>8, <1>9, <1>10 DEF Beyond

(* What is beyond the cursor comes after what is not.                      *)
LEMMA BeyondPassed ==
  ASSUME NEW order \in Orders, NEW a \in [DOMAIN order -> Int], NEW b \in [DOMAIN order -> Int],
         NEW c \in [DOMAIN order -> Int], Beyond(a, c, order), ~Beyond(b, c, order)
  PROVE  Beyond(a, b, order)
<1>1. CASE b = c
  BY <1>1
<1>2. CASE b # c
  BY <1>2, BeyondTotal, BeyondTransitive
<1> QED
  BY <1>1, <1>2

LEMMA ReverseOrder ==
  ASSUME NEW order \in Orders
  PROVE  /\ ReverseSort(order) \in Orders /\ DOMAIN ReverseSort(order) = DOMAIN order
         /\ \A i \in DOMAIN order : /\ ReverseSort(order)[i].key = order[i].key
                                    /\ ReverseSort(order)[i].desc = ~order[i].desc
<1>1. Len(order) \in Nat /\ DOMAIN order = 1..Len(order)
  BY OrderOf
<1>2. \A i \in DOMAIN order : order[i] \in [key : SortFields, desc : BOOLEAN]
  BY <1>1, ElementOfSeq DEF Orders
<1>3. \A i \in DOMAIN order :
        /\ [order[i] EXCEPT !.desc = ~@] \in [key : SortFields, desc : BOOLEAN]
        /\ [order[i] EXCEPT !.desc = ~@].key = order[i].key
        /\ [order[i] EXCEPT !.desc = ~@].desc = ~order[i].desc
  BY <1>2
<1>4. ReverseSort(order) \in [1..Len(order) -> [key : SortFields, desc : BOOLEAN]]
  BY <1>1, <1>3 DEF ReverseSort
<1>5. ReverseSort(order) \in Orders
  BY <1>1, <1>4, SeqDef DEF Orders
<1> QED
  BY <1>3, <1>5 DEF ReverseSort

LEMMA BeyondReversed ==
  ASSUME NEW order \in Orders, NEW a \in [DOMAIN order -> Int], NEW b \in [DOMAIN order -> Int],
         Beyond(a, b, ReverseSort(order))
  PROVE  Beyond(b, a, order)
<1>1. Len(order) \in Nat /\ DOMAIN order = 1..Len(order)
  BY OrderOf
<1>2. PICK i \in DOMAIN order :
        /\ \A j \in 1..(i - 1) : a[j] = b[j]
        /\ IF ReverseSort(order)[i].desc THEN a[i] < b[i] ELSE a[i] > b[i]
  BY ReverseOrder DEF Beyond
<1>3. a[i] \in Int /\ b[i] \in Int /\ ReverseSort(order)[i].desc = ~order[i].desc
  BY ReverseOrder
<1>4. IF order[i].desc THEN b[i] < a[i] ELSE b[i] > a[i]
  BY <1>2, <1>3
<1> QED
  BY <1>2, <1>4 DEF Beyond

LEMMA KeysReversed ==
  ASSUME NEW order \in Orders, NEW view, NEW d
  PROVE  Keys(view, d, ReverseSort(order)) = Keys(view, d, order)
BY ReverseOrder DEF Keys

(* The keys of a stored document are numbers.                              *)
LEMMA KeysOf ==
  ASSUME NEW order \in Orders, NEW view \in Views, NEW d \in Stored(view)
  PROVE  Keys(view, d, order) \in [DOMAIN order -> Int]
<1>1. d \in Int /\ view[d] \in Doc
  BY ListsAssumption DEF Stored, Views
<1>2. view[d].val \in Int /\ view[d].parent \in Int /\ view[d].ut \in Int
  <2>1. \A x \in Values : x \in Int
    BY ListsAssumption
  <2>2. \A x \in Ids \cup {None} : x \in Int
    BY ListsAssumption DEF None
  <2>3. \A x \in Nat : x \in Int
    OBVIOUS
  <2>4. view[d].val \in Values /\ view[d].parent \in Ids \cup {None} /\ view[d].ut \in Nat
    BY <1>1 DEF Doc
  <2> QED
    BY <2>1, <2>2, <2>3, <2>4, Zenon
<1>3. ASSUME NEW i \in DOMAIN order
      PROVE  (IF order[i].key = "_id" THEN d ELSE view[d][order[i].key]) \in Int
  BY <1>1, <1>2, OrderOf DEF SortFields
<1> QED
  BY <1>3 DEF Keys

LEMMA StoredIds == ASSUME NEW view PROVE Stored(view) \subseteq Ids /\ IsFiniteSet(Stored(view))
BY IdsFinite, FS_Subset DEF Stored

(* A list shows every document once and in order.                          *)
LEMMA Listing ==
  ASSUME NEW order \in Orders, NEW view \in Views, NEW docs \in SUBSET Stored(view),
         Distinct(view, docs, order), NEW s \in FindAll(view, docs, order, 0, 0)
  PROVE  /\ s \in Seq(docs) /\ Len(s) = Cardinality(docs) /\ Range(s) = docs
         /\ Len(s) \in Nat /\ DOMAIN s = 1..Len(s)
         /\ \A i, j \in DOMAIN s : i < j => After(view, s[j], s[i], order)
<1>1. IsFiniteSet(docs)
  BY StoredIds, FS_Subset
<1> DEFINE n == Cardinality(docs)
<1>2. n \in Nat
  BY <1>1, FS_CardinalityType
<1>3. /\ s \in SetToSeqs(docs)
      /\ \A i, j \in DOMAIN s :
           i < j => ~Beyond(Keys(view, s[i], order), Keys(view, s[j], order), order)
  BY DEF FindAll
<1>4. s \in [1..n -> docs] /\ \A i, j \in 1..n : i # j => s[i] # s[j]
  BY <1>3 DEF SetToSeqs
<1>5. Range(s) = docs
  <2>1. s \in Injection(1..n, docs)
    BY <1>4 DEF Injection, IsInjective
  <2>2. IsFiniteSet(1..n) /\ Cardinality(1..n) = n
    BY <1>2, FS_Interval
  <2>3. s \in Surjection(1..n, docs)
    BY <1>1, <2>1, <2>2, FS_Injection
  <2> QED
    BY <1>4, <2>3 DEF Surjection, Range
<1> HIDE DEF n
<1>6. s \in Seq(docs) /\ Len(s) = n /\ DOMAIN s = 1..n
  BY <1>2, <1>4, SeqDef, LenProperties
<1>7. ASSUME NEW i \in 1..n, NEW j \in 1..n, i < j
      PROVE  After(view, s[j], s[i], order)
  <2>1. s[i] \in docs /\ s[j] \in docs /\ s[i] # s[j]
    BY <1>2, <1>4, <1>7
  <2>2. Keys(view, s[i], order) # Keys(view, s[j], order)
    BY <2>1 DEF Distinct
  <2>3. ~Beyond(Keys(view, s[i], order), Keys(view, s[j], order), order)
    BY <1>3, <1>6, <1>7
  <2> QED
    BY <2>1, <2>2, <2>3, KeysOf, BeyondTotal DEF After
<1> QED
  BY <1>2, <1>5, <1>6, <1>7 DEF n

(* A page is a piece of a list.                                            *)
LEMMA PageOfListing ==
  ASSUME NEW order \in Orders, NEW view \in Views, NEW docs \in SUBSET Stored(view),
         Distinct(view, docs, order), NEW skip \in Nat, NEW limit \in Nat \ {0},
         NEW page \in FindAll(view, docs, order, skip, limit)
  PROVE  \E s \in FindAll(view, docs, order, 0, 0) :
           /\ page \in Seq(docs) /\ Len(page) \in Nat /\ DOMAIN page = 1..Len(page)
           /\ Len(page) = IF skip + limit <= Len(s) THEN limit
                          ELSE IF skip < Len(s) THEN Len(s) - skip ELSE 0
           /\ \A i \in DOMAIN page : page[i] = s[skip + i]
<1>1. PICK s \in FindAll(view, docs, order, 0, 0) :
        page = SubSeq(s, skip + 1, Min({skip + limit, Len(s)}))
  BY DEF FindAll
<1>2. s \in Seq(docs) /\ Len(s) \in Nat
  BY Listing
<1> DEFINE n == Min({skip + limit, Len(s)})
<1>3. n = IF skip + limit <= Len(s) THEN skip + limit ELSE Len(s)
  <2>1. skip + limit \in Nat
    OBVIOUS
  <2>2. \E x \in {skip + limit, Len(s)} : \A y \in {skip + limit, Len(s)} : x <= y
    BY <1>2, <2>1
  <2>3. n \in {skip + limit, Len(s)} /\ n <= Len(s) /\ n <= skip + limit
    BY <2>2 DEF Min
  <2> HIDE DEF n
  <2> QED
    BY <1>2, <2>1, <2>3
<1> HIDE DEF n
<1>4. n \in Int /\ \A i \in (skip + 1)..n : i \in 1..Len(s)
  BY <1>2, <1>3
<1>5. \A i \in (skip + 1)..n : s[i] \in docs
  BY <1>2, <1>4, ElementOfSeq
<1>6. /\ page \in Seq(docs)
      /\ Len(page) = IF skip < n THEN n - skip ELSE 0
      /\ \A i \in 1..(n - skip) : page[i] = s[skip + i]
  <2>1. PICK m \in Int : m = skip + 1
    OBVIOUS
  <2>2. page = SubSeq(s, m, n) /\ \A i \in m..n : s[i] \in docs
    BY <1>1, <1>5, <2>1 DEF n
  <2>3. /\ page \in Seq(docs)
        /\ Len(page) = IF m <= n THEN n - m + 1 ELSE 0
        /\ \A i \in 1..(n - m + 1) : page[i] = s[m + i - 1]
    BY <1>4, <2>2, SubSeqProperties
  <2>4. n - m + 1 = n - skip /\ (m <= n <=> skip < n) /\ \A i \in Int : m + i - 1 = skip + i
    BY <1>4, <2>1
  <2>5. \A i \in 1..(n - skip) : page[i] = s[skip + i]
    BY <2>3, <2>4
  <2> QED
    BY <2>3, <2>4, <2>5
<1>7. Len(page) = IF skip + limit <= Len(s) THEN limit
                  ELSE IF skip < Len(s) THEN Len(s) - skip ELSE 0
  BY <1>2, <1>3, <1>6
<1>8. Len(page) \in Nat /\ DOMAIN page = 1..Len(page)
  BY <1>6, LenProperties
<1>9. \A i \in 1..Len(page) : i \in 1..(n - skip)
  BY <1>4, <1>6, <1>8
<1>10. \A i \in DOMAIN page : page[i] = s[skip + i]
  BY <1>6, <1>8, <1>9
<1> QED
  BY <1>6, <1>7, <1>8, <1>10

(* With distinct keys there is one list.                                   *)
LEMMA SameListing ==
  ASSUME NEW order \in Orders, NEW view \in Views, NEW docs \in SUBSET Stored(view),
         Distinct(view, docs, order),
         NEW s \in FindAll(view, docs, order, 0, 0), NEW t \in FindAll(view, docs, order, 0, 0)
  PROVE  s = t
<1> DEFINE D == DOMAIN s
           T == {i \in D : s[i] # t[i]}
<1>1. /\ s \in Seq(docs) /\ Range(s) = docs /\ D = 1..Len(s) /\ Len(s) \in Nat
      /\ \A i, j \in D : i < j => After(view, s[j], s[i], order)
  BY Listing
<1>2. /\ t \in Seq(docs) /\ Range(t) = docs /\ DOMAIN t = D
      /\ \A i, j \in D : i < j => After(view, t[j], t[i], order)
  BY Listing
<1> SUFFICES ASSUME T # {} PROVE FALSE
  <2>1. \A i \in 1..Len(s) : s[i] = t[i]
    BY <1>1
  <2> QED
    BY <1>1, <1>2, <2>1, SeqEqual
<1>3. T \in SUBSET Nat
  BY <1>1
<1>4. PICK i \in T : \A j \in T : i <= j
  BY <1>3, FirstIndex
<1>5. i \in D /\ s[i] \in docs /\ t[i] \in docs
  BY <1>1, <1>2, ElementOfSeq
<1>6. PICK j \in D : t[j] = s[i]
  BY <1>2, <1>5 DEF Range
<1>7. PICK k \in D : s[k] = t[i]
  BY <1>1, <1>5 DEF Range
<1>8. D \subseteq Int
  BY <1>1
<1>9. s[i] # t[i] /\ j # i /\ k # i
  BY <1>4, <1>6, <1>7
<1>10. \A d \in docs : ~After(view, d, d, order)
  BY KeysOf, BeyondIrreflexive DEF After
<1>11. i < j
  <2>1. SUFFICES ASSUME j < i PROVE FALSE
    BY <1>5, <1>6, <1>8, <1>9
  <2>2. s[j] = t[j]
    BY <1>4, <1>6, <1>8, <2>1
  <2>3. After(view, s[i], s[j], order)
    BY <1>1, <1>5, <1>6, <2>1
  <2> QED
    BY <1>5, <1>6, <1>10, <2>2, <2>3
<1>12. i < k
  <2>1. SUFFICES ASSUME k < i PROVE FALSE
    BY <1>5, <1>7, <1>8, <1>9
  <2>2. s[k] = t[k]
    BY <1>4, <1>7, <1>8, <2>1
  <2>3. After(view, t[i], t[k], order)
    BY <1>2, <1>5, <1>7, <2>1
  <2> QED
    BY <1>5, <1>7, <1>10, <2>2, <2>3
<1>13. After(view, s[i], t[i], order)
  BY <1>2, <1>5, <1>6, <1>11
<1>14. After(view, t[i], s[i], order)
  BY <1>1, <1>5, <1>7, <1>12
<1> QED
  BY <1>5, <1>13, <1>14, KeysOf, BeyondTransitive, BeyondIrreflexive DEF After

LEMMA AfterOnce ==
  ASSUME NEW order \in Orders, NEW view \in Views, NEW d \in Stored(view), NEW e \in Stored(view),
         After(view, d, e, order)
  PROVE  ~After(view, e, d, order)
BY KeysOf, BeyondTransitive, BeyondIrreflexive DEF After

(* The first page of a list.                                               *)
LEMMA FirstPage ==
  ASSUME NEW order \in Orders, NEW view \in Views, NEW docs \in SUBSET Stored(view),
         Distinct(view, docs, order), NEW limit \in Nat \ {0},
         NEW page \in FindAll(view, docs, order, 0, limit)
  PROVE  /\ page \in Seq(docs) /\ Len(page) \in Nat /\ DOMAIN page = 1..Len(page)
         /\ \A i, j \in DOMAIN page : i < j => After(view, page[j], page[i], order)
         /\ Len(page) # limit => Range(page) = docs
         /\ \A e \in docs \ Range(page), i \in DOMAIN page : After(view, e, page[i], order)
<1>1. 0 \in Nat
  OBVIOUS
<1>2. PICK s \in FindAll(view, docs, order, 0, 0) :
        /\ page \in Seq(docs) /\ Len(page) \in Nat /\ DOMAIN page = 1..Len(page)
        /\ Len(page) = IF 0 + limit <= Len(s) THEN limit
                       ELSE IF 0 < Len(s) THEN Len(s) - 0 ELSE 0
        /\ \A i \in DOMAIN page : page[i] = s[0 + i]
  BY <1>1, PageOfListing
<1>3. /\ Len(s) \in Nat /\ DOMAIN s = 1..Len(s) /\ Range(s) = docs
      /\ \A i, j \in DOMAIN s : i < j => After(view, s[j], s[i], order)
  BY Listing
<1>4. Len(page) <= Len(s) /\ (Len(page) # limit => Len(page) = Len(s))
  BY <1>2, <1>3
<1>5. \A i \in DOMAIN page : i \in DOMAIN s /\ page[i] = s[i]
  BY <1>2, <1>3, <1>4
<1>6. \A i, j \in DOMAIN page : i < j => After(view, page[j], page[i], order)
  BY <1>3, <1>5
<1>7. Len(page) # limit => Range(page) = docs
  BY <1>2, <1>3, <1>4, <1>5 DEF Range
<1>8. ASSUME NEW e \in docs \ Range(page), NEW i \in DOMAIN page
      PROVE  After(view, e, page[i], order)
  <2>1. PICK k \in DOMAIN s : e = s[k]
    BY <1>3 DEF Range
  <2>2. k \notin DOMAIN page
    BY <1>5, <1>8, <2>1 DEF Range
  <2>3. i < k
    BY <1>2, <1>3, <2>1, <2>2
  <2> QED
    BY <1>3, <1>5, <2>1, <2>3
<1> QED
  BY <1>2, <1>6, <1>7, <1>8

(* The page behind a cursor, and the cursor of its last document.          *)
Browsed(view, docs, seen, steady, cursor, order) ==
  /\ order \in Orders /\ view \in Views /\ docs \in SUBSET Stored(view)
  /\ Distinct(view, docs, order) /\ steady \in SUBSET docs
  /\ Reached(view, seen, steady, cursor, order)

LEMMA NextPage ==
  ASSUME NEW order, NEW view, NEW docs, NEW steady, NEW seen, NEW cursor,
         Browsed(view, docs, seen, steady, cursor, order),
         NEW size \in Nat \ {0},
         NEW page \in FindAll(view, Ahead(view, docs, cursor, order), order, 0, size)
  PROVE  /\ page \in Seq(docs) /\ Len(page) \in Nat /\ DOMAIN page = 1..Len(page)
         /\ \A i, j \in DOMAIN page : i < j => After(view, page[j], page[i], order)
         /\ \A d \in Range(page), e \in Range(seen) \cap steady : After(view, d, e, order)
         /\ Complete(page, size, Range(seen) \cup Range(page), steady)
         /\ Len(page) # 0 =>
              Passed(view, Range(seen) \cup Range(page), steady,
                     Keys(view, page[Len(page)], order), order)
<1> USE DEF Browsed
<1> DEFINE beyond == Ahead(view, docs, cursor, order)
<1>1. beyond = {d \in docs : cursor = blankCursor \/ Beyond(Keys(view, d, order), cursor, order)}
  BY DEF Ahead
<1>2. page \in FindAll(view, beyond, order, 0, size)
  OBVIOUS
<1> HIDE DEF beyond
<1>3. beyond \in SUBSET docs /\ beyond \in SUBSET Stored(view) /\ Distinct(view, beyond, order)
  BY <1>1 DEF Distinct
<1>4. /\ page \in Seq(beyond) /\ Len(page) \in Nat /\ DOMAIN page = 1..Len(page)
      /\ \A i, j \in DOMAIN page : i < j => After(view, page[j], page[i], order)
      /\ Len(page) # size => Range(page) = beyond
      /\ \A e \in beyond \ Range(page), i \in DOMAIN page : After(view, e, page[i], order)
  BY <1>3, <1>2, FirstPage
<1>5. Len(page) \in Nat /\ DOMAIN page = 1..Len(page)
  BY <1>4, Zenon
<1>6. \A i \in DOMAIN page : page[i] \in beyond
  BY <1>4, ElementOfSeq
<1>7. \A d \in steady : d \in Range(seen) <=> d \notin beyond
  <2>1. CASE cursor = blankCursor
    <3>1. seen = <<>>
      BY <2>1 DEF Reached, Passed
    <3>2. Range(seen) = {}
      BY <3>1 DEF Range
    <3> QED
      BY <1>1, <2>1, <3>2
  <2>2. CASE cursor # blankCursor
    BY <1>1, <2>2 DEF Reached, Passed
  <2> QED
    BY <2>1, <2>2
<1>8. ASSUME NEW d \in beyond, NEW e \in steady \ beyond
      PROVE  After(view, d, e, order)
  <2>1. cursor # blankCursor
    BY <1>8, <1>1
  <2>2. cursor \in [DOMAIN order -> Int]
    BY <2>1 DEF Reached, Passed
  <2>3. Beyond(Keys(view, d, order), cursor, order) /\ ~Beyond(Keys(view, e, order), cursor, order)
    BY <1>8, <1>1, <2>1
  <2> QED
    BY <1>3, <2>2, <2>3, KeysOf, BeyondPassed DEF After
<1>9. \A d \in Range(page) : d \in beyond
  BY <1>6 DEF Range
<1>10. \A d \in Range(page), e \in Range(seen) \cap steady : After(view, d, e, order)
  BY <1>7, <1>8, <1>9
<1>11. Complete(page, size, Range(seen) \cup Range(page), steady)
  BY <1>4, <1>7 DEF Complete
<1>12. ASSUME Len(page) # 0
       PROVE  Passed(view, Range(seen) \cup Range(page), steady,
                     Keys(view, page[Len(page)], order), order)
  <2>1. Len(page) \in DOMAIN page
    BY <1>12, <1>5
  <2>2. PICK l \in beyond : l = page[Len(page)]
    BY <1>6, <2>1
  <2>3. l \in Stored(view) /\ Keys(view, l, order) \in [DOMAIN order -> Int]
    BY <1>3, KeysOf
  <2>4. ASSUME NEW d \in steady
        PROVE  d \in Range(seen) \cup Range(page) <=> ~After(view, d, l, order)
    <3>1. CASE d \in Range(seen)
      BY <1>3, <1>7, <1>8, <2>3, <3>1, AfterOnce
    <3>2. CASE d \in Range(page)
      <4>1. PICK i \in DOMAIN page : d = page[i]
        BY <3>2 DEF Range
      <4>2. i = Len(page) \/ i < Len(page)
        BY <1>5, <4>1
      <4>3. CASE i = Len(page)
        BY <2>2, <2>3, <3>2, <4>1, <4>3, BeyondIrreflexive DEF After
      <4>4. CASE i < Len(page)
        BY <1>4, <2>1, <2>2, <2>3, <3>2, <4>1, <4>4, AfterOnce
      <4> QED
        BY <4>2, <4>3, <4>4
    <3>3. CASE d \notin Range(seen) /\ d \notin Range(page)
      BY <1>4, <1>7, <2>1, <2>2, <3>3
    <3> QED
      BY <3>1, <3>2, <3>3
  <2> QED
    BY <2>2, <2>3, <2>4 DEF After, Passed
<1>13. page \in Seq(docs)
  BY <1>3, <1>4, SeqMonotonic
<1> QED
  BY <1>4, <1>10, <1>11, <1>12, <1>13

-----------------------------------------------------------------------------
(***************************************************************************)
(* Pages in a row.                                                         *)
(***************************************************************************)
LEMMA JoinedOrder ==
  ASSUME NEW S, NEW a \in Seq(S), NEW b \in Seq(S), NEW view, NEW steady, NEW order,
         InOrder(view, a, steady, order), InOrder(view, b, steady, order),
         \A d \in Range(a) \cap steady, e \in Range(b) \cap steady : After(view, e, d, order)
  PROVE  InOrder(view, a \o b, steady, order)
<1>1. /\ Len(a) \in Nat /\ DOMAIN a = 1..Len(a) /\ Len(b) \in Nat /\ DOMAIN b = 1..Len(b)
      /\ a \o b \in Seq(S) /\ Len(a \o b) = Len(a) + Len(b)
      /\ \A i \in 1..(Len(a) + Len(b)) :
           (a \o b)[i] = IF i <= Len(a) THEN a[i] ELSE b[i - Len(a)]
  BY LenProperties, ConcatProperties
<1>2. DOMAIN (a \o b) = 1..(Len(a) + Len(b))
  BY <1>1, LenProperties
<1> DEFINE c == a \o b
<1> SUFFICES ASSUME NEW i \in DOMAIN c, NEW j \in DOMAIN c, i < j,
                    c[i] \in steady, c[j] \in steady
             PROVE  After(view, c[j], c[i], order)
  BY DEF InOrder
<1>3. i \in Int /\ j \in Int /\ i \in 1..(Len(a) + Len(b)) /\ j \in 1..(Len(a) + Len(b))
  BY <1>1, <1>2
<1>4. /\ c[i] = IF i <= Len(a) THEN a[i] ELSE b[i - Len(a)]
      /\ c[j] = IF j <= Len(a) THEN a[j] ELSE b[j - Len(a)]
  BY <1>1, <1>3
<1> HIDE DEF c
<1>5. CASE j <= Len(a)
  <2>1. i \in DOMAIN a /\ j \in DOMAIN a /\ c[i] = a[i] /\ c[j] = a[j]
    BY <1>1, <1>3, <1>4, <1>5
  <2> QED
    BY <2>1 DEF InOrder
<1>6. CASE i <= Len(a) /\ ~(j <= Len(a))
  <2>1. i \in DOMAIN a /\ j - Len(a) \in DOMAIN b /\ c[i] = a[i] /\ c[j] = b[j - Len(a)]
    BY <1>1, <1>3, <1>4, <1>6
  <2> QED
    BY <2>1 DEF Range
<1>7. CASE ~(i <= Len(a))
  <2>1. /\ i - Len(a) \in DOMAIN b /\ j - Len(a) \in DOMAIN b /\ i - Len(a) < j - Len(a)
        /\ c[i] = b[i - Len(a)] /\ c[j] = b[j - Len(a)]
    BY <1>1, <1>3, <1>4, <1>7
  <2> QED
    BY <2>1 DEF InOrder
<1> QED
  BY <1>5, <1>6, <1>7

LEMMA Reversed ==
  ASSUME NEW S, NEW page \in Seq(S)
  PROVE  /\ Reverse(page) \in Seq(S) /\ Len(Reverse(page)) = Len(page)
         /\ Len(page) \in Nat /\ DOMAIN page = 1..Len(page) /\ DOMAIN Reverse(page) = 1..Len(page)
         /\ \A i \in 1..Len(page) : Reverse(page)[i] = page[Len(page) - i + 1]
         /\ Range(Reverse(page)) = Range(page)
<1>1. Len(page) \in Nat /\ DOMAIN page = 1..Len(page)
  BY LenProperties
<1>2. Reverse(page) \in Seq(S)
  BY ReversePage
<1>3. DOMAIN Reverse(page) = 1..Len(page)
  BY DEF Reverse
<1>4. Len(Reverse(page)) = Len(page)
  BY <1>1, <1>2, <1>3, LenProperties
<1>5. \A i \in 1..Len(page) : Reverse(page)[i] = page[Len(page) - i + 1]
  BY DEF Reverse
<1>6. \A i \in 1..Len(page) : /\ Len(page) - i + 1 \in 1..Len(page)
                              /\ Len(page) - (Len(page) - i + 1) + 1 = i
  BY <1>1
<1>7. Range(Reverse(page)) = Range(page)
  <2>1. \A i \in 1..Len(page) : page[i] = Reverse(page)[Len(page) - i + 1]
    BY <1>5, <1>6
  <2> QED
    BY <1>1, <1>3, <1>5, <1>6, <2>1 DEF Range
<1> QED
  BY <1>1, <1>2, <1>3, <1>4, <1>5, <1>7

-----------------------------------------------------------------------------
(***************************************************************************)
(* The pages of a walk.                                                    *)
(***************************************************************************)

(* The pagination of the page of a walk is complete.                       *)
LEMMA DefaultsKept ==
  ASSUME NEW c \in Configs, NEW q, IsQuery(q), q.size > 0,
         IF cursorPagination(c, q) THEN q.after # NoCursor \/ q.before # NoCursor
                                   ELSE q.number > 0
  PROVE  Defaults(c, q) = q
<1> DEFINE size == IF c.limit > 0 /\ q.size <= 0 THEN c.limit ELSE q.size
           number == IF ~cursorPagination(c, q) /\ size > 0 /\ q.number <= 0
                     THEN 1 ELSE q.number
           after == IF /\ cursorPagination(c, q) /\ size > 0
                       /\ q.after = NoCursor /\ q.before = NoCursor
                    THEN blankCursor ELSE q.after
<1>1. q.size \in Int /\ q.number \in Int
  BY DEF IsQuery
<1>2. size = q.size /\ number = q.number /\ after = q.after
  BY <1>1
<1>3. Defaults(c, q) = [q EXCEPT !.size = size, !.number = number, !.after = after]
  BY DEF Defaults
<1> HIDE DEF size, number, after
<1>4. Defaults(c, q) = [q EXCEPT !.size = q.size, !.number = q.number, !.after = q.after]
  BY <1>2, <1>3
<1> QED
  BY <1>4 DEF IsQuery

(* The first query of a walk.                                              *)
LEMMA DefaultsComplete ==
  ASSUME NEW c \in Configs, c.limit > 0, NEW q, IsQuery(q), q.size \in Nat
  PROVE  /\ IsQuery(Defaults(c, q)) /\ Defaults(c, q).size \in Nat \ {0}
         /\ Defaults(c, q).filters = q.filters /\ Defaults(c, q).search = q.search
         /\ Defaults(c, q).sort = q.sort /\ Defaults(c, q).kind = q.kind
         /\ Defaults(c, q).before = q.before
<1> DEFINE size == IF c.limit > 0 /\ q.size <= 0 THEN c.limit ELSE q.size
           number == IF ~cursorPagination(c, q) /\ size > 0 /\ q.number <= 0
                     THEN 1 ELSE q.number
           after == IF /\ cursorPagination(c, q) /\ size > 0
                       /\ q.after = NoCursor /\ q.before = NoCursor
                    THEN blankCursor ELSE q.after
<1>1. c.limit \in Nat
  BY ControllerAssumption
<1>2. size \in Nat \ {0}
  BY <1>1
<1>3. Defaults(c, q) = [q EXCEPT !.size = size, !.number = number, !.after = after]
  BY DEF Defaults
<1> HIDE DEF size, number, after
<1>4. Defaults(c, q) =
        [f \in QueryFields |-> IF f = "size" THEN size
                               ELSE IF f = "number" THEN number
                               ELSE IF f = "after" THEN after ELSE q[f]]
  BY <1>3 DEF IsQuery, QueryFields
<1> QED
  BY <1>2, <1>4, DefaultsOf DEF QueryFields

LEMMA ContinuedList ==
  ASSUME NEW c, NEW p, NEW q, Continues(p, q)
  PROVE  /\ cursorPagination(c, p) = cursorPagination(c, q)
         /\ Sorting(c, p) = Sorting(c, q)
         /\ \A view, u : Matching(c, view, u, p, Ids) = Matching(c, view, u, q, Ids)
BY DEF Continues, cursorPagination, Sorting, Matching, Matches

LEMMA MatchingStored ==
  ASSUME NEW c, NEW view, NEW u, NEW q
  PROVE  Matching(c, view, u, q, Ids) \in SUBSET Stored(view)
BY DEF Matching, Selected, Live

(* With cursors the identifier comes last.                                 *)
LEMMA CursorOrder ==
  ASSUME NEW c, NEW q, q.sort \in Orders, q.size > 0, cursorPagination(c, q)
  PROVE  /\ Sorting(c, q) \in Orders
         /\ \E n \in Nat : /\ Len(Sorting(c, q)) = n + 1
                           /\ Sorting(c, q)[n + 1].key = "_id"
<1> DEFINE last == [key |-> "_id", desc |-> FALSE]
           S == [key : SortFields, desc : BOOLEAN]
<1>1. last \in S
  BY DEF SortFields
<1>2. Sorting(c, q) = q.sort \o <<last>>
  BY DEF Sorting
<1>3. last.key = "_id"
  OBVIOUS
<1> HIDE DEF last, S
<1>4. <<last>> \in Seq(S) /\ Len(<<last>>) = 1 /\ <<last>>[1] = last
  BY <1>1
<1>5. q.sort \in Seq(S) /\ Len(q.sort) \in Nat
  BY LenProperties DEF Orders, S
<1>6. PICK s : s = q.sort
  OBVIOUS
<1>7. /\ s \o <<last>> \in Seq(S) /\ Len(s \o <<last>>) = Len(s) + 1
      /\ \A i \in 1..(Len(s) + 1) :
           (s \o <<last>>)[i] = IF i <= Len(s) THEN s[i] ELSE <<last>>[i - Len(s)]
  BY <1>4, <1>5, <1>6, ConcatProperties
<1>8. Len(s) + 1 \in 1..(Len(s) + 1) /\ ~(Len(s) + 1 <= Len(s)) /\ Len(s) + 1 - Len(s) = 1
  BY <1>5, <1>6
<1>9. (s \o <<last>>)[Len(s) + 1] = last
  BY <1>4, <1>7, <1>8
<1> QED
  BY <1>2, <1>3, <1>5, <1>6, <1>7, <1>9 DEF Orders, S

LEMMA CursorDistinct ==
  ASSUME NEW order \in Orders, NEW n \in Nat, Len(order) = n + 1, order[n + 1].key = "_id",
         NEW view
  PROVE  /\ \A docs : Distinct(view, docs, order)
         /\ \A d \in Ids : Keys(view, d, order) # NoCursor /\ Keys(view, d, order) # blankCursor
<1>1. n + 1 \in DOMAIN order /\ DOMAIN order = 1..(n + 1)
  BY OrderOf
<1>2. ASSUME NEW d
      PROVE  Keys(view, d, order)[n + 1] = d /\ DOMAIN Keys(view, d, order) = 1..(n + 1)
  BY <1>1 DEF Keys
<1>3. ASSUME NEW d \in Ids
      PROVE  Keys(view, d, order) # NoCursor /\ Keys(view, d, order) # blankCursor
  <2>1. d # 0
    BY ListsAssumption DEF None
  <2>2. DOMAIN NoCursor = {} /\ DOMAIN blankCursor = {1} /\ blankCursor[1] = 0
    BY DEF NoCursor, blankCursor
  <2>3. Keys(view, d, order) # NoCursor
    BY <1>1, <1>2, <2>2
  <2>4. ASSUME Keys(view, d, order) = blankCursor
        PROVE  FALSE
    <3>1. 1..(n + 1) = {1}
      BY <1>2, <2>2, <2>4
    <3>2. n + 1 \in 1..(n + 1)
      OBVIOUS
    <3>3. n + 1 = 1
      BY <3>1, <3>2
    <3> QED
      BY <1>2, <2>1, <2>2, <2>4, <3>3
  <2> QED
    BY <2>3, <2>4
<1>4. \A docs : Distinct(view, docs, order)
  BY <1>2 DEF Distinct
<1> QED
  BY <1>3, <1>4

(* z is the page of q at a cursor.                                         *)
CutAt(z, q, before, after) ==
  IsQuery(z) /\ Continues(z, q) /\ z.before = before /\ z.after = after

LEMMA Cut ==
  ASSUME NEW q, IsQuery(q), NEW x, NEW y
  PROVE  /\ CutAt([q EXCEPT !.before = x, !.after = y], q, x, y)
         /\ CutAt([q EXCEPT !.after = y, !.before = x], q, x, y)
<1> DEFINE z == [f \in QueryFields |-> IF f = "before" THEN x
                                       ELSE IF f = "after" THEN y ELSE q[f]]
<1>1. [q EXCEPT !.before = x] = [f \in QueryFields |-> IF f = "before" THEN x ELSE q[f]]
  BY DEF IsQuery, QueryFields
<1>2. [q EXCEPT !.after = y] = [f \in QueryFields |-> IF f = "after" THEN y ELSE q[f]]
  BY DEF IsQuery, QueryFields
<1>3. z = [q EXCEPT !.before = x, !.after = y]
  BY <1>1, <1>2 DEF QueryFields
<1>4. z = [q EXCEPT !.after = y, !.before = x]
  BY <1>1, <1>2 DEF QueryFields
<1>5. CutAt(z, q, x, y)
  BY DEF IsQuery, QueryFields, Continues, CutAt
<1> HIDE DEF z
<1> QED
  BY <1>3, <1>4, <1>5, Zenon

LEMMA ContinuesOn ==
  ASSUME NEW x, NEW p, NEW q, Continues(x, p), Continues(p, q)
  PROVE  Continues(x, q)
BY DEF Continues

(* p is a page of q at a cursor.                                           *)
CursorQuery(c, p, q) ==
  /\ c \in Configs /\ IsQuery(p) /\ Continues(p, q)
  /\ q.size \in Nat \ {0} /\ cursorPagination(c, q) /\ q.search = {}
  /\ p.after # NoCursor \/ p.before # NoCursor

LinkedAt(c, view, u, p, page, order) ==
  listLinks(c, view, u, p, Ids, page) = CursorLinks(view, p, order, page)

LEMMA CursorPages ==
  ASSUME NEW c, NEW view, NEW u, NEW q, NEW p, CursorQuery(c, p, q),
         NEW page \in loadModels(c, view, u, p, Ids)
  PROVE  /\ page \in CursorPage(view, Matching(c, view, u, q, Ids), Sorting(c, q), p)
         /\ LinkedAt(c, view, u, p, page, Sorting(c, q))
<1> USE DEF CursorQuery
<1>1. /\ cursorPagination(c, p) /\ Sorting(c, p) = Sorting(c, q)
      /\ Matching(c, view, u, p, Ids) = Matching(c, view, u, q, Ids)
  BY ContinuedList
<1>2. p.size = q.size /\ p.search = {} /\ p.size > 0 /\ ~(p.size <= 0)
  BY DEF Continues
<1>3. Defaults(c, p) = p
  BY <1>1, <1>2, DefaultsKept
<1>4. page \in CursorPage(view, Matching(c, view, u, q, Ids), Sorting(c, q), p)
  BY <1>1, <1>2, <1>3 DEF loadModels
<1>5. listLinks(c, view, u, p, Ids, page) = CursorLinks(view, p, Sorting(c, q), page)
  BY <1>1, <1>2, <1>3 DEF listLinks
<1> QED
  BY <1>4, <1>5 DEF LinkedAt

LEMMA PageAt ==
  ASSUME NEW view, NEW docs, NEW order, NEW p, p.search = {},
         NEW page \in CursorPage(view, docs, order, p)
  PROVE  /\ p.before = NoCursor =>
              page \in FindAll(view, Ahead(view, docs, p.after, order), order, 0, p.size)
         /\ p.before # NoCursor =>
              \E s \in FindAll(view, Ahead(view, docs, p.before, ReverseSort(order)),
                               ReverseSort(order), 0, p.size) : page = Reverse(s)
<1>1. \A o : TextScoreSort(p, o) = o
  BY DEF TextScoreSort
<1>2. CASE p.before = NoCursor
  BY <1>1, <1>2 DEF CursorPage, Ahead
<1>3. CASE p.before # NoCursor
  BY <1>1, <1>3 DEF CursorPage, Ahead
<1> QED
  BY <1>2, <1>3

(* page is a page of q at a cursor, with its links.                        *)
CursorStep(c, view, u, q, p, steady, seen, order, page, links) ==
  /\ c \in Configs /\ view \in Views /\ IsQuery(p) /\ Continues(p, q)
  /\ q.size \in Nat \ {0} /\ q.sort \in Orders /\ cursorPagination(c, q) /\ q.search = {}
  /\ steady \in SUBSET Matching(c, view, u, q, Ids) /\ seen \in Seq(Ids)
  /\ order = Sorting(c, q) /\ InOrder(view, seen, steady, order)
  /\ page \in loadModels(c, view, u, p, Ids) /\ links = listLinks(c, view, u, p, Ids, page)

LEMMA WalkForward ==
  ASSUME NEW c, NEW view, NEW u, NEW q, NEW p, NEW steady, NEW seen, NEW order, NEW page,
         NEW links, CursorStep(c, view, u, q, p, steady, seen, order, page, links),
         Onward(view, seen, steady, p, order)
  PROVE  /\ Seen(view, seen \o page, steady, order, links.next)
         /\ \A x \in links.next : Onward(view, seen \o page, steady, x, order)
<1>1. PICK next : next = listLinks(c, view, u, p, Ids, page).next
  OBVIOUS
<1>2. links.next = next
  BY <1>1 DEF CursorStep
<1>3. /\ c \in Configs /\ view \in Views /\ IsQuery(p) /\ Continues(p, q)
      /\ q.size \in Nat \ {0} /\ q.sort \in Orders /\ cursorPagination(c, q) /\ q.search = {}
      /\ steady \in SUBSET Matching(c, view, u, q, Ids) /\ seen \in Seq(Ids)
      /\ order = Sorting(c, q) /\ InOrder(view, seen, steady, order)
      /\ p.before = NoCursor /\ p.after # NoCursor /\ Reached(view, seen, steady, p.after, order)
      /\ page \in loadModels(c, view, u, p, Ids)
  BY DEF CursorStep, Onward
<1> USE <1>1, <1>3
<1> DEFINE docs == Matching(c, view, u, q, Ids)
           beyond == Ahead(view, docs, p.after, order)
           first == {[p EXCEPT !.before = NoCursor, !.after = blankCursor]}
           last == {[p EXCEPT !.before = blankCursor, !.after = NoCursor]}
           key == Keys(view, Last(page), order)
           cut == [p EXCEPT !.after = key, !.before = NoCursor]
<1>4. /\ page \in FindAll(view, beyond, order, 0, q.size)
      /\ listLinks(c, view, u, p, Ids, page) = CursorLinks(view, p, order, page)
  <2>1. CursorQuery(c, p, q)
    BY DEF CursorQuery
  <2>2. page \in CursorPage(view, docs, order, p)
    BY <2>1, CursorPages, Zenon
  <2>3. LinkedAt(c, view, u, p, page, order)
    BY <2>1, CursorPages, Zenon
  <2>4. p.size = q.size /\ p.search = {}
    BY DEF Continues
  <2> QED
    BY <2>2, <2>3, <2>4, PageAt DEF LinkedAt
<1>5. order \in Orders /\ \E n \in Nat : Len(order) = n + 1 /\ order[n + 1].key = "_id"
  BY CursorOrder
<1>6. docs \in SUBSET Stored(view) /\ docs \in SUBSET Ids
  BY MatchingStored, StoredIds
<1>7. Distinct(view, docs, order)
  BY <1>5, CursorDistinct
<1>8. \A d \in Ids : Keys(view, d, order) # NoCursor /\ Keys(view, d, order) # blankCursor
  BY <1>5, CursorDistinct
<1>9. next = IF page = <<>> THEN IF p.before # NoCursor THEN first ELSE NullLink
             ELSE IF {p} = last \/ (p.after # NoCursor /\ Len(page) # p.size) THEN NullLink
             ELSE {cut}
  BY <1>4 DEF CursorLinks
<1>10. {p} # last
  <2>1. PICK z : last = {z} /\ CutAt(z, p, blankCursor, NoCursor)
    BY Cut, Zenon
  <2>2. z.after = NoCursor
    BY <2>1 DEF CutAt
  <2>3. last = {z}
    BY <2>1, Zenon
  <2> HIDE DEF last
  <2> QED
    BY <2>2, <2>3
<1> HIDE DEF first, last, cut, key
<1>11. /\ page \in Seq(docs) /\ Len(page) \in Nat /\ DOMAIN page = 1..Len(page)
       /\ \A i, j \in DOMAIN page : i < j => After(view, page[j], page[i], order)
       /\ \A d \in Range(page), e \in Range(seen) \cap steady : After(view, d, e, order)
       /\ Complete(page, q.size, Range(seen) \cup Range(page), steady)
       /\ Len(page) # 0 => Passed(view, Range(seen) \cup Range(page), steady, key, order)
  <2>1. key = Keys(view, page[Len(page)], order)
    BY DEF Last, key
  <2>2. Browsed(view, docs, seen, steady, p.after, order)
    BY <1>5, <1>6, <1>7 DEF Browsed
  <2>3. page \in FindAll(view, Ahead(view, docs, p.after, order), order, 0, q.size)
    BY <1>4
  <2> HIDE DEF docs
  <2>4. /\ page \in Seq(docs) /\ Len(page) \in Nat /\ DOMAIN page = 1..Len(page)
        /\ \A i, j \in DOMAIN page : i < j => After(view, page[j], page[i], order)
        /\ \A d \in Range(page), e \in Range(seen) \cap steady : After(view, d, e, order)
        /\ Complete(page, q.size, Range(seen) \cup Range(page), steady)
        /\ Len(page) # 0 => Passed(view, Range(seen) \cup Range(page), steady,
                                   Keys(view, page[Len(page)], order), order)
    BY <2>2, <2>3, NextPage, Zenon
  <2> QED
    BY <2>1, <2>4, Zenon
<1>12. page \in Seq(Ids) /\ Range(seen \o page) = Range(seen) \cup Range(page)
  BY <1>6, <1>11, SeqMonotonic, RangeConcatenation
<1>13. InOrder(view, seen \o page, steady, order)
  <2>1. InOrder(view, page, steady, order)
    BY <1>11 DEF InOrder
  <2>2. \A d \in Range(seen) \cap steady, e \in Range(page) \cap steady : After(view, e, d, order)
    BY <1>11
  <2> QED
    BY <1>12, <2>1, <2>2, JoinedOrder
<1>14. Len(page) # q.size => steady \subseteq Range(seen \o page)
  BY <1>11, <1>12 DEF Complete
<1>15. next = {} \/ (next = {cut} /\ Len(page) # 0)
  <2>1. Len(page) = 0 => page = <<>>
    BY <1>12, EmptySeq
  <2> QED
    BY <1>9, <1>10, <2>1 DEF NullLink
<1>16. next = {} => Len(page) # q.size
  <2>1. page = <<>> => Len(page) = 0
    OBVIOUS
  <2>2. p.size = q.size
    BY DEF Continues
  <2> QED
    BY <1>9, <1>10, <2>1, <2>2
<1>17. ASSUME NEW x \in next
       PROVE  /\ x.before = NoCursor /\ x.after # NoCursor
              /\ Reached(view, seen \o page, steady, x.after, order)
  <2>1. x = cut /\ Len(page) # 0
    BY <1>15, <1>17
  <2>2. CutAt(x, p, NoCursor, key)
    BY <2>1, Cut, Zenon DEF cut
  <2>3. IsQuery(x) /\ Continues(x, p) /\ x.before = NoCursor /\ x.after = key
    BY <2>2 DEF CutAt
  <2>4. Last(page) \in Ids
    <3>1. Len(page) \in 1..Len(page)
      BY <1>11, <2>1
    <3> QED
      BY <1>12, <3>1, ElementOfSeq DEF Last
  <2>5. key # NoCursor /\ key # blankCursor
    BY <1>8, <2>4 DEF key
  <2>6. Reached(view, seen \o page, steady, key, order)
    BY <1>11, <1>12, <2>1, <2>5 DEF Reached
  <2> QED
    BY <2>3, <2>5, <2>6
<1> QED
  BY <1>2, <1>13, <1>14, <1>16, <1>17 DEF Seen, Onward

LEMMA AfterReversed ==
  ASSUME NEW order \in Orders, NEW view \in Views, NEW d \in Stored(view), NEW e \in Stored(view),
         After(view, d, e, ReverseSort(order))
  PROVE  After(view, e, d, order)
<1>1. /\ Keys(view, d, ReverseSort(order)) = Keys(view, d, order)
      /\ Keys(view, e, ReverseSort(order)) = Keys(view, e, order)
  BY KeysReversed
<1>2. /\ Keys(view, d, order) \in [DOMAIN order -> Int]
      /\ Keys(view, e, order) \in [DOMAIN order -> Int]
  BY KeysOf
<1> QED
  BY <1>1, <1>2, BeyondReversed DEF After

LEMMA WalkBack ==
  ASSUME NEW c, NEW view, NEW u, NEW q, NEW p, NEW steady, NEW seen, NEW order, NEW page,
         NEW links, CursorStep(c, view, u, q, p, steady, seen, order, page, links),
         Backward(view, seen, steady, p, order)
  PROVE  /\ Seen(view, page \o seen, steady, order, links.previous)
         /\ \A x \in links.previous : Backward(view, page \o seen, steady, x, order)
<1>1. PICK previous : previous = listLinks(c, view, u, p, Ids, page).previous
  OBVIOUS
<1>2. links.previous = previous
  BY <1>1 DEF CursorStep
<1>3. PICK reverse : reverse = ReverseSort(order)
  OBVIOUS
<1>4. /\ c \in Configs /\ view \in Views /\ IsQuery(p) /\ Continues(p, q)
      /\ q.size \in Nat \ {0} /\ q.sort \in Orders /\ cursorPagination(c, q) /\ q.search = {}
      /\ steady \in SUBSET Matching(c, view, u, q, Ids) /\ seen \in Seq(Ids)
      /\ order = Sorting(c, q) /\ InOrder(view, seen, steady, order)
      /\ p.after = NoCursor /\ p.before # NoCursor
      /\ Reached(view, seen, steady, p.before, reverse)
      /\ page \in loadModels(c, view, u, p, Ids)
  BY <1>3 DEF CursorStep, Backward
<1> USE <1>1, <1>3, <1>4
<1> DEFINE docs == Matching(c, view, u, q, Ids)
           first == {[p EXCEPT !.before = NoCursor, !.after = blankCursor]}
           last == {[p EXCEPT !.before = blankCursor, !.after = NoCursor]}
           key == Keys(view, Head(page), order)
           cut == [p EXCEPT !.after = NoCursor, !.before = key]
<1>5. /\ \E s \in FindAll(view, Ahead(view, docs, p.before, reverse), reverse, 0, q.size) :
           page = Reverse(s)
      /\ listLinks(c, view, u, p, Ids, page) = CursorLinks(view, p, order, page)
  <2>1. CursorQuery(c, p, q)
    BY DEF CursorQuery
  <2>2. page \in CursorPage(view, docs, order, p)
    BY <2>1, CursorPages, Zenon
  <2>3. LinkedAt(c, view, u, p, page, order)
    BY <2>1, CursorPages, Zenon
  <2>4. p.size = q.size /\ p.search = {}
    BY DEF Continues
  <2> QED
    BY <2>2, <2>3, <2>4, PageAt DEF LinkedAt
<1>6. PICK s \in FindAll(view, Ahead(view, docs, p.before, reverse), reverse, 0, q.size) :
        page = Reverse(s)
  BY <1>5
<1>7. order \in Orders /\ \E n \in Nat : Len(order) = n + 1 /\ order[n + 1].key = "_id"
  BY CursorOrder
<1>8. docs \in SUBSET Stored(view) /\ docs \in SUBSET Ids
  BY MatchingStored, StoredIds
<1>9. \A d \in Ids : Keys(view, d, order) # NoCursor /\ Keys(view, d, order) # blankCursor
  BY <1>7, CursorDistinct
<1>10. reverse \in Orders /\ Distinct(view, docs, reverse)
  <2>1. Distinct(view, docs, order)
    BY <1>7, CursorDistinct
  <2> QED
    BY <1>7, <2>1, ReverseOrder, KeysReversed DEF Distinct
<1>11. previous = IF page = <<>> THEN IF p.before # NoCursor THEN NullLink ELSE last
                  ELSE IF {p} = first \/ (p.before # NoCursor /\ Len(page) # p.size) THEN NullLink
                  ELSE {cut}
  BY <1>5 DEF CursorLinks
<1>12. {p} # first
  <2>1. PICK z : first = {z} /\ CutAt(z, p, NoCursor, blankCursor)
    BY Cut, Zenon
  <2>2. z.before = NoCursor
    BY <2>1 DEF CutAt
  <2>3. first = {z}
    BY <2>1, Zenon
  <2> HIDE DEF first
  <2> QED
    BY <2>2, <2>3
<1> HIDE DEF first, last, cut, key
<1>13. /\ s \in Seq(docs) /\ Len(s) \in Nat /\ DOMAIN s = 1..Len(s)
       /\ \A i, j \in DOMAIN s : i < j => After(view, s[j], s[i], reverse)
       /\ \A d \in Range(s), e \in Range(seen) \cap steady : After(view, d, e, reverse)
       /\ Complete(s, q.size, Range(seen) \cup Range(s), steady)
       /\ Len(s) # 0 => Passed(view, Range(seen) \cup Range(s), steady,
                               Keys(view, s[Len(s)], reverse), reverse)
  <2>1. Browsed(view, docs, seen, steady, p.before, reverse)
    BY <1>8, <1>10 DEF Browsed
  <2>2. s \in FindAll(view, Ahead(view, docs, p.before, reverse), reverse, 0, q.size)
    OBVIOUS
  <2> HIDE DEF docs
  <2>3. s \in Seq(docs)
    BY <2>1, <2>2, NextPage, Zenon
  <2>4. s \in Seq(docs) /\ Len(s) \in Nat /\ DOMAIN s = 1..Len(s)
    BY <2>3, LenProperties
  <2>5. \A i, j \in DOMAIN s : i < j => After(view, s[j], s[i], reverse)
    BY <2>1, <2>2, NextPage, Zenon
  <2>6. \A d \in Range(s), e \in Range(seen) \cap steady : After(view, d, e, reverse)
    BY <2>1, <2>2, NextPage, Zenon
  <2>7. Complete(s, q.size, Range(seen) \cup Range(s), steady)
    BY <2>1, <2>2, NextPage, Zenon
  <2>8. Len(s) # 0 => Passed(view, Range(seen) \cup Range(s), steady,
                             Keys(view, s[Len(s)], reverse), reverse)
    BY <2>1, <2>2, NextPage, Zenon
  <2> QED
    BY <2>4, <2>5, <2>6, <2>7, <2>8, Zenon
<1>14. /\ page \in Seq(Ids) /\ Len(page) = Len(s) /\ Range(page) = Range(s)
       /\ DOMAIN page = 1..Len(s)
       /\ \A i \in 1..Len(s) : page[i] = s[Len(s) - i + 1]
  <2>1. s \in Seq(Ids)
    BY <1>8, <1>13, SeqMonotonic
  <2> QED
    BY <1>6, <2>1, Reversed
<1>15. Range(page \o seen) = Range(seen) \cup Range(s)
  <2>1. Range(page \o seen) = Range(page) \cup Range(seen)
    BY <1>14, RangeConcatenation
  <2> QED
    BY <1>14, <2>1
<1>16. \A d \in Range(s) : d \in Stored(view)
  <2>1. \A i \in 1..Len(s) : s[i] \in docs
    BY <1>13, ElementOfSeq
  <2> QED
    BY <1>8, <1>13, <2>1 DEF Range
<1>17. InOrder(view, page \o seen, steady, order)
  <2>1. ASSUME NEW i \in DOMAIN page, NEW j \in DOMAIN page, i < j
        PROVE  After(view, page[j], page[i], order)
    <3>1. Len(s) \in Nat /\ DOMAIN s = 1..Len(s) /\ i \in 1..Len(s) /\ j \in 1..Len(s)
      BY <1>13, <1>14, Zenon
    <3>2. /\ Len(s) - i + 1 \in 1..Len(s) /\ Len(s) - j + 1 \in 1..Len(s)
          /\ Len(s) - j + 1 < Len(s) - i + 1
      BY <2>1, <3>1
    <3>3. PICK k \in DOMAIN s, l \in DOMAIN s : l < k /\ page[i] = s[k] /\ page[j] = s[l]
      BY <1>14, <3>1, <3>2
    <3>4. After(view, s[k], s[l], reverse)
      BY <1>13, <3>3
    <3>5. s[k] \in Stored(view) /\ s[l] \in Stored(view)
      BY <1>16 DEF Range
    <3> QED
      BY <1>7, <3>3, <3>4, <3>5, AfterReversed
  <2>2. InOrder(view, page, steady, order)
    BY <2>1 DEF InOrder
  <2>3. ASSUME NEW d \in Range(page) \cap steady, NEW e \in Range(seen) \cap steady
        PROVE  After(view, e, d, order)
    <3>1. After(view, d, e, reverse) /\ d \in Stored(view) /\ e \in Stored(view)
      BY <1>8, <1>13, <1>14, <1>16
    <3> QED
      BY <1>7, <3>1, AfterReversed
  <2> QED
    BY <1>14, <2>2, <2>3, JoinedOrder
<1>18. Len(page) # q.size => steady \subseteq Range(page \o seen)
  BY <1>13, <1>14, <1>15 DEF Complete
<1>19. previous = {} \/ (previous = {cut} /\ Len(page) # 0)
  <2>1. Len(page) = 0 => page = <<>>
    BY <1>14, EmptySeq
  <2> QED
    BY <1>11, <1>12, <2>1 DEF NullLink
<1>20. previous = {} => Len(page) # q.size
  <2>1. page = <<>> => Len(page) = 0
    OBVIOUS
  <2>2. p.size = q.size
    BY DEF Continues
  <2> QED
    BY <1>11, <1>12, <2>1, <2>2
<1>21. ASSUME NEW x \in previous
       PROVE  /\ x.after = NoCursor /\ x.before # NoCursor
              /\ Reached(view, page \o seen, steady, x.before, reverse)
  <2>1. x = cut /\ Len(s) # 0
    BY <1>14, <1>19, <1>21
  <2>2. CutAt(x, p, key, NoCursor)
    BY <2>1, Cut, Zenon DEF cut
  <2>3. IsQuery(x) /\ Continues(x, p) /\ x.after = NoCursor /\ x.before = key
    BY <2>2 DEF CutAt
  <2>4. Len(s) \in Nat
    BY <1>13, Zenon
  <2>5. 1 \in 1..Len(s) /\ Len(s) - 1 + 1 = Len(s)
    BY <2>1, <2>4
  <2>6. Head(page) = s[Len(s)] /\ s[Len(s)] \in Ids
    <3>1. page[1] = s[Len(s)] /\ page[1] \in Ids
      BY <1>14, <2>5, ElementOfSeq
    <3> QED
      BY <3>1
  <2>7. key # NoCursor /\ key # blankCursor
    BY <1>9, <2>6 DEF key
  <2>8. key = Keys(view, s[Len(s)], reverse)
    BY <1>7, <2>6, KeysReversed DEF key
  <2>9. Reached(view, page \o seen, steady, key, reverse)
    BY <1>13, <1>15, <2>1, <2>7, <2>8 DEF Reached
  <2> QED
    BY <2>3, <2>7, <2>9
<1> QED
  BY <1>2, <1>17, <1>18, <1>20, <1>21 DEF Seen, Backward

-----------------------------------------------------------------------------
(***************************************************************************)
(* Pages by number are pieces of one list.                                 *)
(***************************************************************************)

LEMMA UpToPiece ==
  ASSUME NEW S, NEW s \in Seq(S), NEW seen \in Seq(S), NEW page \in Seq(S),
         NEW skip \in Nat, NEW size \in Nat \ {0},
         UpTo(seen, s, skip), Piece(page, s, skip, size)
  PROVE  UpTo(seen \o page, s, skip + size)
<1>1. /\ Len(s) \in Nat /\ Len(seen) \in Nat /\ DOMAIN seen = 1..Len(seen)
      /\ Len(page) \in Nat /\ DOMAIN page = 1..Len(page)
  BY LenProperties
<1> DEFINE t == seen \o page
<1>2. /\ t \in Seq(S) /\ Len(t) = Len(seen) + Len(page)
      /\ \A i \in 1..(Len(seen) + Len(page)) :
           t[i] = IF i <= Len(seen) THEN seen[i] ELSE page[i - Len(seen)]
  BY ConcatProperties
<1> HIDE DEF t
<1>3. DOMAIN t = 1..(Len(seen) + Len(page))
  BY <1>2, LenProperties
<1>4. PICK n \in Nat, m \in Nat, k \in Nat : n = Len(s) /\ m = Len(seen) /\ k = Len(page)
  BY <1>1
<1>5. /\ m = IF skip < n THEN skip ELSE n
      /\ k = IF skip + size <= n THEN size ELSE IF skip < n THEN n - skip ELSE 0
  BY <1>4 DEF UpTo, Piece
<1>6. m + k = (IF skip + size < n THEN skip + size ELSE n) /\ (k > 0 => m = skip)
  BY <1>5
<1>7. Len(t) = IF skip + size < Len(s) THEN skip + size ELSE Len(s)
  BY <1>2, <1>4, <1>6
<1>8. ASSUME NEW i \in DOMAIN t
      PROVE  t[i] = s[i]
  <2>1. i \in Int /\ 1 <= i /\ i <= Len(seen) + Len(page)
    BY <1>1, <1>3
  <2>2. CASE i <= Len(seen)
    BY <1>1, <1>2, <1>3, <2>1, <2>2 DEF UpTo
  <2>3. CASE ~(i <= Len(seen))
    <3>1. i - Len(seen) \in DOMAIN page /\ t[i] = page[i - Len(seen)]
      BY <1>1, <1>2, <1>3, <2>1, <2>3
    <3>2. Len(seen) = skip
      BY <1>4, <1>6, <2>1, <2>3
    <3>3. t[i] = s[skip + (i - Len(seen))]
      BY <3>1 DEF Piece
    <3>4. skip + (i - Len(seen)) = i
      BY <1>1, <2>1, <3>2
    <3> QED
      BY <3>3, <3>4
  <2> QED
    BY <2>2, <2>3
<1> QED
  BY <1>7, <1>8 DEF UpTo, t

LEMMA FromPiece ==
  ASSUME NEW S, NEW s \in Seq(S), NEW seen \in Seq(S), NEW page \in Seq(S),
         NEW skip \in Nat, NEW size \in Nat \ {0},
         From(seen, s, skip + size), Piece(page, s, skip, size)
  PROVE  From(page \o seen, s, skip)
<1>1. /\ Len(s) \in Nat /\ Len(seen) \in Nat /\ DOMAIN seen = 1..Len(seen)
      /\ Len(page) \in Nat /\ DOMAIN page = 1..Len(page)
  BY LenProperties
<1> DEFINE t == page \o seen
<1>2. /\ t \in Seq(S) /\ Len(t) = Len(page) + Len(seen)
      /\ \A i \in 1..(Len(page) + Len(seen)) :
           t[i] = IF i <= Len(page) THEN page[i] ELSE seen[i - Len(page)]
  BY ConcatProperties
<1> HIDE DEF t
<1>3. DOMAIN t = 1..(Len(page) + Len(seen))
  BY <1>2, LenProperties
<1>4. PICK n \in Nat, m \in Nat, k \in Nat : n = Len(s) /\ m = Len(seen) /\ k = Len(page)
  BY <1>1
<1>5. /\ m = IF skip + size < n THEN n - (skip + size) ELSE 0
      /\ k = IF skip + size <= n THEN size ELSE IF skip < n THEN n - skip ELSE 0
  BY <1>4 DEF From, Piece
<1>6. k + m = (IF skip < n THEN n - skip ELSE 0) /\ (m > 0 => k = size)
  BY <1>5
<1>7. Len(t) = IF skip < Len(s) THEN Len(s) - skip ELSE 0
  BY <1>2, <1>4, <1>6
<1>8. ASSUME NEW i \in DOMAIN t
      PROVE  t[i] = s[skip + i]
  <2>1. i \in Int /\ 1 <= i /\ i <= Len(page) + Len(seen)
    BY <1>1, <1>3
  <2>2. CASE i <= Len(page)
    BY <1>1, <1>2, <1>3, <2>1, <2>2 DEF Piece
  <2>3. CASE ~(i <= Len(page))
    <3>1. i - Len(page) \in DOMAIN seen /\ t[i] = seen[i - Len(page)]
      BY <1>1, <1>2, <1>3, <2>1, <2>3
    <3>2. Len(page) = size
      BY <1>4, <1>6, <2>1, <2>3
    <3>3. t[i] = s[skip + size + (i - Len(page))]
      BY <3>1 DEF From
    <3>4. skip + size + (i - Len(page)) = skip + i
      BY <1>1, <2>1, <3>2
    <3> QED
      BY <3>3, <3>4
  <2> QED
    BY <2>2, <2>3
<1> QED
  BY <1>7, <1>8 DEF From, t

(* A piece of a list is in order.                                          *)
LEMMA PieceOrder ==
  ASSUME NEW S, NEW s \in Seq(S), NEW t \in Seq(S), NEW skip \in Nat,
         NEW view, NEW order, NEW steady,
         \A i, j \in DOMAIN s : i < j => After(view, s[j], s[i], order),
         From(t, s, skip) \/ (skip = 0 /\ \E n \in Nat : UpTo(t, s, n))
  PROVE  InOrder(view, t, steady, order)
<1>1. Len(s) \in Nat /\ DOMAIN s = 1..Len(s) /\ Len(t) \in Nat /\ DOMAIN t = 1..Len(t)
  BY LenProperties
<1>2. \A i \in DOMAIN t : skip + i \in DOMAIN s /\ t[i] = s[skip + i]
  <2>1. CASE From(t, s, skip)
    <3>1. Len(t) = IF skip < Len(s) THEN Len(s) - skip ELSE 0
      BY <2>1 DEF From
    <3>2. PICK m \in Nat, k \in Nat : m = Len(s) /\ k = Len(t)
      BY <1>1
    <3>3. k = IF skip < m THEN m - skip ELSE 0
      BY <3>1, <3>2
    <3>4. \A i \in 1..k : skip + i \in 1..m
      BY <3>3
    <3> QED
      BY <1>1, <2>1, <3>2, <3>4 DEF From
  <2>2. CASE skip = 0 /\ \E n \in Nat : UpTo(t, s, n)
    <3>1. \A i \in DOMAIN t : i \in DOMAIN s /\ t[i] = s[i] /\ skip + i = i
      BY <1>1, <2>2 DEF UpTo
    <3> QED
      BY <3>1
  <2> QED
    BY <2>1, <2>2
<1> SUFFICES ASSUME NEW i \in DOMAIN t, NEW j \in DOMAIN t, i < j
             PROVE  After(view, t[j], t[i], order)
  BY DEF InOrder
<1>3. skip + i < skip + j
  BY <1>1
<1> QED
  BY <1>2, <1>3

(* A piece that is the whole list shows all of it.                         *)
LEMMA PieceAll ==
  ASSUME NEW S, NEW s \in Seq(S), NEW t \in Seq(S), NEW n \in Nat, Len(s) <= n,
         From(t, s, 0) \/ UpTo(t, s, n)
  PROVE  Range(t) = Range(s)
<1>1. Len(s) \in Nat /\ DOMAIN s = 1..Len(s) /\ Len(t) \in Nat /\ DOMAIN t = 1..Len(t)
  BY LenProperties
<1>2. Len(t) = Len(s) /\ \A i \in 1..Len(s) : t[i] = s[i]
  <2>1. CASE From(t, s, 0)
    <3>1. Len(t) = Len(s) /\ \A i \in 1..Len(s) : t[i] = s[0 + i] /\ 0 + i = i
      BY <1>1, <2>1 DEF From
    <3> QED
      BY <3>1
  <2>2. CASE UpTo(t, s, n)
    <3>1. Len(t) = IF n < Len(s) THEN n ELSE Len(s)
      BY <2>2 DEF UpTo
    <3>2. PICK m \in Nat : m = Len(s) /\ m <= n
      BY <1>1
    <3>3. Len(t) = Len(s)
      BY <3>1, <3>2
    <3> QED
      BY <1>1, <2>2, <3>3 DEF UpTo
  <2> QED
    BY <2>1, <2>2
<1> QED
  BY <1>1, <1>2, SeqEqual

(* The number of pages.                                                    *)
LEMMA PageCount ==
  ASSUME NEW count \in Nat, NEW size \in Nat \ {0}
  PROVE  LET last == (count + size - 1) \div size
         IN last \in Nat /\ count <= last * size
<1> DEFINE a == count + size - 1
           last == a \div size
<1>1. a \in Nat
  OBVIOUS
<1>2. last \in Nat /\ a < (last + 1) * size
  BY <1>1
<1> HIDE DEF last
<1>3. (last + 1) * size = last * size + size /\ last * size \in Nat
  BY <1>2
<1> QED
  BY <1>2, <1>3 DEF last

(* p is a page of q by number.                                             *)
OffsetQuery(c, p, q) ==
  /\ c \in Configs /\ IsQuery(p) /\ Continues(p, q)
  /\ q.size \in Nat \ {0} /\ q.sort \in Orders /\ ~cursorPagination(c, q) /\ p.number \in Nat

LEMMA OffsetOrder ==
  ASSUME NEW q, q.sort \in Orders
  PROVE  TextScoreSort(q, q.sort) \in Orders
<1> DEFINE S == [key : SortFields, desc : BOOLEAN]
           score == [key |-> "val", desc |-> TRUE]
<1>1. score \in S
  BY DEF SortFields
<1>2. <<score>> \in Seq(S)
  BY <1>1
<1> HIDE DEF S
<1>3. q.sort \in Seq(S)
  BY DEF Orders, S
<1>4. <<score>> \o q.sort \in Seq(S)
  BY <1>2, <1>3, ConcatProperties
<1> QED
  BY <1>4 DEF TextScoreSort, Orders, S

LEMMA Numbered ==
  ASSUME NEW q, IsQuery(q), NEW n \in Int, NEW z, z = [q EXCEPT !.number = n]
  PROVE  IsQuery(z) /\ Continues(z, q) /\ z.number = n
<1>1. z = [f \in QueryFields |-> IF f = "number" THEN n ELSE q[f]]
  BY DEF IsQuery, QueryFields
<1> QED
  BY <1>1 DEF IsQuery, QueryFields, Continues

LEMMA OffsetDefaults ==
  ASSUME NEW c, NEW p, NEW q, OffsetQuery(c, p, q)
  PROVE  /\ Defaults(c, p) = [p EXCEPT !.number = IF p.number = 0 THEN 1 ELSE p.number]
         /\ ~(Defaults(c, p).size <= 0) /\ ~cursorPagination(c, p)
<1> DEFINE size == IF c.limit > 0 /\ p.size <= 0 THEN c.limit ELSE p.size
           number == IF ~cursorPagination(c, p) /\ size > 0 /\ p.number <= 0
                     THEN 1 ELSE p.number
           after == IF /\ cursorPagination(c, p) /\ size > 0
                       /\ p.after = NoCursor /\ p.before = NoCursor
                    THEN blankCursor ELSE p.after
           n == IF p.number = 0 THEN 1 ELSE p.number
<1>1. p.size \in Nat \ {0} /\ p.number \in Nat /\ ~cursorPagination(c, p) /\ IsQuery(p)
  BY DEF OffsetQuery, Continues, cursorPagination
<1>2. size = p.size /\ number = n /\ after = p.after /\ n \in Int
  BY <1>1
<1>3. Defaults(c, p) = [p EXCEPT !.size = size, !.number = number, !.after = after]
  BY DEF Defaults
<1> HIDE DEF size, number, after, n
<1>4. Defaults(c, p) = [f \in QueryFields |-> IF f = "size" THEN size
                                              ELSE IF f = "number" THEN number
                                              ELSE IF f = "after" THEN after ELSE p[f]]
  BY <1>1, <1>3 DEF IsQuery, QueryFields
<1>5. [p EXCEPT !.number = n] = [f \in QueryFields |-> IF f = "number" THEN n ELSE p[f]]
  BY <1>1 DEF IsQuery, QueryFields
<1>6. Defaults(c, p) = [f \in QueryFields |-> IF f = "number" THEN n ELSE p[f]]
  BY <1>2, <1>4 DEF QueryFields
<1>7. Defaults(c, p).size = p.size
  BY <1>6 DEF QueryFields
<1>8. ~(Defaults(c, p).size <= 0)
  BY <1>1, <1>7
<1> QED
  BY <1>1, <1>5, <1>6, <1>8 DEF n

OffsetPageOf(c, view, u, p, q, page, z) ==
  /\ IsQuery(z) /\ Continues(z, q) /\ z.number = (IF p.number = 0 THEN 1 ELSE p.number)
  /\ page \in FindAll(view, Matching(c, view, u, q, Ids), TextScoreSort(q, q.sort),
                      (z.number - 1) * q.size, q.size)
  /\ listLinks(c, view, u, p, Ids, page) =
       OffsetLinks(z, Cardinality(Matching(c, view, u, q, Ids)))

LEMMA OffsetPages ==
  ASSUME NEW c, NEW view, NEW u, NEW q, NEW p, OffsetQuery(c, p, q),
         NEW page \in loadModels(c, view, u, p, Ids)
  PROVE  \E z : OffsetPageOf(c, view, u, p, q, page, z)
<1> DEFINE n == IF p.number = 0 THEN 1 ELSE p.number
<1>1. PICK z : z = Defaults(c, p)
  OBVIOUS
<1>2. z = [p EXCEPT !.number = n] /\ ~(z.size <= 0)
  BY <1>1, OffsetDefaults
<1>3. IsQuery(z) /\ Continues(z, p) /\ z.number = n
  <2>1. n \in Int /\ IsQuery(p)
    BY DEF OffsetQuery
  <2> HIDE DEF n
  <2> QED
    BY <1>2, <2>1, Numbered
<1>4. Continues(z, q)
  BY <1>3, ContinuesOn DEF OffsetQuery
<1>5. ~cursorPagination(c, z) /\ ~cursorPagination(c, p) /\ ~cursorPagination(c, q)
  BY <1>4, ContinuedList DEF OffsetQuery
<1>6. Matching(c, view, u, z, Ids) = Matching(c, view, u, q, Ids)
  BY <1>4, ContinuedList
<1>7. z.size = q.size /\ z.sort = q.sort /\ z.search = q.search
  BY <1>4 DEF Continues
<1>8. page \in OffsetPage(view, Matching(c, view, u, q, Ids), Sorting(c, z), z)
  BY <1>1, <1>2, <1>5, <1>6 DEF loadModels
<1>9. Sorting(c, z) = q.sort
  BY <1>5, <1>7 DEF Sorting
<1>10. TextScoreSort(z, q.sort) = TextScoreSort(q, q.sort)
  BY <1>7 DEF TextScoreSort
<1>11. listLinks(c, view, u, p, Ids, page) =
         OffsetLinks(z, Cardinality(Matching(c, view, u, q, Ids)))
  BY <1>1, <1>2, <1>5, <1>6 DEF listLinks
<1> QED
  BY <1>3, <1>4, <1>7, <1>8, <1>9, <1>10, <1>11 DEF OffsetPage, OffsetPageOf

(* The links to the next and to the previous page, by number.              *)
LEMMA OffsetNeighbours ==
  ASSUME NEW z, IsQuery(z), z.size \in Nat \ {0}, z.number \in Nat \ {0}, NEW count \in Nat,
         NEW next, next = OffsetLinks(z, count).next,
         NEW previous, previous = OffsetLinks(z, count).previous
  PROVE  /\ \A x \in next : IsQuery(x) /\ Continues(x, z) /\ x.number = z.number + 1
         /\ \A x \in previous : /\ IsQuery(x) /\ Continues(x, z) /\ x.number = z.number - 1
                                /\ z.number > 1
         /\ next = {} => count <= z.number * z.size
         /\ previous = {} => z.number = 1
<1> DEFINE lastPage == (count + z.size - 1) \div z.size
           n == z.number
           page(m) == {[z EXCEPT !.number = m]}
<1>1. lastPage \in Nat /\ count <= lastPage * z.size
  BY PageCount
<1>2. /\ next = IF n < lastPage THEN page(n + 1) ELSE {}
      /\ previous = IF n > 1 THEN page(n - 1) ELSE {}
  BY DEF OffsetLinks, NullLink
<1> HIDE DEF lastPage, page
<1>3. ASSUME NEW m \in Int, NEW x \in page(m)
      PROVE  IsQuery(x) /\ Continues(x, z) /\ x.number = m
  BY <1>3, Numbered DEF page
<1>4. \A m : page(m) # {}
  BY DEF page
<1>5. \A x \in next : n < lastPage /\ x \in page(n + 1)
  BY <1>2
<1>6. \A x \in previous : n > 1 /\ x \in page(n - 1)
  BY <1>2
<1>7. n + 1 \in Int /\ n - 1 \in Int
  OBVIOUS
<1>8. next = {} => count <= n * z.size
  <2>1. SUFFICES ASSUME next = {} PROVE count <= n * z.size
    OBVIOUS
  <2>2. n >= lastPage
    BY <1>1, <1>2, <1>4, <2>1
  <2>3. PICK a \in Nat, b \in Nat, s \in Nat : a = n /\ b = lastPage /\ s = z.size
    BY <1>1
  <2>4. b * s <= a * s
    <3>1. PICK k \in Nat : a = b + k
      <4>1. a - b \in Nat /\ a = b + (a - b)
        BY <2>2, <2>3
      <4> QED
        BY <4>1
    <3>2. a * s = b * s + k * s /\ k * s \in Nat /\ b * s \in Nat
      BY <3>1
    <3> QED
      BY <3>2
  <2>5. a * s \in Nat /\ b * s \in Nat
    BY <2>3
  <2> QED
    BY <1>1, <2>3, <2>4, <2>5
<1>9. previous = {} => n = 1
  BY <1>2, <1>4
<1> QED
  BY <1>3, <1>5, <1>6, <1>7, <1>8, <1>9

(* A page by number is a piece of the list.                                *)
LEMMA OffsetPiece ==
  ASSUME NEW order \in Orders, NEW view \in Views, NEW docs \in SUBSET Stored(view),
         Distinct(view, docs, order), NEW skip \in Nat, NEW size \in Nat \ {0},
         NEW page \in FindAll(view, docs, order, skip, size)
  PROVE  /\ page \in Seq(docs)
         /\ \E s \in FindAll(view, docs, order, 0, 0) : Piece(page, s, skip, size)
BY PageOfListing DEF Piece

LEMMA Offsets ==
  ASSUME NEW n \in Nat \ {0}, NEW size \in Nat
  PROVE  (n - 1) * size \in Nat /\ n * size = (n - 1) * size + size /\ (n = 1 => (n - 1) * size = 0)
<1>1. PICK m \in Nat : n = m + 1
  <2>1. n - 1 \in Nat /\ n = n - 1 + 1
    OBVIOUS
  <2> QED
    BY <2>1
<1>2. n - 1 = m /\ m * size \in Nat /\ (m + 1) * size = m * size + size
  BY <1>1
<1> QED
  BY <1>1, <1>2

(* page is a page of q by number, with its links.                          *)
OffsetStep(c, view, u, q, p, docs, seen, order, page, links) ==
  /\ OffsetQuery(c, p, q) /\ view \in Views /\ seen \in Seq(Ids)
  /\ docs = Matching(c, view, u, q, Ids) /\ order = TextScoreSort(q, q.sort)
  /\ Distinct(view, docs, order)
  /\ page \in loadModels(c, view, u, p, Ids) /\ links = listLinks(c, view, u, p, Ids, page)

LEMMA WalkOn ==
  ASSUME NEW c, NEW view, NEW u, NEW q, NEW p, NEW docs, NEW seen, NEW order, NEW page,
         NEW links, OffsetStep(c, view, u, q, p, docs, seen, order, page, links),
         Below(FindAll(view, docs, order, 0, 0), seen, p)
  PROVE  /\ Seen(view, seen \o page, docs, order, links.next)
         /\ \A x \in links.next :
              x.number \in Nat /\ Below(FindAll(view, docs, order, 0, 0), seen \o page, x)
<1>1. PICK next : next = listLinks(c, view, u, p, Ids, page).next
  OBVIOUS
<1>2. links.next = next
  BY <1>1 DEF OffsetStep
<1>3. /\ OffsetQuery(c, p, q) /\ view \in Views /\ seen \in Seq(Ids)
      /\ docs = Matching(c, view, u, q, Ids) /\ order = TextScoreSort(q, q.sort)
      /\ Distinct(view, docs, order) /\ page \in loadModels(c, view, u, p, Ids)
      /\ p.number # 0
      /\ \A s \in FindAll(view, docs, order, 0, 0) : UpTo(seen, s, (p.number - 1) * p.size)
  BY DEF OffsetStep, Below
<1> USE <1>1, <1>3
<1>4. PICK z : OffsetPageOf(c, view, u, p, q, page, z)
  BY OffsetPages, Zenon
<1>5. /\ q.size \in Nat \ {0} /\ p.size = q.size /\ z.size = q.size
      /\ p.number \in Nat \ {0} /\ z.number = p.number
  BY <1>4 DEF OffsetQuery, OffsetPageOf, Continues
<1>6. PICK n \in Nat \ {0}, size \in Nat \ {0}, skip \in Nat :
        /\ n = p.number /\ size = q.size /\ skip = (n - 1) * size
        /\ n * size = skip + size
  BY <1>5, Offsets
<1>7. order \in Orders /\ docs \in SUBSET Stored(view) /\ docs \in SUBSET Ids
  BY OffsetOrder, MatchingStored, StoredIds DEF OffsetQuery
<1>8. page \in FindAll(view, docs, order, skip, size)
  BY <1>4, <1>5, <1>6 DEF OffsetPageOf
<1>9. page \in Seq(docs)
  BY <1>7, <1>8, OffsetPiece
<1>10. PICK s \in FindAll(view, docs, order, 0, 0) : Piece(page, s, skip, size)
  BY <1>7, <1>8, OffsetPiece
<1>11. /\ s \in Seq(docs) /\ Len(s) = Cardinality(docs) /\ Range(s) = docs
       /\ Len(s) \in Nat /\ DOMAIN s = 1..Len(s)
       /\ \A i, j \in DOMAIN s : i < j => After(view, s[j], s[i], order)
  BY <1>7, Listing
<1>12. s \in Seq(Ids) /\ page \in Seq(Ids)
  BY <1>7, <1>9, <1>11, SeqMonotonic
<1>13. UpTo(seen, s, skip)
  BY <1>5, <1>6
<1>14. UpTo(seen \o page, s, skip + size) /\ seen \o page \in Seq(Ids)
  BY <1>10, <1>12, <1>13, UpToPiece, ConcatProperties
<1>15. skip + size \in Nat /\ 0 \in Nat
  OBVIOUS
<1>16. InOrder(view, seen \o page, docs, order)
  BY <1>11, <1>12, <1>14, <1>15, PieceOrder
<1>17. /\ next = OffsetLinks(z, Cardinality(docs)).next
       /\ IsQuery(z) /\ Continues(z, q) /\ z.size \in Nat \ {0} /\ z.number \in Nat \ {0}
  BY <1>4, <1>5 DEF OffsetPageOf
<1>18. /\ \A x \in next : IsQuery(x) /\ Continues(x, z) /\ x.number = z.number + 1
       /\ next = {} => Cardinality(docs) <= z.number * z.size
  BY <1>11, <1>17, OffsetNeighbours
<1>19. ASSUME next = {} PROVE docs \subseteq Range(seen \o page)
  <2>1. Len(s) <= skip + size
    BY <1>5, <1>6, <1>11, <1>18, <1>19
  <2> QED
    BY <1>11, <1>12, <1>14, <1>15, <2>1, PieceAll
<1>20. ASSUME NEW x \in next
       PROVE  /\ IsQuery(x) /\ Continues(x, q) /\ x.number \in Nat \ {0}
              /\ \A t \in FindAll(view, docs, order, 0, 0) :
                   UpTo(seen \o page, t, (x.number - 1) * x.size)
  <2>1. IsQuery(x) /\ Continues(x, q) /\ x.size = q.size
    BY <1>17, <1>18, <1>20, ContinuesOn DEF Continues
  <2>2. x.number = n + 1
    BY <1>5, <1>6, <1>18, <1>20
  <2>3. x.number - 1 = n
    BY <1>6, <2>2
  <2>4. (x.number - 1) * x.size = skip + size
    BY <1>6, <2>1, <2>3
  <2>5. \A t \in FindAll(view, docs, order, 0, 0) : t = s
    BY <1>7, SameListing
  <2> QED
    BY <1>14, <2>1, <2>2, <2>4, <2>5
<1> QED
  BY <1>2, <1>16, <1>19, <1>20 DEF Seen, Below

LEMMA WalkUp ==
  ASSUME NEW c, NEW view, NEW u, NEW q, NEW p, NEW docs, NEW seen, NEW order, NEW page,
         NEW links, OffsetStep(c, view, u, q, p, docs, seen, order, page, links),
         Above(FindAll(view, docs, order, 0, 0), seen, p)
  PROVE  /\ Seen(view, page \o seen, docs, order, links.previous)
         /\ \A x \in links.previous :
              x.number \in Nat /\ Above(FindAll(view, docs, order, 0, 0), page \o seen, x)
<1>1. PICK previous : previous = listLinks(c, view, u, p, Ids, page).previous
  OBVIOUS
<1>2. links.previous = previous
  BY <1>1 DEF OffsetStep
<1>3. /\ OffsetQuery(c, p, q) /\ view \in Views /\ seen \in Seq(Ids)
      /\ docs = Matching(c, view, u, q, Ids) /\ order = TextScoreSort(q, q.sort)
      /\ Distinct(view, docs, order) /\ page \in loadModels(c, view, u, p, Ids)
      /\ \A s \in FindAll(view, docs, order, 0, 0) :
           (p.number = 0 => Len(s) = 0) /\ From(seen, s, p.number * p.size)
  BY DEF OffsetStep, Above
<1> USE <1>1, <1>3
<1>4. PICK z : OffsetPageOf(c, view, u, p, q, page, z)
  BY OffsetPages, Zenon
<1>5. /\ q.size \in Nat \ {0} /\ p.size = q.size /\ z.size = q.size /\ p.number \in Nat
      /\ z.number \in Nat \ {0} /\ z.number = IF p.number = 0 THEN 1 ELSE p.number
  BY <1>4 DEF OffsetQuery, OffsetPageOf, Continues
<1>6. PICK n \in Nat \ {0}, size \in Nat \ {0}, skip \in Nat :
        /\ n = z.number /\ size = q.size /\ skip = (n - 1) * size
        /\ n * size = skip + size /\ (n = 1 => skip = 0)
  BY <1>5, Offsets
<1>7. order \in Orders /\ docs \in SUBSET Stored(view) /\ docs \in SUBSET Ids
  BY OffsetOrder, MatchingStored, StoredIds DEF OffsetQuery
<1>8. page \in FindAll(view, docs, order, skip, size)
  BY <1>4, <1>5, <1>6 DEF OffsetPageOf
<1>9. page \in Seq(docs)
  BY <1>7, <1>8, OffsetPiece
<1>10. PICK s \in FindAll(view, docs, order, 0, 0) : Piece(page, s, skip, size)
  BY <1>7, <1>8, OffsetPiece
<1>11. /\ s \in Seq(docs) /\ Len(s) = Cardinality(docs) /\ Range(s) = docs
       /\ Len(s) \in Nat /\ DOMAIN s = 1..Len(s)
       /\ \A i, j \in DOMAIN s : i < j => After(view, s[j], s[i], order)
  BY <1>7, Listing
<1>12. s \in Seq(Ids) /\ page \in Seq(Ids)
  BY <1>7, <1>9, <1>11, SeqMonotonic
<1>13. From(seen, s, skip + size)
  <2>1. CASE p.number = 0
    <3>1. Len(s) = 0 /\ From(seen, s, 0)
      <4>1. 0 * p.size = 0
        BY <1>5
      <4> QED
        BY <2>1, <4>1
    <3>2. Len(seen) = 0 /\ DOMAIN seen = 1..Len(seen)
      BY <3>1, LenProperties DEF From
    <3>3. ~(skip + size < Len(s))
      BY <3>1
    <3> QED
      BY <3>2, <3>3 DEF From
  <2>2. CASE p.number # 0
    BY <1>5, <1>6, <2>2
  <2> QED
    BY <2>1, <2>2
<1>14. From(page \o seen, s, skip) /\ page \o seen \in Seq(Ids)
  BY <1>10, <1>12, <1>13, FromPiece, ConcatProperties
<1>15. InOrder(view, page \o seen, docs, order)
  BY <1>11, <1>12, <1>14, PieceOrder
<1>16. /\ previous = OffsetLinks(z, Cardinality(docs)).previous
       /\ IsQuery(z) /\ Continues(z, q) /\ z.size \in Nat \ {0} /\ z.number \in Nat \ {0}
  BY <1>4, <1>5 DEF OffsetPageOf
<1>17. /\ \A x \in previous : /\ IsQuery(x) /\ Continues(x, z) /\ x.number = z.number - 1
                              /\ z.number > 1
       /\ previous = {} => z.number = 1
  BY <1>11, <1>16, OffsetNeighbours
<1>18. ASSUME previous = {} PROVE docs \subseteq Range(page \o seen)
  <2>1. From(page \o seen, s, 0)
    BY <1>6, <1>14, <1>17, <1>18
  <2>2. Len(s) <= Len(s)
    BY <1>11
  <2> QED
    BY <1>11, <1>12, <1>14, <2>1, <2>2, PieceAll
<1>19. ASSUME NEW x \in previous
       PROVE  /\ IsQuery(x) /\ Continues(x, q) /\ x.number \in Nat \ {0}
              /\ \A t \in FindAll(view, docs, order, 0, 0) :
                   From(page \o seen, t, x.number * x.size)
  <2>1. IsQuery(x) /\ Continues(x, q) /\ x.size = q.size
    BY <1>16, <1>17, <1>19, ContinuesOn DEF Continues
  <2>2. x.number = n - 1 /\ n > 1
    BY <1>6, <1>17, <1>19
  <2>3. x.number \in Nat \ {0}
    <3>1. n - 1 \in Nat \ {0}
      BY <2>2
    <3> QED
      BY <2>2, <3>1
  <2>4. x.number * x.size = skip
    BY <1>6, <2>1, <2>2
  <2>5. \A t \in FindAll(view, docs, order, 0, 0) : t = s
    BY <1>7, SameListing
  <2> QED
    BY <1>14, <2>1, <2>3, <2>4, <2>5
<1> QED
  BY <1>2, <1>15, <1>18, <1>19 DEF Seen, Above

-----------------------------------------------------------------------------
(***************************************************************************)
(* The steps of a walk.                                                    *)
(***************************************************************************)
LEMMA DefaultsContinue ==
  ASSUME NEW c \in Configs, NEW p, IsQuery(p), p.size \in Nat \ {0}
  PROVE  IsQuery(Defaults(c, p)) /\ Continues(Defaults(c, p), p)
<1> DEFINE size == IF c.limit > 0 /\ p.size <= 0 THEN c.limit ELSE p.size
           number == IF ~cursorPagination(c, p) /\ size > 0 /\ p.number <= 0
                     THEN 1 ELSE p.number
           after == IF /\ cursorPagination(c, p) /\ size > 0
                       /\ p.after = NoCursor /\ p.before = NoCursor
                    THEN blankCursor ELSE p.after
<1>1. size = p.size
  OBVIOUS
<1>2. Defaults(c, p) = [p EXCEPT !.size = size, !.number = number, !.after = after]
  BY DEF Defaults
<1> HIDE DEF size, number, after
<1>3. Defaults(c, p) =
        [f \in QueryFields |-> IF f = "size" THEN size
                               ELSE IF f = "number" THEN number
                               ELSE IF f = "after" THEN after ELSE p[f]]
  BY <1>2 DEF IsQuery, QueryFields
<1> QED
  BY <1>1, <1>3, DefaultsOf DEF QueryFields, Continues

(* The links of a page lead to pages of the same list.                     *)
LEMMA LinksContinue ==
  ASSUME NEW c \in Configs, NEW view, NEW u, NEW p, NEW q, NEW page,
         IsQuery(p), Continues(p, q), q.size \in Nat \ {0}
  PROVE  LET links == listLinks(c, view, u, p, Ids, page)
         IN \A x \in links.first \cup links.last \cup links.previous \cup links.next :
              IsQuery(x) /\ Continues(x, q)
<1>1. PICK z : z = Defaults(c, p)
  OBVIOUS
<1>2. IsQuery(z) /\ Continues(z, q) /\ z.size \in Nat \ {0}
  <2>1. p.size \in Nat \ {0}
    BY DEF Continues
  <2>2. IsQuery(z) /\ Continues(z, p)
    BY <1>1, <2>1, DefaultsContinue
  <2> QED
    BY <2>2, ContinuesOn DEF Continues
<1> DEFINE links == listLinks(c, view, u, p, Ids, page)
           sorting == Sorting(c, z)
           count == Cardinality(Matching(c, view, u, z, Ids))
<1>3. links = IF cursorPagination(c, p) THEN CursorLinks(view, z, sorting, page)
                                        ELSE OffsetLinks(z, count)
  <2>1. ~(z.size <= 0)
    BY <1>2
  <2>2. cursorPagination(c, z) = cursorPagination(c, p)
    BY <1>1, DefaultsContinue, ContinuedList DEF Continues
  <2> QED
    BY <1>1, <2>1, <2>2 DEF listLinks
<1> SUFFICES ASSUME NEW x \in links.first \cup links.last \cup links.previous \cup links.next
             PROVE  IsQuery(x) /\ Continues(x, q)
  OBVIOUS
<1>4. CASE cursorPagination(c, p)
  <2> DEFINE previous == [z EXCEPT !.after = NoCursor, !.before = Keys(view, Head(page), sorting)]
             next == [z EXCEPT !.after = Keys(view, Last(page), sorting), !.before = NoCursor]
             first == [z EXCEPT !.before = NoCursor, !.after = blankCursor]
             last == [z EXCEPT !.before = blankCursor, !.after = NoCursor]
             l == CursorLinks(view, z, sorting, page)
  <2>1. /\ IsQuery(previous) /\ Continues(previous, z) /\ IsQuery(next) /\ Continues(next, z)
        /\ IsQuery(first) /\ Continues(first, z) /\ IsQuery(last) /\ Continues(last, z)
    <3>1. CutAt(previous, z, Keys(view, Head(page), sorting), NoCursor)
      BY <1>2, Cut, Zenon
    <3>2. CutAt(next, z, NoCursor, Keys(view, Last(page), sorting))
      BY <1>2, Cut, Zenon
    <3>3. CutAt(first, z, NoCursor, blankCursor) /\ CutAt(last, z, blankCursor, NoCursor)
      BY <1>2, Cut, Zenon
    <3> HIDE DEF previous, next, first, last
    <3> QED
      BY <3>1, <3>2, <3>3 DEF CutAt
  <2>2. /\ l.first = {first} /\ l.last = {last}
        /\ l.previous \in {{}, {last}, {previous}} /\ l.next \in {{}, {first}, {next}}
    BY DEF CursorLinks, NullLink
  <2>3. links = l
    BY <1>3, <1>4
  <2> HIDE DEF previous, next, first, last, l, links
  <2>4. x \in {previous, next, first, last}
    BY <2>2, <2>3
  <2> QED
    BY <1>2, <2>1, <2>4, ContinuesOn
<1>5. CASE ~cursorPagination(c, p)
  <2>1. links = OffsetLinks(z, count)
    BY <1>3, <1>5
  <2>2. count \in Nat
    <3>1. Matching(c, view, u, z, Ids) \subseteq Ids
      BY DEF Matching, Selected, Live, Stored
    <3>2. IsFiniteSet(Matching(c, view, u, z, Ids))
      BY <3>1, IdsFinite, FS_Subset
    <3> QED
      BY <3>2, FS_CardinalityType
  <2> HIDE DEF links, count
  <2> DEFINE lastPage == (count + z.size - 1) \div z.size
             at(n) == {[z EXCEPT !.number = n]}
  <2>3. z.number \in Int /\ lastPage \in Int
    BY <1>2, <2>2 DEF IsQuery
  <2>4. /\ links.first = at(1) /\ links.last = at(lastPage)
        /\ links.previous \in {{}, at(z.number - 1)} /\ links.next \in {{}, at(z.number + 1)}
    BY <2>1 DEF OffsetLinks, NullLink
  <2> HIDE DEF lastPage, at
  <2>5. x \in at(1) \cup at(lastPage) \cup at(z.number - 1) \cup at(z.number + 1)
    BY <2>4
  <2>6. PICK n \in Int : x \in at(n)
    BY <2>3, <2>5
  <2>7. IsQuery(x) /\ Continues(x, z)
    BY <1>2, <2>6, Numbered DEF at
  <2> QED
    BY <1>2, <2>7, ContinuesOn
<1> QED
  BY <1>4, <1>5

(* A document that changes is not counted on.                              *)
LEMMA PagingDisturbed ==
  ASSUME NEW c \in Configs, NEW view \in Views, NEW later, NEW d,
         \A e \in Ids \ {d} : later[e] = view[e],
         NEW w, IsWalk(w), Paging(c, view, w)
  PROVE  Paging(c, later, Disturbed(w, d)) /\ Disturbed(w, d).asked = w.asked
<1> DEFINE v == Disturbed(w, d)
<1>1. /\ v.user = w.user /\ v.back = w.back /\ v.asked = w.asked /\ v.next = w.next
      /\ v.seen = w.seen /\ v.steady = w.steady \ {d} /\ v.quiet = FALSE
  <2>1. [w EXCEPT !.steady = w.steady \ {d}]
          = [f \in WalkFields |-> IF f = "steady" THEN w.steady \ {d} ELSE w[f]]
    BY DEF IsWalk, WalkFields
  <2>2. v = [f \in WalkFields |-> IF f = "quiet" THEN FALSE
                                 ELSE IF f = "steady" THEN w.steady \ {d} ELSE w[f]]
    BY <2>1 DEF Disturbed, WalkFields
  <2> HIDE DEF v
  <2> QED
    BY <2>2 DEF WalkFields
<1> HIDE DEF v
<1>2. w.steady \subseteq Ids
  BY DEF IsWalk
<1>3. \A e \in v.steady : e \in w.steady /\ e \in Ids /\ later[e] = view[e]
  BY <1>1, <1>2
<1>4. \A e \in v.steady : \A order : Keys(later, e, order) = Keys(view, e, order)
  BY <1>3 DEF Keys
<1> SUFFICES ASSUME NEW q \in w.asked
             PROVE  /\ IsQuery(q) /\ q.size \in Nat \ {0} /\ q.sort \in Orders
                    /\ v.steady \subseteq Matching(c, later, v.user, q, Ids)
                    /\ \A p \in v.next : IsQuery(p) /\ Continues(p, q)
                    /\ cursorPagination(c, q) /\ q.search = {} => CursorWalk(c, later, v, q)
  BY <1>1 DEF Paging, v
<1>5. /\ IsQuery(q) /\ q.size \in Nat \ {0} /\ q.sort \in Orders
      /\ w.steady \subseteq Matching(c, view, w.user, q, Ids)
      /\ \A p \in w.next : IsQuery(p) /\ Continues(p, q)
      /\ cursorPagination(c, q) /\ q.search = {} => CursorWalk(c, view, w, q)
  BY DEF Paging
<1>6. v.steady \subseteq Matching(c, later, v.user, q, Ids)
  <2>1. ASSUME NEW e \in v.steady
        PROVE  e \in Matching(c, later, w.user, q, Ids)
    <3>1. e \in Matching(c, view, w.user, q, Ids) /\ later[e] = view[e]
      BY <1>3, <1>5, <2>1
    <3> QED
      BY <3>1 DEF Matching, Selected, Live, Stored
  <2> QED
    BY <1>1, <2>1
<1>7. ASSUME cursorPagination(c, q), q.search = {}
      PROVE  CursorWalk(c, later, v, q)
  <2>1. PICK order : order = Sorting(c, q)
    OBVIOUS
  <2>2. /\ InOrder(view, w.seen, w.steady, order)
        /\ w.next = {} => w.steady \subseteq Range(w.seen)
        /\ \A p \in w.next : AtCursor(view, w, p, order)
    BY <1>5, <1>7, <2>1 DEF CursorWalk, Seen
  <2>3. InOrder(later, v.seen, v.steady, order)
    BY <1>1, <1>3, <1>4, <2>2 DEF InOrder, After
  <2>4. ASSUME NEW cursor, NEW o, Reached(view, w.seen, w.steady, cursor, o)
        PROVE  Reached(later, v.seen, v.steady, cursor, o)
    BY <1>1, <1>3, <1>4, <2>4 DEF Reached, Passed
  <2>5. \A p \in v.next : AtCursor(later, v, p, order)
    BY <1>1, <2>2, <2>4 DEF AtCursor, Onward, Backward
  <2>6. v.next = {} => v.steady \subseteq Range(v.seen)
    BY <1>1, <2>2
  <2> QED
    BY <2>1, <2>3, <2>5, <2>6 DEF CursorWalk, Seen
<1> QED
  BY <1>1, <1>5, <1>6, <1>7

(* What clients ask for by pages.                                          *)
LEMMA WalksAsk ==
  ASSUME conf \in Configs, NEW q \in Walks
  PROVE  IsQuery(q) /\ q.size \in Nat /\ q.sort \in Seq([key : Fields, desc : BOOLEAN])
<1> DEFINE S == Seq([key : Fields, desc : BOOLEAN])
<1>1. IsQuery(q)
  BY AskedQueries
<1>2. \A sort \in Sorts \cup {<<>>} : sort \in S
  <2>1. <<>> \in S
    OBVIOUS
  <2> QED
    BY <2>1, ControllerAssumption
<1>3. ASSUME NEW sort
      PROVE  IsQuery(AllOf(sort)) /\ AllOf(sort).sort = sort
  <2>1. ASSUME NEW e, NEW n, NEW a,
               a = [filters |-> e, search |-> {}, sort |-> sort, kind |-> "", size |-> 0,
                    number |-> 0, before |-> n, after |-> n]
        PROVE  a.sort = sort
    BY <2>1
  <2> QED
    BY <2>1, AskedQueries, Zenon DEF AllOf
<1>4. ASSUME NEW a, IsQuery(a), NEW x
      PROVE  IsQuery([a EXCEPT !.search = x]) /\ [a EXCEPT !.search = x].sort = a.sort
  BY <1>4 DEF IsQuery, QueryFields
<1>5. ASSUME NEW a, IsQuery(a), NEW x, NEW y
      PROVE  Paged(a, x, y).size = y /\ Paged(a, x, y).sort = a.sort
  <2>1. [a EXCEPT !.kind = x] = [f \in QueryFields |-> IF f = "kind" THEN x ELSE a[f]]
    BY <1>5 DEF IsQuery, QueryFields
  <2>2. Paged(a, x, y) =
          [f \in QueryFields |-> IF f = "size" THEN y ELSE IF f = "kind" THEN x ELSE a[f]]
    BY <2>1 DEF Paged, QueryFields
  <2> QED
    BY <2>2 DEF QueryFields
<1>6. conf.limit \in Nat
  BY ControllerAssumption
<1>7. CASE \E sort \in Sorts, kind \in {"offset", "cursor"}, size \in 0..conf.limit :
             q = Paged(AllOf(sort), kind, size)
  <2>1. PICK sort \in Sorts, kind \in {"offset", "cursor"}, size \in 0..conf.limit :
          q = Paged(AllOf(sort), kind, size)
    BY <1>7
  <2>2. q.size = size /\ q.sort = sort
    BY <1>3, <1>5, <2>1
  <2>3. size \in Nat
    BY <1>6
  <2>4. sort \in S
    BY <1>2
  <2> HIDE DEF S
  <2>5. q.size \in Nat /\ q.sort \in S
    BY <2>2, <2>3, <2>4
  <2> QED
    BY <1>1, <2>5 DEF S
<1>8. CASE \E kind \in {"offset", "cursor"} :
             q = Paged([AllOf(<<>>) EXCEPT !.search = Values], kind, 0)
  <2>1. PICK a, kind : q = Paged(a, kind, 0) /\ a = [AllOf(<<>>) EXCEPT !.search = Values]
    BY <1>8
  <2>2. IsQuery(a) /\ a.sort = <<>>
    BY <1>3, <1>4, <2>1
  <2>3. Paged(a, kind, 0).size = 0 /\ Paged(a, kind, 0).sort = a.sort
    BY <1>5, <2>2
  <2>4. q.size = 0 /\ q.sort = <<>>
    BY <2>1, <2>2, <2>3, Zenon
  <2> QED
    BY <1>1, <1>2, <2>4
<1> QED
  BY <1>7, <1>8 DEF Walks

(* A list that is not refused is sorted by numbers.                        *)
LEMMA ListedOrder ==
  ASSUME NEW c, NEW u, NEW q, Accepted(c, u, q), q.sort \in Seq([key : Fields, desc : BOOLEAN])
  PROVE  q.sort \in Orders
<1> DEFINE S == [key : SortFields, desc : BOOLEAN]
<1>1. PICK s : s = q.sort
  OBVIOUS
<1>2. Len(s) \in Nat /\ DOMAIN s = 1..Len(s) /\ s \in [1..Len(s) -> [key : Fields, desc : BOOLEAN]]
  BY <1>1, LenProperties
<1>3. \A i \in DOMAIN s : s[i].key \in Sorters
  BY <1>1 DEF Accepted, Listed, SortKeys
<1>4. \A i \in 1..Len(s) : s[i] \in [key : Fields, desc : BOOLEAN] /\ s[i].key \in SortFields
  BY <1>2, <1>3, ListsAssumption DEF SortFields
<1>5. \A i \in 1..Len(s) : s[i] \in S
  BY <1>4
<1> HIDE DEF S
<1>6. s \in [1..Len(s) -> S]
  BY <1>2, <1>5
<1>7. s \in Seq(S)
  BY <1>2, <1>6, SeqDef
<1> QED
  BY <1>1, <1>7 DEF Orders, S

LEMMA NothingSeen ==
  ASSUME NEW view, NEW steady, NEW order
  PROVE  InOrder(view, <<>>, steady, order)
BY DEF InOrder

(* The first and the last page of a list begin a walk.                     *)
Begins(c, view, u, asked, page, q, links, w) ==
  /\ c \in Configs /\ c.limit > 0 /\ view \in Views /\ IsQuery(asked) /\ asked.size \in Nat
  /\ asked.sort \in Seq([key : Fields, desc : BOOLEAN])
  /\ page \in loadModels(c, view, u, asked, Ids)
  /\ q = Defaults(c, asked) /\ links = listLinks(c, view, u, asked, Ids, page)
  /\ w.user = u /\ w.back \in BOOLEAN /\ w.asked = {q} /\ w.seen = <<>>
  /\ w.next = (IF w.back THEN links.last ELSE links.first)
  /\ w.steady = Matching(c, view, u, q, Ids)

LEMMA StartPaging ==
  ASSUME NEW c, NEW view, NEW u, NEW asked, NEW page, NEW q, NEW links, NEW w,
         Begins(c, view, u, asked, page, q, links, w)
  PROVE  Paging(c, view, w)
<1>1. /\ c \in Configs /\ c.limit > 0 /\ view \in Views /\ IsQuery(asked) /\ asked.size \in Nat
      /\ asked.sort \in Seq([key : Fields, desc : BOOLEAN])
      /\ page \in loadModels(c, view, u, asked, Ids)
      /\ q = Defaults(c, asked) /\ links = listLinks(c, view, u, asked, Ids, page)
      /\ w.user = u /\ w.back \in BOOLEAN /\ w.asked = {q} /\ w.seen = <<>>
      /\ w.next = (IF w.back THEN links.last ELSE links.first)
      /\ w.steady = Matching(c, view, u, q, Ids)
  BY DEF Begins
<1> USE <1>1
<1> DEFINE docs == Matching(c, view, u, q, Ids)
           sorting == Sorting(c, q)
           count == Cardinality(docs)
<1>2. /\ IsQuery(q) /\ q.size \in Nat \ {0} /\ q.search = asked.search /\ q.sort = asked.sort
      /\ q.kind = asked.kind /\ q.filters = asked.filters
  BY DefaultsComplete
<1>3. Accepted(c, u, q)
  BY DEF loadModels
<1>4. q.sort \in Orders
  BY <1>2, <1>3, ListedOrder
<1>5. ~(q.size <= 0) /\ cursorPagination(c, q) = cursorPagination(c, asked)
  BY <1>2 DEF cursorPagination
<1>6. docs \in SUBSET Stored(view)
  BY MatchingStored
<1>7. CASE cursorPagination(c, q)
  <2>1. links = CursorLinks(view, q, sorting, page)
    BY <1>5, <1>7 DEF listLinks
  <2> DEFINE first == [q EXCEPT !.before = NoCursor, !.after = blankCursor]
             last == [q EXCEPT !.before = blankCursor, !.after = NoCursor]
  <2>2. CutAt(first, q, NoCursor, blankCursor) /\ CutAt(last, q, blankCursor, NoCursor)
    BY <1>2, Cut, Zenon
  <2>3. links.first = {first} /\ links.last = {last}
    BY <2>1 DEF CursorLinks
  <2> HIDE DEF first, last
  <2>4. w.next = {IF w.back THEN last ELSE first}
    BY <2>3
  <2>5. \A p \in w.next : IsQuery(p) /\ Continues(p, q)
    BY <2>2, <2>4 DEF CutAt
  <2>6. \A p \in w.next : AtCursor(view, w, p, sorting)
    <3>1. NoCursor # blankCursor
      BY DEF NoCursor, blankCursor
    <3>2. \A order : Reached(view, w.seen, w.steady, blankCursor, order)
      BY DEF Reached
    <3> QED
      BY <2>2, <2>4, <3>1, <3>2 DEF CutAt, AtCursor, Onward, Backward
  <2>7. CursorWalk(c, view, w, q)
    <3>1. w.next # {}
      BY <2>4
    <3> QED
      BY <2>6, <3>1, NothingSeen DEF CursorWalk, Seen
  <2> QED
    BY <1>2, <1>4, <1>7, <2>5, <2>7 DEF Paging
<1>8. CASE ~cursorPagination(c, q)
  <2> DEFINE lastPage == (count + q.size - 1) \div q.size
             at(n) == {[q EXCEPT !.number = n]}
             order == TextScoreSort(q, q.sort)
  <2>1. links = OffsetLinks(q, count)
    BY <1>5, <1>8 DEF listLinks
  <2>2. links.first = at(1) /\ links.last = at(lastPage)
    BY <2>1 DEF OffsetLinks
  <2>3. IsFiniteSet(docs)
    BY <1>6, StoredIds, FS_Subset
  <2>4. count \in Nat
    BY <2>3, FS_CardinalityType
  <2> HIDE DEF docs, count
  <2>5. lastPage \in Nat /\ count <= lastPage * q.size
    BY <1>2, <2>4, PageCount
  <2> HIDE DEF lastPage, at
  <2>6. ASSUME NEW p \in w.next
        PROVE  /\ IsQuery(p) /\ Continues(p, q) /\ p.size = q.size
               /\ p.number = IF w.back THEN lastPage ELSE 1
    <3>1. PICK n \in Int : n = (IF w.back THEN lastPage ELSE 1) /\ p \in at(n)
      BY <2>2, <2>5, <2>6
    <3>2. PICK z : z = [q EXCEPT !.number = n]
      OBVIOUS
    <3>3. IsQuery(z) /\ Continues(z, q) /\ z.number = n
      BY <1>2, <3>2, Numbered
    <3>4. p = z
      BY <3>1, <3>2 DEF at
    <3> QED
      BY <3>1, <3>3, <3>4 DEF Continues
  <2>7. w.next # {}
    BY <2>2 DEF at
  <2>8. order \in Orders
    BY <1>4, OffsetOrder
  <2> HIDE DEF order
  <2> DEFINE lists == FindAll(view, docs, order, 0, 0)
  <2>9. ASSUME Distinct(view, docs, order), NEW p \in w.next
        PROVE  p.number \in Nat /\ AtNumber(w, p, lists)
    <3>1. ASSUME NEW s \in lists
          PROVE  Len(s) = count
      BY <1>6, <2>8, <2>9, <3>1, Listing DEF count
    <3>2. Len(w.seen) = 0 /\ DOMAIN w.seen = {}
      OBVIOUS
    <3>3. CASE w.back
      <4>1. p.number = lastPage /\ p.size = q.size
        BY <2>6, <2>9, <3>3
      <4>2. PICK m \in Nat : m = lastPage * q.size
        BY <1>2, <2>5
      <4>3. lastPage = 0 => m = 0
        BY <1>2, <4>2
      <4>4. ASSUME NEW s \in lists
            PROVE  (p.number = 0 => Len(s) = 0) /\ From(w.seen, s, p.number * p.size)
        <5>1. Len(s) = count /\ ~(m < Len(s))
          BY <2>4, <2>5, <3>1, <4>2, <4>4
        <5>2. From(w.seen, s, m)
          BY <3>2, <5>1 DEF From
        <5> QED
          BY <2>4, <2>5, <4>1, <4>2, <4>3, <5>1, <5>2
      <4> QED
        BY <2>5, <3>3, <4>1, <4>4 DEF AtNumber, Above
    <3>4. CASE ~w.back
      <4>1. p.number = 1 /\ p.size = q.size
        BY <2>6, <2>9, <3>4
      <4>2. (p.number - 1) * p.size = 0
        BY <1>2, <4>1
      <4>3. \A s \in lists : UpTo(w.seen, s, 0)
        BY <2>4, <3>1, <3>2 DEF UpTo
      <4> QED
        BY <3>4, <4>1, <4>2, <4>3 DEF AtNumber, Below
    <3> QED
      BY <3>3, <3>4
  <2>10. OffsetWalk(c, view, w, q)
    BY <2>7, <2>9, NothingSeen DEF OffsetWalk, Seen, docs, order
  <2> QED
    BY <1>2, <1>4, <1>8, <2>6, <2>10 DEF Paging
<1> QED
  BY <1>7, <1>8

(* A page adds to what a walk has shown.                                   *)
Follows(c, view, v, q, p, page, links, w) ==
  /\ c \in Configs /\ view \in Views /\ IsWalk(v) /\ v.asked = {q} /\ Paging(c, view, v)
  /\ p \in v.next /\ page \in loadModels(c, view, v.user, p, Ids)
  /\ links = listLinks(c, view, v.user, p, Ids, page)
  /\ w.user = v.user /\ w.back = v.back /\ w.asked = v.asked /\ w.steady = v.steady
  /\ w.quiet = v.quiet
  /\ w.seen = (IF v.back THEN page \o v.seen ELSE v.seen \o page)
  /\ w.next = (IF v.back THEN links.previous ELSE links.next)

LEMMA FollowPaging ==
  ASSUME NEW c, NEW view, NEW v, NEW q, NEW p, NEW page, NEW links, NEW w,
         Follows(c, view, v, q, p, page, links, w)
  PROVE  Paging(c, view, w)
<1>1. /\ c \in Configs /\ view \in Views /\ IsWalk(v) /\ v.asked = {q} /\ Paging(c, view, v)
      /\ p \in v.next /\ page \in loadModels(c, view, v.user, p, Ids)
      /\ links = listLinks(c, view, v.user, p, Ids, page)
      /\ w.user = v.user /\ w.back = v.back /\ w.asked = v.asked /\ w.steady = v.steady
      /\ w.quiet = v.quiet
      /\ w.seen = (IF v.back THEN page \o v.seen ELSE v.seen \o page)
      /\ w.next = (IF v.back THEN links.previous ELSE links.next)
  BY DEF Follows
<1> USE <1>1
<1>2. /\ IsQuery(q) /\ q.size \in Nat \ {0} /\ q.sort \in Orders
      /\ v.steady \subseteq Matching(c, view, v.user, q, Ids)
      /\ IsQuery(p) /\ Continues(p, q)
      /\ cursorPagination(c, q) /\ q.search = {} => CursorWalk(c, view, v, q)
      /\ ~cursorPagination(c, q) /\ v.quiet => OffsetWalk(c, view, v, q)
  BY DEF Paging
<1>3. \A x \in w.next : IsQuery(x) /\ Continues(x, q)
  BY <1>2, LinksContinue
<1>4. v.seen \in Seq(Ids)
  BY DEF IsWalk
<1>5. ASSUME cursorPagination(c, q), q.search = {}
      PROVE  CursorWalk(c, view, w, q)
  <2>1. PICK order : order = Sorting(c, q)
    OBVIOUS
  <2>2. InOrder(view, v.seen, v.steady, order) /\ AtCursor(view, v, p, order)
    BY <1>2, <1>5, <2>1 DEF CursorWalk, Seen
  <2>3. CursorStep(c, view, v.user, q, p, v.steady, v.seen, order, page, links)
    BY <1>2, <1>4, <1>5, <2>1, <2>2 DEF CursorStep
  <2>4. CASE v.back
    <3>1. Backward(view, v.seen, v.steady, p, order)
      BY <2>2, <2>4 DEF AtCursor
    <3>2. Seen(view, page \o v.seen, v.steady, order, links.previous)
      BY <2>3, <3>1, WalkBack, Zenon
    <3>3. \A x \in links.previous : Backward(view, page \o v.seen, v.steady, x, order)
      BY <2>3, <3>1, WalkBack, Zenon
    <3> QED
      BY <2>1, <2>4, <3>2, <3>3 DEF CursorWalk, AtCursor
  <2>5. CASE ~v.back
    <3>1. Onward(view, v.seen, v.steady, p, order)
      BY <2>2, <2>5 DEF AtCursor
    <3>2. Seen(view, v.seen \o page, v.steady, order, links.next)
      BY <2>3, <3>1, WalkForward, Zenon
    <3>3. \A x \in links.next : Onward(view, v.seen \o page, v.steady, x, order)
      BY <2>3, <3>1, WalkForward, Zenon
    <3> QED
      BY <2>1, <2>5, <3>2, <3>3 DEF CursorWalk, AtCursor
  <2> QED
    BY <2>4, <2>5
<1>6. ASSUME ~cursorPagination(c, q), v.quiet
      PROVE  OffsetWalk(c, view, w, q)
  <2>1. PICK order : order = TextScoreSort(q, q.sort)
    OBVIOUS
  <2>2. PICK docs : docs = Matching(c, view, v.user, q, Ids)
    OBVIOUS
  <2>3. v.steady = docs
    BY <1>2, <1>6, <2>2 DEF OffsetWalk
  <2> DEFINE lists == FindAll(view, docs, order, 0, 0)
  <2> HIDE DEF lists
  <2>4. ASSUME Distinct(view, docs, order)
        PROVE  /\ Seen(view, w.seen, docs, order, w.next)
               /\ \A x \in w.next : x.number \in Nat /\ AtNumber(w, x, lists)
    <3>1. p.number \in Nat /\ AtNumber(v, p, lists)
      BY <1>2, <1>6, <2>1, <2>3, <2>4 DEF OffsetWalk, lists
    <3>2. OffsetStep(c, view, v.user, q, p, docs, v.seen, order, page, links)
      BY <1>2, <1>4, <1>6, <2>1, <2>2, <2>4, <3>1 DEF OffsetQuery, OffsetStep
    <3>3. CASE v.back
      <4>1. Above(lists, v.seen, p)
        BY <3>1, <3>3 DEF AtNumber
      <4>2. Seen(view, page \o v.seen, docs, order, links.previous)
        BY <3>2, <4>1, WalkUp, Zenon DEF lists
      <4>3. \A x \in links.previous : x.number \in Nat /\ Above(lists, page \o v.seen, x)
        BY <3>2, <4>1, WalkUp, Zenon DEF lists
      <4> QED
        BY <3>3, <4>2, <4>3 DEF AtNumber
    <3>4. CASE ~v.back
      <4>1. Below(lists, v.seen, p)
        BY <3>1, <3>4 DEF AtNumber
      <4>2. Seen(view, v.seen \o page, docs, order, links.next)
        BY <3>2, <4>1, WalkOn, Zenon DEF lists
      <4>3. \A x \in links.next : x.number \in Nat /\ Below(lists, v.seen \o page, x)
        BY <3>2, <4>1, WalkOn, Zenon DEF lists
      <4> QED
        BY <3>4, <4>2, <4>3 DEF AtNumber
    <3> QED
      BY <3>3, <3>4
  <2> QED
    BY <2>1, <2>2, <2>3, <2>4 DEF OffsetWalk, lists
<1> QED
  BY <1>2, <1>3, <1>5, <1>6 DEF Paging

-----------------------------------------------------------------------------
(***************************************************************************)
(* The walks of every client.                                              *)
(***************************************************************************)
WalkInv(c, view, w) ==
  (w = NoWalk \/ \E q : w.asked = {q}) /\ Paging(c, view, w)

PagesInv == \A r \in Procs : WalkInv(conf, store, walk[r])

LEMMA NoWalkInv == ASSUME NEW c, NEW view PROVE WalkInv(c, view, NoWalk)
BY DEF WalkInv, Paging, NoWalk

LEMMA PagesInvInit == ASSUME Init PROVE PagesInv
BY NoWalkInv DEF Init, PagesInv

(* One walk changes.                                                       *)
LEMMA PagesStep ==
  ASSUME IInv, PagesInv, NEW r \in Procs, NEW w, WalkInv(conf, store, w),
         walk' = [walk EXCEPT ![r] = w], UNCHANGED <<conf, store>>
  PROVE  PagesInv'
<1>1. \A q \in Procs : walk'[q] \in {w, walk[q]}
  BY DEF IInv, Types
<1> QED
  BY <1>1 DEF PagesInv

LEMMA StartPages ==
  ASSUME IInv, PagesInv, NEW r \in Procs, Start(r)
  PROVE  PagesInv'
<1>1. PICK u \in Users, asked \in Walks, back \in BOOLEAN :
        \E page \in loadModels(conf, store, u, asked, Ids) :
         LET links == listLinks(conf, store, u, asked, Ids, page)
         IN walk' = [walk EXCEPT ![r] =
              [user |-> u, back |-> back, asked |-> {Defaults(conf, asked)}, seen |-> <<>>,
               next |-> IF back THEN links.last ELSE links.first,
               steady |-> Matching(conf, store, u, Defaults(conf, asked), Ids), quiet |-> TRUE]]
  BY DEF Start
<1>2. PICK page \in loadModels(conf, store, u, asked, Ids) :
         LET links == listLinks(conf, store, u, asked, Ids, page)
         IN walk' = [walk EXCEPT ![r] =
              [user |-> u, back |-> back, asked |-> {Defaults(conf, asked)}, seen |-> <<>>,
               next |-> IF back THEN links.last ELSE links.first,
               steady |-> Matching(conf, store, u, Defaults(conf, asked), Ids), quiet |-> TRUE]]
  BY <1>1
<1>3. PICK q, links : /\ q = Defaults(conf, asked)
                      /\ links = listLinks(conf, store, u, asked, Ids, page)
  OBVIOUS
<1>4. PICK w : w = [user |-> u, back |-> back, asked |-> {q}, seen |-> <<>>,
                    next |-> IF back THEN links.last ELSE links.first,
                    steady |-> Matching(conf, store, u, q, Ids), quiet |-> TRUE]
  OBVIOUS
<1>5. walk' = [walk EXCEPT ![r] = w]
  BY <1>2, <1>3, <1>4
<1>6. /\ w.user = u /\ w.back = back /\ w.asked = {q} /\ w.seen = <<>>
      /\ w.next = (IF w.back THEN links.last ELSE links.first)
      /\ w.steady = Matching(conf, store, u, q, Ids)
  BY <1>4
<1>7. conf \in Configs /\ conf.limit > 0 /\ store \in Views /\ UNCHANGED <<conf, store>>
  BY DEF Start, IInv, Types
<1>8. IsQuery(asked) /\ asked.size \in Nat /\ asked.sort \in Seq([key : Fields, desc : BOOLEAN])
  BY <1>7, WalksAsk
<1>9. Paging(conf, store, w)
  <2>1. Begins(conf, store, u, asked, page, q, links, w)
    BY <1>3, <1>6, <1>7, <1>8 DEF Begins
  <2> QED
    BY <2>1, StartPaging, Zenon
<1>10. WalkInv(conf, store, w)
  BY <1>6, <1>9 DEF WalkInv
<1> QED
  BY <1>5, <1>7, <1>10, PagesStep

LEMMA FollowPages ==
  ASSUME IInv, PagesInv, NEW r \in Procs, Follow(r)
  PROVE  PagesInv'
<1>1. PICK v : v = walk[r]
  OBVIOUS
<1>2. PICK p \in v.next : \E page \in loadModels(conf, store, v.user, p, Ids) :
       LET links == listLinks(conf, store, v.user, p, Ids, page)
       IN walk' = IF v.back
            THEN [walk EXCEPT ![r].seen = page \o @, ![r].next = links.previous]
            ELSE [walk EXCEPT ![r].seen = @ \o page, ![r].next = links.next]
  BY <1>1 DEF Follow
<1>3. PICK page \in loadModels(conf, store, v.user, p, Ids) :
       LET links == listLinks(conf, store, v.user, p, Ids, page)
       IN walk' = IF v.back
            THEN [walk EXCEPT ![r].seen = page \o @, ![r].next = links.previous]
            ELSE [walk EXCEPT ![r].seen = @ \o page, ![r].next = links.next]
  BY <1>2
<1>4. PICK links : links = listLinks(conf, store, v.user, p, Ids, page)
  OBVIOUS
<1>5. PICK seen, next : /\ seen = IF v.back THEN page \o v.seen ELSE v.seen \o page
                        /\ next = IF v.back THEN links.previous ELSE links.next
  OBVIOUS
<1>6. PICK w : w = [f \in WalkFields |-> IF f = "seen" THEN seen
                                        ELSE IF f = "next" THEN next ELSE v[f]]
  OBVIOUS
<1>7. conf \in Configs /\ store \in Views /\ IsWalk(v) /\ UNCHANGED <<conf, store>>
  BY <1>1 DEF Follow, IInv, Types
<1>8. walk' = [walk EXCEPT ![r] = w]
  <2>1. walk' = [[walk EXCEPT ![r].seen = seen] EXCEPT ![r].next = next]
    BY <1>1, <1>3, <1>4, <1>5
  <2>2. [v EXCEPT !.seen = seen] = [f \in WalkFields |-> IF f = "seen" THEN seen ELSE v[f]]
    BY <1>7 DEF IsWalk, WalkFields
  <2>3. walk' = [walk EXCEPT ![r] = [[v EXCEPT !.seen = seen] EXCEPT !.next = next]]
    BY <1>1, <2>1 DEF IInv, Types
  <2> QED
    BY <1>6, <2>2, <2>3 DEF WalkFields
<1>9. /\ w.user = v.user /\ w.back = v.back /\ w.asked = v.asked /\ w.steady = v.steady
      /\ w.quiet = v.quiet /\ w.seen = seen /\ w.next = next
  BY <1>6 DEF WalkFields
<1>10. Paging(conf, store, v) /\ (v = NoWalk \/ \E q : v.asked = {q})
  BY <1>1 DEF PagesInv, WalkInv
<1>11. PICK q : v.asked = {q}
  BY <1>10 DEF NoWalk
<1>12. Paging(conf, store, w)
  <2>1. Follows(conf, store, v, q, p, page, links, w)
    BY <1>4, <1>5, <1>7, <1>9, <1>10, <1>11 DEF Follows
  <2> QED
    BY <2>1, FollowPaging, Zenon
<1>13. WalkInv(conf, store, w)
  BY <1>9, <1>11, <1>12 DEF WalkInv
<1> QED
  BY <1>7, <1>8, <1>13, PagesStep

(* A document changes, and no walk counts on it any more.                  *)
LEMMA ChangedPages ==
  ASSUME IInv, PagesInv, NEW d, \A e \in Ids \ {d} : store'[e] = store[e],
         walk' = [q \in Procs |-> IF walk[q] = NoWalk THEN NoWalk ELSE Disturbed(walk[q], d)],
         UNCHANGED conf
  PROVE  PagesInv'
<1>1. ASSUME NEW r \in Procs
      PROVE  WalkInv(conf, store', walk'[r])
  <2>1. PICK w : w = walk[r]
    OBVIOUS
  <2>2. conf \in Configs /\ store \in Views /\ IsWalk(w)
    BY <2>1 DEF IInv, Types
  <2>3. WalkInv(conf, store, w)
    BY <2>1 DEF PagesInv
  <2>4. CASE w = NoWalk
    BY <2>1, <2>4, NoWalkInv
  <2>5. CASE w # NoWalk
    <3>1. walk'[r] = Disturbed(w, d)
      BY <2>1, <2>5
    <3>2. Paging(conf, store', Disturbed(w, d))
      BY <2>2, <2>3, PagingDisturbed DEF WalkInv
    <3>3. Disturbed(w, d).asked = w.asked
      <4>1. [w EXCEPT !.steady = w.steady \ {d}].asked = w.asked
        BY <2>2 DEF IsWalk, WalkFields
      <4> QED
        BY <2>2, <4>1 DEF Disturbed, IsWalk, WalkFields
    <3> QED
      BY <2>3, <2>5, <3>1, <3>2, <3>3 DEF WalkInv
  <2> QED
    BY <2>4, <2>5
<1> QED
  BY <1>1 DEF PagesInv

LEMMA PagesInvNext ==
  ASSUME IInv, PagesInv, [Next]_vars
  PROVE  PagesInv'
<1>1. ASSUME UNCHANGED <<conf, store, walk>>
      PROVE  PagesInv'
  BY <1>1 DEF PagesInv
<1>2. CASE Expire
  <2>1. PICK d \in Stored(store) :
          /\ store' = [store EXCEPT ![d] = Gone]
          /\ walk' = [q \in Procs |-> IF walk[q] = NoWalk THEN NoWalk ELSE Disturbed(walk[q], d)]
    BY <1>2 DEF Expire
  <2>2. UNCHANGED conf /\ \A e \in Ids \ {d} : store'[e] = store[e]
    BY <1>2, <2>1 DEF Expire, IInv, Types, Views
  <2> QED
    BY <2>1, <2>2, ChangedPages
<1>3. ASSUME NEW r \in Procs, listResources(r) \/ findResource(r) \/ getRelatedResources(r)
      PROVE  PagesInv'
  BY <1>1, <1>3 DEF listResources, findResource, getRelatedResources, Shown
<1>4. ASSUME NEW r \in Procs, Stop(r)
      PROVE  PagesInv'
  BY <1>4, NoWalkInv, PagesStep DEF Stop
<1>5. ASSUME NEW r \in Procs, Begin(r) \/ loadModel(r) \/ Abort(r)
      PROVE  PagesInv'
  BY <1>1, <1>5 DEF Begin, loadModel, Abort
<1>6. ASSUME NEW r \in Procs, createResource(r) \/ updateResource(r) \/ deleteResource(r)
      PROVE  PagesInv'
  BY <1>1, <1>6 DEF createResource, updateResource, deleteResource, Saved
<1>7. ASSUME NEW r \in Procs,
             setRelationship(r) \/ appendToRelationship(r) \/ removeFromRelationship(r)
      PROVE  PagesInv'
  BY <1>1, <1>7
  DEF setRelationship, appendToRelationship, removeFromRelationship, PartialUpdate, Saved
<1>8. ASSUME NEW r \in Procs, Commit(r)
      PROVE  PagesInv'
  <2>1. PICK d : d = req[r].id
    OBVIOUS
  <2>2. /\ store' = [store EXCEPT ![d] = model[r]] /\ UNCHANGED conf
        /\ walk' = [q \in Procs |-> IF walk[q] = NoWalk THEN NoWalk ELSE Disturbed(walk[q], d)]
    BY <1>8, <2>1 DEF Commit
  <2>3. \A e \in Ids \ {d} : store'[e] = store[e]
    BY <2>2 DEF IInv, Types, Views
  <2> QED
    BY <2>2, <2>3, ChangedPages
<1>9. CASE UNCHANGED vars
  BY <1>1, <1>9 DEF vars
<1> QED
  BY <1>2, <1>3, <1>4, <1>5, <1>6, <1>7, <1>8, <1>9, StartPages, FollowPages DEF Next

(* What a walk has shown is what its cursor has passed, whatever has       *)
(* changed since; by number, and as long as nothing changes, the pages     *)
(* before or behind its number (Controller.loadModels, listLinks).         *)
THEOREM PagesInvariant == Spec => [](IInv /\ PagesInv)
<1>1. Init => IInv /\ PagesInv
  BY InitInv, PagesInvInit
<1>2. IInv /\ PagesInv /\ [Next]_vars => IInv' /\ PagesInv'
  BY NextInv, PagesInvNext
<1> QED
  BY <1>1, <1>2, PTL DEF Spec

LEMMA PagesCoverFollows ==
  ASSUME IInv, PagesInv
  PROVE  PagesCover
<1> SUFFICES ASSUME NEW r \in Procs, NEW q \in walk[r].asked,
                    NEW order, order = TextScoreSort(q, Sorting(conf, q)),
                    IF cursorPagination(conf, q) THEN q.search = {}
                    ELSE /\ walk[r].quiet
                         /\ \A d, e \in walk[r].steady :
                              Keys(store, d, order) = Keys(store, e, order) => d = e
             PROVE  Covered(walk[r], order)
  BY DEF PagesCover
<1>1. PICK w : w = walk[r]
  OBVIOUS
<1>2. /\ cursorPagination(conf, q) /\ q.search = {} => CursorWalk(conf, store, w, q)
      /\ ~cursorPagination(conf, q) /\ w.quiet => OffsetWalk(conf, store, w, q)
  BY <1>1 DEF PagesInv, WalkInv, Paging
<1>3. Seen(store, w.seen, w.steady, order, w.next)
  <2>1. CASE cursorPagination(conf, q)
    <3>1. order = Sorting(conf, q)
      BY <2>1 DEF TextScoreSort
    <3> QED
      BY <1>2, <2>1, <3>1 DEF CursorWalk
  <2>2. CASE ~cursorPagination(conf, q)
    <3>1. order = TextScoreSort(q, q.sort)
      BY <2>2 DEF Sorting
    <3>2. Distinct(store, w.steady, order)
      BY <1>1, <2>2 DEF Distinct
    <3> QED
      BY <1>1, <1>2, <2>2, <3>1, <3>2 DEF OffsetWalk
  <2> QED
    BY <2>1, <2>2
<1> QED
  BY <1>1, <1>3 DEF Seen, InOrder, After, Covered

(* A walk along the links of a list shows every document that stays as it  *)
(* is, once and in order: the cursor is made of the sort keys and the      *)
(* identifier of the last document of a page, and not of a position        *)
(* (Controller.loadModels, listLinks).                                     *)
THEOREM PagesCoverHolds == Spec => []PagesCover
<1>1. IInv /\ PagesInv => PagesCover
  BY PagesCoverFollows
<1> QED
  BY <1>1, PagesInvariant, PTL
=============================================================================
