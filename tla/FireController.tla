--------------------------- MODULE FireController ---------------------------
(***************************************************************************)
(* A controller of fire (controller.go) with the callbacks that come with  *)
(* it (callbacks.go), and clients that list, page through, create, update  *)
(* and delete the documents of its collection.  Every request runs in a    *)
(* transaction of coal (CoalStore): its operations see the documents as    *)
(* they were when it began, a document it writes is held against others,   *)
(* and what it has written is committed at once or not at all.  Any of its *)
(* steps may end it with an error: a callback's, the database's, that of a *)
(* timeout.                                                                *)
(*                                                                         *)
(* Reads are one step, as they see one state of the collection and change  *)
(* nothing.  A request that writes begins, with the callbacks that may     *)
(* read before it has loaded its document, loads it and locks it, saves    *)
(* it, with the modifiers and validators before, and commits it, with the  *)
(* decorators and notifiers before.                                        *)
(***************************************************************************)
EXTENDS FireLists

CONSTANTS Procs,       \* the clients
          Configs,     \* the configurations of the controller, each with the
                       \* bounds of its instance: the documents there are at
                       \* first (initial), the fields clients send (sent) and
                       \* how many requests may write (calls)
          Writable,    \* the fields a user may write
          Tolerated,   \* the controller's TolerateViolations
          Protected,   \* the pairs of the ProtectedFieldsValidator: the default
                       \* of a field, if any
          Invalid,     \* the values Model.Validate refuses
          Sorts        \* the sort keys of lists

ASSUME ControllerAssumption ==
  /\ Writable \in [Users -> SUBSET Fields] /\ Readable \in [Users -> SUBSET Fields]
  /\ 0 \in Invalid
  /\ \A c \in Configs : c.initial \subseteq Ids /\ c.sent \subseteq Fields /\ c.limit \in Nat
  /\ DOMAIN Protected \subseteq Fields
  /\ Sorts \subseteq Seq([key : Fields, desc : BOOLEAN])

VARIABLES conf,    \* the configuration of the controller
          store,   \* what is committed of every document
          pc,      \* idle, begun, loaded or saved: the request of a client
          req,     \* its operation, user and document
          snap,    \* the documents as its transaction sees them
          model,   \* the document it is about to write
          copy,    \* what a client has last been shown: a resource, or none
          walk,    \* the walk of a client through the pages of a list
          born,    \* history: the create token every document was created with,
                   \* and the documents its request could know of
          minted, calls   \* the update tokens made so far, the counter of the bound

vars == <<conf, store, pc, req, snap, model, copy, walk, born, minted, calls>>

Partials == {"set", "append", "remove"}

Operations == {"create", "update", "delete"} \cup Partials

NoRequest == [op |-> "none", user |-> "none", id |-> None]
Unborn == [ct |-> Blank, knew |-> {}]
NoView == [d \in Ids |-> Free]
NoWalk == [user |-> "none", back |-> FALSE, asked |-> {}, next |-> {}, seen |-> <<>>,
           steady |-> {}, quiet |-> FALSE]

TypeOK ==
  /\ conf \in Configs
  /\ store \in Views
  /\ pc \in [Procs -> {"idle", "begun", "loaded", "saved"}]
  /\ \A r \in Procs : pc[r] # "idle" => /\ req[r].op \in Operations /\ req[r].user \in Users
                                        /\ req[r].id \in Ids \cup {None}
  /\ snap \in [Procs -> Views] /\ model \in [Procs -> Doc \cup {Free, Gone}]
  /\ \A r \in Procs : \A s \in copy[r] : s.id \in Ids /\ s.children \subseteq Ids
  /\ \A r \in Procs : walk[r].seen \in Seq(Ids) /\ walk[r].steady \subseteq Ids
  /\ born \in [Ids -> [ct : Tokens \cup {Blank}, knew : SUBSET Ids]]
  /\ minted \in Nat /\ calls \in Nat

Init ==
  /\ conf \in Configs
  /\ \E vals \in [conf.initial -> Values \ Invalid] :
       store = [d \in Ids |-> IF d \in conf.initial THEN [Zero EXCEPT !.val = vals[d], !.ut = d] ELSE Free]
  /\ pc = [r \in Procs |-> "idle"]
  /\ req = [r \in Procs |-> NoRequest]
  /\ snap = [r \in Procs |-> NoView]
  /\ model = [r \in Procs |-> Free]
  /\ copy = [r \in Procs |-> {}]
  /\ walk = [r \in Procs |-> NoWalk]
  /\ born = [d \in Ids |-> Unborn]
  /\ minted = Max({0} \cup Ids) /\ calls = 0

-----------------------------------------------------------------------------
(***************************************************************************)
(* Reads.                                                                  *)
(***************************************************************************)
Idle(r) == pc[r] = "idle" /\ walk[r] = NoWalk

\* A client keeps one of the resources it is shown, if it needs one to update
\* it later.
Kept(s) == IF conf.consistent THEN {s} ELSE {}

Shown(r, resources) ==
  /\ \E s \in resources : copy' = [copy EXCEPT ![r] = Kept(s)]
  /\ UNCHANGED <<conf, store, pc, req, snap, model, walk, born, minted, calls>>

AllOf(sort) ==
  [filters |-> [f \in {} |-> {}], search |-> {}, sort |-> sort, kind |-> "", size |-> 0,
   number |-> 0, before |-> NoCursor, after |-> NoCursor]

Queries ==
  {AllOf(sort) : sort \in Sorts} \cup
  {[AllOf(<<>>) EXCEPT !.filters = [f \in {"val"} |-> V]] : V \in SUBSET Values \ {{}}} \cup
  {[AllOf(<<>>) EXCEPT !.filters = [f \in {"parent"} |-> P]] : P \in SUBSET Ids}

listResources(r) ==
  /\ Idle(r)
  /\ \E u \in Users, q \in Queries : \E page \in loadModels(conf, store, u, q, Ids) :
       Shown(r, resourcesForModels(conf, store, u, page))

\* The model of a request that does not write.
Loaded(c, u, d) == d \in Selected(c, store, u, {d})

findResource(r) ==
  /\ Idle(r)
  /\ \E u \in Users, d \in Ids :
       /\ Loaded(conf, u, d)
       /\ Shown(r, {resourceForModel(conf, store, u, d)})

\* The documents a relationship of a document selects: to one and to many by
\* their identifiers, the inverse by its reference.
Within(rel, d) ==
  CASE rel = "parent" -> {store[d].parent}
    [] rel = "links" -> store[d].links
    [] rel = "children" -> {e \in Stored(store) : store[e].parent = d}

\* A relationship is listed as its own controller lists it.
getRelatedResources(r) ==
  /\ Idle(r)
  /\ \E u \in Users, d \in Ids, rel \in {"parent", "links", "children"} :
       /\ Loaded(conf, u, d) /\ rel \in Readable[u] \cup {"children"}
       /\ \E page \in loadModels(conf, store, u, AllOf(<<>>), Within(rel, d) \cap Ids) :
            Shown(r, resourcesForModels(conf, store, u, page))

-----------------------------------------------------------------------------
(***************************************************************************)
(* A walk: a client asks for a list and then follows its links, from the   *)
(* first page to the next, or from the last to the previous.  Walks do not *)
(* change anything, so one at a time is enough.                            *)
(***************************************************************************)
Paged(q, kind, size) == [q EXCEPT !.kind = kind, !.size = size]

Walks ==
  {Paged(AllOf(sort), kind, size) :
     sort \in Sorts, kind \in {"offset", "cursor"}, size \in 0..conf.limit} \cup
  {Paged([AllOf(<<>>) EXCEPT !.search = Values], kind, 0) : kind \in {"offset", "cursor"}}

Start(r) ==
  /\ Idle(r) /\ conf.limit > 0 /\ \A p \in Procs : walk[p] = NoWalk
  /\ \E u \in Users, q \in Walks, back \in BOOLEAN :
       \E page \in loadModels(conf, store, u, q, Ids) :
         LET links == listLinks(conf, store, u, q, Ids, page)
         IN walk' = [walk EXCEPT ![r] =
              [user |-> u, back |-> back, asked |-> {Defaults(conf, q)}, seen |-> <<>>,
               next |-> IF back THEN links.last ELSE links.first,
               steady |-> Matching(conf, store, u, Defaults(conf, q), Ids), quiet |-> TRUE]]
  /\ UNCHANGED <<conf, store, pc, req, snap, model, copy, born, minted, calls>>

Follow(r) ==
  /\ \E q \in walk[r].next : \E page \in loadModels(conf, store, walk[r].user, q, Ids) :
       LET links == listLinks(conf, store, walk[r].user, q, Ids, page)
       IN walk' = IF walk[r].back
            THEN [walk EXCEPT ![r].seen = page \o @, ![r].next = links.previous]
            ELSE [walk EXCEPT ![r].seen = @ \o page, ![r].next = links.next]
  /\ UNCHANGED <<conf, store, pc, req, snap, model, copy, born, minted, calls>>

Stop(r) ==
  /\ walk[r] # NoWalk /\ walk[r].next = {}
  /\ walk' = [walk EXCEPT ![r] = NoWalk]
  /\ UNCHANGED <<conf, store, pc, req, snap, model, copy, born, minted, calls>>

\* What a walk can count on after d has changed.
Disturbed(w, d) == [w EXCEPT !.steady = @ \ {d}, !.quiet = FALSE]

-----------------------------------------------------------------------------
(***************************************************************************)
(* Requests that write.                                                    *)
(***************************************************************************)

\* The documents the transactions of other clients hold.
Held(r) == {req[q].id : q \in {q \in Procs \ {r} : pc[q] \in {"loaded", "saved"}}}

\* A relationship alone can not be written when updates are to be consistent.
Begin(r) ==
  /\ Idle(r) /\ calls < conf.calls
  /\ \E op \in Operations, u \in Users, d \in Ids \cup {None} :
       /\ (op = "create") <=> (d = None)
       /\ d # None => d \in Stored(store)
       /\ op \in Partials => ~conf.consistent
       /\ req' = [req EXCEPT ![r] = [op |-> op, user |-> u, id |-> d]]
  /\ pc' = [pc EXCEPT ![r] = "begun"]
  /\ snap' = [snap EXCEPT ![r] = store]
  /\ calls' = calls + 1
  /\ UNCHANGED <<conf, store, model, copy, walk, born, minted>>

\* The document is found in the transaction and locked: that fails if another
\* transaction holds it, or has changed it since.
loadModel(r) ==
  LET d == req[r].id
  IN /\ pc[r] = "begun" /\ req[r].op # "create"
     /\ d \in Selected(conf, snap[r], req[r].user, {d})
     /\ d \notin Held(r) /\ store[d] = snap[r][d]
     /\ pc' = [pc EXCEPT ![r] = "loaded"]
     /\ model' = [model EXCEPT ![r] = [snap[r][d] EXCEPT !.lk = @ + 1]]
     /\ UNCHANGED <<conf, store, req, snap, copy, walk, born, minted, calls>>

\* What a request sends of a field: one of some values, or nothing.
Option(f, S) == {{}} \cup {{x} : x \in IF f \in conf.sent THEN S ELSE {}}

Chosen(option, other) == IF option = {} THEN other ELSE CHOOSE x \in option : TRUE

\* The update tokens a client may send: that of the copy it has, or a blank.
KnownTokens(r) == {0} \cup {s.attrs.ut : s \in {s \in copy[r] : "ut" \in DOMAIN s.attrs}}

Data(r) ==
  [val : Option("val", Values), parent : Option("parent", Ids \cup {None}),
   links : Option("links", LinkSets), ct : Option("ct", Tokens), ut : Option("ut", KnownTokens(r))]

\* The fields of a request that are assigned: those the user may write, and
\* those he may not unless that is tolerated.
AssignedFields(u, data) ==
  {f \in Fields : data[f] # {} /\ (f \in Writable[u] \/ f \notin Tolerated)}

assignData(u, doc, data) ==
  [f \in DOMAIN doc |-> IF f \in AssignedFields(u, data) THEN Chosen(data[f], doc[f]) ELSE doc[f]]

Modified(original, doc, f) == doc[f] # original[f]

(* Mutated: the fields that may not be written are not verified.           *)
Unverified(u, original, doc, data) == TRUE

\* A field that may not be written may be sent as it is.
verifyReadOnly(u, original, doc, data) ==
  \A f \in AssignedFields(u, data) \ Writable[u] : ~Modified(original, doc, f)

\* On a create, a protected field has its default if there is one; else it
\* stays as it is.
ProtectedFieldsValidator(op, original, doc) ==
  \A f \in DOMAIN Protected :
    IF op = "create" THEN Protected[f] \subseteq {doc[f]} ELSE ~Modified(original, doc, f)

DependentResourcesValidator(c, view, d) ==
  \A e \in Live(c, view) : view[e].parent # d

\* References to soft deleted documents pass.
ReferencedResourcesValidator(view, doc) ==
  /\ doc.parent = None \/ doc.parent \in Stored(view)
  /\ doc.links \subseteq Stored(view)

MatchingReferencesValidator(view, doc) ==
  doc.parent # None =>
    doc.parent \in {e \in Stored(view) : view[e].val = doc.val}

\* The validators of the controller; the relationship validator stands for
\* those of the references and of the dependent resources.
RelationshipValidator(c, op, view, d, doc) ==
  IF op = "delete" THEN DependentResourcesValidator(c, view, d)
                   ELSE ReferencedResourcesValidator(view, doc)

Validators(r, original, doc) ==
  LET op == req[r].op
      view == snap[r]
  IN /\ "protected" \in conf.validators => ProtectedFieldsValidator(op, original, doc)
     /\ "relationship" \in conf.validators => RelationshipValidator(conf, op, view, req[r].id, doc)
     /\ "matching" \in conf.validators /\ op # "delete" => MatchingReferencesValidator(view, doc)

Valid(r, original, doc) == doc.val \notin Invalid /\ Validators(r, original, doc)

Saved(r, d, doc) ==
  /\ pc' = [pc EXCEPT ![r] = "saved"]
  /\ req' = [req EXCEPT ![r].id = d]
  /\ model' = [model EXCEPT ![r] = doc]
  /\ UNCHANGED <<conf, store, snap, copy, walk, born, calls>>

-----------------------------------------------------------------------------
\* A unique index on the field of the create token, which is recommended: a
\* document with the token of another, committed or about to be, is not inserted.
UniqueToken(r, t) ==
  /\ \A e \in Stored(store) : store[e].ct # t
  /\ \A q \in Procs \ {r} : pc[q] = "saved" /\ req[q].op = "create" => model[q].ct # t

(* Mutated: a soft deleted document does not count.                        *)
InsertIfMissingLive(r, doc) ==
  /\ doc.ct # Blank
  /\ \A e \in Live(conf, snap[r]) : snap[r][e].ct # doc.ct
  /\ conf.indexed => UniqueToken(r, doc.ct)

\* A document is inserted if there is none with its token, soft deleted or not.
InsertIfMissing(r, doc) ==
  /\ doc.ct # Blank
  /\ \A e \in Stored(snap[r]) : snap[r][e].ct # doc.ct
  /\ conf.indexed => UniqueToken(r, doc.ct)

createResource(r) ==
  /\ pc[r] = "begun" /\ req[r].op = "create"
  /\ \E data \in Data(r), d \in {d \in Ids : store[d] = Free} \ Held(r) :
       LET u == req[r].user
           made == assignData(u, Zero, data)
           doc == IF conf.consistent THEN [made EXCEPT !.ut = minted + 1] ELSE made
       IN /\ verifyReadOnly(u, Zero, made, data)
          /\ Valid(r, Zero, made)
          /\ conf.idempotent => InsertIfMissing(r, doc)
          /\ Saved(r, d, doc)
  /\ minted' = IF conf.consistent THEN minted + 1 ELSE minted

(* Mutated: the stored update token is not reset.                          *)
KeptToken(doc) == doc

\* The stored update token is taken from the model, so that the request has to
\* bring it.
ResetToken(doc) == IF conf.consistent THEN [doc EXCEPT !.ut = 0] ELSE doc

CreateTokenKept(original, doc) == conf.idempotent => doc.ct = original.ct

\* The document is replaced if it still has the update token of the request.
ReplaceFirst(r, original, doc) == conf.consistent => doc.ut = original.ut

updateResource(r) ==
  /\ pc[r] = "loaded" /\ req[r].op = "update"
  /\ \E data \in Data(r) :
       LET u == req[r].user
           original == model[r]
           doc == assignData(u, ResetToken(original), data)
       IN /\ verifyReadOnly(u, original, doc, data)
          /\ Valid(r, original, doc)
          /\ CreateTokenKept(original, doc)
          /\ ReplaceFirst(r, original, doc)
          /\ Saved(r, req[r].id, IF conf.consistent THEN [doc EXCEPT !.ut = minted + 1] ELSE doc)
  /\ minted' = IF conf.consistent THEN minted + 1 ELSE minted

deleteResource(r) ==
  /\ pc[r] = "loaded" /\ req[r].op = "delete"
  /\ Valid(r, model[r], model[r])
  /\ Saved(r, req[r].id, IF conf.soft THEN [model[r] EXCEPT !.del = TRUE] ELSE Gone)
  /\ UNCHANGED minted

\* A relationship alone: it has to be writable, even to leave it as it is.
PartialUpdate(r, rel, value) ==
  LET doc == [model[r] EXCEPT ![rel] = value]
  IN /\ rel \in Writable[req[r].user]
     /\ Valid(r, model[r], doc) /\ Saved(r, req[r].id, doc)

setRelationship(r) ==
  /\ pc[r] = "loaded" /\ req[r].op = "set"
  /\ \/ \E x \in Ids \cup {None} : PartialUpdate(r, "parent", x)
     \/ \E x \in LinkSets : PartialUpdate(r, "links", x)
  /\ UNCHANGED minted

appendToRelationship(r) ==
  /\ pc[r] = "loaded" /\ req[r].op = "append"
  /\ \E x \in LinkSets : PartialUpdate(r, "links", model[r].links \cup x)
  /\ UNCHANGED minted

removeFromRelationship(r) ==
  /\ pc[r] = "loaded" /\ req[r].op = "remove"
  /\ \E x \in LinkSets : PartialUpdate(r, "links", model[r].links \ x)
  /\ UNCHANGED minted

-----------------------------------------------------------------------------
Ended(r) ==
  /\ pc' = [pc EXCEPT ![r] = "idle"]
  /\ req' = [req EXCEPT ![r] = NoRequest]
  /\ snap' = [snap EXCEPT ![r] = NoView]
  /\ model' = [model EXCEPT ![r] = Free]

\* The resource a client is answered with, but for a relationship alone.
Answered(r) ==
  LET d == req[r].id
      u == req[r].user
      view == [snap[r] EXCEPT ![d] = model[r]]
  IN CASE req[r].op = "create" -> Kept(constructResource(u, d, model[r], [e \in {} |-> {}]))
       [] req[r].op = "update" -> Kept(resourceForModel(conf, view, u, d))
       [] req[r].op = "delete" -> {}
       [] OTHER -> copy[r]

Birth(r) == [ct |-> model[r].ct, knew |-> Stored(snap[r])]

\* The transaction commits.  The answer may not arrive.
Commit(r) ==
  LET d == req[r].id
  IN /\ pc[r] = "saved"
     /\ store' = [store EXCEPT ![d] = model[r]]
     /\ born' = IF req[r].op = "create" THEN [born EXCEPT ![d] = Birth(r)] ELSE born
     /\ walk' = [q \in Procs |-> IF walk[q] = NoWalk THEN NoWalk ELSE Disturbed(walk[q], d)]
     /\ \/ copy' = [copy EXCEPT ![r] = Answered(r)]
        \/ UNCHANGED copy
     /\ Ended(r)
     /\ UNCHANGED <<conf, minted, calls>>

\* A check fails, a callback returns an error, the database fails or the time
\* is over: the transaction is aborted.
Abort(r) ==
  /\ pc[r] # "idle"
  /\ Ended(r)
  /\ UNCHANGED <<conf, store, copy, walk, born, minted, calls>>

\* The TTL index of a soft deleted document.
Expire ==
  /\ \E d \in Stored(store) :
       /\ conf.soft /\ store[d].del
       /\ store' = [store EXCEPT ![d] = Gone]
       /\ walk' = [q \in Procs |-> IF walk[q] = NoWalk THEN NoWalk ELSE Disturbed(walk[q], d)]
  /\ UNCHANGED <<conf, pc, req, snap, model, copy, born, minted, calls>>

Next ==
  \/ Expire
  \/ \E r \in Procs :
       \/ listResources(r) \/ findResource(r) \/ getRelatedResources(r)
       \/ Start(r) \/ Follow(r) \/ Stop(r)
       \/ Begin(r) \/ loadModel(r)
       \/ createResource(r) \/ updateResource(r) \/ deleteResource(r)
       \/ setRelationship(r) \/ appendToRelationship(r) \/ removeFromRelationship(r)
       \/ Commit(r) \/ Abort(r)

Spec == Init /\ [][Next]_vars

-----------------------------------------------------------------------------
\* With idempotent creates, a create token makes one document, as long as it is
\* stored, deleted or not, whatever is sent again or written into the document.
\* The unique index that is recommended decides creates sent at the same time:
\* without it two documents may have a token, but only if neither was there as
\* the request of the other began.
CreatedOnce ==
  conf.idempotent =>
    \A d, e \in Stored(store) :
      d # e /\ born[d].ct = born[e].ct /\ born[d].ct # Blank =>
        ~conf.indexed /\ d \notin born[e].knew /\ e \notin born[d].knew

FireInv == TypeOK /\ CreatedOnce

Committed(r) == pc[r] = "saved" /\ pc'[r] = "idle" /\ store' # store

\* With consistent updates, a document is replaced only by a client whose copy
\* of it is what it replaces, whoever else has changed it meanwhile, and by
\* whichever way.
ConsistentUpdates ==
  [][\A r \in Procs : Committed(r) /\ conf.consistent /\ req[r].op \notin {"create", "delete"} =>
       \E s \in copy[r] : /\ s.id = req[r].id
                          /\ \A f \in DOMAIN s.attrs : s.attrs[f] = store[req[r].id][f]]_vars

\* A soft deleted document stays as it is until it expires: a request that has
\* loaded it before does not bring it back.
DeletedStays ==
  [][\A d \in Stored(store) : conf.soft /\ store[d].del => store'[d] \in {store[d], Gone}]_vars

\* Of what is stored, a request changes only a document that its user may see
\* as it is, and of it only the fields the user may write.
AuthorizedChanges ==
  [][\A r \in Procs : Committed(r) =>
       LET d == req[r].id
           old == IF req[r].op = "create" THEN Zero ELSE store[d]
           new == store'[d]
       IN /\ req[r].op # "create" => store[d].val \in Allowed[req[r].user]
          /\ req[r].op # "delete" =>
               \A f \in Fields \ {"ut"} : new[f] # old[f] => f \in Writable[req[r].user]]_vars

\* What a walk has shown of the documents that are there, and the same, from its
\* begin: each once and in the order asked for, and in the end all of them.
Covered(w, order) ==
  /\ w.next = {} => w.steady \subseteq Range(w.seen)
  /\ \A i, j \in DOMAIN w.seen : i < j /\ w.seen[i] \in w.steady /\ w.seen[j] \in w.steady =>
       Beyond(Keys(store, w.seen[j], order), Keys(store, w.seen[i], order), order)

\* A walk along the links shows every document that stays as it is, once and in
\* order: by cursor, whatever changes meanwhile; by offset, if nothing changes
\* and no two documents are sorted the same.
PagesCover ==
  \A r \in Procs : \A q \in walk[r].asked :
    LET order == TextScoreSort(q, Sorting(conf, q))
        distinct == \A d, e \in walk[r].steady : Keys(store, d, order) = Keys(store, e, order) => d = e
    IN (IF cursorPagination(conf, q) THEN q.search = {} ELSE walk[r].quiet /\ distinct)
         => Covered(walk[r], order)
=============================================================================
