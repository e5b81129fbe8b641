------------------------------ MODULE FireLists ------------------------------
(***************************************************************************)
(* What a controller of fire (controller.go) shows of a collection: which  *)
(* documents a request may see, how a list is filtered, sorted and cut     *)
(* into pages, and the links of a page to the others.  The operators work  *)
(* on a view, the documents as the request's transaction sees them, and on *)
(* a configuration of the controller.                                      *)
(*                                                                         *)
(* The model has an attribute val, a relationship to one other document of *)
(* the collection (parent, with the has-many inverse children) and one to  *)
(* many (links), and the fields of the idempotent create token (ct), the   *)
(* consistent update token (ut) and the soft delete (del).  lk is the      *)
(* lock counter of coal.                                                   *)
(***************************************************************************)
EXTENDS Integers, SequencesExt

CONSTANTS Ids,        \* the identifiers of documents
          Values,     \* the values of val; 0 is its zero value
          LinkSets,   \* the values of links
          Tokens,     \* the create tokens of clients
          Free, Gone, \* an identifier not used yet, or whose document is removed
          Users,      \* those the authorizers know
          Allowed,    \* the values an authorizer's filter lets a user see
          Readable,   \* the fields a user may read
          Filters,    \* the controller's Filters: fields
          Sorters     \* and its Sorters: fields that are numbers here

None == 0     \* no reference
Blank == ""   \* no token

ASSUME ListsAssumption ==
  /\ Ids \subseteq Nat \ {None} /\ \E n \in Ids \cup {None} : \A d \in Ids : d <= n
  /\ Values \subseteq Nat
  /\ LinkSets \subseteq SUBSET Ids
  /\ Blank \notin Tokens
  /\ Allowed \in [Users -> SUBSET Values]
  /\ Sorters \subseteq {"val", "parent", "ut"}

Fields == {"val", "parent", "links", "ct", "ut"}

Doc == [val : Values, parent : Ids \cup {None}, links : SUBSET Ids,
        ct : Tokens \cup {Blank}, ut : Nat, del : BOOLEAN, lk : Nat]

ASSUME MarksAssumption == Free \notin Doc /\ Gone \notin Doc /\ Free # Gone

Zero == [val |-> 0, parent |-> None, links |-> {}, ct |-> Blank, ut |-> 0,
         del |-> FALSE, lk |-> 0]

Views == [Ids -> Doc \cup {Free, Gone}]

Stored(view) == {d \in Ids : view[d] \notin {Free, Gone}}

\* The documents that are not soft deleted, if the controller has the
\* mechanism.
Live(c, view) == {d \in Stored(view) : c.soft => ~view[d].del}

(* Mutated: loadModel does not leave soft deleted documents out.           *)
SelectedAll(c, view, u, within) ==
  {d \in within \cap Stored(view) : view[d].val \in Allowed[u]}

\* Selector and filters: what the request asks for, without the soft deleted
\* documents, and what the authorizers let the user see.
Selected(c, view, u, within) ==
  {d \in within \cap Live(c, view) : view[d].val \in Allowed[u]}

-----------------------------------------------------------------------------
(***************************************************************************)
(* Resources.                                                              *)
(***************************************************************************)

\* The documents that refer to each of docs in their parent field, and that
\* the authorizers' RelationshipFilters let the user see.
preloadRelationships(c, view, u, docs) ==
  [d \in docs |-> {e \in Selected(c, view, u, Ids) : view[e].parent = d}]

\* The readable fields of a document, and the preloaded references, if any.
constructResource(u, d, doc, relationships) ==
  [id |-> d,
   attrs |-> [f \in Readable[u] |-> doc[f]],
   children |-> IF d \in DOMAIN relationships THEN relationships[d] ELSE {}]

resourceForModel(c, view, u, d) ==
  constructResource(u, d, view[d], preloadRelationships(c, view, u, {d}))

resourcesForModels(c, view, u, models) ==
  LET relationships == preloadRelationships(c, view, u, Range(models))
  IN {constructResource(u, d, view[d], relationships) : d \in Range(models)}

-----------------------------------------------------------------------------
(***************************************************************************)
(* Lists.  A request has filters, a function from some fields to the       *)
(* values asked for; sort keys, each descending or not; and, paged by      *)
(* offset or by cursor, the page it asks for.  A cursor is the sequence of *)
(* sort keys of a document, the blank one the end of the list.             *)
(***************************************************************************)
NoCursor == <<>>
blankCursor == <<0>>

SortKeys(q) == {q.sort[i].key : i \in DOMAIN q.sort}

cursorPagination(c, q) == c.cursor \/ q.kind = "cursor"

\* No value stands for the references that are not set.
Matches(doc, q) ==
  \A f \in DOMAIN q.filters :
    IF f = "parent" /\ q.filters[f] = {} THEN doc.parent = None
    ELSE doc[f] \in q.filters[f]

\* A text search selects documents and sorts them by their score.
Searchable(c, q) == q.search # {} => c.search /\ q.sort = <<>>

\* The whitelists of the controller.
Listed(q) == DOMAIN q.filters \subseteq Filters /\ SortKeys(q) \subseteq Sorters

\* The pagination of a request, with its defaults.
Defaults(c, q) ==
  LET size == IF c.limit > 0 /\ q.size <= 0 THEN c.limit ELSE q.size
      cursored == cursorPagination(c, q)
  IN [q EXCEPT !.size = size,
               !.number = IF ~cursored /\ size > 0 /\ @ <= 0 THEN 1 ELSE @,
               !.after = IF cursored /\ size > 0 /\ @ = NoCursor /\ q.before = NoCursor
                           THEN blankCursor ELSE @]

Limited(c, q) == ~(c.cursor /\ q.kind = "offset") /\ (c.limit > 0 => q.size <= c.limit)

\* Only what the user may read may be filtered and sorted by.
FiltersReadable(u, q) == DOMAIN q.filters \subseteq Readable[u]
SortingReadable(u, q) == SortKeys(q) \subseteq Readable[u]

(* Mutated: cursors are made without the identifier.                       *)
SortingAlone(c, q) == q.sort

\* The keys to sort by: with cursors the identifier comes last, so that no two
\* documents have the same keys.
Sorting(c, q) ==
  IF cursorPagination(c, q) /\ q.size > 0 THEN q.sort \o <<[key |-> "_id", desc |-> FALSE]>>
                                          ELSE q.sort

ReverseSort(sorting) == [i \in DOMAIN sorting |-> [sorting[i] EXCEPT !.desc = ~@]]

Keys(view, d, sorting) ==
  [i \in DOMAIN sorting |-> IF sorting[i].key = "_id" THEN d ELSE view[d][sorting[i].key]]

\* The clauses of a cursor: equal in the keys before one, and beyond in it.
Beyond(keys, cursor, sorting) ==
  \E i \in DOMAIN sorting :
    /\ \A j \in 1..(i - 1) : keys[j] = cursor[j]
    /\ IF sorting[i].desc THEN keys[i] < cursor[i] ELSE keys[i] > cursor[i]

\* The lists the database may answer with: it orders documents with the same
\* keys as it likes.
FindAll(view, docs, sorting, skip, limit) ==
  {IF limit = 0 THEN s ELSE SubSeq(s, skip + 1, Min({skip + limit, Len(s)})) :
     s \in {s \in SetToSeqs(docs) :
              \A i, j \in DOMAIN s : i < j =>
                ~Beyond(Keys(view, s[i], sorting), Keys(view, s[j], sorting), sorting)}}

Matching(c, view, u, q, within) ==
  {d \in Selected(c, view, u, within) :
     /\ Matches(view[d], q)
     /\ q.search # {} => view[d].val \in q.search}

\* A search is sorted by the score of the documents first, here their val: the
\* cursor knows nothing of it.
TextScoreSort(q, order) ==
  IF q.search # {} THEN <<[key |-> "val", desc |-> TRUE]>> \o order ELSE order

OffsetPage(view, docs, sorting, q) ==
  FindAll(view, docs, TextScoreSort(q, sorting), (q.number - 1) * q.size, q.size)

\* Before a cursor, the documents nearest to it come first in the reversed
\* order, and the page is reversed again.
CursorPage(view, docs, sorting, q) ==
  LET before == q.before # NoCursor
      cursor == IF before THEN q.before ELSE q.after
      order == IF before THEN ReverseSort(sorting) ELSE sorting
      beyond == {d \in docs : cursor = blankCursor \/ Beyond(Keys(view, d, order), cursor, order)}
      pages == FindAll(view, beyond, TextScoreSort(q, order), 0, q.size)
  IN IF before THEN {Reverse(page) : page \in pages} ELSE pages

\* What is checked of a request, but for the form of its cursor.
Accepted(c, u, q) ==
  /\ Searchable(c, q) /\ Listed(q) /\ Limited(c, q)
  /\ FiltersReadable(u, q) /\ SortingReadable(u, q)
  /\ cursorPagination(c, q) => q.before = NoCursor \/ q.after = NoCursor

\* The lists a request may be answered with; none if it is refused.
loadModels(c, view, u, asked, within) ==
  LET q == Defaults(c, asked)
      docs == Matching(c, view, u, q, within)
      sorting == Sorting(c, q)
  IN IF ~Accepted(c, u, q) THEN {}
     ELSE IF q.size <= 0 THEN FindAll(view, docs, TextScoreSort(q, sorting), 0, 0)
     ELSE IF cursorPagination(c, q) THEN CursorPage(view, docs, sorting, q)
     ELSE OffsetPage(view, docs, sorting, q)

-----------------------------------------------------------------------------
\* A link is a set: of the request it stands for, or of none.
NullLink == {}

OffsetLinks(q, count) ==
  LET lastPage == (count + q.size - 1) \div q.size
      page(n) == {[q EXCEPT !.number = n]}
  IN [first |-> page(1), last |-> page(lastPage),
      previous |-> IF q.number > 1 THEN page(q.number - 1) ELSE NullLink,
      next |-> IF q.number < lastPage THEN page(q.number + 1) ELSE NullLink]

CursorLinks(view, q, sorting, models) ==
  LET self == {q}
      before == q.before # NoCursor
      after == q.after # NoCursor
      first == {[q EXCEPT !.before = NoCursor, !.after = blankCursor]}
      last == {[q EXCEPT !.before = blankCursor, !.after = NoCursor]}
      fullPage == Len(models) = q.size
      cursor(d) == Keys(view, d, sorting)
  IN [first |-> first, last |-> last,
      previous |-> IF models = <<>>
                     THEN IF before THEN NullLink ELSE last
                   ELSE IF self = first \/ (before /\ ~fullPage) THEN NullLink
                   ELSE {[q EXCEPT !.after = NoCursor, !.before = cursor(Head(models))]},
      next |-> IF models = <<>>
                 THEN IF before THEN first ELSE NullLink
               ELSE IF self = last \/ (after /\ ~fullPage) THEN NullLink
               ELSE {[q EXCEPT !.after = cursor(Last(models)), !.before = NoCursor]}]

listLinks(c, view, u, asked, within, models) ==
  LET q == Defaults(c, asked)
      none == [first |-> NullLink, last |-> NullLink, previous |-> NullLink, next |-> NullLink]
  IN IF q.size <= 0 THEN none
     ELSE IF cursorPagination(c, q) THEN CursorLinks(view, q, Sorting(c, q), models)
     ELSE OffsetLinks(q, Cardinality(Matching(c, view, u, q, within)))
=============================================================================
