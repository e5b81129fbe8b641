---------------------------- MODULE CoalManager ----------------------------
(***************************************************************************)
(* The operations of coal on one collection: the wrapper of the driver's   *)
(* collection (collection.go), which refuses writes in a read only         *)
(* transaction, and the manager (manager.go), which refuses what is unsafe *)
(* outside of a transaction, validates models and increments the lock      *)
(* field `_lk` of the documents a caller wants to hold.                    *)
(*                                                                         *)
(* An operation works on a view, the documents as its caller sees them,    *)
(* and yields the set of its outcomes: the view it leaves, the documents   *)
(* it has returned, counted or matched, and its error.  "refused" is an    *)
(* error before anything is sent, "failed" one of the database, "invalid"  *)
(* a document that was read or written and then failed its validation.  A  *)
(* filter is the set of values it matches.  The order of a sort is not     *)
(* kept: the first documents are any of those that match.                  *)
(***************************************************************************)
EXTENDS Integers, FiniteSets

CONSTANTS Docs,      \* the identifiers of the collection's documents
          Values,    \* the values of their fields
          Invalid,   \* the values Model.Validate refuses
          Missing    \* no document

ASSUME ManagerAssumption ==
  Invalid \subseteq Values /\ Missing \notin [val : Values, lk : Nat]

\* What matters of a document: its fields and its lock counter.
Doc == [val : Values, lk : Nat]

Views == [Docs -> Doc \cup {Missing}]

\* What a context carries: no transaction, one that may write, or one that
\* is read only.
Contexts == {"none", "write", "read"}

HasTransaction(ctx) == ctx # "none"

Present(view) == {d \in Docs : view[d] # Missing}

Matching(view, filter) == {d \in Present(view) : view[d].val \in filter}

Outcome(view, docs, err) == [view |-> view, docs |-> docs, err |-> err]

Refused(view) == {Outcome(view, {}, "refused")}

Updated(view, docs, new) ==
  [d \in Docs |-> IF d \in docs THEN new[d] ELSE view[d]]

\* The same document, or the lack of one, for all.
All(doc) == [d \in Docs |-> doc]

\* The choices of one document of a set, if there is one.
One(docs) == IF docs = {} THEN {{}} ELSE {{d} : d \in docs}

-----------------------------------------------------------------------------
(***************************************************************************)
(* The collection.  A write of many documents is atomic in a transaction;  *)
(* outside of one it is a sequence of writes of one document that others   *)
(* may interleave, and an outcome is the next of them.                     *)
(***************************************************************************)
Writable(view, ctx, outcomes) == IF ctx = "read" THEN Refused(view) ELSE outcomes

\* The documents of a page, where a limit of zero is none.
Page(docs, skip, limit) ==
  LET rest == IF skip < Cardinality(docs) THEN Cardinality(docs) - skip ELSE 0
      size == IF limit > 0 /\ limit < rest THEN limit ELSE rest
  IN {S \in SUBSET docs : Cardinality(S) = size}

CollFind(view, docs, skip, limit) ==
  {Outcome(view, page, "none") : page \in Page(docs, skip, limit)}

CollFindOne(view, docs, skip) == CollFind(view, docs, skip, 1)

CountDocuments(view, docs, skip, limit) == CollFind(view, docs, skip, limit)

CollDistinct(view, docs) == CollFind(view, docs, 0, 0)

FindOneAndUpdate(view, ctx, docs, new) ==
  Writable(view, ctx,
    {Outcome(Updated(view, one, new), one, "none") : one \in One(docs)})

UpdateMany(view, ctx, docs, new) ==
  Writable(view, ctx,
    {Outcome(Updated(view, batch, new), batch, "none") :
       batch \in IF HasTransaction(ctx) THEN {docs} ELSE One(docs)})

UpdateOne(view, ctx, docs, new) ==
  Writable(view, ctx,
    {Outcome(Updated(view, one, new), one, "none") : one \in One(docs)})

ReplaceOne(view, ctx, docs, doc) ==
  Writable(view, ctx,
    {Outcome(Updated(view, one, All(doc)), one, "none") : one \in One(docs)})

\* The identifier is unique: a second document with it is refused.
Inserted(view, ids, doc) ==
  IF ids \cap Present(view) # {}
    THEN Outcome(view, {}, "failed")
    ELSE Outcome(Updated(view, ids, All(doc)), ids, "none")

InsertOne(view, ctx, id, doc) == Writable(view, ctx, {Inserted(view, {id}, doc)})

InsertMany(view, ctx, ids, doc) ==
  Writable(view, ctx,
    {Inserted(view, batch, doc) :
       batch \in IF HasTransaction(ctx) THEN {ids} ELSE One(ids)})

DeleteMany(view, ctx, docs) ==
  Writable(view, ctx,
    {Outcome(Updated(view, batch, All(Missing)), batch, "none") :
       batch \in IF HasTransaction(ctx) THEN {docs} ELSE One(docs)})

DeleteOne(view, ctx, docs) ==
  Writable(view, ctx,
    {Outcome(Updated(view, one, All(Missing)), one, "none") : one \in One(docs)})

FindOneAndDelete(view, ctx, docs) == DeleteOne(view, ctx, docs)

-----------------------------------------------------------------------------
(* Mutated: the lock is taken with an update that changes nothing.         *)
noIncrement(doc) == doc

(***************************************************************************)
(* The manager's reads.  incrementLock changes a document and nothing a    *)
(* reader sees of it: a write that leaves a document as it is would be no  *)
(* write to the database, and hold nothing.                                *)
(***************************************************************************)
incrementLock(doc) == [doc EXCEPT !.lk = @ + 1]

Locked(view) == [d \in Present(view) |-> incrementLock(view[d])]

\* The documents are decoded and, unless told otherwise, validated, after the
\* database has done its part.
Validated(outcomes) ==
  UNION {{[o EXCEPT !.err = e] :
            e \in IF \E d \in o.docs \cap Present(o.view) : o.view[d].val \in Invalid
                  THEN {o.err, "invalid"} ELSE {o.err}} : o \in outcomes}

\* The check of the operations that are safe in a transaction only, unless
\* the caller says NoTransaction.
Unsafe(ctx, lock, unsafe) == ~HasTransaction(ctx) /\ (lock \/ ~unsafe)

\* A lock can not be limited to a part of the documents that match.
Partial(lock, skip, limit) == lock /\ (skip > 0 \/ limit > 0)

Find(view, ctx, id, lock) ==
  LET docs == {id} \cap Present(view)
  IN IF lock /\ ~HasTransaction(ctx) THEN Refused(view)
     ELSE Validated(IF lock THEN FindOneAndUpdate(view, ctx, docs, Locked(view))
                            ELSE CollFindOne(view, docs, 0))

FindFirst(view, ctx, filter, skip, lock) ==
  LET docs == Matching(view, filter)
  IN IF lock /\ (~HasTransaction(ctx) \/ skip > 0) THEN Refused(view)
     ELSE Validated(IF lock THEN FindOneAndUpdate(view, ctx, docs, Locked(view))
                            ELSE CollFindOne(view, docs, skip))

FindAll(view, ctx, filter, skip, limit, lock, unsafe) ==
  LET docs == Matching(view, filter)
  IN IF Unsafe(ctx, lock, unsafe) \/ Partial(lock, skip, limit) THEN Refused(view)
     ELSE Validated(IF lock THEN UpdateMany(view, ctx, docs, Locked(view))
                            ELSE CollFind(view, docs, skip, limit))

\* The documents that match are locked before the first of them is decoded;
\* the caller may stop at any of them.
FindEach(view, ctx, filter, skip, limit, lock, unsafe) ==
  LET docs == Matching(view, filter)
  IN IF Unsafe(ctx, lock, unsafe) \/ Partial(lock, skip, limit) THEN Refused(view)
     ELSE IF lock THEN UpdateMany(view, ctx, docs, Locked(view))
                  ELSE CollFind(view, docs, skip, limit)

\* The iteration of the cursor of FindEach: a document and its validation.
Decode(outcomes) == Validated(outcomes)

project(view, ctx, docs, skip, limit, lock, unsafe) ==
  IF Unsafe(ctx, lock, unsafe) \/ Partial(lock, skip, limit) THEN Refused(view)
  ELSE IF lock THEN UpdateMany(view, ctx, docs, Locked(view))
               ELSE CollFind(view, docs, skip, limit)

\* Both ask for one document, so a lock is always refused.
Project(view, ctx, id, lock) ==
  project(view, ctx, {id} \cap Present(view), 0, 1, lock, TRUE)

ProjectFirst(view, ctx, filter, skip, lock) ==
  project(view, ctx, Matching(view, filter), skip, 1, lock, TRUE)

ProjectAll(view, ctx, filter, skip, limit, lock, unsafe) ==
  project(view, ctx, Matching(view, filter), skip, limit, lock, unsafe)

ProjectEach(view, ctx, filter, skip, limit, lock, unsafe) ==
  project(view, ctx, Matching(view, filter), skip, limit, lock, unsafe)

Count(view, ctx, filter, skip, limit, lock, unsafe) ==
  LET docs == Matching(view, filter)
  IN IF Unsafe(ctx, lock, unsafe) \/ Partial(lock, skip, limit) THEN Refused(view)
     ELSE IF lock THEN UpdateMany(view, ctx, docs, Locked(view))
                  ELSE CountDocuments(view, docs, skip, limit)

Distinct(view, ctx, filter, lock, unsafe) ==
  LET docs == Matching(view, filter)
  IN IF Unsafe(ctx, lock, unsafe) THEN Refused(view)
     ELSE IF lock THEN UpdateMany(view, ctx, docs, Locked(view))
                  ELSE CollDistinct(view, docs)

-----------------------------------------------------------------------------
(***************************************************************************)
(* The manager's writes.  A model is a document in the caller's hands, as  *)
(* it was read or made.                                                    *)
(***************************************************************************)

\* The update $set val, with $inc._lk put beside it when locking.
Changed(doc, val, lock) ==
  [val |-> val, lk |-> IF lock THEN doc.lk + 1 ELSE doc.lk]

Changes(view, val, lock) == [d \in Present(view) |-> Changed(view[d], val, lock)]

insert(view, ctx, ids, model, validate) ==
  IF ids = {} THEN {Outcome(view, {}, "none")}
  ELSE IF validate /\ model.val \in Invalid THEN {Outcome(view, {}, "invalid")}
  ELSE IF Cardinality(ids) > 1 THEN InsertMany(view, ctx, ids, model)
  ELSE UNION {InsertOne(view, ctx, id, model) : id \in ids}

Insert(view, ctx, id, model, validate) == insert(view, ctx, {id}, model, validate)

InsertAll(view, ctx, ids, model, validate) == insert(view, ctx, ids, model, validate)

\* The upsert: $setOnInsert leaves a document that matches as it is, so only
\* the lock makes it a write.
InsertIfMissing(view, ctx, filter, id, model, lock, validate) ==
  LET docs == Matching(view, filter)
      inserted == [model EXCEPT !.lk = IF lock THEN 1 ELSE @]
  IN IF lock /\ ~HasTransaction(ctx) THEN Refused(view)
     ELSE IF validate /\ model.val \in Invalid THEN {Outcome(view, {}, "invalid")}
     ELSE IF docs = {} THEN InsertOne(view, ctx, id, inserted)
     ELSE UpdateOne(view, ctx, docs,
                    IF lock THEN Locked(view) ELSE view)

\* The lock counter is incremented in the model, by a step that no sequence
\* of reads that lock the document makes.
replaced(view, ctx, docs, model, lock, validate) ==
  IF lock /\ ~HasTransaction(ctx) THEN Refused(view)
  ELSE IF validate /\ model.val \in Invalid THEN {Outcome(view, {}, "invalid")}
  ELSE ReplaceOne(view, ctx, docs,
                  [model EXCEPT !.lk = IF lock THEN @ + 1000 ELSE @])

Replace(view, ctx, id, model, lock, validate) ==
  replaced(view, ctx, {id} \cap Present(view), model, lock, validate)

\* The filter names the document and what it has to be for the replacement.
ReplaceFirst(view, ctx, id, filter, model, lock, validate) ==
  replaced(view, ctx, {id} \cap Matching(view, filter), model, lock, validate)

\* The updates validate what they have written: outside of a transaction, and
\* in one whose function goes on, an invalid document stays.
updated(view, ctx, docs, val, lock, validate) ==
  LET outcomes == FindOneAndUpdate(view, ctx, docs,
                                   Changes(view, val, lock))
  IN IF lock /\ ~HasTransaction(ctx) THEN Refused(view)
     ELSE IF validate THEN Validated(outcomes) ELSE outcomes

Update(view, ctx, id, val, lock, validate) ==
  updated(view, ctx, {id} \cap Present(view), val, lock, validate)

UpdateFirst(view, ctx, filter, val, lock, validate) ==
  updated(view, ctx, Matching(view, filter), val, lock, validate)

UpdateAll(view, ctx, filter, val, lock) ==
  IF lock /\ ~HasTransaction(ctx) THEN Refused(view)
  ELSE UpdateMany(view, ctx, Matching(view, filter), Changes(view, val, lock))

\* Without a document that matches, the update makes one, with an identifier
\* of its own.
Upsert(view, ctx, filter, val, lock, validate) ==
  LET made == UNION {InsertOne(view, ctx, id, [val |-> val, lk |-> IF lock THEN 1 ELSE 0]) :
                       id \in Docs \ Present(view)}
  IN IF Matching(view, filter) # {}
       THEN updated(view, ctx, Matching(view, filter), val, lock, validate)
     ELSE IF lock /\ ~HasTransaction(ctx) THEN Refused(view)
     ELSE IF validate THEN Validated(made) ELSE made

Delete(view, ctx, id) == FindOneAndDelete(view, ctx, {id} \cap Present(view))

DeleteAll(view, ctx, filter) == DeleteMany(view, ctx, Matching(view, filter))

DeleteFirst(view, ctx, filter) == FindOneAndDelete(view, ctx, Matching(view, filter))
=============================================================================
