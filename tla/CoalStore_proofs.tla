-------------------------- MODULE CoalStore_proofs --------------------------
(***************************************************************************)
(* Proofs about CoalStore: whatever operations of the manager callers run  *)
(* in their transactions, a document that one of them has locked stays     *)
(* what it has read.  An operation that locks a document writes it, which  *)
(* is shown of every operation of CoalManager; a session that has written  *)
(* a document excludes others from it until it commits.                    *)
(* And that a call, as a whole, is what AtomicStore promises of it.        *)
(***************************************************************************)
EXTENDS CoalStore, TLAPS

Errors == {"none", "refused", "failed", "invalid"}

Outcomes == [view : Views, docs : SUBSET Docs, err : Errors]

(* What a set of outcomes on a view guarantees: their types; for those     *)
(* that lock, that each document is written or is among those written      *)
(* before; and that nothing is written in a read only transaction and one  *)
(* document at a time outside of a transaction.                            *)
Typed(S) == S \subseteq Outcomes

Locking(view, old, S) == \A o \in S : o.docs \subseteq Wrote(view, o.view) \cup old

AtMostOne(docs) == \E d : docs \subseteq {d}

Confined(view, c, S) ==
  \A o \in S : /\ c = "read" => Wrote(view, o.view) = {}
               /\ c = "none" => AtMostOne(Wrote(view, o.view))

Sound(view, old, lock, c, S) ==
  Typed(S) /\ (lock => Locking(view, old, S)) /\ Confined(view, c, S)

-----------------------------------------------------------------------------
(* The collection.                                                         *)

LEMMA SoundOutcome ==
  ASSUME NEW view, NEW old, NEW lock, NEW c, NEW S, Sound(view, old, lock, c, S), NEW o \in S
  PROVE  /\ o \in Outcomes
         /\ lock => o.docs \subseteq Wrote(view, o.view) \cup old
         /\ c = "read" => Wrote(view, o.view) = {}
         /\ c = "none" => AtMostOne(Wrote(view, o.view))
<1>1. o \in Outcomes
  BY DEF Sound, Typed
<1>2. lock => o.docs \subseteq Wrote(view, o.view) \cup old
  BY DEF Sound, Locking
<1>3. Confined(view, c, S)
  BY DEF Sound
<1>4. QED
  BY <1>1, <1>2, <1>3 DEF Confined

LEMMA OutcomeType ==
  ASSUME NEW view \in Views, NEW docs \in SUBSET Docs, NEW err \in Errors
  PROVE  /\ Outcome(view, docs, err) \in Outcomes
         /\ Outcome(view, docs, err).view = view
         /\ Outcome(view, docs, err).docs = docs
         /\ Outcome(view, docs, err).err = err
  BY DEF Outcome, Outcomes

LEMMA UpdatedView ==
  ASSUME NEW view \in Views, NEW docs \in SUBSET Docs, NEW new,
         \A d \in docs : new[d] \in Doc \cup {Missing}
  PROVE  /\ Updated(view, docs, new) \in Views
         /\ \A d \in docs : new[d] # view[d] => d \in Wrote(view, Updated(view, docs, new))
         /\ Wrote(view, Updated(view, docs, new)) \subseteq docs
  BY DEF Updated, Views, Wrote

LEMMA PresentDoc ==
  ASSUME NEW view \in Views
  PROVE  /\ Present(view) \subseteq Docs
         /\ \A d \in Present(view) : view[d] \in Doc /\ view[d].lk \in Nat /\ view[d].val \in Values
         /\ \A d \in Docs \ Present(view) : view[d] = Missing
         /\ \A f : Matching(view, f) \subseteq Present(view)
  BY DEF Present, Views, Matching, Doc

LEMMA NothingSound ==
  ASSUME NEW view \in Views, NEW old, NEW c, NEW lock \in BOOLEAN, NEW err \in Errors
  PROVE  Sound(view, old, lock, c, {Outcome(view, {}, err)})
<1>1. {} \in SUBSET Docs
  OBVIOUS
<1>2. /\ Outcome(view, {}, err) \in Outcomes /\ Outcome(view, {}, err).docs = {}
      /\ Outcome(view, {}, err).view = view
  BY <1>1, OutcomeType
<1>3. Wrote(view, view) = {} /\ AtMostOne({})
  BY DEF Wrote, AtMostOne
<1>4. QED
  BY <1>2, <1>3 DEF Sound, Typed, Locking, Confined

LEMMA RefusedSound ==
  ASSUME NEW view \in Views, NEW old, NEW c, NEW lock \in BOOLEAN
  PROVE  Sound(view, old, lock, c, Refused(view))
  BY NothingSound DEF Refused, Errors

LEMMA WritableSound ==
  ASSUME NEW view \in Views, NEW old, NEW lock \in BOOLEAN, NEW c, NEW S,
         c # "read" => Sound(view, old, lock, c, S)
  PROVE  Sound(view, old, lock, c, Writable(view, c, S))
  BY RefusedSound DEF Writable

LEMMA FindSound ==
  ASSUME NEW view \in Views, NEW old, NEW c, NEW docs \in SUBSET Docs, NEW skip, NEW limit
  PROVE  Sound(view, old, FALSE, c, CollFind(view, docs, skip, limit))
<1>1. ASSUME NEW page \in Page(docs, skip, limit)
      PROVE  Outcome(view, page, "none") \in Outcomes /\ Outcome(view, page, "none").view = view
  <2>1. page \in SUBSET Docs
    BY DEF Page
  <2>2. QED
    BY <2>1, OutcomeType DEF Errors
<1>2. Wrote(view, view) = {} /\ AtMostOne({})
  BY DEF Wrote, AtMostOne
<1>3. QED
  BY <1>1, <1>2 DEF CollFind, Sound, Typed, Confined

(* Documents are written, each of them differently from what it was, or    *)
(* has been written before.                                                *)
WriteEach(view, new, batches) ==
  {Outcome(Updated(view, b, new), b, "none") : b \in batches}

LEMMA BatchSound ==
  ASSUME NEW view \in Views, NEW old, NEW c, NEW lock \in BOOLEAN, NEW docs \in SUBSET Docs, NEW new,
         \A d \in docs : new[d] \in Doc \cup {Missing},
         lock => \A d \in docs : new[d] # view[d] \/ d \in old,
         NEW batches \in SUBSET SUBSET docs,
         c # "read", c = "none" => \A b \in batches : AtMostOne(b)
  PROVE  Sound(view, old, lock, c, WriteEach(view, new, batches))
<1>1. ASSUME NEW b \in batches
      PROVE  /\ Outcome(Updated(view, b, new), b, "none") \in Outcomes
             /\ Outcome(Updated(view, b, new), b, "none").docs = b
             /\ Outcome(Updated(view, b, new), b, "none").view = Updated(view, b, new)
             /\ lock => b \subseteq Wrote(view, Updated(view, b, new)) \cup old
             /\ c = "none" => AtMostOne(Wrote(view, Updated(view, b, new)))
  <2>1. b \in SUBSET Docs /\ \A d \in b : new[d] \in Doc \cup {Missing}
    OBVIOUS
  <2>2. /\ Updated(view, b, new) \in Views
        /\ \A d \in b : new[d] # view[d] => d \in Wrote(view, Updated(view, b, new))
    BY <2>1, UpdatedView
  <2> DEFINE o == Outcome(Updated(view, b, new), b, "none")
  <2>3. o \in Outcomes /\ o.docs = b /\ o.view = Updated(view, b, new)
    BY <2>1, <2>2, OutcomeType DEF Errors
  <2>4. lock => b \subseteq Wrote(view, Updated(view, b, new)) \cup old
    BY <2>1, <2>2
  <2>5. c = "none" => AtMostOne(Wrote(view, Updated(view, b, new)))
    <3>1. Wrote(view, Updated(view, b, new)) \subseteq b
      BY <2>1, UpdatedView
    <3>2. QED
      BY <3>1 DEF AtMostOne
  <2>6. QED
    BY <2>3, <2>4, <2>5
<1>2. QED
  BY <1>1 DEF Sound, Typed, Locking, Confined, WriteEach

LEMMA OneOf ==
  ASSUME NEW docs
  PROVE  One(docs) \subseteq SUBSET docs /\ \A b \in One(docs) : AtMostOne(b)
  BY DEF One, AtMostOne

LEMMA FindOneAndUpdateSound ==
  ASSUME NEW view \in Views, NEW old, NEW lock \in BOOLEAN, NEW docs \in SUBSET Docs, NEW new, NEW c,
         \A d \in docs : new[d] \in Doc \cup {Missing},
         lock => \A d \in docs : new[d] # view[d] \/ d \in old
  PROVE  /\ Sound(view, old, lock, c, FindOneAndUpdate(view, c, docs, new))
         /\ Sound(view, old, lock, c, UpdateMany(view, c, docs, new))
         /\ Sound(view, old, lock, c, UpdateOne(view, c, docs, new))
<1> DEFINE batches == IF HasTransaction(c) THEN {docs} ELSE One(docs)
<1>1. /\ One(docs) \in SUBSET SUBSET docs /\ batches \in SUBSET SUBSET docs
      /\ \A b \in One(docs) : AtMostOne(b)
      /\ c = "none" => \A b \in batches : AtMostOne(b)
  BY OneOf DEF HasTransaction
<1>2. c # "read" => /\ Sound(view, old, lock, c, WriteEach(view, new, One(docs)))
                    /\ Sound(view, old, lock, c, WriteEach(view, new, batches))
  <2> HIDE DEF batches
  <2>1. QED
    BY <1>1, BatchSound
<1>3. QED
  BY <1>2, WritableSound DEF FindOneAndUpdate, UpdateMany, UpdateOne, WriteEach

LEMMA ReplaceOneSound ==
  ASSUME NEW view \in Views, NEW old, NEW lock \in BOOLEAN, NEW docs \in SUBSET Docs, NEW c,
         NEW doc \in Doc \cup {Missing},
         lock => \A d \in docs : doc # view[d] \/ d \in old
  PROVE  Sound(view, old, lock, c, ReplaceOne(view, c, docs, doc))
<1>1. One(docs) \in SUBSET SUBSET docs /\ \A b \in One(docs) : AtMostOne(b)
  BY OneOf
<1>2. \A d \in docs : All(doc)[d] = doc
  BY DEF All
<1>3. c # "read" => Sound(view, old, lock, c, WriteEach(view, All(doc), One(docs)))
  BY <1>1, <1>2, BatchSound
<1>4. QED
  BY <1>3, WritableSound DEF ReplaceOne, WriteEach

LEMMA DeleteSound ==
  ASSUME NEW view \in Views, NEW old, NEW docs \in SUBSET Docs, NEW c
  PROVE  /\ Sound(view, old, FALSE, c, DeleteMany(view, c, docs))
         /\ Sound(view, old, FALSE, c, FindOneAndDelete(view, c, docs))
<1> DEFINE batches == IF HasTransaction(c) THEN {docs} ELSE One(docs)
<1>1. /\ One(docs) \in SUBSET SUBSET docs /\ batches \in SUBSET SUBSET docs
      /\ \A b \in One(docs) : AtMostOne(b)
      /\ c = "none" => \A b \in batches : AtMostOne(b)
  BY OneOf DEF HasTransaction
<1>2. \A d \in docs : All(Missing)[d] = Missing
  BY DEF All
<1>3. c # "read" => /\ Sound(view, old, FALSE, c, WriteEach(view, All(Missing), One(docs)))
                    /\ Sound(view, old, FALSE, c, WriteEach(view, All(Missing), batches))
  <2> HIDE DEF batches
  <2>1. QED
    BY <1>1, <1>2, BatchSound
<1>4. QED
  BY <1>3, WritableSound DEF DeleteMany, DeleteOne, FindOneAndDelete, WriteEach

(* What is inserted has not been there.                                    *)
LEMMA InsertedSound ==
  ASSUME NEW view \in Views, NEW old, NEW c, NEW lock \in BOOLEAN, NEW ids \in SUBSET Docs,
         NEW doc \in Doc, c # "read", c = "none" => AtMostOne(ids)
  PROVE  Sound(view, old, lock, c, {Inserted(view, ids, doc)})
<1>1. CASE ids \cap Present(view) # {}
  BY <1>1, NothingSound DEF Inserted, Errors
<1>2. CASE ids \cap Present(view) = {}
  <2>1. \A d \in ids : All(doc)[d] = doc /\ view[d] = Missing /\ doc # Missing
    BY <1>2, PresentDoc, ManagerAssumption DEF All, Doc
  <2>2. Sound(view, old, lock, c, WriteEach(view, All(doc), {ids}))
    BY <2>1, BatchSound
  <2>3. QED
    BY <1>2, <2>2 DEF Inserted, WriteEach
<1>3. QED
  BY <1>1, <1>2

LEMMA InsertSound ==
  ASSUME NEW view \in Views, NEW old, NEW lock \in BOOLEAN, NEW c, NEW doc \in Doc
  PROVE  /\ \A id \in Docs : Sound(view, old, lock, c, InsertOne(view, c, id, doc))
         /\ \A ids \in SUBSET Docs : Sound(view, old, lock, c, InsertMany(view, c, ids, doc))
<1>1. ASSUME NEW id \in Docs
      PROVE  Sound(view, old, lock, c, InsertOne(view, c, id, doc))
  <2>1. AtMostOne({id}) /\ {id} \in SUBSET Docs
    BY DEF AtMostOne
  <2>2. QED
    BY <2>1, InsertedSound, WritableSound DEF InsertOne
<1>2. ASSUME NEW ids \in SUBSET Docs
      PROVE  Sound(view, old, lock, c, InsertMany(view, c, ids, doc))
  <2> DEFINE batches == IF HasTransaction(c) THEN {ids} ELSE One(ids)
  <2>1. batches \subseteq SUBSET Docs /\ (c = "none" => \A b \in batches : AtMostOne(b))
    BY OneOf DEF HasTransaction
  <2>2. ASSUME c # "read"
        PROVE  Sound(view, old, lock, c, {Inserted(view, b, doc) : b \in batches})
    <3> HIDE DEF batches
    <3>1. \A b \in batches : Sound(view, old, lock, c, {Inserted(view, b, doc)})
      BY <2>1, <2>2, InsertedSound
    <3>2. QED
      BY <3>1 DEF Sound, Typed, Locking, Confined
  <2>3. QED
    BY <2>2, WritableSound DEF InsertMany
<1>3. QED
  BY <1>1, <1>2

-----------------------------------------------------------------------------
(* The manager.                                                            *)

LEMMA ValidatedSound ==
  ASSUME NEW view \in Views, NEW old, NEW c, NEW lock \in BOOLEAN, NEW S, Sound(view, old, lock, c, S)
  PROVE  Sound(view, old, lock, c, Validated(S))
<1>1. ASSUME NEW o \in Validated(S)
      PROVE  o \in Outcomes /\ \E x \in S : o.docs = x.docs /\ o.view = x.view
  <2>1. PICK x \in S, e \in Errors : o = [x EXCEPT !.err = e]
    <3>1. PICK x \in S : o \in {[x EXCEPT !.err = e] :
                                  e \in IF \E d \in x.docs \cap Present(x.view) : x.view[d].val \in Invalid
                                        THEN {x.err, "invalid"} ELSE {x.err}}
      BY DEF Validated
    <3>2. x.err \in Errors
      BY DEF Sound, Typed, Outcomes
    <3>3. QED
      BY <3>1, <3>2 DEF Errors
  <2>2. x \in Outcomes
    BY DEF Sound, Typed
  <2>3. QED
    BY <2>1, <2>2 DEF Outcomes
<1>2. QED
  BY <1>1 DEF Sound, Typed, Locking, Confined

LEMMA UnionSound ==
  ASSUME NEW view, NEW old, NEW c, NEW lock \in BOOLEAN, NEW sets, \A S \in sets : Sound(view, old, lock, c, S)
  PROVE  Sound(view, old, lock, c, UNION sets)
  BY DEF Sound, Typed, Locking, Confined

LEMMA LockedDocs ==
  ASSUME NEW view \in Views
  PROVE  \A d \in Present(view) : Locked(view)[d] \in Doc /\ Locked(view)[d] # view[d]
<1> SUFFICES ASSUME NEW d \in Present(view)
             PROVE  Locked(view)[d] \in Doc /\ Locked(view)[d] # view[d]
  OBVIOUS
<1>1. view[d] \in Doc
  BY PresentDoc
<1>2. Locked(view)[d] = [view[d] EXCEPT !.lk = @ + 1]
  BY DEF Locked, incrementLock
<1>3. QED
  BY <1>1, <1>2 DEF Doc

LEMMA ChangesDocs ==
  ASSUME NEW view \in Views, NEW val \in Values, NEW lock \in BOOLEAN
  PROVE  \A d \in Present(view) : /\ Changes(view, val, lock)[d] \in Doc
                                  /\ lock => Changes(view, val, lock)[d] # view[d]
<1> SUFFICES ASSUME NEW d \in Present(view)
             PROVE  /\ Changes(view, val, lock)[d] \in Doc
                    /\ lock => Changes(view, val, lock)[d] # view[d]
  OBVIOUS
<1>1. view[d] \in Doc /\ view[d].lk \in Nat
  BY PresentDoc
<1>2. Changes(view, val, lock)[d] = [val |-> val, lk |-> IF lock THEN view[d].lk + 1 ELSE view[d].lk]
  BY DEF Changes, Changed
<1>3. QED
  BY <1>1, <1>2 DEF Doc

(* A read either finds documents or, to lock them, writes them.            *)
LEMMA ReadSound ==
  ASSUME NEW view \in Views, NEW old, NEW lock \in BOOLEAN, NEW c, NEW docs \in SUBSET Present(view),
         NEW skip, NEW limit
  PROVE  /\ Sound(view, old, lock, c, IF lock THEN FindOneAndUpdate(view, c, docs, Locked(view))
                                   ELSE CollFind(view, docs, skip, limit))
         /\ Sound(view, old, lock, c, IF lock THEN UpdateMany(view, c, docs, Locked(view))
                                   ELSE CollFind(view, docs, skip, limit))
<1>1. docs \in SUBSET Docs
  BY PresentDoc
<1>2. CASE lock
  <2>1. \A d \in docs : Locked(view)[d] \in Doc \cup {Missing} /\ Locked(view)[d] # view[d]
    BY LockedDocs
  <2>2. QED
    BY <1>1, <1>2, <2>1, FindOneAndUpdateSound
<1>3. CASE ~lock
  <2>1. Sound(view, old, FALSE, c, CollFind(view, docs, skip, limit))
    BY <1>1, FindSound
  <2>2. QED
    BY <1>3, <2>1 DEF Sound, Confined
<1>4. QED
  BY <1>2, <1>3

LEMMA FindsSound ==
  ASSUME NEW view \in Views, NEW old, NEW lock \in BOOLEAN, NEW c, NEW f, NEW id,
         NEW skip, NEW limit, NEW unsafe
  PROVE  /\ Sound(view, old, lock, c, Find(view, c, id, lock))
         /\ Sound(view, old, lock, c, FindFirst(view, c, f, skip, lock))
         /\ Sound(view, old, lock, c, FindAll(view, c, f, skip, limit, lock, unsafe))
         /\ Sound(view, old, lock, c, Decode(FindEach(view, c, f, skip, limit, lock, unsafe)))
<1>1. Matching(view, f) \in SUBSET Present(view) /\ {id} \cap Present(view) \in SUBSET Present(view)
  BY PresentDoc
<1>2. Sound(view, old, lock, c, Find(view, c, id, lock))
  BY <1>1, ReadSound, ValidatedSound, RefusedSound DEF Find, CollFindOne
<1>3. Sound(view, old, lock, c, FindFirst(view, c, f, skip, lock))
  BY <1>1, ReadSound, ValidatedSound, RefusedSound DEF FindFirst, CollFindOne
<1>4. Sound(view, old, lock, c, FindAll(view, c, f, skip, limit, lock, unsafe))
  BY <1>1, ReadSound, ValidatedSound, RefusedSound DEF FindAll
<1>5. Sound(view, old, lock, c, FindEach(view, c, f, skip, limit, lock, unsafe))
  BY <1>1, ReadSound, RefusedSound DEF FindEach
<1>6. QED
  BY <1>2, <1>3, <1>4, <1>5, ValidatedSound DEF Decode

LEMMA ProjectsSound ==
  ASSUME NEW view \in Views, NEW old, NEW lock \in BOOLEAN, NEW c, NEW f, NEW id,
         NEW skip, NEW limit, NEW unsafe
  PROVE  /\ Sound(view, old, lock, c, Project(view, c, id, lock))
         /\ Sound(view, old, lock, c, ProjectFirst(view, c, f, skip, lock))
         /\ Sound(view, old, lock, c, ProjectAll(view, c, f, skip, limit, lock, unsafe))
         /\ Sound(view, old, lock, c, ProjectEach(view, c, f, skip, limit, lock, unsafe))
         /\ Sound(view, old, lock, c, Count(view, c, f, skip, limit, lock, unsafe))
         /\ Sound(view, old, lock, c, Distinct(view, c, f, lock, unsafe))
<1>1. Matching(view, f) \in SUBSET Present(view) /\ {id} \cap Present(view) \in SUBSET Present(view)
  BY PresentDoc
<1>2. ASSUME NEW docs \in SUBSET Present(view), NEW from, NEW size, NEW any
      PROVE  Sound(view, old, lock, c, project(view, c, docs, from, size, lock, any))
  BY ReadSound, RefusedSound DEF project
<1>3. Sound(view, old, lock, c, Count(view, c, f, skip, limit, lock, unsafe))
  BY <1>1, ReadSound, RefusedSound DEF Count, CountDocuments
<1>4. Sound(view, old, lock, c, Distinct(view, c, f, lock, unsafe))
  BY <1>1, ReadSound, RefusedSound DEF Distinct, CollDistinct
<1>5. QED
  BY <1>1, <1>2, <1>3, <1>4 DEF Project, ProjectFirst, ProjectAll, ProjectEach

LEMMA InsertsOneSound ==
  ASSUME NEW view \in Views, NEW old, NEW lock \in BOOLEAN, NEW c, NEW model \in Doc,
         NEW id \in Docs, NEW ids \in SUBSET Docs, NEW f, NEW validate
  PROVE  /\ Sound(view, old, lock, c, Insert(view, c, id, model, validate))
         /\ Sound(view, old, lock, c, InsertAll(view, c, ids, model, validate))
         /\ Sound(view, old, lock, c, InsertIfMissing(view, c, f, id, model, lock, validate))
<1>1. ASSUME NEW some \in SUBSET Docs
      PROVE  Sound(view, old, lock, c, insert(view, c, some, model, validate))
  <2>1. /\ Sound(view, old, lock, c, {Outcome(view, {}, "none")})
        /\ Sound(view, old, lock, c, {Outcome(view, {}, "invalid")})
    BY NothingSound DEF Errors
  <2>2. Sound(view, old, lock, c, InsertMany(view, c, some, model))
    BY InsertSound
  <2>3. Sound(view, old, lock, c, UNION {InsertOne(view, c, d, model) : d \in some})
    <3>1. \A d \in some : Sound(view, old, lock, c, InsertOne(view, c, d, model))
      BY InsertSound
    <3>2. \A S \in {InsertOne(view, c, d, model) : d \in some} : Sound(view, old, lock, c, S)
      BY <3>1
    <3>3. QED
      BY <3>2, UnionSound
  <2>4. QED
    BY <2>1, <2>2, <2>3 DEF insert
<1>2. Sound(view, old, lock, c, InsertIfMissing(view, c, f, id, model, lock, validate))
  <2> DEFINE docs == Matching(view, f)
             inserted == [model EXCEPT !.lk = IF lock THEN 1 ELSE @]
             same == IF lock THEN Locked(view) ELSE view
  <2>1. inserted \in Doc
    BY DEF Doc
  <2>2. Sound(view, old, lock, c, InsertOne(view, c, id, inserted))
    BY <2>1, InsertSound
  <2>3. docs \in SUBSET Docs /\ docs \in SUBSET Present(view)
    BY PresentDoc
  <2>4. \A d \in docs : same[d] \in Doc \cup {Missing} /\ (lock => same[d] # view[d])
    BY <2>3, LockedDocs, PresentDoc
  <2>5. Sound(view, old, lock, c, UpdateOne(view, c, docs, same))
    BY <2>3, <2>4, FindOneAndUpdateSound
  <2>6. Sound(view, old, lock, c, {Outcome(view, {}, "invalid")})
    BY NothingSound DEF Errors
  <2>7. QED
    BY <2>2, <2>5, <2>6, RefusedSound DEF InsertIfMissing
<1>3. {id} \in SUBSET Docs
  OBVIOUS
<1>4. QED
  BY <1>1, <1>2, <1>3 DEF Insert, InsertAll

(* A replacement locks a document with a lock counter that the document    *)
(* does not have, if the model is what has been read and the document has  *)
(* not been written since.                                                 *)
LEMMA ReplaceSound ==
  ASSUME NEW view \in Views, NEW old, NEW lock \in BOOLEAN, NEW c, NEW model \in Doc,
         NEW id \in Docs, NEW f, NEW validate,
         id \in old \/ (view[id] # Missing /\ view[id].lk = model.lk)
  PROVE  /\ Sound(view, old, lock, c, Replace(view, c, id, model, lock, validate))
         /\ Sound(view, old, lock, c, ReplaceFirst(view, c, id, f, model, lock, validate))
<1> DEFINE doc == [model EXCEPT !.lk = IF lock THEN @ + 1000 ELSE @]
<1>1. doc \in Doc /\ doc.lk = IF lock THEN model.lk + 1000 ELSE model.lk
  BY DEF Doc
<1>2. model.lk \in Nat
  BY DEF Doc
<1>3. lock => doc # view[id] \/ id \in old
  <2>1. CASE lock /\ id \notin old
    <3>1. doc.lk # view[id].lk
      BY <1>1, <1>2, <2>1
    <3>2. doc # view[id]
      BY <3>1
    <3>3. QED
      BY <3>2
  <2>2. QED
    BY <2>1
<1>4. ASSUME NEW docs \in SUBSET {id}
      PROVE  Sound(view, old, lock, c, replaced(view, c, docs, model, lock, validate))
  <2>1. docs \in SUBSET Docs /\ (lock => \A d \in docs : doc # view[d] \/ d \in old)
    BY <1>3
  <2>2. Sound(view, old, lock, c, ReplaceOne(view, c, docs, doc))
    BY <1>1, <2>1, ReplaceOneSound
  <2>3. Sound(view, old, lock, c, {Outcome(view, {}, "invalid")})
    BY NothingSound DEF Errors
  <2>4. QED
    BY <2>2, <2>3, RefusedSound DEF replaced
<1>5. QED
  BY <1>4 DEF Replace, ReplaceFirst

LEMMA UpdateSound ==
  ASSUME NEW view \in Views, NEW old, NEW lock \in BOOLEAN, NEW c, NEW val \in Values,
         NEW id, NEW f, NEW validate
  PROVE  /\ Sound(view, old, lock, c, Update(view, c, id, val, lock, validate))
         /\ Sound(view, old, lock, c, UpdateFirst(view, c, f, val, lock, validate))
         /\ Sound(view, old, lock, c, UpdateAll(view, c, f, val, lock))
         /\ Sound(view, old, lock, c, Upsert(view, c, f, val, lock, validate))
<1>1. /\ Matching(view, f) \in SUBSET Present(view) /\ {id} \cap Present(view) \in SUBSET Present(view)
      /\ Present(view) \in SUBSET Docs
  BY PresentDoc
<1>2. ASSUME NEW docs \in SUBSET Present(view)
      PROVE  /\ Sound(view, old, lock, c, FindOneAndUpdate(view, c, docs, Changes(view, val, lock)))
             /\ Sound(view, old, lock, c, UpdateMany(view, c, docs, Changes(view, val, lock)))
  <2>1. docs \in SUBSET Docs
    BY <1>1
  <2>2. \A d \in docs : /\ Changes(view, val, lock)[d] \in Doc \cup {Missing}
                        /\ lock => Changes(view, val, lock)[d] # view[d]
    BY ChangesDocs
  <2>3. QED
    BY <2>1, <2>2, FindOneAndUpdateSound
<1>3. ASSUME NEW docs \in SUBSET Present(view)
      PROVE  Sound(view, old, lock, c, updated(view, c, docs, val, lock, validate))
  BY <1>2, ValidatedSound, RefusedSound DEF updated
<1>4. Sound(view, old, lock, c, UpdateAll(view, c, f, val, lock))
  BY <1>1, <1>2, RefusedSound DEF UpdateAll
<1>5. Sound(view, old, lock, c, Upsert(view, c, f, val, lock, validate))
  <2> DEFINE doc == [val |-> val, lk |-> IF lock THEN 1 ELSE 0]
             made == UNION {InsertOne(view, c, d, doc) : d \in Docs \ Present(view)}
  <2>1. doc \in Doc
    BY DEF Doc
  <2>2. \A d \in Docs \ Present(view) : Sound(view, old, lock, c, InsertOne(view, c, d, doc))
    BY <2>1, InsertSound
  <2>3. Sound(view, old, lock, c, made)
    <3>1. \A S \in {InsertOne(view, c, d, doc) : d \in Docs \ Present(view)} : Sound(view, old, lock, c, S)
      BY <2>2
    <3>2. QED
      BY <3>1, UnionSound
  <2>4. Sound(view, old, lock, c, Validated(made))
    BY <2>3, ValidatedSound
  <2>5. Sound(view, old, lock, c, updated(view, c, Matching(view, f), val, lock, validate))
    BY <1>1, <1>3
  <2>6. QED
    BY <2>3, <2>4, <2>5, RefusedSound DEF Upsert
<1>6. QED
  BY <1>1, <1>3, <1>4, <1>5 DEF Update, UpdateFirst

-----------------------------------------------------------------------------
(* The operations a function chooses from.                                 *)

LEMMA ReadsSound ==
  ASSUME NEW view \in Views, NEW old, NEW lock \in BOOLEAN, NEW c
  PROVE  Sound(view, old, lock, c, Reads(view, c, lock))
<1> DEFINE byId == {Find(view, c, id, lock) : id \in Docs}
           by(f) == {FindFirst(view, c, f, 0, lock), FindAll(view, c, f, 0, 0, lock, TRUE),
                     Decode(FindEach(view, c, f, 0, 0, lock, FALSE))}
           byFilter == UNION {by(f) : f \in Filters}
<1>1. \A S \in byId : Sound(view, old, lock, c, S)
  BY FindsSound
<1>2. ASSUME NEW f \in Filters, NEW S \in by(f)
      PROVE  Sound(view, old, lock, c, S)
  BY FindsSound
<1>3. ASSUME NEW S \in byFilter
      PROVE  Sound(view, old, lock, c, S)
  <2> HIDE DEF by
  <2>1. PICK f \in Filters : S \in by(f)
    OBVIOUS
  <2>2. QED
    BY <1>2, <2>1
<1>4. \A S \in byId \cup byFilter : Sound(view, old, lock, c, S)
  <2> HIDE DEF byFilter, byId
  <2>1. QED
    BY <1>1, <1>3
<1>5. Reads(view, c, lock) = UNION (byId \cup byFilter)
  BY DEF Reads
<1>6. QED
  <2> HIDE DEF byFilter, byId
  <2>1. Sound(view, old, lock, c, UNION (byId \cup byFilter))
    BY <1>4, UnionSound
  <2>2. QED
    BY <1>5, <2>1

LEMMA ProjectionsSound ==
  ASSUME NEW view \in Views, NEW old, NEW lock \in BOOLEAN, NEW c
  PROVE  Sound(view, old, lock, c, Projections(view, c, lock))
<1> DEFINE byId == {Project(view, c, id, lock) : id \in Docs}
           by(f) == {ProjectFirst(view, c, f, 0, lock), ProjectAll(view, c, f, 0, 0, lock, FALSE),
                     ProjectEach(view, c, f, 1, 1, lock, TRUE), Count(view, c, f, 0, 0, lock, TRUE),
                     Distinct(view, c, f, lock, FALSE)}
           byFilter == UNION {by(f) : f \in Filters}
<1>1. \A S \in byId : Sound(view, old, lock, c, S)
  BY ProjectsSound
<1>2. ASSUME NEW f \in Filters, NEW S \in by(f)
      PROVE  Sound(view, old, lock, c, S)
  BY ProjectsSound
<1>3. ASSUME NEW S \in byFilter
      PROVE  Sound(view, old, lock, c, S)
  <2> HIDE DEF by
  <2>1. PICK f \in Filters : S \in by(f)
    OBVIOUS
  <2>2. QED
    BY <1>2, <2>1
<1>4. \A S \in byId \cup byFilter : Sound(view, old, lock, c, S)
  <2> HIDE DEF byFilter, byId
  <2>1. QED
    BY <1>1, <1>3
<1>5. Projections(view, c, lock) = UNION (byId \cup byFilter)
  BY DEF Projections
<1>6. QED
  <2> HIDE DEF byFilter, byId
  <2>1. Sound(view, old, lock, c, UNION (byId \cup byFilter))
    BY <1>4, UnionSound
  <2>2. QED
    BY <1>5, <2>1

LEMMA UpdatesSound ==
  ASSUME NEW view \in Views, NEW old, NEW lock \in BOOLEAN, NEW c
  PROVE  Sound(view, old, lock, c, Updates(view, c, lock))
<1> DEFINE byId(v) == {Update(view, c, id, v, lock, TRUE) : id \in Docs}
           by(f, v) == {UpdateFirst(view, c, f, v, lock, TRUE), UpdateAll(view, c, f, v, lock),
                        Upsert(view, c, f, v, lock, FALSE)}
           byIds == UNION {byId(v) : v \in Values}
           byFilter == UNION {by(f, v) : f \in Filters, v \in Values}
<1>1. ASSUME NEW v \in Values, NEW S \in byId(v)
      PROVE  Sound(view, old, lock, c, S)
  BY UpdateSound
<1>2. ASSUME NEW f \in Filters, NEW v \in Values, NEW S \in by(f, v)
      PROVE  Sound(view, old, lock, c, S)
  BY UpdateSound
<1>3. ASSUME NEW S \in byIds \cup byFilter
      PROVE  Sound(view, old, lock, c, S)
  <2> HIDE DEF by, byId
  <2>1. CASE S \in byIds
    <3>1. PICK v \in Values : S \in byId(v)
      BY <2>1
    <3>2. QED
      BY <1>1, <3>1
  <2>2. CASE S \in byFilter
    <3>1. PICK f \in Filters, v \in Values : S \in by(f, v)
      BY <2>2
    <3>2. QED
      BY <1>2, <3>1
  <2>3. QED
    BY <2>1, <2>2
<1>4. Updates(view, c, lock) = UNION (byIds \cup byFilter)
  BY DEF Updates
<1>5. QED
  <2> HIDE DEF byFilter, byIds
  <2>1. Sound(view, old, lock, c, UNION (byIds \cup byFilter))
    BY <1>3, UnionSound
  <2>2. QED
    BY <1>4, <2>1

LEMMA InsertsSound ==
  ASSUME NEW view \in Views, NEW old, NEW lock \in BOOLEAN, NEW c
  PROVE  Sound(view, old, lock, c, Inserts(view, c, lock))
<1> DEFINE model(v) == [val |-> v, lk |-> 0]
           by(id, v) == {Insert(view, c, id, model(v), TRUE), InsertAll(view, c, Docs, model(v), TRUE)} \cup
                        {InsertIfMissing(view, c, f, id, model(v), lock, TRUE) : f \in Filters}
           sets == {by(id, v) : id \in Docs, v \in Values}
<1>1. ASSUME NEW id \in Docs, NEW v \in Values, NEW S \in by(id, v)
      PROVE  Sound(view, old, lock, c, S)
  <2>1. model(v) \in Doc /\ Docs \in SUBSET Docs
    BY DEF Doc
  <2>2. QED
    BY <2>1, InsertsOneSound
<1>2. ASSUME NEW S \in UNION sets
      PROVE  Sound(view, old, lock, c, S)
  <2> HIDE DEF by
  <2>1. PICK id \in Docs, v \in Values : S \in by(id, v)
    OBVIOUS
  <2>2. QED
    BY <1>1, <2>1
<1>3. Inserts(view, c, lock) = UNION UNION sets
  BY DEF Inserts
<1>4. QED
  <2> HIDE DEF sets
  <2>1. Sound(view, old, lock, c, UNION (UNION sets))
    <3>1. \A S \in UNION sets : Sound(view, old, lock, c, S)
      BY <1>2
    <3> DEFINE all == UNION sets
    <3>2. \A S \in all : Sound(view, old, lock, c, S)
      BY <3>1
    <3> HIDE DEF all
    <3>3. Sound(view, old, lock, c, UNION all)
      BY <3>2, UnionSound
    <3>4. QED
      BY <3>3 DEF all
  <2>2. QED
    BY <1>3, <2>1

(* The models in a caller's hands are what was read and not written since. *)
LEMMA ReplacesSound ==
  ASSUME NEW view \in Views, NEW old, NEW lock \in BOOLEAN, NEW c,
         NEW hands \in SUBSET (Docs \X Nat),
         \A m \in hands : m[1] \in old \/ (view[m[1]] # Missing /\ view[m[1]].lk = m[2])
  PROVE  Sound(view, old, lock, c, Replaces(view, c, hands, lock))
<1> DEFINE model(m, v) == [val |-> v, lk |-> m[2]]
           by(m, v) == {Replace(view, c, m[1], model(m, v), lock, TRUE)} \cup
                       {ReplaceFirst(view, c, m[1], f, model(m, v), lock, TRUE) : f \in Filters}
           sets == {by(m, v) : m \in hands, v \in Values}
<1>1. ASSUME NEW m \in hands, NEW v \in Values, NEW S \in by(m, v)
      PROVE  Sound(view, old, lock, c, S)
  <2>1. m[1] \in Docs /\ m[2] \in Nat
    OBVIOUS
  <2>2. model(m, v) \in Doc /\ model(m, v).lk = m[2]
    BY <2>1 DEF Doc
  <2>3. m[1] \in old \/ (view[m[1]] # Missing /\ view[m[1]].lk = model(m, v).lk)
    BY <2>2
  <2>4. Sound(view, old, lock, c, Replace(view, c, m[1], model(m, v), lock, TRUE))
    BY <2>1, <2>2, <2>3, ReplaceSound
  <2>5. \A f \in Filters : Sound(view, old, lock, c, ReplaceFirst(view, c, m[1], f, model(m, v), lock, TRUE))
    BY <2>1, <2>2, <2>3, ReplaceSound
  <2>6. QED
    BY <2>4, <2>5
<1>2. ASSUME NEW S \in UNION sets
      PROVE  Sound(view, old, lock, c, S)
  <2> HIDE DEF by
  <2>1. PICK m \in hands, v \in Values : S \in by(m, v)
    OBVIOUS
  <2>2. QED
    BY <1>1, <2>1
<1>3. Replaces(view, c, hands, lock) = UNION UNION sets
  BY DEF Replaces
<1>4. QED
  <2> HIDE DEF sets
  <2>1. Sound(view, old, lock, c, UNION (UNION sets))
    <3>1. \A S \in UNION sets : Sound(view, old, lock, c, S)
      BY <1>2
    <3> DEFINE all == UNION sets
    <3>2. \A S \in all : Sound(view, old, lock, c, S)
      BY <3>1
    <3> HIDE DEF all
    <3>3. Sound(view, old, lock, c, UNION all)
      BY <3>2, UnionSound
    <3>4. QED
      BY <3>3 DEF all
  <2>2. QED
    BY <1>3, <2>1

LEMMA DeletesSound ==
  ASSUME NEW view \in Views, NEW old, NEW c
  PROVE  Sound(view, old, FALSE, c, Deletes(view, c))
<1> DEFINE byId == {Delete(view, c, id) : id \in Docs}
           by(f) == {DeleteAll(view, c, f), DeleteFirst(view, c, f)}
           byFilter == UNION {by(f) : f \in Filters}
<1>1. \A f : Matching(view, f) \in SUBSET Docs
  BY PresentDoc
<1>2. \A id \in Docs : {id} \cap Present(view) \in SUBSET Docs
  OBVIOUS
<1>3. \A S \in byId : Sound(view, old, FALSE, c, S)
  BY <1>2, DeleteSound DEF Delete
<1>4. ASSUME NEW f \in Filters, NEW S \in by(f)
      PROVE  Sound(view, old, FALSE, c, S)
  BY <1>1, DeleteSound DEF DeleteAll, DeleteFirst
<1>5. \A S \in byId \cup byFilter : Sound(view, old, FALSE, c, S)
  BY <1>3, <1>4
<1>6. QED
  BY <1>5, UnionSound DEF Deletes

LEMMA OperationsSound ==
  ASSUME NEW view \in Views, NEW old, NEW lock \in BOOLEAN, NEW c,
         NEW hands \in SUBSET (Docs \X Nat),
         \A m \in hands : m[1] \in old \/ (view[m[1]] # Missing /\ view[m[1]].lk = m[2])
  PROVE  LET all == Operations(view, c, hands, lock)
         IN /\ Sound(view, old, lock, c, all.reads)
            /\ Sound(view, old, lock, c, all.others)
            /\ Sound(view, old, FALSE, c, all.deletes)
<1> DEFINE others == Projections(view, c, lock) \cup Updates(view, c, lock)
                       \cup Replaces(view, c, hands, lock) \cup Inserts(view, c, lock)
<1>1. Sound(view, old, lock, c, others)
  <2> DEFINE sets == {Projections(view, c, lock), Updates(view, c, lock),
                      Replaces(view, c, hands, lock), Inserts(view, c, lock)}
  <2>1. \A S \in sets : Sound(view, old, lock, c, S)
    BY ProjectionsSound, UpdatesSound, ReplacesSound, InsertsSound
  <2>2. others = UNION sets
    OBVIOUS
  <2> HIDE DEF sets, others
  <2>3. QED
    BY <2>1, <2>2, UnionSound
<1>2. /\ Operations(view, c, hands, lock).reads = Reads(view, c, lock)
      /\ Operations(view, c, hands, lock).others = others
      /\ Operations(view, c, hands, lock).deletes = Deletes(view, c)
  BY DEF Operations
<1>3. Sound(view, old, lock, c, Reads(view, c, lock)) /\ Sound(view, old, FALSE, c, Deletes(view, c))
  BY ReadsSound, DeletesSound
<1>4. QED
  <2> HIDE DEF others
  <2>1. QED
    BY <1>1, <1>2, <1>3

-----------------------------------------------------------------------------
(* The inductive invariant.  A session that is alive has written what it   *)
(* has locked; nobody else has committed or written any of that; and the   *)
(* models in its caller's hands are current unless it has written them.  A *)
(* read only transaction has written nothing.                              *)

Alive(p) == Open(p) /\ ~dead[p] /\ ~landed[p]

Own(p) ==
  Alive(p) =>
    /\ locked[p] \subseteq written[p]
    /\ \A d \in written[p] : store[d] = snap[p][d]
    /\ \A m \in models[p] : \/ m[1] \in written[p]
                            \/ local[p][m[1]] # Missing /\ local[p][m[1]].lk = m[2]
    /\ pc[p] = "open" => \A d \in Docs \ stale[p] : store[d] = snap[p][d]

Unwritten(p) == ctx[p] = "read" => written[p] = {}

Exclusive ==
  \A p, q \in Procs : p # q /\ Alive(p) /\ Alive(q) => written[p] \cap written[q] = {}

IInv ==
  /\ TypeOK
  /\ \A p \in Procs : pc[p] = "open" => ~landed[p]
  /\ \A p \in Procs : Own(p)
  /\ \A p \in Procs : Unwritten(p)
  /\ Exclusive

LEMMA HeldBy ==
  ASSUME NEW p \in Procs
  PROVE  \A d : d \in Held(p) <=> \E q \in Procs \ {p} : Alive(q) /\ d \in written[q]
  BY DEF Held, Alive

(* What another process leaves of a session: its own state, and of the     *)
(* store what it has written and what it will not find stale.              *)
Left(q) ==
  /\ pc'[q] = pc[q] /\ snap'[q] = snap[q] /\ local'[q] = local[q] /\ written'[q] = written[q]
  /\ dead'[q] = dead[q] /\ landed'[q] = landed[q] /\ locked'[q] = locked[q]
  /\ models'[q] = models[q] /\ ctx'[q] = ctx[q]

Spared(q) ==
  Alive(q) =>
    /\ \A d \in written[q] : store'[d] = store[d]
    /\ pc[q] = "open" => \A d \in Docs \ stale'[q] : d \notin stale[q] /\ store'[d] = store[d]

LEMMA LeftOwn ==
  ASSUME NEW q \in Procs, Own(q), Left(q), Spared(q)
  PROVE  Own(q)' /\ (Alive(q)' <=> Alive(q))
<1>1. Alive(q)' <=> Alive(q)
  BY DEF Left, Alive, Open
<1>2. CASE Alive(q)
  BY <1>1, <1>2 DEF Own, Left, Spared
<1>3. CASE ~Alive(q)
  BY <1>1, <1>3 DEF Own
<1>4. QED
  BY <1>1, <1>2, <1>3

(* A step of p, which leaves the others and whose session, if alive after  *)
(* it, has written nothing that others hold.                               *)
LEMMA StepOf ==
  ASSUME IInv, NEW p \in Procs, TypeOK',
         \A q \in Procs \ {p} : Left(q) /\ Spared(q),
         Own(p)', Unwritten(p)', pc'[p] = "open" => ~landed'[p],
         Alive(p)' => \A q \in Procs \ {p} : Alive(q) => written'[p] \cap written[q] = {}
  PROVE  IInv'
<1>1. \A q \in Procs \ {p} : Own(q)' /\ (Alive(q)' <=> Alive(q)) /\ written'[q] = written[q]
  BY LeftOwn DEF IInv, Left
<1>2. (\A q \in Procs : Own(q)') /\ (\A q \in Procs : Unwritten(q)')
  BY <1>1 DEF IInv, Left, Unwritten
<1>3. \A q \in Procs : pc'[q] = "open" => ~landed'[q]
  BY DEF IInv, Left
<1>4. Exclusive'
  <2>1. ASSUME NEW a \in Procs, NEW b \in Procs, a # b, Alive(a)', Alive(b)'
        PROVE  written'[a] \cap written'[b] = {}
    <3>1. CASE a # p /\ b # p
      BY <1>1, <2>1, <3>1 DEF IInv, Exclusive
    <3>2. CASE a = p
      BY <1>1, <2>1, <3>2
    <3>3. CASE b = p
      BY <1>1, <2>1, <3>3
    <3>4. QED
      BY <3>1, <3>2, <3>3
  <2>2. QED
    BY <2>1 DEF Exclusive
<1>5. QED
  BY <1>2, <1>3, <1>4 DEF IInv

(* The session of p ends.                                                  *)
LEMMA EndedStep ==
  ASSUME IInv, NEW p \in Procs, NEW aborted \in BOOLEAN, Ended(p, aborted), TypeOK',
         \A q \in Procs \ {p} : pc'[q] = pc[q] /\ ctx'[q] = ctx[q] /\ Spared(q),
         aborted \/ pc'[p] \notin {"open", "commit"}
  PROVE  IInv'
<1>1. \A q \in Procs \ {p} : Left(q)
  BY DEF IInv, TypeOK, Ended, Left
<1>2. ~Alive(p)' /\ ~landed'[p]
  BY DEF IInv, TypeOK, Ended, Alive, Open
<1>3. Unwritten(p)'
  BY DEF IInv, TypeOK, Ended, Unwritten
<1>4. QED
  BY <1>1, <1>2, <1>3, StepOf DEF Own

(* A session of p starts.                                                  *)
LEMMA StartedStep ==
  ASSUME IInv, NEW p \in Procs, StartTransaction(p), TypeOK', store' = store,
         \A q \in Procs \ {p} : pc'[q] = pc[q] /\ ctx'[q] = ctx[q]
  PROVE  IInv'
<1>1. \A q \in Procs \ {p} : Left(q) /\ stale'[q] = stale[q]
  BY DEF IInv, TypeOK, StartTransaction, Left
<1>2. \A q \in Procs \ {p} : Spared(q)
  BY <1>1 DEF Spared
<1>3. /\ snap'[p] = store' /\ written'[p] = {} /\ locked'[p] = {} /\ models'[p] = {}
      /\ ~landed'[p]
  BY DEF IInv, TypeOK, StartTransaction
<1>4. Own(p)' /\ Unwritten(p)'
  BY <1>3 DEF Own, Unwritten
<1>5. QED
  BY <1>1, <1>2, <1>3, <1>4, StepOf

(* The session of p is what it was, or has landed or is committing.        *)
LEMMA KeptStep ==
  ASSUME IInv, NEW p \in Procs, TypeOK', \A q \in Procs \ {p} : pc'[q] = pc[q] /\ ctx'[q] = ctx[q] /\ Spared(q),
         UNCHANGED <<ctx, snap, local, written, dead, locked, models>>,
         \A q \in Procs \ {p} : landed'[q] = landed[q],
         pc'[p] = "commit", Open(p),
         landed'[p] \/ (store' = store /\ landed' = landed)
  PROVE  IInv'
<1>1. \A q \in Procs \ {p} : Left(q)
  BY DEF Left
<1>2. Alive(p)' => Alive(p) /\ store' = store
  BY DEF IInv, TypeOK, Alive, Open
<1>3. Own(p)'
  <2>1. CASE Alive(p)'
    BY <1>2, <2>1 DEF IInv, Own
  <2>2. CASE ~Alive(p)'
    BY <2>2 DEF Own
  <2>3. QED
    BY <2>1, <2>2
<1>4. Alive(p)' => \A q \in Procs \ {p} : Alive(q) => written'[p] \cap written[q] = {}
  BY <1>2 DEF IInv, Exclusive
<1>5. Unwritten(p)'
  BY DEF IInv, Unwritten
<1>6. QED
  BY <1>1, <1>3, <1>4, <1>5, StepOf

(* The writes of a session that is alive spare those of the others.        *)
LEMMA LandSpares ==
  ASSUME IInv, NEW p \in Procs, Open(p), ~dead[p], Land(p), pc[p] = "commit"
  PROVE  /\ store' \in Views /\ stale' \in [Procs -> SUBSET Docs]
         /\ \A q \in Procs \ {p} : Spared(q)
<1>1. CASE landed[p]
  BY <1>1 DEF Land, IInv, TypeOK, Spared
<1>2. CASE ~landed[p]
  <2>1. Alive(p) /\ store' = [d \in Docs |-> IF d \in written[p] THEN local[p][d] ELSE store[d]]
    BY <1>2 DEF Land, Alive
  <2>2. stale' = [q \in Procs |-> IF pc[q] = "open" /\ q # p THEN stale[q] \cup written[p] ELSE {}]
    BY <1>2 DEF Land
  <2>3. store' \in Views
    BY <2>1 DEF IInv, TypeOK, Views
  <2>4. stale' \in [Procs -> SUBSET Docs]
    BY <2>2 DEF IInv, TypeOK
  <2>5. ASSUME NEW q \in Procs \ {p}, Alive(q)
        PROVE  /\ \A d \in written[q] : store'[d] = store[d]
               /\ pc[q] = "open" => \A d \in Docs \ stale'[q] : d \notin stale[q] /\ store'[d] = store[d]
    <3>1. written[p] \cap written[q] = {} /\ written[q] \subseteq Docs
      BY <2>1, <2>5 DEF IInv, Exclusive, TypeOK
    <3>2. QED
      BY <2>1, <2>2, <3>1
  <2>6. QED
    BY <2>3, <2>4, <2>5 DEF Spared
<1>3. QED
  BY <1>1, <1>2 DEF IInv, TypeOK

LEMMA UnchangedSpares ==
  ASSUME NEW q \in Procs, store' = store, stale'[q] = stale[q]
  PROVE  Spared(q)
  BY DEF Spared

-----------------------------------------------------------------------------
(* The steps.                                                              *)

LEMMA InitInv == Init => IInv
<1> SUFFICES ASSUME Init
             PROVE  IInv
  OBVIOUS
<1>1. \A p \in Procs : pc[p] = "idle" /\ ~Open(p)
  BY DEF Init, Open
<1>2. TypeOK
  <2>1. store \in Views
    BY DEF Init, Views, Doc
  <2>2. [d \in Docs |-> Missing] \in Views
    BY DEF Views
  <2>3. QED
    BY <2>1, <2>2 DEF Init, TypeOK, Contexts
<1>3. QED
  BY <1>1, <1>2 DEF Init, IInv, Own, Unwritten, Exclusive, Alive

LEMMA NoSessionView == NoSession \in Views
  BY DEF NoSession, Views

(* The types of what ends or starts a session.                             *)
LEMMA EndedType ==
  ASSUME TypeOK, NEW p \in Procs, NEW aborted \in BOOLEAN, Ended(p, aborted)
  PROVE  /\ snap' \in [Procs -> Views] /\ local' \in [Procs -> Views]
         /\ written' \in [Procs -> SUBSET Docs]
         /\ dead' \in [Procs -> BOOLEAN] /\ landed' \in [Procs -> BOOLEAN]
         /\ locked' \in [Procs -> SUBSET Docs]
         /\ models' \in [Procs -> SUBSET (Docs \X Nat)]
  BY NoSessionView DEF TypeOK, Ended

LEMMA AnswerType ==
  ASSUME TypeOK, NEW p \in Procs, NEW result \in {"ok", "error"}, Answer(p, result), calls' = calls,
         store' \in Views, stale' \in [Procs -> SUBSET Docs]
  PROVE  TypeOK' /\ (\A q \in Procs \ {p} : pc'[q] = pc[q] /\ ctx'[q] = ctx[q]) /\ pc'[p] = result
<1>1. Ended(p, FALSE)
  BY DEF Answer
<1>2. /\ snap' \in [Procs -> Views] /\ local' \in [Procs -> Views]
      /\ written' \in [Procs -> SUBSET Docs]
      /\ dead' \in [Procs -> BOOLEAN] /\ landed' \in [Procs -> BOOLEAN]
      /\ locked' \in [Procs -> SUBSET Docs]
      /\ models' \in [Procs -> SUBSET (Docs \X Nat)]
  BY <1>1, EndedType
<1>3. pc' \in [Procs -> {"idle", "open", "commit", "ok", "error"}] /\ ctx' \in [Procs -> Contexts]
      /\ left' \in [Procs -> Nat] /\ ops' \in [Procs -> Nat] /\ calls' \in Nat
  BY DEF TypeOK, Answer, Contexts
<1>4. (\A q \in Procs \ {p} : pc'[q] = pc[q] /\ ctx'[q] = ctx[q]) /\ pc'[p] = result
  BY DEF TypeOK, Answer
<1>5. QED
  BY <1>2, <1>3, <1>4 DEF TypeOK

LEMMA StartedType ==
  ASSUME TypeOK, NEW p \in Procs, StartTransaction(p), store' = store,
         pc' = [pc EXCEPT ![p] = "open"], ctx' \in [Procs -> Contexts], left' \in [Procs -> Nat],
         calls' \in Nat, \A q \in Procs \ {p} : ctx'[q] = ctx[q]
  PROVE  TypeOK' /\ \A q \in Procs \ {p} : pc'[q] = pc[q] /\ ctx'[q] = ctx[q]
  BY DEF TypeOK, StartTransaction

LEMMA StartInv ==
  ASSUME IInv, NEW p \in Procs, NEW max \in Nat \ {0}, NEW readOnly \in BOOLEAN, Start(p, max, readOnly)
  PROVE  IInv'
<1>1. TypeOK /\ StartTransaction(p) /\ store' = store /\ pc' = [pc EXCEPT ![p] = "open"]
  BY DEF Start, IInv
<1>2. /\ ctx' \in [Procs -> Contexts] /\ left' \in [Procs -> Nat] /\ calls' \in Nat
      /\ \A q \in Procs \ {p} : ctx'[q] = ctx[q]
  BY <1>1 DEF Start, TypeOK, Contexts
<1>3. TypeOK' /\ \A q \in Procs \ {p} : pc'[q] = pc[q] /\ ctx'[q] = ctx[q]
  BY <1>1, <1>2, StartedType
<1>4. QED
  BY <1>1, <1>3, StartedStep

LEMMA AgainInv ==
  ASSUME IInv, NEW p \in Procs, Again(p), UNCHANGED <<store, ctx, calls>>
  PROVE  IInv'
<1>1. TypeOK /\ StartTransaction(p) /\ store' = store /\ pc' = [pc EXCEPT ![p] = "open"]
  BY DEF Again, IInv
<1>2. /\ ctx' \in [Procs -> Contexts] /\ left' \in [Procs -> Nat] /\ calls' \in Nat
      /\ \A q \in Procs \ {p} : ctx'[q] = ctx[q]
  BY <1>1 DEF Again, Attempted, TypeOK
<1>3. TypeOK' /\ \A q \in Procs \ {p} : pc'[q] = pc[q] /\ ctx'[q] = ctx[q]
  BY <1>1, <1>2, StartedType
<1>4. QED
  BY <1>1, <1>3, StartedStep

LEMMA AnswerInv ==
  ASSUME IInv, NEW p \in Procs, NEW result \in {"ok", "error"}, Answer(p, result), calls' = calls,
         store' \in Views, stale' \in [Procs -> SUBSET Docs],
         \A q \in Procs \ {p} : Spared(q)
  PROVE  IInv'
<1>1. TypeOK' /\ (\A q \in Procs \ {p} : pc'[q] = pc[q] /\ ctx'[q] = ctx[q]) /\ pc'[p] = result
  BY AnswerType DEF IInv
<1>2. Ended(p, FALSE)
  BY DEF Answer
<1>3. QED
  BY <1>1, <1>2, EndedStep

(* The session of p ends, and with it what it finds stale.                 *)
LEMMA AbortedInv ==
  ASSUME IInv, NEW p \in Procs, NEW result \in {"ok", "error"}, Answer(p, result),
         UNCHANGED <<store, calls>>, stale' = [stale EXCEPT ![p] = {}]
  PROVE  IInv'
<1>1. store' \in Views /\ stale' \in [Procs -> SUBSET Docs]
  BY DEF IInv, TypeOK
<1>2. \A q \in Procs \ {p} : Spared(q)
  BY UnchangedSpares DEF IInv, TypeOK
<1>3. QED
  BY <1>1, <1>2, AnswerInv

LEMMA FailInv ==
  ASSUME IInv, NEW p \in Procs, Fail(p)
  PROVE  IInv'
  BY AgainInv, AbortedInv DEF Fail

LEMMA CommitTransientInv ==
  ASSUME IInv, NEW p \in Procs, CommitTransient(p)
  PROVE  IInv'
  BY AgainInv, AbortedInv DEF CommitTransient

LEMMA FinishInv ==
  ASSUME IInv, NEW p \in Procs, Finish(p)
  PROVE  IInv'
<1>1. CASE Answer(p, "ok")
  BY <1>1, AbortedInv DEF Finish
<1>2. CASE ~Answer(p, "ok")
  <2>1. /\ pc[p] = "open" /\ pc' = [pc EXCEPT ![p] = "commit"]
        /\ stale' = [stale EXCEPT ![p] = {}]
        /\ UNCHANGED <<store, calls, ctx, left, snap, local, written, dead, landed, locked, models, ops>>
    BY <1>2 DEF Finish
  <2>2. TypeOK'
    BY <2>1 DEF IInv, TypeOK
  <2>3. \A q \in Procs \ {p} : Left(q) /\ Spared(q)
    BY <2>1, UnchangedSpares DEF IInv, TypeOK, Left
  <2>4. pc'[p] = "commit"
    BY <2>1 DEF IInv, TypeOK
  <2>5. (Alive(p)' <=> Alive(p)) /\ written'[p] = written[p]
    BY <2>1, <2>4 DEF Alive, Open
  <2>6. Own(p)' /\ Unwritten(p)'
    BY <2>1, <2>4, <2>5 DEF IInv, Own, Unwritten
  <2>7. Alive(p)' => \A q \in Procs \ {p} : Alive(q) => written'[p] \cap written[q] = {}
    BY <2>5 DEF IInv, Exclusive
  <2>8. QED
    BY <2>2, <2>3, <2>4, <2>6, <2>7, StepOf
<1>3. QED
  BY <1>1, <1>2

LEMMA CommitInv ==
  ASSUME IInv, NEW p \in Procs, Commit(p)
  PROVE  IInv'
<1>1. /\ store' \in Views /\ stale' \in [Procs -> SUBSET Docs]
      /\ \A q \in Procs \ {p} : Spared(q)
  BY LandSpares DEF Commit, Open
<1>2. QED
  BY <1>1, AnswerInv DEF Commit

LEMMA CommitUnknownInv ==
  ASSUME IInv, NEW p \in Procs, CommitUnknown(p)
  PROVE  IInv'
<1>1. pc[p] = "commit" /\ Open(p) /\ calls' = calls
  BY DEF CommitUnknown, Open
<1>2. ASSUME UNCHANGED <<store, stale>>
      PROVE  /\ store' \in Views /\ stale' \in [Procs -> SUBSET Docs]
             /\ \A q \in Procs \ {p} : Spared(q)
  BY <1>2, UnchangedSpares DEF IInv, TypeOK
<1>3. ASSUME ~dead[p], Land(p)
      PROVE  /\ store' \in Views /\ stale' \in [Procs -> SUBSET Docs]
             /\ \A q \in Procs \ {p} : Spared(q)
  BY <1>1, <1>3, LandSpares
<1>4. CASE Answer(p, "error")
  <2>1. /\ store' \in Views /\ stale' \in [Procs -> SUBSET Docs]
        /\ \A q \in Procs \ {p} : Spared(q)
    BY <1>2, <1>3, <1>4 DEF CommitUnknown, Answer, Ended
  <2>2. QED
    BY <1>1, <1>4, <2>1, AnswerInv
<1>5. CASE ~Answer(p, "error")
  <2>1. /\ left[p] > 0 /\ left' = [left EXCEPT ![p] = Attempted(@)]
        /\ UNCHANGED <<pc, ctx, snap, local, written, dead, locked, models, ops>>
        /\ \/ UNCHANGED <<store, stale, landed>>
           \/ ~dead[p] /\ Land(p) /\ landed' = [landed EXCEPT ![p] = TRUE]
    BY <1>5 DEF CommitUnknown
  <2>2. /\ store' \in Views /\ stale' \in [Procs -> SUBSET Docs]
        /\ \A q \in Procs \ {p} : Spared(q)
    BY <1>2, <1>3, <2>1
  <2>3. /\ landed' \in [Procs -> BOOLEAN] /\ \A q \in Procs \ {p} : landed'[q] = landed[q]
        /\ landed'[p] \/ (store' = store /\ landed' = landed)
    BY <2>1 DEF IInv, TypeOK
  <2>4. left' \in [Procs -> Nat]
    BY <2>1 DEF IInv, TypeOK, Attempted
  <2>5. TypeOK'
    BY <1>1, <2>1, <2>2, <2>3, <2>4 DEF IInv, TypeOK
  <2>6. QED
    BY <1>1, <2>1, <2>2, <2>3, <2>5, KeptStep
<1>6. QED
  BY <1>4, <1>5

-----------------------------------------------------------------------------
(* The operations in a session and outside of one.                         *)

LEMMA WroteDocs ==
  ASSUME NEW old, NEW new
  PROVE  Wrote(old, new) \subseteq Docs /\ \A d \in Docs \ Wrote(old, new) : new[d] = old[d]
  BY DEF Wrote

LEMMA ReadType ==
  ASSUME NEW o \in Outcomes
  PROVE  /\ Read(o) \in SUBSET (Docs \X Nat)
         /\ \A m \in Read(o) : o.view[m[1]] # Missing /\ o.view[m[1]].lk = m[2]
<1>1. o.view \in Views
  BY DEF Outcomes
<1>2. \A d \in Present(o.view) : d \in Docs /\ o.view[d] # Missing /\ o.view[d].lk \in Nat
  BY <1>1, PresentDoc DEF Present
<1>3. QED
  BY <1>2 DEF Read

LEMMA PerformInv ==
  ASSUME IInv, NEW p \in Procs, NEW o \in Outcomes, NEW lock \in BOOLEAN, NEW read \in BOOLEAN,
         pc[p] = "open", ~dead[p], Perform(p, o, lock, read),
         lock => o.docs \subseteq Wrote(local[p], o.view) \cup written[p],
         ctx[p] = "read" => Wrote(local[p], o.view) = {},
         UNCHANGED <<store, pc, ctx, left, calls>>, ops' \in [Procs -> Nat]
  PROVE  IInv'
<1> DEFINE wrote == Wrote(local[p], o.view)
           ended == wrote \cap (Held(p) \cup stale[p]) # {} \/ o.err = "failed"
<1>1. stale' = stale /\ \A q \in Procs \ {p} : pc'[q] = pc[q] /\ ctx'[q] = ctx[q] /\ Spared(q)
  BY UnchangedSpares DEF Perform
<1>2. CASE ended
  <2>1. Ended(p, TRUE)
    BY <1>2 DEF Perform
  <2>2. TypeOK'
    BY <1>1, <2>1, EndedType DEF IInv, TypeOK
  <2>3. QED
    BY <1>1, <2>1, <2>2, EndedStep
<1>3. CASE ~ended
  <2>1. /\ local' = [local EXCEPT ![p] = o.view]
        /\ written' = [written EXCEPT ![p] = @ \cup wrote]
        /\ locked' = [locked EXCEPT ![p] = IF lock THEN @ \cup o.docs ELSE @]
        /\ models' = [models EXCEPT ![p] = IF read THEN Read(o) ELSE @]
        /\ UNCHANGED <<snap, dead, landed>>
    BY <1>3 DEF Perform
  <2>2. wrote \subseteq Docs /\ o.docs \subseteq Docs /\ o.view \in Views
        /\ \A d \in Docs \ wrote : o.view[d] = local[p][d]
    BY WroteDocs DEF Outcomes
  <2>3. Read(o) \in SUBSET (Docs \X Nat)
        /\ \A m \in Read(o) : o.view[m[1]] # Missing /\ o.view[m[1]].lk = m[2]
    BY ReadType
  <2>4. /\ local' \in [Procs -> Views] /\ written' \in [Procs -> SUBSET Docs]
        /\ locked' \in [Procs -> SUBSET Docs] /\ models' \in [Procs -> SUBSET (Docs \X Nat)]
    <3> HIDE DEF wrote
    <3>1. local' \in [Procs -> Views]
      BY <2>1, <2>2 DEF IInv, TypeOK
    <3>2. written' \in [Procs -> SUBSET Docs]
      BY <2>1, <2>2 DEF IInv, TypeOK
    <3>3. locked' \in [Procs -> SUBSET Docs]
      BY <2>1, <2>2 DEF IInv, TypeOK
    <3>4. models' \in [Procs -> SUBSET (Docs \X Nat)]
      BY <2>1, <2>3 DEF IInv, TypeOK
    <3>5. QED
      BY <3>1, <3>2, <3>3, <3>4
  <2>5. TypeOK'
    BY <1>1, <2>1, <2>4 DEF IInv, TypeOK
  <2>6. \A q \in Procs \ {p} : Left(q)
    BY <2>1 DEF IInv, TypeOK, Left
  <2>7. /\ local'[p] = o.view /\ written'[p] = written[p] \cup wrote
        /\ locked'[p] = IF lock THEN locked[p] \cup o.docs ELSE locked[p]
        /\ models'[p] = IF read THEN Read(o) ELSE models[p]
    BY <2>1 DEF IInv, TypeOK
  <2>8. Alive(p) /\ wrote \cap (Held(p) \cup stale[p]) = {} /\ written[p] \subseteq Docs
        /\ models[p] \in SUBSET (Docs \X Nat)
    BY <1>3 DEF IInv, TypeOK, Alive, Open
  <2>9. Own(p)'
    <3> HIDE DEF wrote
    <3>1. locked'[p] \subseteq written'[p]
      <4>1. locked[p] \subseteq written[p]
        BY <2>8 DEF IInv, Own
      <4>2. lock => o.docs \subseteq wrote \cup written[p]
        BY DEF wrote
      <4>3. QED
        BY <2>7, <4>1, <4>2
    <3>2. \A d \in Docs \ stale[p] : store[d] = snap[p][d]
      BY <2>8 DEF IInv, Own
    <3>3. \A d \in written'[p] : store'[d] = snap'[p][d]
      BY <2>1, <2>2, <2>7, <2>8, <3>2 DEF IInv, Own
    <3>4. \A m \in models'[p] : \/ m[1] \in written'[p]
                                \/ local'[p][m[1]] # Missing /\ local'[p][m[1]].lk = m[2]
      <4>1. CASE read
        BY <2>3, <2>7, <4>1
      <4>2. CASE ~read
        <5>1. ASSUME NEW m \in models[p]
              PROVE  \/ m[1] \in written'[p]
                     \/ local'[p][m[1]] # Missing /\ local'[p][m[1]].lk = m[2]
          <6>1. m[1] \in Docs
            BY <2>8
          <6>2. m[1] \in written[p] \/ (local[p][m[1]] # Missing /\ local[p][m[1]].lk = m[2])
            BY <2>8 DEF IInv, Own
          <6>3. m[1] \in wrote \/ o.view[m[1]] = local[p][m[1]]
            BY <2>2, <6>1
          <6>4. QED
            BY <2>7, <6>2, <6>3
        <5>2. QED
          BY <2>7, <4>2, <5>1
      <4>3. QED
        BY <4>1, <4>2
    <3>5. \A d \in Docs \ stale'[p] : store'[d] = snap'[p][d]
      BY <1>1, <2>1, <3>2
    <3>6. QED
      BY <3>1, <3>3, <3>4, <3>5 DEF Own
  <2>10. \A q \in Procs \ {p} : Alive(q) => written'[p] \cap written[q] = {}
    <3> HIDE DEF wrote
    <3>1. SUFFICES ASSUME NEW q \in Procs \ {p}, Alive(q)
                   PROVE  written'[p] \cap written[q] = {}
      OBVIOUS
    <3>2. written[p] \cap written[q] = {}
      BY <2>8, <3>1 DEF IInv, Exclusive
    <3>3. wrote \cap written[q] = {}
      BY <2>8, <3>1, HeldBy
    <3>4. QED
      BY <2>7, <3>2, <3>3
  <2>11. ~landed'[p]
    BY <2>1, <2>8 DEF Alive
  <2>12. Unwritten(p)'
    BY <2>7 DEF IInv, Unwritten
  <2>13. QED
    BY <1>1, <2>5, <2>6, <2>9, <2>10, <2>11, <2>12, StepOf
<1>4. QED
  BY <1>2, <1>3

LEMMA OperateInv ==
  ASSUME IInv, NEW p \in Procs, Operate(p)
  PROVE  IInv'
<1>1. /\ pc[p] = "open" /\ ~dead[p] /\ Alive(p)
      /\ UNCHANGED <<store, pc, ctx, left, calls>> /\ ops' \in [Procs -> Nat]
  BY DEF Operate, IInv, TypeOK, Alive, Open
<1>2. PICK lock \in BOOLEAN :
        LET all == Operations(local[p], ctx[p], models[p], lock)
        IN \/ \E o \in all.reads : Perform(p, o, lock, TRUE)
           \/ \E o \in all.others : Perform(p, o, lock, FALSE)
           \/ \E o \in all.deletes : Perform(p, o, FALSE, FALSE)
  BY DEF Operate
<1> DEFINE all == Operations(local[p], ctx[p], models[p], lock)
<1>3. /\ local[p] \in Views /\ models[p] \in SUBSET (Docs \X Nat)
      /\ \A m \in models[p] : \/ m[1] \in written[p]
                              \/ local[p][m[1]] # Missing /\ local[p][m[1]].lk = m[2]
  BY <1>1 DEF IInv, TypeOK, Own
<1>4. /\ Sound(local[p], written[p], lock, ctx[p], all.reads)
      /\ Sound(local[p], written[p], lock, ctx[p], all.others)
      /\ Sound(local[p], written[p], FALSE, ctx[p], all.deletes)
  BY <1>3, OperationsSound
<1>5. ASSUME NEW S, NEW o \in S, NEW l \in BOOLEAN, NEW read \in BOOLEAN,
             Sound(local[p], written[p], l, ctx[p], S), Perform(p, o, l, read)
      PROVE  IInv'
  <2>1. /\ o \in Outcomes /\ (l => o.docs \subseteq Wrote(local[p], o.view) \cup written[p])
        /\ ctx[p] = "read" => Wrote(local[p], o.view) = {}
    BY <1>5, SoundOutcome
  <2>2. QED
    BY <1>1, <1>5, <2>1, PerformInv
<1>6. QED
  <2> HIDE DEF all
  <2>1. \/ \E o \in all.reads : Perform(p, o, lock, TRUE)
        \/ \E o \in all.others : Perform(p, o, lock, FALSE)
        \/ \E o \in all.deletes : Perform(p, o, FALSE, FALSE)
    BY <1>2 DEF all
  <2>2. QED
    BY <1>4, <1>5, <2>1

LEMMA OutsideInv ==
  ASSUME IInv, NEW p \in Procs, Outside(p)
  PROVE  IInv'
<1> DEFINE hands == {<<d, store[d].lk>> : d \in Present(store)}
<1>1. PICK lock \in BOOLEAN :
        LET all == Operations(store, "none", hands, lock)
        IN \E o \in all.reads \cup all.others \cup all.deletes :
             /\ Wrote(store, o.view) \cap Held(p) = {}
             /\ store' = o.view
             /\ stale' = [q \in Procs |-> IF pc[q] = "open" THEN stale[q] \cup Wrote(store, o.view)
                                          ELSE {}]
  BY DEF Outside
<1> DEFINE all == Operations(store, "none", hands, lock)
<1>2. PICK o \in all.reads \cup all.others \cup all.deletes :
        /\ Wrote(store, o.view) \cap Held(p) = {}
        /\ store' = o.view
        /\ stale' = [q \in Procs |-> IF pc[q] = "open" THEN stale[q] \cup Wrote(store, o.view)
                                     ELSE {}]
  BY <1>1
<1>3. store \in Views
  BY DEF IInv, TypeOK
<1>4. /\ hands \in SUBSET (Docs \X Nat)
      /\ \A m \in hands : store[m[1]] # Missing /\ store[m[1]].lk = m[2]
  BY <1>3, PresentDoc DEF Present
<1>5. o \in Outcomes
  <2> HIDE DEF hands
  <2>1. /\ Sound(store, {}, lock, "none", all.reads) /\ Sound(store, {}, lock, "none", all.others)
        /\ Sound(store, {}, FALSE, "none", all.deletes)
    BY <1>3, <1>4, OperationsSound
  <2> HIDE DEF all
  <2>2. QED
    BY <1>2, <2>1 DEF Sound, Typed
<1> DEFINE wrote == Wrote(store, o.view)
<1>6. wrote \subseteq Docs /\ store' \in Views /\ \A d \in Docs \ wrote : store'[d] = store[d]
  BY <1>2, <1>5, WroteDocs DEF Outcomes
<1>7. /\ stale' = [q \in Procs |-> IF pc[q] = "open" THEN stale[q] \cup wrote ELSE {}]
      /\ wrote \cap Held(p) = {}
  BY <1>2
<1> HIDE DEF all, hands, wrote
<1>8. /\ ~Open(p) /\ calls' = calls + 1
      /\ UNCHANGED <<pc, ctx, left, snap, local, written, dead, landed, locked, models, ops>>
  BY DEF Outside
<1>9. TypeOK'
  <2>1. stale' \in [Procs -> SUBSET Docs]
    BY <1>6, <1>7 DEF IInv, TypeOK
  <2>2. QED
    BY <1>6, <1>8, <2>1 DEF IInv, TypeOK
<1>10. ASSUME NEW q \in Procs \ {p}
       PROVE  Left(q) /\ Spared(q)
  <2>1. Left(q)
    BY <1>8 DEF Left
  <2>2. ASSUME Alive(q)
        PROVE  /\ \A d \in written[q] : store'[d] = store[d]
               /\ pc[q] = "open" => \A d \in Docs \ stale'[q] : d \notin stale[q] /\ store'[d] = store[d]
    <3>1. written[q] \cap wrote = {} /\ written[q] \subseteq Docs
      BY <1>7, <2>2, HeldBy DEF IInv, TypeOK
    <3>2. QED
      BY <1>6, <1>7, <3>1
  <2>3. QED
    BY <2>1, <2>2 DEF Spared
<1>11. ~Alive(p)' /\ pc'[p] # "open"
  BY <1>8 DEF Alive, Open
<1>12. Own(p)' /\ Unwritten(p)'
  BY <1>8, <1>11 DEF IInv, Own, Unwritten
<1>13. QED
  BY <1>9, <1>10, <1>11, <1>12, StepOf

LEMMA StutterInv ==
  ASSUME IInv, UNCHANGED vars
  PROVE  IInv'
<1>1. TypeOK'
  BY DEF IInv, TypeOK, vars, session
<1>2. \A q \in Procs : Left(q) /\ Spared(q)
  BY UnchangedSpares DEF vars, session, Left
<1>3. \A q \in Procs : Own(q)' /\ (Alive(q)' <=> Alive(q)) /\ written'[q] = written[q]
  BY <1>2, LeftOwn DEF IInv, Left
<1>4. \A q \in Procs : Unwritten(q)'
  BY <1>2 DEF IInv, Left, Unwritten
<1>5. QED
  BY <1>1, <1>2, <1>3, <1>4 DEF IInv, Exclusive, Left

LEMMA StepInv == IInv /\ [Next]_vars => IInv'
<1> SUFFICES ASSUME IInv, [Next]_vars
             PROVE  IInv'
  OBVIOUS
<1>1. CASE UNCHANGED vars
  BY <1>1, StutterInv
<1>2. ASSUME NEW p \in Procs, T(p)
      PROVE  IInv'
  BY <1>2, StartInv DEF T
<1>3. ASSUME NEW p \in Procs, RT(p)
      PROVE  IInv'
  <2>1. PICK max \in 1..MaxAttempts : Start(p, max, FALSE)
    BY <1>3 DEF RT
  <2>2. max \in Nat \ {0}
    BY <2>1
  <2>3. QED
    BY <2>1, <2>2, StartInv
<1>4. ASSUME NEW p \in Procs, Return(p)
      PROVE  IInv'
  BY <1>4, FailInv, FinishInv, CommitInv, CommitUnknownInv, CommitTransientInv DEF Return
<1>5. QED
  BY <1>1, <1>2, <1>3, <1>4, OperateInv, OutsideInv DEF Next

\* Whatever the operations of the callers, in transactions and outside of
\* them, a session writes what it locks and nobody else does.
THEOREM InvHolds == Spec => []IInv
<1>1. Init => IInv
  BY InitInv
<1>2. IInv /\ [Next]_vars => IInv'
  BY StepInv
<1>3. QED
  BY <1>1, <1>2, PTL DEF Spec

\* A document that a transaction has locked with a read of the manager stays
\* as it was read until the transaction commits.
THEOREM StoreInvHolds == Spec => []StoreInv
<1>1. IInv => StoreInv
  <2> SUFFICES ASSUME IInv
               PROVE  StoreInv
    OBVIOUS
  <2>1. ASSUME NEW p \in Procs, Alive(p), NEW d \in locked[p]
        PROVE  store[d] = snap[p][d] /\ d \notin Held(p)
    <3>1. d \in written[p] /\ store[d] = snap[p][d]
      BY <2>1 DEF IInv, Own
    <3>2. d \notin Held(p)
      BY <2>1, <3>1, HeldBy DEF IInv, Exclusive
    <3>3. QED
      BY <3>1, <3>2
  <2>2. QED
    BY <2>1 DEF IInv, StoreInv, LockHolds, Alive
<1>2. QED
  BY <1>1, InvHolds, PTL

-----------------------------------------------------------------------------
(* The refinement: each step is one of AtomicStore, or changes nothing of  *)
(* what it sees of a call: how far it is and the changes it has asked for. *)

CallOf(p) == IF ~Open(p) THEN pc[p] ELSE IF landed[p] THEN "applied" ELSE "running"

WantsOf(p) ==
  IF Open(p) /\ ~landed[p] THEN [d \in written[p] |-> local[p][d]] ELSE [d \in {} |-> {}]

call == [p \in Procs |-> CallOf(p)]

wants == [p \in Procs |-> WantsOf(p)]

Nothing == [d \in {} |-> {}]

LEMMA NoWants ==
  ASSUME NEW f
  PROVE  [d \in {} |-> f[d]] = Nothing
  BY DEF Nothing

(* What others leave of a session, as AtomicStore sees it.                 *)
LEMMA LeftMapped ==
  ASSUME NEW q \in Procs, Left(q)
  PROVE  call'[q] = call[q] /\ wants'[q] = wants[q]
  BY DEF call, wants, CallOf, WantsOf, Left, Open

LEMMA OthersMapped ==
  ASSUME NEW p \in Procs, \A q \in Procs \ {p} : Left(q)
  PROVE  /\ call' = [call EXCEPT ![p] = call'[p]]
         /\ wants' = [wants EXCEPT ![p] = wants'[p]]
<1>1. \A q \in Procs \ {p} : call'[q] = call[q] /\ wants'[q] = wants[q]
  BY LeftMapped
<1>2. /\ call = [q \in Procs |-> call[q]] /\ wants = [q \in Procs |-> wants[q]]
      /\ call' = [q \in Procs |-> call'[q]] /\ wants' = [q \in Procs |-> wants'[q]]
  BY DEF call, wants
<1> HIDE DEF call, wants
<1>3. QED
  BY <1>1, <1>2

LEMMA AtomicInit ==
  ASSUME store \in Views, call = [p \in Procs |-> "idle"], wants = [p \in Procs |-> Nothing]
  PROVE  Atomic!Init
  BY DEF Atomic!Init, Atomic!NoChanges, call, wants, CallOf, WantsOf, Nothing, Views

LEMMA AtomicBegin ==
  ASSUME NEW p \in Procs, call[p] \in {"idle", "ok", "error"},
         call' = [call EXCEPT ![p] = "running"], wants' = [wants EXCEPT ![p] = Nothing],
         store' = store
  PROVE  Atomic!Begin(p)
  BY DEF Atomic!Begin, Atomic!NoChanges, call, wants, CallOf, WantsOf, Nothing

LEMMA AtomicWant ==
  ASSUME NEW p \in Procs, call[p] = "running", call' = call,
         wants' = [wants EXCEPT ![p] = wants'[p]],
         DOMAIN wants'[p] \subseteq Docs,
         \A d \in DOMAIN wants'[p] : wants'[p][d] \in Doc \cup {Missing},
         store' = store
  PROVE  Atomic!Want(p)
  BY DEF Atomic!Want, Atomic!IsChanges, call, wants, CallOf, WantsOf

LEMMA AtomicApply ==
  ASSUME NEW p \in Procs, call[p] = "running",
         store' = [d \in Docs |-> IF d \in DOMAIN wants[p] THEN wants[p][d] ELSE store[d]],
         call' = [call EXCEPT ![p] = call'[p]], call'[p] \in {"applied", "ok", "error"},
         wants' = [wants EXCEPT ![p] = Nothing]
  PROVE  Atomic!Apply(p)
  BY DEF Atomic!Apply, Atomic!Applied, Atomic!NoChanges, call, wants, CallOf, WantsOf, Nothing

LEMMA AtomicAnswer ==
  ASSUME NEW p \in Procs,
         \/ call[p] = "applied" /\ call'[p] \in {"ok", "error"}
         \/ call[p] = "running" /\ call'[p] = "error"
         \/ call[p] = "running" /\ call'[p] = "ok" /\ wants[p] = Nothing,
         call' = [call EXCEPT ![p] = call'[p]], wants' = [wants EXCEPT ![p] = Nothing],
         store' = store
  PROVE  Atomic!Answer(p)
  BY DEF Atomic!Answer, Atomic!NoChanges, call, wants, CallOf, WantsOf, Nothing

LEMMA AtomicWrite ==
  ASSUME NEW d \in Docs, store' \in Views, \A e \in Docs \ {d} : store'[e] = store[e], store \in Views,
         call' = call, wants' = wants
  PROVE  Atomic!Write
<1>1. store'[d] \in Doc \cup {Missing} /\ store' = [store EXCEPT ![d] = store'[d]]
  BY DEF Views
<1>2. QED
  BY <1>1 DEF Atomic!Write, call, wants, CallOf, WantsOf

-----------------------------------------------------------------------------
Simulated == Atomic!Next \/ (store' = store /\ call' = call /\ wants' = wants)

LEMMA CallWants ==
  ASSUME NEW p \in Procs
  PROVE  /\ call[p] = CallOf(p) /\ wants[p] = WantsOf(p)
         /\ call'[p] = CallOf(p)' /\ wants'[p] = WantsOf(p)'
  BY DEF call, wants

LEMMA AnswerMapped ==
  ASSUME IInv, NEW p \in Procs, NEW result \in {"ok", "error"}, Answer(p, result)
  PROVE  /\ call' = [call EXCEPT ![p] = call'[p]] /\ call'[p] = result
         /\ wants' = [wants EXCEPT ![p] = Nothing]
<1>1. /\ \A q \in Procs \ {p} : Left(q)
      /\ pc'[p] = result
  BY DEF IInv, TypeOK, Answer, Ended, Left
<1>2. CallOf(p)' = result /\ WantsOf(p)' = Nothing
  BY <1>1 DEF CallOf, WantsOf, Open, Nothing
<1>3. QED
  BY <1>1, <1>2, CallWants, OthersMapped

LEMMA StartedMapped ==
  ASSUME IInv, NEW p \in Procs, StartTransaction(p), pc' = [pc EXCEPT ![p] = "open"],
         \A q \in Procs \ {p} : ctx'[q] = ctx[q]
  PROVE  /\ call' = [call EXCEPT ![p] = "running"]
         /\ wants' = [wants EXCEPT ![p] = Nothing]
<1>1. \A q \in Procs \ {p} : Left(q)
  BY DEF IInv, TypeOK, StartTransaction, Left
<1>2. pc'[p] = "open" /\ written'[p] = {} /\ ~landed'[p]
  BY DEF IInv, TypeOK, StartTransaction
<1>3. CallOf(p)' = "running" /\ WantsOf(p)' = Nothing
  BY <1>2 DEF CallOf, WantsOf, Open, Nothing
<1>4. QED
  BY <1>1, <1>3, CallWants, OthersMapped

LEMMA RunningMapped ==
  ASSUME NEW p \in Procs, Open(p), ~landed[p]
  PROVE  call[p] = "running" /\ wants[p] = [d \in written[p] |-> local[p][d]]
  BY CallWants DEF CallOf, WantsOf

LEMMA StartSimulates ==
  ASSUME IInv, NEW p \in Procs, NEW max, NEW readOnly, Start(p, max, readOnly)
  PROVE  Simulated
<1>1. /\ StartTransaction(p) /\ pc' = [pc EXCEPT ![p] = "open"] /\ store' = store
      /\ \A q \in Procs \ {p} : ctx'[q] = ctx[q]
  BY DEF Start, IInv, TypeOK
<1>2. call[p] \in {"idle", "ok", "error"}
  BY CallWants DEF Start, CallOf, Open
<1>3. Atomic!Begin(p)
  BY <1>1, <1>2, StartedMapped, AtomicBegin
<1>4. QED
  BY <1>3 DEF Simulated, Atomic!Next

(* The function runs again, and asks for nothing yet.                      *)
LEMMA AgainSimulates ==
  ASSUME IInv, NEW p \in Procs, Again(p), Open(p), ~landed[p], store' = store, ctx' = ctx
  PROVE  Simulated
<1>1. call' = [call EXCEPT ![p] = "running"] /\ wants' = [wants EXCEPT ![p] = Nothing]
  BY StartedMapped DEF Again
<1>2. call[p] = "running" /\ call' = call /\ wants'[p] = Nothing /\ wants' = [wants EXCEPT ![p] = wants'[p]]
  <2>1. call = [q \in Procs |-> call[q]] /\ wants = [q \in Procs |-> wants[q]]
    BY DEF call, wants
  <2>2. call[p] = "running"
    BY RunningMapped
  <2> HIDE DEF call, wants
  <2>3. QED
    BY <1>1, <2>1, <2>2
<1>3. Atomic!Want(p)
  BY <1>2, AtomicWant DEF Nothing
<1>4. QED
  BY <1>3 DEF Simulated, Atomic!Next

(* A call that ends without a change of the store has made its changes,    *)
(* has none, or answers with an error.                                     *)
LEMMA AnswerSimulates ==
  ASSUME IInv, NEW p \in Procs, NEW result \in {"ok", "error"}, Answer(p, result), Open(p),
         store' = store, landed[p] \/ result = "error" \/ written[p] = {}
  PROVE  Simulated
<1>1. /\ call' = [call EXCEPT ![p] = call'[p]] /\ call'[p] = result
      /\ wants' = [wants EXCEPT ![p] = Nothing]
  BY AnswerMapped
<1>2. CASE landed[p]
  <2>1. call[p] = "applied"
    BY <1>2, CallWants DEF CallOf
  <2>2. QED
    BY <1>1, <2>1, AtomicAnswer DEF Simulated, Atomic!Next
<1>3. CASE ~landed[p]
  <2>1. call[p] = "running" /\ (written[p] = {} => wants[p] = Nothing)
    BY <1>3, RunningMapped DEF Nothing
  <2>2. Atomic!Answer(p)
    BY <1>1, <1>3, <2>1, AtomicAnswer
  <2>3. QED
    BY <2>2 DEF Simulated, Atomic!Next
<1>4. QED
  BY <1>2, <1>3

LEMMA LandSimulates ==
  ASSUME IInv, NEW p \in Procs, NEW result \in {"ok", "error"}, Answer(p, result), Open(p), Land(p)
  PROVE  Simulated
<1>1. CASE landed[p]
  BY <1>1, AnswerSimulates DEF Land
<1>2. CASE ~landed[p]
  <2>1. store' = [d \in Docs |-> IF d \in DOMAIN wants[p] THEN wants[p][d] ELSE store[d]]
    <3>1. wants[p] = [d \in written[p] |-> local[p][d]]
      BY <1>2, RunningMapped
    <3>2. store' = [d \in Docs |-> IF d \in written[p] THEN local[p][d] ELSE store[d]]
      BY <1>2 DEF Land
    <3> HIDE DEF wants
    <3>3. QED
      BY <3>1, <3>2
  <2>2. call[p] = "running"
    BY <1>2, RunningMapped
  <2>3. /\ call' = [call EXCEPT ![p] = call'[p]] /\ call'[p] = result
        /\ wants' = [wants EXCEPT ![p] = Nothing]
    BY AnswerMapped
  <2>4. Atomic!Apply(p)
    BY <2>1, <2>2, <2>3, AtomicApply
  <2>5. QED
    BY <2>4 DEF Simulated, Atomic!Next
<1>3. QED
  BY <1>1, <1>2

LEMMA FailSimulates ==
  ASSUME IInv, NEW p \in Procs, Fail(p)
  PROVE  Simulated
<1>1. Open(p) /\ ~landed[p]
  BY DEF Fail, IInv, Open
<1>2. QED
  BY <1>1, AgainSimulates, AnswerSimulates DEF Fail

LEMMA CommitTransientSimulates ==
  ASSUME IInv, NEW p \in Procs, CommitTransient(p)
  PROVE  Simulated
<1>1. Open(p) /\ ~landed[p]
  BY DEF CommitTransient, Open
<1>2. QED
  BY <1>1, AgainSimulates, AnswerSimulates DEF CommitTransient

LEMMA FinishSimulates ==
  ASSUME IInv, NEW p \in Procs, Finish(p)
  PROVE  Simulated
<1>1. Open(p) /\ store' = store
  BY DEF Finish, Open
<1>2. CASE ctx[p] = "read" /\ Answer(p, "ok")
  BY <1>1, <1>2, AnswerSimulates DEF IInv, Unwritten
<1>3. CASE ~(ctx[p] = "read" /\ Answer(p, "ok"))
  <2>1. pc' = [pc EXCEPT ![p] = "commit"] /\ UNCHANGED <<local, written, landed>>
    BY <1>3 DEF Finish
  <2>2. \A q \in Procs : Open(q)' <=> Open(q)
    BY <1>1, <2>1 DEF IInv, TypeOK, Open
  <2>3. \A q \in Procs : CallOf(q)' = CallOf(q) /\ WantsOf(q)' = WantsOf(q)
    BY <1>1, <2>1, <2>2 DEF IInv, TypeOK, CallOf, WantsOf
  <2>4. call' = call /\ wants' = wants
    BY <2>3 DEF call, wants
  <2>5. QED
    BY <1>1, <2>4 DEF Simulated
<1>4. QED
  BY <1>2, <1>3

LEMMA CommitUnknownSimulates ==
  ASSUME IInv, NEW p \in Procs, CommitUnknown(p)
  PROVE  Simulated
<1>1. Open(p)
  BY DEF CommitUnknown, Open
<1>2. CASE Answer(p, "error")
  BY <1>1, <1>2, AnswerSimulates, LandSimulates DEF CommitUnknown
<1>3. CASE ~Answer(p, "error")
  <2>1. /\ UNCHANGED <<pc, ctx, snap, local, written, dead, locked, models>>
        /\ \/ UNCHANGED <<store, landed>>
           \/ Land(p) /\ landed' = [landed EXCEPT ![p] = TRUE]
    BY <1>3 DEF CommitUnknown
  <2>2. CASE UNCHANGED <<store, landed>>
    <3>1. \A q \in Procs : Left(q)
      BY <2>1, <2>2 DEF Left
    <3>2. \A q \in Procs : call'[q] = call[q] /\ wants'[q] = wants[q]
      BY <3>1, LeftMapped
    <3>3. call' = call /\ wants' = wants
      BY <3>2 DEF call, wants
    <3>4. QED
      BY <2>2, <3>3 DEF Simulated
  <2>3. CASE Land(p) /\ landed' = [landed EXCEPT ![p] = TRUE] /\ landed[p]
    <3>1. landed' = landed /\ store' = store
      BY <2>3 DEF Land, IInv, TypeOK
    <3>2. QED
      BY <2>2, <3>1
  <2>4. CASE Land(p) /\ landed' = [landed EXCEPT ![p] = TRUE] /\ ~landed[p]
    <3>1. \A q \in Procs \ {p} : Left(q)
      BY <2>1, <2>4 DEF Left, IInv, TypeOK
    <3>2. landed'[p] /\ Open(p)'
      BY <1>1, <2>1, <2>4 DEF IInv, TypeOK, Open
    <3>3. call'[p] = "applied" /\ wants'[p] = Nothing
      BY <3>2, CallWants DEF CallOf, WantsOf, Nothing
    <3>4. /\ call' = [call EXCEPT ![p] = call'[p]]
          /\ wants' = [wants EXCEPT ![p] = Nothing]
      BY <3>1, <3>3, OthersMapped
    <3>5. store' = [d \in Docs |-> IF d \in DOMAIN wants[p] THEN wants[p][d] ELSE store[d]]
      <4>1. wants[p] = [d \in written[p] |-> local[p][d]]
        BY <1>1, <2>4, RunningMapped
      <4>2. store' = [d \in Docs |-> IF d \in written[p] THEN local[p][d] ELSE store[d]]
        BY <2>4 DEF Land
      <4> HIDE DEF wants
      <4>3. QED
        BY <4>1, <4>2
    <3>6. call[p] = "running"
      BY <1>1, <2>4, RunningMapped
    <3>7. Atomic!Apply(p)
      BY <3>3, <3>4, <3>5, <3>6, AtomicApply
    <3>8. QED
      BY <3>7 DEF Simulated, Atomic!Next
  <2>5. QED
    BY <2>1, <2>2, <2>3, <2>4
<1>4. QED
  BY <1>2, <1>3

(* An operation changes what the session wants, or ends it.                *)
LEMMA OperateSimulates ==
  ASSUME IInv, IInv', NEW p \in Procs, Operate(p)
  PROVE  Simulated
<1>1. /\ pc[p] = "open" /\ Open(p) /\ ~landed[p]
      /\ UNCHANGED <<store, pc, ctx>>
  BY DEF Operate, IInv, Open
<1>2. /\ \A q \in Procs \ {p} : Left(q)
      /\ ~landed'[p]
  <2>1. PICK l \in BOOLEAN :
          LET all == Operations(local[p], ctx[p], models[p], l)
          IN \/ \E o \in all.reads : Perform(p, o, l, TRUE)
             \/ \E o \in all.others : Perform(p, o, l, FALSE)
             \/ \E o \in all.deletes : Perform(p, o, FALSE, FALSE)
    BY DEF Operate
  <2> DEFINE all == Operations(local[p], ctx[p], models[p], l)
  <2>2. \/ \E o \in all.reads : Perform(p, o, l, TRUE)
        \/ \E o \in all.others : Perform(p, o, l, FALSE)
        \/ \E o \in all.deletes : Perform(p, o, FALSE, FALSE)
    BY <2>1
  <2> HIDE DEF all
  <2>3. PICK lock, read, o : Perform(p, o, lock, read)
    BY <2>2
  <2>4. CASE Ended(p, TRUE)
    BY <1>1, <2>4 DEF Ended, Left, IInv, TypeOK
  <2>5. CASE ~Ended(p, TRUE)
    <3>1. /\ local' = [local EXCEPT ![p] = o.view]
          /\ written' = [written EXCEPT ![p] = @ \cup Wrote(local[p], o.view)]
          /\ locked' = [locked EXCEPT ![p] = IF lock THEN @ \cup o.docs ELSE @]
          /\ models' = [models EXCEPT ![p] = IF read THEN Read(o) ELSE @]
          /\ UNCHANGED <<snap, dead, landed>>
      BY <2>3, <2>5 DEF Perform
    <3>2. QED
      BY <1>1, <3>1 DEF Left, IInv, TypeOK
  <2>6. QED
    BY <2>4, <2>5
<1>3. Open(p)'
  BY <1>1 DEF Open
<1>4. call[p] = "running" /\ call'[p] = "running"
  BY <1>1, <1>2, <1>3, CallWants DEF CallOf
<1>5. call' = call /\ wants' = [wants EXCEPT ![p] = wants'[p]]
  <2>1. call' = [call EXCEPT ![p] = call'[p]] /\ wants' = [wants EXCEPT ![p] = wants'[p]]
    BY <1>2, OthersMapped
  <2>2. call = [q \in Procs |-> call[q]]
    BY DEF call
  <2> HIDE DEF call, wants
  <2>3. QED
    BY <1>4, <2>1, <2>2
<1>6. wants'[p] = [d \in written'[p] |-> local'[p][d]]
  BY <1>2, <1>3, CallWants DEF WantsOf
<1>7. written'[p] \subseteq Docs /\ \A d \in Docs : local'[p][d] \in Doc \cup {Missing}
  BY DEF IInv, TypeOK, Views
<1>8. /\ DOMAIN wants'[p] \subseteq Docs
      /\ \A d \in DOMAIN wants'[p] : wants'[p][d] \in Doc \cup {Missing}
  <2> HIDE DEF wants
  <2>1. QED
    BY <1>6, <1>7
<1>9. Atomic!Want(p)
  BY <1>1, <1>4, <1>5, <1>8, AtomicWant
<1>10. QED
  BY <1>9 DEF Simulated, Atomic!Next

(* Outside of a transaction one document is written at a time.             *)
LEMMA OutsideSimulates ==
  ASSUME IInv, IInv', NEW p \in Procs, Outside(p)
  PROVE  Simulated
<1> DEFINE hands == {<<d, store[d].lk>> : d \in Present(store)}
<1>1. store \in Views /\ store' \in Views
  BY DEF IInv, TypeOK
<1>2. /\ hands \in SUBSET (Docs \X Nat)
      /\ \A m \in hands : store[m[1]] # Missing /\ store[m[1]].lk = m[2]
  BY <1>1, PresentDoc DEF Present
<1>3. AtMostOne(Wrote(store, store'))
  <2>1. PICK lock \in BOOLEAN :
          LET all == Operations(store, "none", hands, lock)
          IN \E o \in all.reads \cup all.others \cup all.deletes : store' = o.view
    BY DEF Outside
  <2> DEFINE all == Operations(store, "none", hands, lock)
  <2>2. PICK o \in all.reads \cup all.others \cup all.deletes : store' = o.view
    BY <2>1
  <2> HIDE DEF hands
  <2>3. /\ Sound(store, {}, lock, "none", all.reads) /\ Sound(store, {}, lock, "none", all.others)
        /\ Sound(store, {}, FALSE, "none", all.deletes)
    BY <1>1, <1>2, OperationsSound
  <2> HIDE DEF all
  <2>4. AtMostOne(Wrote(store, o.view))
    BY <2>2, <2>3, SoundOutcome
  <2>5. QED
    BY <2>2, <2>4
<1>4. \A q \in Procs : Left(q)
  BY DEF Outside, Left
<1>5. call' = call /\ wants' = wants
  <2>1. \A q \in Procs : call'[q] = call[q] /\ wants'[q] = wants[q]
    BY <1>4, LeftMapped
  <2>2. QED
    BY <2>1 DEF call, wants
<1>6. CASE store' = store
  BY <1>5, <1>6 DEF Simulated
<1>7. CASE store' # store
  <2>1. PICK d \in Docs : store'[d] # store[d]
    BY <1>1, <1>7 DEF Views
  <2>2. \A e \in Docs \ {d} : store'[e] = store[e]
    BY <1>3, <2>1 DEF AtMostOne, Wrote
  <2>3. Atomic!Write
    BY <1>1, <1>5, <2>2, AtomicWrite
  <2>4. QED
    BY <2>3 DEF Simulated, Atomic!Next
<1>8. QED
  BY <1>6, <1>7

LEMMA StepSimulates == IInv /\ IInv' /\ [Next]_vars => Simulated
<1> SUFFICES ASSUME IInv, IInv', [Next]_vars
             PROVE  Simulated
  OBVIOUS
<1>1. CASE UNCHANGED vars
  <2>1. \A q \in Procs : Left(q)
    BY <1>1 DEF vars, session, Left
  <2>2. \A q \in Procs : call'[q] = call[q] /\ wants'[q] = wants[q]
    BY <2>1, LeftMapped
  <2>3. call' = call /\ wants' = wants
    BY <2>2 DEF call, wants
  <2>4. QED
    BY <1>1, <2>3 DEF vars, Simulated
<1>2. ASSUME NEW p \in Procs, T(p) \/ RT(p)
      PROVE  Simulated
  BY <1>2, StartSimulates DEF T, RT
<1>3. ASSUME NEW p \in Procs, Commit(p)
      PROVE  Simulated
  BY <1>3, LandSimulates DEF Commit, Open
<1>4. ASSUME NEW p \in Procs, Return(p)
      PROVE  Simulated
  BY <1>3, <1>4, FailSimulates, FinishSimulates, CommitUnknownSimulates, CommitTransientSimulates
  DEF Return
<1>5. QED
  BY <1>1, <1>2, <1>4, OperateSimulates, OutsideSimulates DEF Next

LEMMA InitSimulates == Init => Atomic!Init
<1> SUFFICES ASSUME Init
             PROVE  Atomic!Init
  OBVIOUS
<1>1. store \in Views
  BY DEF Init, Views, Doc
<1>2. \A p \in Procs : pc[p] = "idle"
  BY DEF Init
<1>3. call = [p \in Procs |-> "idle"] /\ wants = [p \in Procs |-> Nothing]
  BY <1>2 DEF call, wants, CallOf, WantsOf, Open, Nothing
<1>4. QED
  BY <1>1, <1>3, AtomicInit

(* Whatever operations its function runs, however often it runs and        *)
(* whatever the database answers, the changes of a call are applied at     *)
(* once and at most once (coal/store.go T, RT, runTransaction).            *)
THEOREM AtomicHolds == Spec => ImplementsAtomic
<1>1. Init => Atomic!Init
  BY InitSimulates
<1>2. IInv /\ IInv' /\ [Next]_vars => [Atomic!Next]_(Atomic!vars)
  <2>1. Simulated => [Atomic!Next]_(Atomic!vars)
    BY DEF Simulated, Atomic!vars, call, wants, CallOf, WantsOf
  <2>2. QED
    BY <2>1, StepSimulates
<1>3. QED
  BY <1>1, <1>2, InvHolds, PTL DEF Spec, ImplementsAtomic, Atomic!Spec
=============================================================================
