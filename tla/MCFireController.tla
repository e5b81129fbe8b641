------------------------- MODULE MCFireController --------------------------
(* A small instance of FireController for TLC.                             *)
EXTENDS FireController

Symmetry == Permutations(Procs)

MCLinkSets == {{}, {1}}

(* A reader of everything, and one who sees the documents of value 1 only. *)
MCAllowed == [all |-> Values, some |-> {1}]
MCReadable == [all |-> Fields, some |-> Fields \ {"links"}]
MCWritable == [all |-> Fields, some |-> {"val", "ct"}]

MCSorts == {<<>>, <<[key |-> "val", desc |-> TRUE]>>}

Plain == [consistent |-> FALSE, idempotent |-> FALSE, indexed |-> TRUE, soft |-> FALSE, cursor |-> FALSE,
          limit |-> 0, search |-> TRUE, validators |-> {}, sent |-> {"val"},
          initial |-> {1}, calls |-> 2]

(* parent is set as a document is created, ct is not set at all.           *)
MCProtected == [parent |-> {}, ct |-> {Blank}]

(* The mechanisms one by one and together, and lists in pages.             *)
MCConfigs ==
  {[Plain EXCEPT !.consistent = TRUE, !.soft = TRUE, !.sent = {"val", "ut"}],
   [Plain EXCEPT !.idempotent = TRUE, !.soft = TRUE, !.sent = {"val", "ct"},
                 !.initial = {}, !.calls = 3],
   [Plain EXCEPT !.idempotent = TRUE, !.indexed = FALSE, !.soft = TRUE,
                 !.sent = {"val", "ct"}, !.initial = {}, !.calls = 3],
   [Plain EXCEPT !.validators = {"protected", "relationship", "matching"},
                 !.sent = {"val", "parent", "links", "ct"}],
   [Plain EXCEPT !.limit = 2, !.initial = {1, 2}, !.calls = 1],
   [Plain EXCEPT !.cursor = TRUE, !.limit = 1, !.initial = {1, 2, 3}, !.calls = 1]}
=============================================================================
