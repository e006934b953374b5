------------------------------- MODULE Members -------------------------------
(***************************************************************************)
(* The members of one object (a bottle's sources, authors, metrics,        *)
(* artifacts, labels, annotations and parts, a manifest's layers): rows of *)
(* a table of their own, which a processor brings in line with the         *)
(* document each time it processes the object again.                       *)
(*                                                                         *)
(* processByIndex and processByKey read the member rows, keep those whose  *)
(* location (or key) the document still has, delete the others one by one, *)
(* and the Save at the end of Process writes the object and its members in *)
(* one transaction.  Process runs in every replica that meets the object   *)
(* at another version: on an upload of the same bytes, or in Reprocess.    *)
(***************************************************************************)
EXTENDS Integers, FiniteSets

CONSTANTS
  Workers,    \* goroutines that may process the object
  Versions,   \* processor versions
  Keys,       \* locations in the document's list, or label keys
  Values,     \* what a member's columns hold
  Items,      \* the members that each version makes of the document
  Ids,        \* primary keys: bounds the rows that are ever inserted
  NoRow,      \* a primary key not used yet
  MaxCopies   \* bounds the rows in the table deprecates

ASSUME MembersAssumption ==
  /\ DOMAIN Items = Versions
  /\ \A v \in Versions :
       /\ DOMAIN Items[v] \subseteq Keys
       /\ \A k \in DOMAIN Items[v] : Items[v][k] \in Values
  /\ NoRow \notin [key : Keys, value : Values, live : BOOLEAN]
  /\ MaxCopies \in Nat

VARIABLES
  object,      \* processor version of the object's row
  rows,        \* the member table; live says that deleted_at is null
  deprecates,  \* rows per entry of the bottle's deprecates list
  work         \* the call of Process that each worker is in

vars == <<object, rows, deprecates, work>>

Row == [key : Keys, value : Values, live : BOOLEAN]

\* The rows that a query sees, gorm leaving out those that are deleted.
Live == {i \in Ids : rows[i] # NoRow /\ rows[i].live}

Free == {i \in Ids : rows[i] = NoRow}

\* What a reader gets: keys with their values.
Shown == {<<rows[i].key, rows[i].value>> : i \in Live}

\* What version v would show.
Wanted(v) == {<<k, Items[v][k]>> : k \in DOMAIN Items[v]}

NoWork == [stage |-> "idle"]

NoIds == [k \in {} |-> k]

\* The map from location to row that the helpers build.
Indexes == UNION {[K -> Ids] : K \in SUBSET Keys}

Work ==
  [stage : {"find", "delete", "save"}, version : Versions, ids : Indexes,
   extra : SUBSET Ids]

\* The object is met at another version than the processor's.
Begin(w) ==
  /\ work[w].stage = "idle"
  /\ \E v \in Versions \ {object} :
       work' = [work EXCEPT ![w] =
                  [stage |-> "find", version |-> v, ids |-> NoIds, extra |-> {}]]
  /\ UNCHANGED <<object, rows, deprecates>>

\* Faulty IndexOf: rows are told apart by their place in the result of the
\* query, not by their location.
IndexOfAny(ids) ==
  /\ DOMAIN ids = {rows[i].key : i \in Live}
  /\ {ids[k] : k \in DOMAIN ids} = Live

\* The row to reuse for each location.  Of several rows with one location the
\* map keeps whichever came last.
IndexOf(ids) ==
  /\ DOMAIN ids = {rows[i].key : i \in Live}
  /\ \A k \in DOMAIN ids : ids[k] \in Live /\ rows[ids[k]].key = k

\* Faulty Find: members that the document lost are kept.
FindKeeping(w) ==
  /\ work[w].stage = "find"
  /\ \E ids \in Indexes :
       /\ IndexOf(ids)
       /\ work' = [work EXCEPT ![w] =
                     [@ EXCEPT !.stage = "delete", !.ids = ids]]
  /\ UNCHANGED <<object, rows, deprecates>>

\* The helper reads the member rows and compares them with the document.
Find(w) ==
  LET lost(ids) == DOMAIN ids \ DOMAIN Items[work[w].version] IN
  /\ work[w].stage = "find"
  /\ \E ids \in Indexes :
       /\ IndexOf(ids)
       /\ work' = [work EXCEPT ![w] =
                     [@ EXCEPT !.stage = "delete", !.ids = ids,
                               !.extra = {ids[k] : k \in lost(ids)}]]
  /\ UNCHANGED <<object, rows, deprecates>>

\* One extraneous row is deleted.
Delete(w) ==
  /\ work[w].stage = "delete"
  /\ \E i \in work[w].extra :
       /\ rows' = [rows EXCEPT ![i].live = FALSE]
       /\ work' = [work EXCEPT ![w].extra = @ \ {i}]
  /\ UNCHANGED <<object, deprecates>>

\* None is left to delete.
Deleted(w) ==
  /\ work[w].stage = "delete"
  /\ work[w].extra = {}
  /\ work' = [work EXCEPT ![w].stage = "save"]
  /\ UNCHANGED <<object, rows, deprecates>>

\* Faulty Reused: the primary keys are forgotten.
ReusedNone(w) == {}

\* The members of the document that have a row already.
Reused(w) == DOMAIN work[w].ids \cap DOMAIN Items[work[w].version]

\* Save, in one transaction: rows found are updated in place (which also
\* revives one that someone else deleted meanwhile), the others are inserted.
\* The entries of deprecates are always inserted.
Save(w) ==
  LET v == work[w].version
      ids == work[w].ids
      new == DOMAIN Items[v] \ Reused(w)
      Member(k) == [key |-> k, value |-> Items[v][k], live |-> TRUE]
  IN
  /\ work[w].stage = "save"
  /\ \E fresh \in [new -> Free] :
       /\ \A j, k \in new : fresh[j] = fresh[k] => j = k
       /\ rows' = [i \in Ids |->
                     IF \E k \in Reused(w) : ids[k] = i
                     THEN Member(CHOOSE k \in Reused(w) : ids[k] = i)
                     ELSE IF \E k \in new : fresh[k] = i
                     THEN Member(CHOOSE k \in new : fresh[k] = i)
                     ELSE rows[i]]
  /\ object' = v
  /\ deprecates < MaxCopies
  /\ deprecates' = deprecates + 1
  /\ work' = [work EXCEPT ![w] = NoWork]

\* A statement fails, the request times out or the replica dies.
Fail(w) ==
  /\ work[w].stage # "idle"
  /\ work' = [work EXCEPT ![w] = NoWork]
  /\ UNCHANGED <<object, rows, deprecates>>

\* The object was created by some version, in one transaction.
Init ==
  /\ object \in Versions
  /\ \E at \in [DOMAIN Items[object] -> Ids] :
       /\ \A j, k \in DOMAIN at : at[j] = at[k] => j = k
       /\ rows = [i \in Ids |->
                    IF \E k \in DOMAIN at : at[k] = i
                    THEN LET k == CHOOSE k \in DOMAIN at : at[k] = i
                         IN [key |-> k, value |-> Items[object][k],
                             live |-> TRUE]
                    ELSE NoRow]
  /\ deprecates = 1
  /\ work = [w \in Workers |-> NoWork]

Next ==
  \E w \in Workers :
    \/ Begin(w)   \/ Find(w) \/ Delete(w)
    \/ Deleted(w) \/ Save(w) \/ Fail(w)

Spec == Init /\ [][Next]_vars

-----------------------------------------------------------------------------
(* Properties *)

\* Rows, the calls of Process and what they read have the types of the tables.
TypeOK ==
  /\ object \in Versions
  /\ rows \in [Ids -> Row \cup {NoRow}]
  /\ deprecates \in Nat
  /\ work \in [Workers -> Work \cup {NoWork}]

\* No two rows for one location or label, whatever calls of Process were cut
\* short before.
OneRowPerKey ==
  \A i, j \in Live : rows[i].key = rows[j].key => i = j

\* When Process is through, the members are those that its version makes of
\* the document: none missing, none left over, none of an older version.
SavedExactly ==
  [][object' # object => Shown' = Wanted(object')]_vars

\* Members that stay keep their rows.
RowsReused ==
  [][object' # object =>
       \A i \in Live : rows[i].key \in DOMAIN Items[object'] =>
         i \in Live' /\ rows'[i].key = rows[i].key]_vars

=============================================================================
