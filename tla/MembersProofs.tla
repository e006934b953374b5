---------------------------- MODULE MembersProofs ----------------------------
(***************************************************************************)
(* Proofs about Members: as long as one goroutine at a time processes an   *)
(* object, every call of Process that gets through leaves exactly the      *)
(* members of its version, each in one row, however many calls before it   *)
(* were cut short and whatever the versions make of the document.          *)
(***************************************************************************)
EXTENDS Members, TLAPS

\* There is one goroutine.
Serial == \A u, w \in Workers : u = w

-----------------------------------------------------------------------------
(* The inductive invariant *)

\* What a call knows after it has read the member rows: the index names one
\* row for each location that has any, and the live rows are those it is going
\* to reuse and those it has still to delete.
Knows(r) ==
  LET keep == DOMAIN r.ids \cap DOMAIN Items[r.version]
      lost == DOMAIN r.ids \ DOMAIN Items[r.version]
  IN
  /\ \A k \in DOMAIN r.ids : rows[r.ids[k]] # NoRow /\ rows[r.ids[k]].key = k
  /\ r.extra \subseteq {r.ids[k] : k \in lost}
  /\ Live = {r.ids[k] : k \in keep} \cup r.extra
  /\ r.stage = "save" => r.extra = {}

Knowledge ==
  \A w \in Workers : work[w].stage \in {"delete", "save"} => Knows(work[w])

Inv == TypeOK /\ OneRowPerKey /\ Knowledge

USE MembersAssumption

\* A member of the document makes a row.
LEMMA MemberIsRow ==
  ASSUME NEW v \in Versions, NEW k \in DOMAIN Items[v]
  PROVE  /\ [key |-> k, value |-> Items[v][k], live |-> TRUE] \in Row
         /\ [key |-> k, value |-> Items[v][k], live |-> TRUE] # NoRow
<1>1. k \in Keys /\ Items[v][k] \in Values
  OBVIOUS
<1>2. [key |-> k, value |-> Items[v][k], live |-> TRUE] \in Row
  BY <1>1 DEF Row
<1> QED
  BY <1>2 DEF Row

\* The object has been created in one go.
LEMMA InitInv == Init => Inv
<1> SUFFICES ASSUME Init PROVE Inv
  OBVIOUS
<1>1. PICK at \in [DOMAIN Items[object] -> Ids] :
        /\ \A j, k \in DOMAIN at : at[j] = at[k] => j = k
        /\ rows = [i \in Ids |->
                     IF \E k \in DOMAIN at : at[k] = i
                     THEN LET k == CHOOSE k \in DOMAIN at : at[k] = i
                          IN [key |-> k, value |-> Items[object][k],
                              live |-> TRUE]
                     ELSE NoRow]
  BY DEF Init
<1>2. object \in Versions
  BY DEF Init
<1>3. \A i \in Ids :
        \/ rows[i] = NoRow
        \/ \E k \in DOMAIN Items[object] :
             at[k] = i /\ rows[i] = [key |-> k, value |-> Items[object][k],
                                     live |-> TRUE]
  BY <1>1
<1>4. rows \in [Ids -> Row \cup {NoRow}]
  <2>1. rows = [i \in Ids |-> rows[i]]
    BY <1>1
  <2>2. \A i \in Ids : rows[i] \in Row \cup {NoRow}
    <3> SUFFICES ASSUME NEW i \in Ids, rows[i] # NoRow
                 PROVE  rows[i] \in Row
      OBVIOUS
    <3>1. PICK k \in DOMAIN Items[object] :
            rows[i] = [key |-> k, value |-> Items[object][k], live |-> TRUE]
      BY <1>3
    <3> QED
      BY <1>2, <3>1, MemberIsRow
  <2> QED
    BY <2>1, <2>2
<1>5. TypeOK
  BY <1>2, <1>4 DEF Init, TypeOK
<1>6. OneRowPerKey
  BY <1>1, <1>3 DEF OneRowPerKey, Live
<1>7. Knowledge
  BY DEF Init, Knowledge, NoWork
<1> QED
  BY <1>5, <1>6, <1>7 DEF Inv

-----------------------------------------------------------------------------
(* The steps *)

\* A call that begins, fails or does nothing knows nothing.
LEMMA StartingOver ==
  ASSUME Inv, NEW w \in Workers, Begin(w) \/ Fail(w)
  PROVE  Inv' /\ UNCHANGED <<object, rows>>
<1>1. UNCHANGED <<object, rows, deprecates>>
  BY DEF Begin, Fail
<1>2. Live' = Live
  BY <1>1 DEF Live
<1>3. /\ work' \in [Workers -> Work \cup {NoWork}]
      /\ work'[w].stage \in {"idle", "find"}
      /\ \A u \in Workers \ {w} : work'[u] = work[u]
  <2>1. CASE Begin(w)
    <3>1. NoIds \in Indexes
      <4>1. NoIds \in [{} -> Ids]
        BY DEF NoIds
      <4> QED
        BY <4>1 DEF Indexes
    <3>2. \A v \in Versions :
            [stage |-> "find", version |-> v, ids |-> NoIds, extra |-> {}]
              \in Work
      BY <3>1 DEF Work
    <3> QED
      BY <2>1, <3>2 DEF Begin, Inv, TypeOK
  <2>2. CASE Fail(w)
    BY <2>2 DEF Fail, Inv, TypeOK, NoWork
  <2> QED
    BY <2>1, <2>2
<1>4. TypeOK'
  BY <1>1, <1>3 DEF Inv, TypeOK
<1>5. OneRowPerKey'
  BY <1>1, <1>2 DEF Inv, OneRowPerKey
<1>6. Knowledge'
  BY <1>1, <1>2, <1>3 DEF Inv, Knowledge, Knows
<1> QED
  BY <1>1, <1>4, <1>5, <1>6 DEF Inv

\* What is read is what is there.
LEMMA FindStep ==
  ASSUME Serial, Inv, NEW w \in Workers, Find(w)
  PROVE  Inv' /\ UNCHANGED <<object, rows>>
<1> DEFINE v == work[w].version
<1>1. PICK ids \in Indexes :
        /\ IndexOf(ids)
        /\ work' = [work EXCEPT ![w] =
                      [@ EXCEPT !.stage = "delete", !.ids = ids,
                                !.extra = {ids[k] : k \in
                                           DOMAIN ids \ DOMAIN Items[v]}]]
  BY DEF Find
<1>2. UNCHANGED <<object, rows, deprecates>> /\ Live' = Live
  BY DEF Find, Live
<1>3. work[w] \in Work
  BY DEF Find, Inv, TypeOK, NoWork
<1>4. \A k \in DOMAIN ids : ids[k] \in Ids
  BY <1>1 DEF IndexOf, Live
<1>5. PICK r : r = [work[w] EXCEPT !.stage = "delete", !.ids = ids,
                      !.extra = {ids[k] : k \in DOMAIN ids \ DOMAIN Items[v]}]
  OBVIOUS
<1>6. /\ r.stage = "delete" /\ r.version = v /\ r.ids = ids
      /\ r.extra = {ids[k] : k \in DOMAIN ids \ DOMAIN Items[v]}
      /\ r \in Work
      /\ work' = [work EXCEPT ![w] = r]
  BY ZenonT(60), <1>1, <1>3, <1>4, <1>5 DEF Work
<1>7. TypeOK'
  BY <1>2, <1>6 DEF Inv, TypeOK
<1>8. OneRowPerKey'
  BY <1>2 DEF Inv, OneRowPerKey
<1>9. Live = {ids[k] : k \in DOMAIN ids}
  <2>1. \A i \in Live : ids[rows[i].key] = i
    BY <1>1 DEF IndexOf, Inv, OneRowPerKey
  <2> QED
    BY <2>1, <1>1 DEF IndexOf
<1>10. \A k \in DOMAIN ids : rows[ids[k]] # NoRow /\ rows[ids[k]].key = k
  BY <1>1 DEF IndexOf, Live
<1>11. Knows(r)'
  BY <1>2, <1>6, <1>9, <1>10 DEF Knows
<1>12. Knowledge'
  <2>1. \A u \in Workers : work'[u] = r
    BY <1>6 DEF Serial, Inv, TypeOK
  <2> QED
    BY <2>1, <1>11 DEF Knowledge
<1> QED
  BY <1>2, <1>7, <1>8, <1>12 DEF Inv

\* A deleted row was none of those to be reused.
LEMMA DeleteStep ==
  ASSUME Serial, Inv, NEW w \in Workers, Delete(w)
  PROVE  Inv' /\ UNCHANGED object
<1>1. PICK i \in work[w].extra :
        /\ rows' = [rows EXCEPT ![i].live = FALSE]
        /\ work' = [work EXCEPT ![w].extra = @ \ {i}]
  BY DEF Delete
<1>2. UNCHANGED <<object, deprecates>>
  BY DEF Delete
<1>3. work[w] \in Work /\ work[w].stage = "delete" /\ Knows(work[w])
  BY DEF Delete, Inv, TypeOK, Knowledge, NoWork
<1>4. i \in Ids /\ rows[i] \in Row /\ rows[i] # NoRow
  BY <1>1, <1>3 DEF Work, Knows, Live, Inv, TypeOK
<1>5. PICK r : r = [work[w] EXCEPT !.extra = @ \ {i}]
  OBVIOUS
<1>6. /\ r \in Work /\ r.stage = "delete" /\ r.version = work[w].version
      /\ r.ids = work[w].ids /\ r.extra = work[w].extra \ {i}
      /\ work' = [work EXCEPT ![w] = r]
  BY <1>1, <1>3, <1>5 DEF Work, Inv, TypeOK
<1>7. /\ rows' \in [Ids -> Row \cup {NoRow}]
      /\ rows'[i] \in Row /\ ~ rows'[i].live /\ rows'[i].key = rows[i].key
      /\ \A j \in Ids \ {i} : rows'[j] = rows[j]
  BY <1>1, <1>4 DEF Inv, TypeOK, Row
<1>8. rows'[i] # NoRow
  BY <1>7 DEF Row
<1>9. Live' = Live \ {i}
  BY <1>4, <1>7 DEF Live
<1>10. TypeOK'
  BY <1>2, <1>6, <1>7 DEF Inv, TypeOK
<1>11. OneRowPerKey'
  BY <1>7, <1>9 DEF Inv, OneRowPerKey, Live
<1>12. Knows(r)'
  <2> DEFINE ids == work[w].ids
             keep == DOMAIN ids \cap DOMAIN Items[work[w].version]
             lost == DOMAIN ids \ DOMAIN Items[work[w].version]
  <2>1. \A k \in DOMAIN ids :
          ids[k] \in Ids /\ rows[ids[k]] # NoRow /\ rows[ids[k]].key = k
    BY <1>3 DEF Knows, Work, Indexes
  <2>2. \A k \in DOMAIN ids : rows'[ids[k]] # NoRow /\ rows'[ids[k]].key = k
    BY <2>1, <1>7, <1>8
  <2>3. PICK l \in lost : ids[l] = i
    BY <1>1, <1>3 DEF Knows
  <2>4. \A k \in keep : ids[k] # i
    BY <2>1, <2>3
  <2>5. Live' = {ids[k] : k \in keep} \cup r.extra
    BY <1>3, <1>6, <1>9, <2>4 DEF Knows
  <2>6. r.extra \subseteq {ids[k] : k \in lost}
    BY <1>3, <1>6 DEF Knows
  <2> QED
    BY <1>6, <2>2, <2>5, <2>6 DEF Knows
<1>13. Knowledge'
  <2>1. \A u \in Workers : work'[u] = r
    BY <1>6 DEF Serial, Inv, TypeOK
  <2> QED
    BY <2>1, <1>12 DEF Knowledge
<1> QED
  BY <1>2, <1>10, <1>11, <1>13 DEF Inv

\* With nothing left to delete, the live rows are those to be reused.
LEMMA DeletedStep ==
  ASSUME Serial, Inv, NEW w \in Workers, Deleted(w)
  PROVE  Inv' /\ UNCHANGED <<object, rows>>
<1>1. UNCHANGED <<object, rows, deprecates>> /\ Live' = Live
  BY DEF Deleted, Live
<1>2. /\ work[w] \in Work /\ work[w].stage = "delete"
      /\ work[w].extra = {} /\ Knows(work[w])
  BY DEF Deleted, Inv, TypeOK, Knowledge, NoWork
<1>3. PICK r : r = [work[w] EXCEPT !.stage = "save"]
  OBVIOUS
<1>4. /\ r \in Work /\ r.stage = "save" /\ r.version = work[w].version
      /\ r.ids = work[w].ids /\ r.extra = {}
      /\ work' = [work EXCEPT ![w] = r]
  BY <1>2, <1>3 DEF Deleted, Work, Inv, TypeOK
<1>5. TypeOK'
  BY <1>1, <1>4 DEF Inv, TypeOK
<1>6. OneRowPerKey'
  BY <1>1 DEF Inv, OneRowPerKey
<1>7. Knows(r)'
  BY <1>1, <1>2, <1>4 DEF Knows
<1>8. Knowledge'
  <2>1. \A u \in Workers : work'[u] = r
    BY <1>4 DEF Serial, Inv, TypeOK
  <2> QED
    BY <2>1, <1>7 DEF Knowledge
<1> QED
  BY <1>1, <1>5, <1>6, <1>8 DEF Inv

\* The rows of members that stay.
Reuses ==
  \A i \in Live : rows[i].key \in DOMAIN Items[object'] =>
    i \in Live' /\ rows'[i].key = rows[i].key

\* Save leaves one row for every member of its version, and no other; it takes
\* a new row only for a member that has none.
LEMMA SaveStep ==
  ASSUME Serial, Inv, NEW w \in Workers, Save(w)
  PROVE  Inv' /\ Shown' = Wanted(object') /\ Reuses
<1> DEFINE v == work[w].version
           ids == work[w].ids
           new == DOMAIN Items[v] \ Reused(w)
           Member(k) == [key |-> k, value |-> Items[v][k], live |-> TRUE]
<1>1. PICK fresh \in [new -> Free] :
        /\ \A j, k \in new : fresh[j] = fresh[k] => j = k
        /\ rows' = [i \in Ids |->
                      IF \E k \in Reused(w) : ids[k] = i
                      THEN Member(CHOOSE k \in Reused(w) : ids[k] = i)
                      ELSE IF \E k \in new : fresh[k] = i
                      THEN Member(CHOOSE k \in new : fresh[k] = i)
                      ELSE rows[i]]
  BY DEF Save
<1>2. /\ object' = v /\ deprecates' = deprecates + 1
      /\ work' = [work EXCEPT ![w] = NoWork]
  BY DEF Save
<1>3. /\ work[w] \in Work /\ work[w].stage = "save"
      /\ Knows(work[w]) /\ v \in Versions
  BY DEF Save, Inv, TypeOK, Knowledge, NoWork, Work
<1>4. /\ Live = {ids[k] : k \in Reused(w)}
      /\ \A k \in Reused(w) : ids[k] \in Ids /\ rows[ids[k]].key = k
  <2>1. work[w].extra = {}
    BY <1>3 DEF Knows
  <2> QED
    BY <1>3, <2>1 DEF Knows, Reused, Work, Indexes
<1>5. \A k \in DOMAIN Items[v] : Member(k) \in Row /\ Member(k) # NoRow
  BY <1>3, MemberIsRow
<1> HIDE DEF v, ids
<1> DEFINE at == [k \in DOMAIN Items[v] |-> IF k \in Reused(w) THEN ids[k]
                                                             ELSE fresh[k]]
<1>6. Reused(w) \subseteq DOMAIN Items[v]
  BY DEF Reused, v
<1>7. \A k \in DOMAIN Items[v] : at[k] \in Ids
  BY <1>1, <1>4, <1>6 DEF Free
<1>8. \A j, k \in DOMAIN Items[v] : at[j] = at[k] => j = k
  <2> SUFFICES ASSUME NEW j \in DOMAIN Items[v], NEW k \in DOMAIN Items[v],
                      at[j] = at[k]
               PROVE  j = k
    OBVIOUS
  <2>1. \A l \in Reused(w) : rows[ids[l]] # NoRow
    BY <1>4 DEF Live
  <2>2. \A l \in new : rows[fresh[l]] = NoRow
    BY <1>1 DEF Free
  <2>3. CASE j \in Reused(w) /\ k \in Reused(w)
    BY <2>3, <1>4
  <2>4. CASE j \notin Reused(w) /\ k \notin Reused(w)
    BY <2>4, <1>1
  <2> QED
    BY <2>1, <2>2, <2>3, <2>4
<1>9. \A k \in DOMAIN Items[v] : rows'[at[k]] = Member(k)
  <2> SUFFICES ASSUME NEW k \in DOMAIN Items[v]
               PROVE  rows'[at[k]] = Member(k)
    OBVIOUS
  <2>1. CASE k \in Reused(w)
    <3>1. \A j \in Reused(w) : ids[j] = at[k] => j = k
      BY <1>4, <2>1
    <3>2. (CHOOSE j \in Reused(w) : ids[j] = at[k]) = k
      BY <2>1, <3>1
    <3> QED
      BY <1>1, <1>7, <2>1, <3>2
  <2>2. CASE k \notin Reused(w)
    <3>1. \A j \in Reused(w) : ids[j] # at[k]
      BY <1>6, <1>8, <2>2
    <3>2. \A j \in new : fresh[j] = at[k] => j = k
      BY <1>1, <2>2
    <3>3. (CHOOSE j \in new : fresh[j] = at[k]) = k
      BY <2>2, <3>2
    <3> QED
      BY <1>1, <1>7, <2>2, <3>1, <3>3
  <2> QED
    BY <2>1, <2>2
<1>10. \A i \in Ids : (\A k \in DOMAIN Items[v] : at[k] # i) => rows'[i] = rows[i]
  BY <1>1, <1>6
<1> HIDE DEF at
<1>11. \A k \in DOMAIN Items[v] :
         /\ rows'[at[k]] # NoRow /\ rows'[at[k]].live
         /\ rows'[at[k]].key = k /\ rows'[at[k]].value = Items[v][k]
  <2> SUFFICES ASSUME NEW k \in DOMAIN Items[v]
               PROVE  /\ rows'[at[k]] # NoRow /\ rows'[at[k]].live
                      /\ rows'[at[k]].key = k /\ rows'[at[k]].value = Items[v][k]
    OBVIOUS
  <2>1. rows'[at[k]] = Member(k) /\ Member(k) # NoRow
    BY <1>5, <1>9
  <2> QED
    BY <2>1
<1>12. Live' = {at[k] : k \in DOMAIN Items[v]}
  <2>1. Live \subseteq {at[k] : k \in DOMAIN Items[v]}
    BY <1>4, <1>6 DEF at
  <2>2. \A k \in DOMAIN Items[v] : at[k] \in Live'
    BY <1>7, <1>11 DEF Live
  <2>3. \A i \in Live' : \E k \in DOMAIN Items[v] : at[k] = i
    BY <1>10, <2>1 DEF Live
  <2> QED
    BY <2>2, <2>3
<1>13. Shown' = Wanted(v)
  BY <1>12, <1>11 DEF Shown, Wanted
<1>14. OneRowPerKey'
  BY <1>12, <1>11 DEF OneRowPerKey
<1>15. TypeOK'
  <2>1. \A i \in Ids : rows'[i] \in Row \cup {NoRow}
    BY ZenonT(60), <1>5, <1>9, <1>10 DEF Inv, TypeOK
  <2>2. rows' = [i \in Ids |-> rows'[i]]
    BY <1>1
  <2>3. rows' \in [Ids -> Row \cup {NoRow}]
    BY <2>1, <2>2
  <2> QED
    BY <1>2, <1>3, <2>3 DEF Inv, TypeOK
<1>16. Knowledge'
  BY <1>2 DEF Knowledge, Serial, Inv, TypeOK, NoWork
<1>17. Reuses
  <2> SUFFICES ASSUME NEW k \in Reused(w)
               PROVE  ids[k] \in Live' /\ rows'[ids[k]].key = k
    BY <1>2, <1>4 DEF Reuses
  <2>1. at[k] = ids[k] /\ k \in DOMAIN Items[v]
    BY <1>6 DEF at
  <2> QED
    BY <2>1, <1>11, <1>12
<1> QED
  BY <1>2, <1>13, <1>14, <1>15, <1>16, <1>17 DEF Inv

-----------------------------------------------------------------------------
(* The theorems *)

\* Every step preserves the invariant.
LEMMA NextInv == Serial /\ Inv /\ [Next]_vars => Inv'
<1> SUFFICES ASSUME Serial, Inv, [Next]_vars PROVE Inv'
  OBVIOUS
<1>1. CASE UNCHANGED vars
  BY <1>1 DEF vars, Inv, TypeOK, OneRowPerKey, Knowledge, Knows, Live
<1>2. ASSUME NEW w \in Workers, Begin(w) \/ Fail(w) PROVE Inv'
  BY <1>2, StartingOver
<1>3. ASSUME NEW w \in Workers, Find(w) PROVE Inv'
  BY <1>3, FindStep
<1>4. ASSUME NEW w \in Workers, Delete(w) PROVE Inv'
  BY <1>4, DeleteStep
<1>5. ASSUME NEW w \in Workers, Deleted(w) PROVE Inv'
  BY <1>5, DeletedStep
<1>6. ASSUME NEW w \in Workers, Save(w) PROVE Inv'
  BY <1>6, SaveStep
<1> QED
  BY <1>1, <1>2, <1>3, <1>4, <1>5, <1>6 DEF Next

\* Only Save changes the version on record, and it leaves the right members.
LEMMA NextExact ==
  ASSUME Serial, Inv, [Next]_vars, object' # object
  PROVE  Shown' = Wanted(object') /\ Reuses
<1>1. Next
  BY DEF vars
<1>2. PICK w \in Workers : Save(w)
  BY <1>1, StartingOver, FindStep, DeleteStep, DeletedStep DEF Next
<1> QED
  BY <1>2, SaveStep

\* What a call knows about the member table stays true until it is through.
THEOREM Invariance == ASSUME Serial PROVE Spec => []Inv
<1>1. Init => Inv
  BY InitInv
<1>2. Inv /\ [Next]_vars => Inv'
  BY NextInv
<1> QED
  BY <1>1, <1>2, PTL DEF Spec

\* Processing an object again, however often and however interrupted, never
\* leaves it two rows for one location or label.
THEOREM NoDuplicateMembers == ASSUME Serial PROVE Spec => []OneRowPerKey
<1>1. Inv => OneRowPerKey
  BY DEF Inv
<1> QED
  BY <1>1, Invariance, PTL

\* Whenever a new version is on record, its members are exactly those that
\* this version makes of the document.
THEOREM ProcessingIsExact == ASSUME Serial PROVE Spec => SavedExactly
<1>1. Inv /\ [Next]_vars => [object' # object => Shown' = Wanted(object')]_vars
  BY NextExact
<1>2. Spec => []Inv
  BY Invariance
<1> QED
  BY <1>1, <1>2, PTL DEF Spec, SavedExactly

\* A member that stays keeps its primary key.
THEOREM PrimaryKeysStay == ASSUME Serial PROVE Spec => RowsReused
<1>1. Inv /\ [Next]_vars =>
        [object' # object =>
           \A i \in Live : rows[i].key \in DOMAIN Items[object'] =>
             i \in Live' /\ rows'[i].key = rows[i].key]_vars
  BY NextExact DEF Reuses
<1>2. Spec => []Inv
  BY Invariance
<1> QED
  BY <1>1, <1>2, PTL DEF Spec, RowsReused

=============================================================================
