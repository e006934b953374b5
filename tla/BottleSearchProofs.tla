-------------------------- MODULE BottleSearchProofs --------------------------
(***************************************************************************)
(* Proofs about BottleSearch: for any bottles, searches and sizes of a     *)
(* part, and whatever is uploaded between the requests, a scroll sees each *)
(* bottle once and in order, the lists beside it say the truth, selectors  *)
(* mean what they say, and a bottle is the same one under each digest.     *)
(***************************************************************************)
EXTENDS BottleSearch, FiniteSetTheorems, TLAPS

-----------------------------------------------------------------------------
(* The tables *)

\* The two readings of the documents are the same.
LEMMA SameDocuments ==
  /\ Shelved!HasSubject = HasSubject
  /\ \A t : Shelved!SubjectType(t) = SubjectType(t)
BY DEF Shelved!HasSubject, HasSubject, Shelved!SubjectType, SubjectType

\* What is stored are contents, finitely many.
LEMMA StoredFinite ==
  ASSUME NEW S \in SUBSET Contents
  PROVE  IsFiniteSet(S) /\ Cardinality(S) \in Nat
BY BottleSearchAssumption, FS_Subset, FS_CardinalityType

\* Each stored object has its bytes and its references.
ShelfClosed ==
  \A c \in Visible : /\ \E d \in names : d[1] = c
                     /\ Shelved!Satisfied(Doc[c].type, c)

LEMMA ResolvesStored ==
  \A t, d : Shelved!Resolves(t, d) <=> d \in names /\ d[1] \in Stored(t)
BY DEF Shelved!Resolves, Stored

LEMMA ShelfBegins == ShelfInit => ShelfTypeOK /\ ShelfClosed
<1> SUFFICES ASSUME ShelfInit PROVE ShelfTypeOK /\ ShelfClosed
  OBVIOUS
<1>1. ShelfTypeOK
  BY ShelfAssumption DEF ShelfInit, ShelfTypeOK
<1>2. Visible = Start
  <2>1. \A c \in Contents : created[c] = IF c \in Start THEN 1 ELSE 0
    BY DEF ShelfInit
  <2> QED
    BY <2>1, ShelfAssumption DEF Visible
<1>3. ASSUME NEW c \in Start
      PROVE  /\ \E d \in names : d[1] = c
             /\ Shelved!Satisfied(Doc[c].type, c)
  <2>1. \A t, d : InStart(t, d) => Shelved!Resolves(t, d)
    BY <1>2, ResolvesStored DEF InStart, StartOf, Stored, ShelfInit
  <2>2. c \in StartOf(Doc[c].type)
    BY DEF StartOf
  <2> QED
    BY <2>1, <2>2, SameDocuments, StartAssumption
    DEF Shelved!Satisfied, HasSubject, SubjectType, ShelfInit
<1> QED
  BY <1>1, <1>2, <1>3 DEF ShelfClosed

\* Uploads take nothing away.
LEMMA UploadGrows ==
  ASSUME ShelfTypeOK, Upload
  PROVE  /\ ShelfTypeOK'
         /\ names \subseteq names'
         /\ Visible \subseteq Visible'
         /\ \A c \in Visible : created'[c] = created[c]
<1>1. CASE \E d \in Offered : Name(d)
  BY <1>1, ShelfAssumption DEF Name, ShelfTypeOK, Visible
<1>2. CASE \E c \in Contents, now \in 1..MaxTime : Enter(c, now)
  BY <1>2, ShelfAssumption DEF Enter, ShelfTypeOK, Visible
<1> QED
  BY <1>1, <1>2 DEF Upload

\* An upload is a step of the catalogue, which stays closed.
LEMMA UploadCloses ==
  ASSUME ShelfTypeOK, ShelfClosed, Upload
  PROVE  ShelfClosed'
<1>1. names \subseteq names' /\ Visible \subseteq Visible'
  BY UploadGrows
<1>2. ASSUME NEW c, NEW t, Shelved!Satisfied(t, c)
      PROVE  Shelved!Satisfied(t, c)'
  BY <1>1, <1>2 DEF Shelved!Satisfied, Shelved!Resolves
<1>3. ASSUME NEW c \in Visible'
      PROVE  /\ \E d \in names' : d[1] = c
             /\ Shelved!Satisfied(Doc[c].type, c)'
  <2>1. CASE c \in Visible
    BY <1>1, <1>2, <2>1 DEF ShelfClosed
  <2>2. CASE c \notin Visible
    <3>1. PICK now \in 1..MaxTime : Enter(c, now)
      <4>1. ~\E d \in Offered : Name(d)
        BY <1>3, <2>2 DEF Name, Visible
      <4>2. PICK x \in Contents, now \in 1..MaxTime : Enter(x, now)
        BY <4>1 DEF Upload
      <4>3. x = c
        BY <1>3, <2>2, <4>2 DEF Enter, Visible, ShelfTypeOK
      <4> QED
        BY <4>2, <4>3
    <3>2. \E d \in names : d[1] = c
      BY <3>1 DEF Enter, DigestsOf
    <3>3. Shelved!Satisfied(Doc[c].type, c)
      BY <3>1 DEF Enter
    <3> QED
      BY <1>1, <1>2, <3>2, <3>3
  <2> QED
    BY <2>1, <2>2
<1> QED
  BY <1>3 DEF ShelfClosed

\* What an event is about is stored: its manifest, under the digest the event
\* uses, and the bottle of that.
LEMMA EventSubject ==
  ASSUME ShelfClosed, NEW e \in Stored("event")
  PROVE  /\ Doc[e].subject \in names
         /\ Doc[e].subject[1] \in Stored("manifest")
         /\ BottleOf(Doc[e].subject[1]) = BottleOf(e)
         /\ BottleDigest(e)[1] = BottleOf(e)
<1>1. e \in Visible /\ Doc[e].type = "event" /\ e \in Contents
  BY DEF Stored, Visible
<1>2. Shelved!Resolves("manifest", Doc[e].subject)
  BY <1>1, SameDocuments DEF ShelfClosed, Shelved!Satisfied, HasSubject, SubjectType
<1>3. Doc[e].subject \in names /\ Doc[e].subject[1] \in Stored("manifest")
  BY <1>2, ResolvesStored
<1> QED
  BY <1>1, <1>3 DEF Stored, BottleOf, BottleDigest

-----------------------------------------------------------------------------
(* The inductive invariant *)

\* What a page shows, and where it is.
ShownRow == [bottle : Contents, pulls : Nat, total : Nat]

SearchTypes ==
  /\ ShelfTypeOK
  /\ visit \in [stage : {"away", "invalid", "open", "ended", "failed"},
                query : Asked, before : 1..MaxTime, part : Nat]
  /\ shown \in Seq(SUBSET ShownRow)
  /\ steady \in BOOLEAN

\* The bottles shown so far, and those that are searched for.
Seen == UNION {ShownIn(i) : i \in DOMAIN shown}
Sought == Found(visit.query, visit.before)

\* Every bottle of A may be listed before every other bottle of B.
Initial(A, B, q) == \A a \in A, b \in B \ A : Precedes(a, b, q)

\* What is shown is a beginning of the list of what is searched for, as long as
\* the parts so far.
Scrolled ==
  steady =>
    LET q == visit.query
        W == Sought
    IN  /\ Seen \subseteq W
        /\ \A i \in DOMAIN shown : \A r \in shown[i] : r.total = Cardinality(W)
        /\ Strict(W, q) =>
             /\ Initial(Seen, W, q)
             /\ Cardinality(Seen) = Minimum(Offset(q, visit.part), Cardinality(W))
             /\ \A i, j \in DOMAIN shown : i < j =>
                  \A a \in ShownIn(i), b \in ShownIn(j) : ~Precedes(b, a, q)
             /\ visit.stage = "ended" => Seen = W

\* The lists beside the bottles are those of what is searched for.
ListsRead ==
  steady =>
    /\ metrics # NoList => metrics = MetricNames(visit.query, visit.before)
    /\ labels # NoList =>
         \A b \in Wanted(visit.query, visit.before) : \A k \in labels :
           \E l \in About[b].labels : l.key = k

Inv == SearchTypes /\ ShelfClosed /\ PullsCounted /\ Scrolled /\ ListsRead

-----------------------------------------------------------------------------
(* Parts of an ordered list *)

LEMMA LimitPositive ==
  ASSUME NEW q \in Asked, NEW n \in Nat
  PROVE  /\ LimitOf(q) \in Nat \ {0}
         /\ Offset(q, n) \in Nat
         /\ Offset(q, n + 1) = Offset(q, n) + LimitOf(q)
<1>1. PICK l \in Nat \ {0} : l = LimitOf(q)
  BY BottleSearchAssumption DEF LimitOf
<1>2. n * l \in Nat /\ (n + 1) * l = n * l + l
  BY <1>1
<1> QED
  BY <1>1, <1>2 DEF Offset

\* A strict list has one beginning of each length.
LEMMA InitialUnique ==
  ASSUME NEW W \in SUBSET Contents, NEW q, Strict(W, q),
         NEW A \in SUBSET W, Initial(A, W, q),
         NEW B \in SUBSET W, Initial(B, W, q),
         Cardinality(A) = Cardinality(B)
  PROVE  A = B
<1>1. IsFiniteSet(A) /\ IsFiniteSet(B)
  BY StoredFinite
<1>2. ASSUME NEW a \in A \ B, NEW b \in B \ A PROVE FALSE
  <2>1. Precedes(a, b, q) /\ Precedes(b, a, q)
    BY <1>2 DEF Initial
  <2> QED
    BY <1>2, <2>1 DEF Strict
<1>3. A \subseteq B \/ B \subseteq A
  BY <1>2
<1> QED
  BY <1>1, <1>3, FS_Subset

\* The part that follows a beginning of the list makes it longer.
LEMMA PartFollows ==
  ASSUME NEW W \in SUBSET Contents, NEW q \in Asked, NEW n \in Nat, Strict(W, q),
         NEW A \in SUBSET W, Initial(A, W, q),
         Cardinality(A) = Minimum(Offset(q, n), Cardinality(W)),
         NEW P \in Parts(W, q, n)
  PROVE  /\ Initial(A \cup P, W, q)
         /\ Cardinality(A \cup P) = Minimum(Offset(q, n + 1), Cardinality(W))
         /\ \A a \in A, b \in P : ~Precedes(b, a, q)
         /\ P = {} => A = W
<1> DEFINE skipped == Minimum(Offset(q, n), Cardinality(W))
           size == Minimum(LimitOf(q), Cardinality(W) - skipped)
<1>1. PICK S \in SUBSET (W \ P) :
        /\ P \subseteq W /\ Cardinality(P) = size
        /\ Cardinality(S) = skipped
        /\ \A a \in S, c \in P : Precedes(a, c, q)
        /\ \A a \in S, c \in W \ (S \cup P) : Precedes(a, c, q)
        /\ \A a \in P, c \in W \ (S \cup P) : Precedes(a, c, q)
  BY DEF Parts
<1>2. S = A
  <2>1. Initial(S, W, q) /\ S \in SUBSET W
    BY <1>1 DEF Initial
  <2> QED
    BY <1>1, <2>1, InitialUnique
<1>3. A \cap P = {}
  BY <1>1, <1>2
<1>4. /\ IsFiniteSet(A) /\ IsFiniteSet(P) /\ IsFiniteSet(W)
      /\ Cardinality(W) \in Nat /\ Cardinality(A) \in Nat /\ Cardinality(P) \in Nat
  BY <1>1, StoredFinite
<1>5. Cardinality(A \cup P) = Cardinality(A) + Cardinality(P)
  <2>1. Cardinality(A \cap P) = 0
    BY <1>3, FS_EmptySet
  <2> QED
    BY <1>4, <2>1, FS_Union
<1>6. PICK m \in Nat, l \in Nat \ {0} :
        m = Offset(q, n) /\ l = LimitOf(q) /\ Offset(q, n + 1) = m + l
  BY LimitPositive
<1>7. Cardinality(A \cup P) = Minimum(Offset(q, n + 1), Cardinality(W))
  BY <1>1, <1>4, <1>5, <1>6 DEF Minimum
<1>8. Initial(A \cup P, W, q)
  BY <1>1, <1>2 DEF Initial
<1>9. \A a \in A, b \in P : ~Precedes(b, a, q)
  BY <1>1, <1>2, <1>3 DEF Strict
<1>10. ASSUME P = {} PROVE A = W
  <2>1. Cardinality(P) = 0
    BY <1>10, FS_EmptySet
  <2>2. Cardinality(A) = Cardinality(W)
    BY <1>1, <1>4, <1>6, <2>1 DEF Minimum
  <2> QED
    BY <1>4, <2>2, FS_Subset
<1> QED
  BY <1>7, <1>8, <1>9, <1>10

-----------------------------------------------------------------------------
(* The steps *)

\* What is searched for are stored bottles; what is read of them is the same in
\* every state.
LEMMA SoughtStored ==
  ASSUME NEW q, NEW t
  PROVE  /\ Found(q, t) = {b \in Wanted(q, t) : SortByMetric(b, q.sortBy)}
         /\ Wanted(q, t) \subseteq Contents
         /\ Filtered(q) \subseteq Contents
BY DEF Found, Wanted, Filtered, Stored, Visible

LEMMA SoughtFinite ==
  ASSUME NEW q, NEW t
  PROVE  /\ Found(q, t) \in SUBSET Contents
         /\ IsFiniteSet(Found(q, t)) /\ Cardinality(Found(q, t)) \in Nat
BY SoughtStored, StoredFinite

\* A page that begins shows nothing.
Blank ==
  /\ shown = <<>> /\ metrics = NoList /\ labels = NoList
  /\ visit.part = 0 /\ visit.stage # "ended" /\ visit.query \in Asked

LEMMA NothingShown == Blank => PullsCounted /\ Scrolled /\ ListsRead
<1> SUFFICES ASSUME Blank PROVE PullsCounted /\ Scrolled /\ ListsRead
  OBVIOUS
<1> USE DEF Blank
<1>1. DOMAIN shown = {} /\ Seen = {}
  BY DEF Seen
<1>2. Cardinality({}) = 0 /\ Cardinality(Sought) \in Nat
  BY SoughtFinite, FS_EmptySet DEF Sought
<1>3. Offset(visit.query, 0) = 0
  BY LimitPositive DEF Offset, LimitOf
<1>4. Minimum(0, Cardinality(Sought)) = 0
  BY <1>2 DEF Minimum
<1>5. Scrolled
  BY <1>1, <1>2, <1>3, <1>4 DEF Scrolled, Initial
<1> QED
  BY <1>1, <1>5 DEF PullsCounted, ListsRead

LEMMA InitInv == Init => Inv
<1> SUFFICES ASSUME Init PROVE Inv
  OBVIOUS
<1>1. visit.query \in Asked
  BY BottleSearchAssumption DEF Init
<1>2. SearchTypes /\ ShelfClosed
  BY <1>1, ShelfBegins, ShelfAssumption DEF Init, SearchTypes
<1>3. PullsCounted /\ Scrolled /\ ListsRead
  BY <1>1, NothingShown DEF Init, Blank
<1> QED
  BY <1>2, <1>3 DEF Inv

\* Opening a page, and searching anew, show nothing yet.
LEMMA ClearedInv ==
  ASSUME Inv,
         \/ \E q \in Asked, now \in 1..MaxTime : Open(q, now)
         \/ \E q \in Asked : Refine(q)
  PROVE  Inv'
<1>1. /\ shown' = <<>> /\ metrics' = NoList /\ labels' = NoList /\ steady' = TRUE
      /\ UNCHANGED shelf
  BY DEF Open, Refine, Cleared
<1>2. visit' \in [stage : {"away", "invalid", "open"}, query : Asked,
                  before : 1..MaxTime, part : {0}]
  <2>1. ASSUME NEW q \in Asked, NEW now \in 1..MaxTime, Open(q, now)
        PROVE  visit' \in [stage : {"away", "invalid", "open"}, query : Asked,
                           before : 1..MaxTime, part : {0}]
    BY <2>1 DEF Open
  <2>2. ASSUME NEW q \in Asked, Refine(q)
        PROVE  visit' \in [stage : {"away", "invalid", "open"}, query : Asked,
                           before : 1..MaxTime, part : {0}]
    <3>1. PICK s \in {"away", "open"} :
            visit' = [visit EXCEPT !.stage = s, !.query = q, !.part = 0]
      BY <2>2 DEF Refine
    <3> QED
      BY <3>1 DEF Inv, SearchTypes
  <2> QED
    BY <2>1, <2>2
<1>3. SearchTypes' /\ ShelfClosed'
  BY <1>1, <1>2 DEF Inv, SearchTypes, ShelfTypeOK, ShelfClosed, shelf,
     Visible, Shelved!Satisfied, Shelved!Resolves
<1>4. PullsCounted' /\ Scrolled' /\ ListsRead'
  <2>1. Blank'
    BY <1>1, <1>2 DEF Blank
  <2> QED
    BY <2>1, NothingShown, PTL
<1> QED
  BY <1>3, <1>4 DEF Inv

\* While the tables stay, so do the answers.
LEMMA AnswersStay ==
  ASSUME UNCHANGED shelf, NEW q, NEW t
  PROVE  /\ Filtered(q)' = Filtered(q)
         /\ Found(q, t)' = Found(q, t)
         /\ Wanted(q, t)' = Wanted(q, t)
<1>1. /\ names' = names /\ created' = created /\ Visible' = Visible
      /\ \A ty : Stored(ty)' = Stored(ty)
      /\ \A D : \A ty : Having(ty, D)' = Having(ty, D)
      /\ \A c : DigestsOf(c)' = DigestsOf(c)
  BY DEF shelf, Visible, Stored, Having, DigestsOf
<1>2. /\ \A D : ParentsOf(D)' = ParentsOf(D)
      /\ \A D : ChildrenOf(D)' = ChildrenOf(D)
      /\ \A d : FindDeprecatedBy(d)' = FindDeprecatedBy(d)
      /\ \A d : FindDeprecates(d)' = FindDeprecates(d)
  BY <1>1 DEF ParentsOf, ChildrenOf, FindDeprecatedBy, FindDeprecates
<1>3. /\ \A b, r : ByRepository(b, r)' = ByRepository(b, r)
      /\ \A b : SignedWith(b)' = SignedWith(b)
      /\ \A b, k : WithSignature(b, k)' = WithSignature(b, k)
      /\ \A b, n : WithAnnotations(b, n)' = WithAnnotations(b, n)
      /\ \A b : ExcludeDeprecated(b)' = ExcludeDeprecated(b)
  BY <1>1 DEF ByRepository, SignedWith, WithSignature, WithAnnotations, ExcludeDeprecated
<1>4. Filtered(q)' = Filtered(q)
  BY <1>1, <1>2, <1>3 DEF Filtered
<1> QED
  BY <1>1, <1>4 DEF Found, Wanted

\* The pulls there are of a bottle: those that are counted, and never fewer.
TruePulls(b) ==
  {e \in Stored("event") : About[e].pull /\ BottleDigest(e)[1] = b}

LEMMA PullsTrue ==
  ASSUME ShelfClosed, NEW b
  PROVE  NumPulls(b) = Cardinality(TruePulls(b)) /\ NumPulls(b) \in Nat
<1>1. PullEvents(b) = TruePulls(b)
  BY EventSubject DEF PullEvents, TruePulls
<1>2. TruePulls(b) \in SUBSET Contents
  BY DEF TruePulls, Stored, Visible
<1> QED
  BY <1>1, <1>2, StoredFinite DEF NumPulls

LEMMA PullsGrow ==
  ASSUME Visible \subseteq Visible', NEW b
  PROVE  /\ Cardinality(TruePulls(b)) \in Nat
         /\ Cardinality(TruePulls(b)') \in Nat
         /\ Cardinality(TruePulls(b)) <= Cardinality(TruePulls(b)')
<1>1. TruePulls(b) \subseteq TruePulls(b)' /\ TruePulls(b)' \subseteq Contents
  BY DEF TruePulls, Stored, Visible, BottleDigest
<1>2. /\ IsFiniteSet(TruePulls(b)') /\ Cardinality(TruePulls(b)') \in Nat
      /\ Cardinality(TruePulls(b)) \in Nat
  BY <1>1, StoredFinite
<1> QED
  BY <1>1, <1>2, FS_Subset

\* A read leaves the tables as they are.
LEMMA TablesStay ==
  ASSUME Inv, UNCHANGED shelf
  PROVE  /\ ShelfClosed' /\ ShelfTypeOK'
         /\ \A b : TruePulls(b)' = TruePulls(b)
BY DEF Inv, SearchTypes, ShelfClosed, ShelfTypeOK, shelf, Visible,
   Shelved!Satisfied, Shelved!Resolves, TruePulls, Stored, BottleDigest

\* A read of the page in hand changes neither tables nor search.
LEMMA SearchStays ==
  ASSUME Inv, UNCHANGED <<shelf, metrics, labels, steady>>,
         NEW q, NEW t, q = visit.query, q = visit'.query,
         t = visit.before, t = visit'.before
  PROVE  /\ ShelfClosed' /\ ShelfTypeOK'
         /\ \A b : TruePulls(b)' = TruePulls(b)
         /\ Sought = Found(q, t) /\ Sought' = Found(q, t)
         /\ ListsRead'
<1>1. /\ ShelfClosed' /\ ShelfTypeOK'
      /\ \A b : TruePulls(b)' = TruePulls(b)
  BY TablesStay
<1>2. /\ Filtered(q)' = Filtered(q) /\ created' = created
      /\ Found(q, t)' = Found(q, t)
      /\ Wanted(q, t)' = Wanted(q, t)
  BY AnswersStay DEF shelf
<1>3. Sought = Found(q, t) /\ Sought' = Found(q, t)'
  BY DEF Sought
<1>4. MetricNames(q, t)' = MetricNames(q, t)
  BY <1>2 DEF MetricNames
<1>5. ListsRead'
  BY <1>2, <1>4 DEF Inv, ListsRead
<1> QED
  BY <1>1, <1>2, <1>3, <1>5

\* A part is loaded: it follows what is shown.
LEMMA LoadPartInv ==
  ASSUME Inv, LoadPart
  PROVE  Inv'
<1>1. PICK q \in Asked, t \in 1..MaxTime : q = visit.query /\ t = visit.before
  BY DEF Inv, SearchTypes
<1>2. PICK W : W = Found(q, t)
  OBVIOUS
<1>3. /\ UNCHANGED <<shelf, metrics, labels, steady>>
      /\ visit.stage = "open"
      /\ visit.part \in Nat /\ shown \in Seq(SUBSET ShownRow)
  BY DEF LoadPart, Inv, SearchTypes
<1>4. W \in SUBSET Contents /\ Cardinality(W) \in Nat
  BY <1>2, SoughtFinite
<1>5. visit'.query = q /\ visit'.before = t
  BY <1>1 DEF LoadPart, Goto, Inv, SearchTypes
<1>6. /\ ShelfClosed' /\ ShelfTypeOK' /\ ListsRead'
      /\ \A b : TruePulls(b)' = TruePulls(b)
      /\ Sought = W /\ Sought' = W
  BY <1>1, <1>2, <1>3, <1>5, SearchStays
<1>7. CASE Clashes(q)
  <2>1. shown' = shown /\ visit' = [visit EXCEPT !.stage = "failed"]
    BY <1>1, <1>7 DEF LoadPart, Goto
  <2>2. SearchTypes'
    BY <1>3, <1>6, <2>1 DEF Inv, SearchTypes
  <2>3. PullsCounted'
    BY <1>6, <2>1 DEF Inv, PullsCounted, TruePulls
  <2>4. visit'.part = visit.part /\ visit'.stage = "failed"
    BY <2>1 DEF Inv, SearchTypes
  <2>5. Seen' = Seen /\ \A i : ShownIn(i)' = ShownIn(i)
    BY <2>1 DEF Seen, ShownIn
  <2>6. Scrolled'
    BY <1>1, <1>3, <1>5, <1>6, <2>1, <2>4, <2>5 DEF Inv, Scrolled
  <2> QED
    BY <1>6, <2>2, <2>3, <2>6 DEF Inv
<1>8. CASE ~Clashes(q)
  <2>1. PICK P \in Parts(W, q, visit.part) :
          /\ shown' = Append(shown, {RowOf(b, Cardinality(W)) : b \in P})
          /\ visit' = [visit EXCEPT !.stage = IF P = {} THEN "ended" ELSE @,
                                    !.part = @ + 1]
    <3> DEFINE B == Found(visit.query, visit.before)
    <3>1. \E P \in Parts(B, visit.query, visit.part) :
            /\ shown' = Append(shown, {RowOf(b, Cardinality(B)) : b \in P})
            /\ visit' = [visit EXCEPT !.stage = IF P = {} THEN "ended" ELSE @,
                                      !.part = @ + 1]
      BY <1>1, <1>8 DEF LoadPart
    <3>2. B = W /\ visit.query = q
      BY <1>1, <1>2
    <3>3. PICK P \in Parts(B, visit.query, visit.part) :
            /\ shown' = Append(shown, {RowOf(b, Cardinality(B)) : b \in P})
            /\ visit' = [visit EXCEPT !.stage = IF P = {} THEN "ended" ELSE @,
                                      !.part = @ + 1]
      BY <3>1
    <3>4. {RowOf(b, Cardinality(B)) : b \in P} = {RowOf(b, Cardinality(W)) : b \in P}
      BY <3>2
    <3>5. P \in Parts(W, q, visit.part)
      BY <3>2
    <3> QED
      BY <3>3, <3>4, <3>5
  <2>2. P \in SUBSET W
    BY DEF Parts
  <2>3. PICK rows : rows = {RowOf(b, Cardinality(W)) : b \in P}
    OBVIOUS
  <2>4. /\ rows \subseteq ShownRow
        /\ \A r \in rows : /\ r.bottle \in P /\ r.total = Cardinality(W)
                           /\ r.pulls = Cardinality(TruePulls(r.bottle))
        /\ {r.bottle : r \in rows} = P
    <3>1. ASSUME NEW b \in P, NEW r, r = RowOf(b, Cardinality(W))
          PROVE  /\ r \in ShownRow /\ r.bottle = b /\ r.total = Cardinality(W)
                 /\ r.pulls = Cardinality(TruePulls(b))
      BY <1>4, <2>2, <3>1, PullsTrue DEF RowOf, ShownRow, Inv
    <3> QED
      BY <2>3, <3>1
  <2>5. PICK n \in Nat : n = Len(shown) /\ DOMAIN shown = 1..n
    BY <1>3
  <2>6. /\ shown' \in Seq(SUBSET ShownRow)
        /\ DOMAIN shown' = 1..(n + 1)
        /\ \A i \in 1..n : shown'[i] = shown[i]
        /\ shown'[n + 1] = rows
    BY <1>3, <2>1, <2>3, <2>4, <2>5
  <2>7. SearchTypes'
    <3>1. PICK s \in {"open", "ended"} :
            visit' = [visit EXCEPT !.stage = s, !.part = @ + 1]
      BY <1>3, <2>1
    <3>2. visit' \in [stage : {"away", "invalid", "open", "ended", "failed"},
                      query : Asked, before : 1..MaxTime, part : Nat]
      <4>1. PICK m \in Nat : m = visit.part + 1
        BY <1>3
      <4>2. visit' = [visit EXCEPT !.stage = s, !.part = m]
        BY <3>1, <4>1
      <4> QED
        BY <4>2 DEF Inv, SearchTypes
    <3> QED
      BY <1>3, <1>6, <2>6, <3>2 DEF Inv, SearchTypes
  <2>8. PullsCounted'
    <3> SUFFICES ASSUME NEW i \in 1..(n + 1), NEW r \in shown'[i]
                 PROVE  r.pulls <= Cardinality(TruePulls(r.bottle)')
      BY <2>6 DEF PullsCounted, TruePulls
    <3>1. CASE i \in 1..n
      <4>1. \A x \in 1..n : \A y \in shown[x] : y.pulls <= Cardinality(TruePulls(y.bottle))
        BY <2>5 DEF Inv, PullsCounted, TruePulls
      <4> QED
        BY <1>6, <2>6, <3>1, <4>1
    <3>2. CASE i = n + 1
      <4>1. r.pulls = Cardinality(TruePulls(r.bottle))
        BY <2>4, <2>6, <3>2
      <4>2. Cardinality(TruePulls(r.bottle)) \in Nat
        BY PullsTrue DEF Inv
      <4> QED
        BY <1>6, <4>1, <4>2
    <3> QED
      BY <2>5, <3>1, <3>2
  <2>9. /\ \A i \in 1..n : ShownIn(i)' = ShownIn(i)
        /\ ShownIn(n + 1)' = P
    BY <2>4, <2>6 DEF ShownIn
  <2>10. Seen' = Seen \cup P
    BY <2>5, <2>6, <2>9 DEF Seen
  <2>11. Scrolled'
    <3> SUFFICES ASSUME steady
                 PROVE  /\ (Seen \cup P) \subseteq W
                        /\ \A i \in 1..(n + 1) : \A r \in shown'[i] :
                             r.total = Cardinality(W)
                        /\ Strict(W, q) =>
                             /\ Initial(Seen \cup P, W, q)
                             /\ Cardinality(Seen \cup P)
                                  = Minimum(Offset(q, visit'.part), Cardinality(W))
                             /\ \A i, j \in 1..(n + 1) : i < j =>
                                  \A a \in ShownIn(i)', b \in ShownIn(j)' :
                                    ~Precedes(b, a, q)
                             /\ visit'.stage = "ended" => Seen \cup P = W
      BY <1>3, <1>5, <1>6, <2>6, <2>10 DEF Scrolled
    <3>1. /\ Seen \subseteq W
          /\ \A i \in 1..n : \A r \in shown[i] : r.total = Cardinality(W)
          /\ Strict(W, q) =>
               /\ Initial(Seen, W, q)
               /\ Cardinality(Seen)
                    = Minimum(Offset(q, visit.part), Cardinality(W))
               /\ \A i, j \in 1..n : i < j =>
                    \A a \in ShownIn(i), b \in ShownIn(j) : ~Precedes(b, a, q)
      BY <1>1, <1>6, <2>5 DEF Inv, Scrolled
    <3>2. visit'.part = visit.part + 1 /\ (visit'.stage = "ended" => P = {})
      BY <1>3, <2>1 DEF Inv, SearchTypes
    <3>3. \A i \in 1..(n + 1) : i \in 1..n \/ i = n + 1
      BY <2>5
    <3>4. ASSUME Strict(W, q)
          PROVE  /\ Initial(Seen \cup P, W, q)
                 /\ Cardinality(Seen \cup P)
                      = Minimum(Offset(q, visit.part + 1), Cardinality(W))
                 /\ \A a \in Seen, b \in P : ~Precedes(b, a, q)
                 /\ P = {} => Seen = W
      BY <1>3, <1>4, <3>1, <3>4, PartFollows
    <3>5. ASSUME Strict(W, q), NEW i \in 1..(n + 1), NEW j \in 1..(n + 1), i < j,
                 NEW a \in ShownIn(i)', NEW b \in ShownIn(j)'
          PROVE  ~Precedes(b, a, q)
      <4>1. i \in 1..n /\ a \in ShownIn(i) /\ a \in Seen
        BY <2>5, <2>9, <3>5 DEF Seen
      <4>2. CASE j \in 1..n
        BY <2>9, <3>1, <3>5, <4>1, <4>2
      <4>3. CASE j = n + 1
        BY <2>9, <3>4, <3>5, <4>1, <4>3
      <4> QED
        BY <3>3, <4>2, <4>3
    <3>6. \A i \in 1..(n + 1) : \A r \in shown'[i] : r.total = Cardinality(W)
      BY <2>4, <2>6, <3>1, <3>3
    <3> QED
      BY <2>2, <3>1, <3>2, <3>4, <3>5, <3>6
  <2> QED
    BY <1>6, <2>7, <2>8, <2>11 DEF Inv
<1> QED
  BY <1>7, <1>8

\* The lists are loaded, for the search and the time of the page.
LEMMA LoadListsInv ==
  ASSUME Inv, LoadMetrics \/ LoadLabels
  PROVE  Inv'
<1>1. PICK q \in Asked, t \in 1..MaxTime : q = visit.query /\ t = visit.before
  BY DEF Inv, SearchTypes
<1>2. UNCHANGED <<shelf, visit, shown, steady>>
  BY DEF LoadMetrics, LoadLabels
<1>3. /\ names' = names /\ created' = created
      /\ Filtered(q)' = Filtered(q)
      /\ Found(q, t)' = Found(q, t)
      /\ Wanted(q, t)' = Wanted(q, t)
  BY <1>2, AnswersStay DEF shelf
<1>4. SearchTypes' /\ ShelfClosed' /\ PullsCounted'
  <2>1. /\ ShelfClosed' /\ ShelfTypeOK'
        /\ \A b : TruePulls(b)' = TruePulls(b)
    BY <1>2, TablesStay
  <2> QED
    BY <1>2, <2>1 DEF Inv, SearchTypes, PullsCounted, TruePulls
<1>5. Scrolled'
  <2>1. Sought = Found(q, t) /\ Sought' = Found(q, t)
    BY <1>1, <1>2, <1>3 DEF Sought
  <2>2. Seen' = Seen /\ \A i : ShownIn(i)' = ShownIn(i)
    BY <1>2 DEF Seen, ShownIn
  <2> QED
    BY <1>1, <1>2, <2>1, <2>2 DEF Inv, Scrolled
<1>6. MetricNames(q, t)' = MetricNames(q, t)
  BY <1>3 DEF MetricNames
<1>7. CASE LoadMetrics
  <2>1. metrics' = MetricNames(q, t) /\ labels' = labels
    BY <1>1, <1>7 DEF LoadMetrics
  <2>2. ListsRead'
    BY <1>1, <1>2, <1>3, <1>6, <2>1 DEF Inv, ListsRead
  <2> QED
    BY <1>4, <1>5, <2>2 DEF Inv
<1>8. CASE LoadLabels
  <2>1. labels' = CommonLabels(q, t) /\ metrics' = metrics
    BY <1>1, <1>8 DEF LoadLabels
  <2>2. ASSUME NEW b \in Wanted(q, t), NEW k \in CommonLabels(q, t)
        PROVE  \E l \in About[b].labels : l.key = k
    <3> DEFINE With == {x \in Wanted(q, t) : \E l \in About[x].labels : l.key = k}
    <3>1. Cardinality(With) = Cardinality(Filtered(q))
      BY <2>2 DEF CommonLabels, Wanted
    <3>2. With \subseteq Wanted(q, t) /\ Wanted(q, t) \subseteq Filtered(q)
      BY DEF Wanted
    <3>3. IsFiniteSet(Filtered(q))
      BY SoughtStored, StoredFinite
    <3>4. With = Filtered(q)
      <4> HIDE DEF With
      <4> QED
        BY <3>1, <3>2, <3>3, FS_Subset
    <3> QED
      BY <3>2, <3>4
  <2>3. ListsRead'
    BY <1>1, <1>2, <1>3, <1>6, <2>1, <2>2 DEF Inv, ListsRead
  <2> QED
    BY <1>4, <1>5, <2>3 DEF Inv
<1> QED
  BY <1>7, <1>8

\* An upload changes the list only as far as it is no longer steady.
LEMMA GrowInv ==
  ASSUME Inv, Grow
  PROVE  Inv'
<1>1. PICK q \in Asked, t \in 1..MaxTime : q = visit.query /\ t = visit.before
  BY DEF Inv, SearchTypes
<1>2. Upload /\ UNCHANGED <<visit, shown, metrics, labels>>
  BY DEF Grow
<1>3. steady' = (steady /\ Wanted(q, t)' = Wanted(q, t))
  BY <1>1, <1>2 DEF Grow
<1>4. ShelfTypeOK' /\ ShelfClosed' /\ Visible \subseteq Visible'
  BY <1>2, UploadGrows, UploadCloses DEF Inv, SearchTypes
<1>5. SearchTypes'
  BY <1>2, <1>3, <1>4 DEF Inv, SearchTypes
<1>6. PullsCounted'
  <2> SUFFICES ASSUME NEW i \in DOMAIN shown, NEW r \in shown[i]
               PROVE  r.pulls <= Cardinality(TruePulls(r.bottle)')
    BY <1>2 DEF PullsCounted, TruePulls
  <2>1. r.pulls <= Cardinality(TruePulls(r.bottle)) /\ r.pulls \in Nat
    BY DEF Inv, PullsCounted, TruePulls, SearchTypes, ShownRow
  <2>2. /\ Cardinality(TruePulls(r.bottle)) \in Nat
        /\ Cardinality(TruePulls(r.bottle)') \in Nat
        /\ Cardinality(TruePulls(r.bottle)) <= Cardinality(TruePulls(r.bottle)')
    BY <1>4, PullsGrow
  <2> QED
    BY <2>1, <2>2
<1>7. CASE ~steady'
  BY <1>4, <1>5, <1>6, <1>7 DEF Inv, Scrolled, ListsRead
<1>8. CASE steady'
  <2>1. steady /\ Wanted(q, t)' = Wanted(q, t)
    BY <1>3, <1>8
  <2>2. Found(q, t)' = Found(q, t)
    <3>1. Found(q, t)' = {b \in Wanted(q, t)' : SortByMetric(b, q.sortBy)}
      BY DEF Found, Wanted, SortByMetric
    <3> QED
      BY <2>1, <3>1, SoughtStored
  <2>3. MetricNames(q, t)' = MetricNames(q, t)
    <3>1. /\ MetricNames(q, t) = {m.name : m \in UNION {About[b].metrics : b \in Wanted(q, t)}}
          /\ MetricNames(q, t)' = {m.name : m \in UNION {About[b].metrics : b \in Wanted(q, t)'}}
      BY DEF MetricNames, Wanted
    <3> QED
      BY <2>1, <3>1
  <2>4. ListsRead'
    BY <1>1, <1>2, <2>1, <2>3 DEF Inv, ListsRead
  <2>5. Sought = Found(q, t) /\ Sought' = Found(q, t)
    BY <1>1, <1>2, <2>2 DEF Sought
  <2>6. Seen' = Seen /\ \A i : ShownIn(i)' = ShownIn(i)
    BY <1>2 DEF Seen, ShownIn
  <2>7. Scrolled'
    BY <1>1, <1>2, <2>1, <2>5, <2>6 DEF Inv, Scrolled
  <2> QED
    BY <1>4, <1>5, <1>6, <2>4, <2>7 DEF Inv
<1> QED
  BY <1>7, <1>8

LEMMA NextInv == Inv /\ [Next]_vars => Inv'
<1> SUFFICES ASSUME Inv, [Next]_vars PROVE Inv'
  OBVIOUS
<1>1. CASE UNCHANGED vars
  <2>1. PICK q \in Asked, t \in 1..MaxTime : q = visit.query /\ t = visit.before
    BY DEF Inv, SearchTypes
  <2>2. UNCHANGED <<shelf, visit, shown, metrics, labels, steady>>
    BY <1>1 DEF vars
  <2>3. /\ ShelfClosed' /\ ShelfTypeOK' /\ ListsRead'
        /\ \A b : TruePulls(b)' = TruePulls(b)
        /\ Sought' = Sought
    BY <2>1, <2>2, SearchStays
  <2>4. Seen' = Seen /\ \A i : ShownIn(i)' = ShownIn(i)
    BY <2>2 DEF Seen, ShownIn
  <2>5. SearchTypes' /\ PullsCounted' /\ Scrolled'
    BY <2>2, <2>3, <2>4 DEF Inv, SearchTypes, PullsCounted, TruePulls, Scrolled
  <2> QED
    BY <2>3, <2>5 DEF Inv
<1>2. CASE Next
  BY <1>2, ClearedInv, LoadPartInv, LoadListsInv, GrowInv DEF Next
<1> QED
  BY <1>1, <1>2

LEMMA InvHolds == Spec => []Inv
BY InitInv, NextInv, PTL DEF Spec

-----------------------------------------------------------------------------
(* The theorems about a scroll *)

\* The page, what it shows and the tables keep their types.
THEOREM TypeCorrect == Spec => []SearchTypes
<1>1. Inv => SearchTypes
  BY DEF Inv
<1> QED
  BY <1>1, InvHolds, PTL

\* What the reading handlers see is a closed catalogue: every object on record
\* has its references on record.
THEOREM ShelfIsClosed == Spec => []ShelfClosed
<1>1. Inv => ShelfClosed
  BY DEF Inv
<1> QED
  BY <1>1, InvHolds, PTL

\* However many bottles there are and however long a part is, whoever scrolls to
\* the end has seen every bottle of the search once, in order and with their
\* true number.
THEOREM ScrollsAreComplete == Spec => []ScrollComplete
<1>1. Inv => ScrollComplete
  <2> SUFFICES ASSUME Inv, visit.stage = "ended", steady, Strict(Sought, visit.query)
               PROVE  /\ Seen = Sought
                      /\ \A i, j \in DOMAIN shown : i < j =>
                           \A a \in ShownIn(i), b \in ShownIn(j) :
                             ~Precedes(b, a, visit.query)
                      /\ \A i \in DOMAIN shown : \A r \in shown[i] :
                           r.total = Cardinality(Sought)
    BY SoughtStored DEF ScrollComplete, Sought, Seen
  <2> QED
    BY DEF Inv, Scrolled
<1> QED
  BY <1>1, InvHolds, PTL

\* The lists of metrics and of common labels say the truth of the bottles shown.
THEOREM ListsAreTrue == Spec => []ListsTrue
<1>1. Inv => ListsTrue
  <2> SUFFICES ASSUME Inv, steady
               PROVE  MetricsOffered /\ MetricsLeadSomewhere /\ CommonLabelsTrue
    BY DEF ListsTrue, MetricsOffered, MetricsLeadSomewhere, CommonLabelsTrue
  <2> DEFINE W == Wanted(visit.query, visit.before)
  <2>1. \A i \in DOMAIN shown : \A b \in ShownIn(i) : b \in W
    BY SoughtStored DEF Inv, Scrolled, Seen, Sought
  <2>2. MetricNames(visit.query, visit.before)
          = {m.name : m \in UNION {About[b].metrics : b \in W}}
    BY DEF MetricNames, Wanted
  <2>3. MetricsOffered
    BY <2>1, <2>2 DEF MetricsOffered, Inv, ListsRead
  <2>4. MetricsLeadSomewhere
    BY <2>2 DEF MetricsLeadSomewhere, FilterByMetric, Inv, ListsRead
  <2>5. CommonLabelsTrue
    BY <2>1 DEF CommonLabelsTrue, Inv, ListsRead
  <2> QED
    BY <2>3, <2>4, <2>5
<1> QED
  BY <1>1, InvHolds, PTL

\* No pull is counted twice, by whichever of its digests a bottle was pulled.
THEOREM PullsAreCounted == Spec => []PullsCounted
<1>1. Inv => PullsCounted
  BY DEF Inv
<1> QED
  BY <1>1, InvHolds, PTL

-----------------------------------------------------------------------------
(* The theorems about the statements *)

\* What the SQL makes of a requirement is what it means, of a label that can be
\* compared as the requirement asks.
LEMMA RequirementMeans ==
  ASSUME NEW b \in Contents, NEW r,
         r.op \in {"in", "notin", "exists", "absent", "gt", "lt"},
         \A l \in About[b].labels : r.op \in {"gt", "lt"} /\ l.key = r.key =>
           IntegerOf[l.value] # {} /\ NumberOf[l.value] = IntegerOf[l.value]
  PROVE  Meets(b, r) <=> Selects(r, LabelMap(b))
<1> DEFINE k == r.key
<1>0. PICK map : map = LabelMap(b)
  OBVIOUS
<1>1. k \in DOMAIN map <=> \E l \in About[b].labels : l.key = k
  BY <1>0 DEF LabelMap
<1>2. ASSUME NEW l \in About[b].labels, l.key = k
      PROVE  map[k] = l.value
  <2>1. (CHOOSE x \in About[b].labels : x.key = k) = l
    BY <1>2, QueriesAssumption
  <2>2. map[k] = (CHOOSE x \in About[b].labels : x.key = k).value
    BY <1>0, <1>2 DEF LabelMap
  <2> QED
    BY <2>1, <2>2
<1>3. ASSUME NEW l \in About[b].labels, l.key = k, r.op = "gt"
      PROVE  Above(l.value, r.bound) <=> \E n \in IntegerOf[l.value] : n > r.bound
  BY <1>3 DEF Above
<1>4. ASSUME NEW l \in About[b].labels, l.key = k, r.op = "lt"
      PROVE  Below(l.value, r.bound) <=> \E n \in IntegerOf[l.value] : n < r.bound
  BY <1>4 DEF Below
<1>5. CASE \E l \in About[b].labels : l.key = k
  <2>1. PICK l \in About[b].labels : l.key = k
    BY <1>5
  <2>2. \A x \in About[b].labels : x.key = k => x = l
    BY <2>1, QueriesAssumption
  <2> QED
    <3>1. CASE r.op = "in"
      BY <1>0, <1>1, <1>2, <2>1, <2>2, <3>1 DEF Meets, Selects
    <3>2. CASE r.op = "notin"
      BY <1>0, <1>1, <1>2, <2>1, <2>2, <3>2 DEF Meets, Selects
    <3>3. CASE r.op = "exists"
      BY <1>0, <1>1, <1>2, <2>1, <2>2, <3>3 DEF Meets, Selects
    <3>4. CASE r.op = "absent"
      BY <1>0, <1>1, <1>2, <2>1, <2>2, <3>4 DEF Meets, Selects
    <3>5. CASE r.op = "gt"
      BY <1>0, <1>1, <1>2, <1>3, <2>1, <2>2, <3>5 DEF Meets, Selects
    <3>6. CASE r.op = "lt"
      BY <1>0, <1>1, <1>2, <1>4, <2>1, <2>2, <3>6 DEF Meets, Selects
    <3> QED
      BY <3>1, <3>2, <3>3, <3>4, <3>5, <3>6
<1>6. CASE ~\E l \in About[b].labels : l.key = k
  BY <1>0, <1>1, <1>6 DEF Meets, Selects
<1> QED
  BY <1>5, <1>6

\* On either database, whatever ParseFloat makes of a label, the joins and
\* subqueries made of selectors select the bottles that Kubernetes would, of those
\* whose labels can be compared as the selectors ask.
THEOREM SelectorsMean == Spec => []SelectorsAgree
<1>1. SelectorsAgree
  <2> SUFFICES ASSUME NEW b \in Contents, NEW q \in Asked \ Malformed,
                      Comparable(b, q)
               PROVE  BySelectors(b, q.selectors) <=>
                        \/ q.selectors = {}
                        \/ \E sel \in q.selectors : \A r \in sel :
                             Selects(r, LabelMap(b))
    BY DEF SelectorsAgree, Stored, Visible
  <2>1. ASSUME NEW sel \in q.selectors
        PROVE  (\A r \in sel : Meets(b, r)) <=> \A r \in sel : Selects(r, LabelMap(b))
    BY RequirementMeans, BottleSearchAssumption DEF Comparable
  <2>2. (\E sel \in q.selectors : \A r \in sel : Meets(b, r))
          <=> \E sel \in q.selectors : \A r \in sel : Selects(r, LabelMap(b))
    BY <2>1
  <2> QED
    BY <2>2 DEF BySelectors
<1> QED
  BY <1>1, PTL

\* A bottle is the same one under each of its digests: to the API, to the page
\* of its signatures and to the pages of its locations.
THEOREM DigestsAreAliases == Spec => []AliasesAlike
<1>1. ASSUME NEW d \in names, d[1] \in Stored("bottle")
      PROVE  Having("bottle", {d}) = {d[1]}
  BY <1>1 DEF Having, DigestsOf
<1>2. SignedFound
  <2> SUFFICES ASSUME NEW d \in names, d[1] \in Stored("bottle"), NEW key, key # ""
               PROVE  WithSignature(d[1], key) <=> SigValid(d, key) # {}
    BY DEF SignedFound
  <2> DEFINE S == {x \in Stored("signature") : BottleOf(x) = d[1]}
  <2>1. WithSignature(d[1], key) <=> \E s \in S : \E x \in About[s].signed : x.key = key
    BY DEF WithSignature, SignedWith
  <2>2. Signatures(d) = UNION {{[key |-> x.key, bottle |-> Doc[s].bottle,
                                 manifest |-> Doc[s].subject] :
                                  x \in About[s].signed} : s \in S}
    BY <1>1 DEF Signatures
  <2>3. SigValid(d, key) # {} <=> \E s \in S : \E x \in About[s].signed : x.key = key
    <3> DEFINE Of(s) == {[key |-> x.key, bottle |-> Doc[s].bottle,
                          manifest |-> Doc[s].subject] : x \in About[s].signed}
    <3>1. ASSUME NEW y \in Signatures(d)
          PROVE  \E s \in S : \E x \in About[s].signed : y.key = x.key
      <4>1. PICK s \in S : y \in Of(s)
        BY <2>2
      <4>2. PICK x \in About[s].signed :
              y = [key |-> x.key, bottle |-> Doc[s].bottle, manifest |-> Doc[s].subject]
        BY <4>1
      <4> QED
        BY <4>2
    <3>2. ASSUME NEW s \in S, NEW x \in About[s].signed
          PROVE  \E y \in Signatures(d) : y.key = x.key
      <4> DEFINE y == [key |-> x.key, bottle |-> Doc[s].bottle,
                       manifest |-> Doc[s].subject]
      <4>1. y \in Of(s)
        OBVIOUS
      <4>2. y \in Signatures(d)
        <5>1. Signatures(d) = UNION {Of(z) : z \in S}
          BY <2>2
        <5> HIDE DEF y, Of, S
        <5> QED
          BY <5>1, <4>1
      <4>3. y.key = x.key
        OBVIOUS
      <4> HIDE DEF y
      <4> QED
        BY <4>2, <4>3
    <3> QED
      BY <3>1, <3>2 DEF SigValid
  <2> QED
    BY <2>1, <2>3
<1>3. ASSUME Inv PROVE LocationsResolve
  <2> SUFFICES ASSUME NEW d \in names, d[1] \in Stored("bottle")
               PROVE  /\ \A l \in Locations(d) :
                           \E m \in Having("manifest", {l.digest}) : BottleOf(m) = d[1]
                      /\ \A e \in Stored("event") : BottleDigest(e)[1] = d[1] =>
                           \E l \in Locations(d) : l.digest = Doc[e].subject
    BY DEF LocationsResolve
  <2>1. Locations(d) = {[repository |-> About[e].repository, digest |-> Doc[e].subject] :
                          e \in {x \in Stored("event") : BottleOf(x) = d[1]}}
    <3>1. ASSUME NEW x \in Stored("event")
          PROVE  \E m \in Stored("manifest") : BottleOf(m) = BottleOf(x)
      BY <1>3, EventSubject DEF Inv
    <3> QED
      BY <1>1, <3>1 DEF Locations
  <2>2. ASSUME NEW e \in Stored("event"), BottleOf(e) = d[1]
        PROVE  \E m \in Having("manifest", {Doc[e].subject}) : BottleOf(m) = d[1]
    <3>1. /\ Doc[e].subject \in names /\ Doc[e].subject[1] \in Stored("manifest")
          /\ BottleOf(Doc[e].subject[1]) = d[1]
      BY <1>3, <2>2, EventSubject DEF Inv
    <3> QED
      BY <3>1 DEF Having, DigestsOf
  <2>3. ASSUME NEW e \in Stored("event"), BottleDigest(e)[1] = d[1]
        PROVE  BottleOf(e) = d[1]
    BY <1>3, <2>3, EventSubject DEF Inv
  <2> DEFINE at(e) == [repository |-> About[e].repository, digest |-> Doc[e].subject]
  <2>4. \A l : l \in Locations(d) <=>
          \E e \in Stored("event") : BottleOf(e) = d[1] /\ l = at(e)
    BY <2>1
  <2>5. \A e : at(e).digest = Doc[e].subject
    OBVIOUS
  <2> HIDE DEF at
  <2> QED
    BY <2>2, <2>3, <2>4, <2>5
<1> QED
  BY <1>2, <1>3, InvHolds, PTL DEF AliasesAlike

-----------------------------------------------------------------------------
(* An upload after the page was opened *)

\* A bottle that is entered, and that deprecates none, changes what the filters
\* let pass only by itself.
LEMMA NewBottlePasses ==
  ASSUME ShelfTypeOK, NEW c \in Contents, NEW now \in 1..MaxTime, Enter(c, now),
         Doc[c].type = "bottle", Deprecates[c] = {},
         NEW q, q.parentsOf = NoDigest, q.deprecatedBy = NoDigest
  PROVE  \A b \in Contents \ {c} : b \in Filtered(q)' <=> b \in Filtered(q)
<1>1. /\ names' = names
      /\ created[c] = 0 /\ created'[c] = now
      /\ \A b \in Contents \ {c} : created'[b] = created[b]
  BY DEF Enter, ShelfTypeOK
<1>2. /\ Stored("bottle")' = Stored("bottle") \cup {c}
      /\ Stored("event")' = Stored("event")
      /\ Stored("signature")' = Stored("signature")
  BY <1>1 DEF Stored, Visible
<1>3. \A b : DigestsOf(b)' = DigestsOf(b)
  BY <1>1 DEF DigestsOf
<1>4. ASSUME NEW b \in Contents \ {c}
      PROVE  b \in Filtered(q)' <=> b \in Filtered(q)
  <2>1. b \in Stored("bottle")' <=> b \in Stored("bottle")
    BY <1>2
  <2>2. /\ ByRepository(b, q.repository)' <=> ByRepository(b, q.repository)
        /\ SignedWith(b)' = SignedWith(b)
    BY <1>2 DEF ByRepository, SignedWith
  <2>3. /\ WithSignature(b, q.key)' <=> WithSignature(b, q.key)
        /\ WithAnnotations(b, q.notes)' <=> WithAnnotations(b, q.notes)
    BY <2>2 DEF WithSignature, WithAnnotations
  <2>4. \A D : b \in ChildrenOf(D)' <=> b \in ChildrenOf(D)
    BY <1>1, <1>3, <2>1 DEF ChildrenOf
  <2>5. \A d : FindDeprecates(d)' = FindDeprecates(d)
    BY <1>1, <1>2 DEF FindDeprecates
  <2>6. ExcludeDeprecated(b)' <=> ExcludeDeprecated(b)
    BY <1>2, <1>3 DEF ExcludeDeprecated
  <2>7. ShowDeprecated(q)' <=> ShowDeprecated(q)
    BY DEF ShowDeprecated
  <2> QED
    BY <1>3, <2>1, <2>2, <2>3, <2>4, <2>5, <2>6, <2>7 DEF Filtered
<1> QED
  BY <1>4

\* The time of the page keeps new bottles out of the parts to come.
THEOREM NewBottlesKeepOut == Spec => NewBottlesDoNotDisturb
<1>1. ASSUME Inv, [Next]_vars, created' # created, NEW c \in Contents,
             created[c] = 0, created'[c] > visit.before,
             Doc[c].type = "bottle", Deprecates[c] = {},
             visit.query.parentsOf = NoDigest, visit.query.deprecatedBy = NoDigest
      PROVE  Found(visit.query, visit.before)' = Found(visit.query, visit.before)
  <2>1. PICK q \in Asked, t \in 1..MaxTime : q = visit.query /\ t = visit.before
    BY <1>1 DEF Inv, SearchTypes
  <2>2. Grow
    BY <1>1 DEF Next, Open, Refine, LoadPart, LoadMetrics, LoadLabels, vars, shelf
  <2>3. visit' = visit /\ Upload
    BY <2>2 DEF Grow
  <2>4. PICK x \in Contents, now \in 1..MaxTime : Enter(x, now)
    BY <1>1, <2>3 DEF Upload, Name
  <2>5. x = c /\ created' = [created EXCEPT ![c] = now]
    <3>1. created \in [Contents -> Nat] /\ created' = [created EXCEPT ![x] = now]
      BY <1>1, <2>4 DEF Enter, Inv, SearchTypes, ShelfTypeOK
    <3>2. created'[c] > 0
      BY <1>1, <2>1, <2>4 DEF Enter
    <3>3. x = c
      BY <1>1, <3>1, <3>2
    <3> QED
      BY <3>1, <3>3
  <2>6. \A b \in Contents \ {c} : /\ b \in Filtered(q)' <=> b \in Filtered(q)
                                  /\ created'[b] = created[b]
    BY <1>1, <2>1, <2>4, <2>5, NewBottlePasses DEF Inv, SearchTypes, ShelfTypeOK
  <2>7. ~(created'[c] <= t) /\ c \notin Filtered(q)
    BY <1>1, <2>1, <2>5, ShelfAssumption DEF Filtered, Stored, Visible, Inv,
       SearchTypes, ShelfTypeOK
  <2>8. Filtered(q) \subseteq Contents /\ Filtered(q)' \subseteq Contents
    BY DEF Filtered, Stored, Visible
  <2>9. Found(q, t)' = Found(q, t)
    BY <2>6, <2>7, <2>8 DEF Found
  <2> QED
    BY <2>1, <2>3, <2>9
<1>2. Inv /\ [Next]_vars =>
        [\A c \in Contents :
           /\ created[c] = 0 /\ created'[c] > visit.before
           /\ Doc[c].type = "bottle" /\ Deprecates[c] = {}
           /\ visit.query.parentsOf = NoDigest /\ visit.query.deprecatedBy = NoDigest
           => Found(visit.query, visit.before)' = Found(visit.query, visit.before)]_created
  BY <1>1
<1> QED
  BY <1>2, InvHolds, PTL DEF Spec, NewBottlesDoNotDisturb

=============================================================================
