--------------------------- MODULE BottlePageProofs ---------------------------
(***************************************************************************)
(* Proofs about BottlePage: for any bottles, sources, aliases and depths,  *)
(* and whatever is uploaded between the statements, the page misses no     *)
(* relative and draws none twice, its arrows say what is so and leave no   *)
(* ancestor without one, and it lists the deprecations there are.          *)
(***************************************************************************)
EXTENDS BottlePage, FiniteSetTheorems, TLAPS

-----------------------------------------------------------------------------
(* Statements *)

\* There is something to ask for.
LEMMA SomeDigest == NoRow \in Row /\ NoRow.name \in Digest
<1>1. PICK q \in Asked : q.digest \in Digest
  BY BottlePageAssumption
<1>2. PICK c \in Contents, a \in Algs : TRUE
  BY <1>1 DEF Digest
<1>3. <<c, a>> \in Digest
  BY <1>2 DEF Digest
<1> QED
  BY <1>2, <1>3 DEF NoRow, Row

\* The rows of a listing: one for each bottle, with all its aliases and one of
\* them for its name.
LEMMA ListingRows ==
  ASSUME names \subseteq Digest, NEW B \in SUBSET Contents, NEW gen \in Listings(B)
  PROVE  /\ gen \subseteq Row
         /\ \A r \in gen : /\ r.bottle \in B
                           /\ r.digests = DigestsOf(r.bottle)
                           /\ r.name \in r.digests
         /\ \A c \in B : \E r \in gen : r.bottle = c
<1>1. PICK f \in [B -> names] :
        (\A c \in B : f[c][1] = c) /\ gen = {RowOf(c, f[c]) : c \in B}
  BY DEF Listings
<1>2. ASSUME NEW c \in B
      PROVE  /\ RowOf(c, f[c]) \in Row
             /\ RowOf(c, f[c]).bottle = c
             /\ RowOf(c, f[c]).digests = DigestsOf(c)
             /\ RowOf(c, f[c]).name \in DigestsOf(c)
  <2>1. f[c] \in names /\ f[c][1] = c /\ c \in Contents
    BY <1>1
  <2> QED
    BY <2>1 DEF RowOf, Row, DigestsOf
<1> QED
  BY <1>1, <1>2

\* What is stored are contents, and finitely many.
LEMMA StoredFinite ==
  ASSUME NEW S \in SUBSET Contents
  PROVE  IsFiniteSet(S) /\ Cardinality(S) \in Nat
BY BottlePageAssumption, FS_Subset, FS_CardinalityType

-----------------------------------------------------------------------------
(* Types *)

LEMMA InitTypes == Init => TypeOK
<1> SUFFICES ASSUME Init PROVE TypeOK
  OBVIOUS
<1>1. ShelfTypeOK
  BY ShelfAssumption DEF Init, ShelfInit, ShelfTypeOK
<1>2. page \in [stage : {"idle", "missing", "done", "children", "parents"} \cup Reading,
                digest : Digest, up : 0..MaxDepth, down : 0..MaxDepth,
                at : 0..(MaxDepth + 1)]
  BY SomeDigest, BottlePageAssumption DEF Init
<1>3. lineage \in [up : Seq(SUBSET Row), down : Seq(SUBSET Row)]
      /\ lineage.up = <<>> /\ lineage.down = <<>>
  BY DEF Init, NoLineage
<1>4. page.up = 0 /\ page.down = 0
  BY DEF Init
<1>5. /\ facts \in [seen : SUBSET Contents, deprecates : SUBSET Digest,
                   deprecatedBy : SUBSET Digest, pulls : Nat, users : {facts.users}]
      /\ DOMAIN facts.users = {}
  BY DEF Init, NoFacts
<1>6. root \in Row /\ graph = {}
  BY SomeDigest DEF Init
<1>7. began \in [names : SUBSET Digest, visible : SUBSET Contents]
  BY <1>1 DEF Init, ShelfTypeOK, Visible
<1> QED
  BY <1>1, <1>2, <1>3, <1>4, <1>5, <1>6, <1>7 DEF TypeOK

\* The types of everything but the tables.
PageTypes ==
  /\ page \in [stage : {"idle", "missing", "done", "children", "parents"} \cup Reading,
               digest : Digest, up : 0..MaxDepth, down : 0..MaxDepth,
               at : 0..(MaxDepth + 1)]
  /\ root \in Row
FactTypes ==
  /\ facts \in [seen : SUBSET Contents, deprecates : SUBSET Digest,
               deprecatedBy : SUBSET Digest, pulls : Nat, users : {facts.users}]
  /\ DOMAIN facts.users \subseteq Users
  /\ \A u \in DOMAIN facts.users : facts.users[u] \in Nat
LineageTypes ==
  /\ lineage \in [up : Seq(SUBSET Row), down : Seq(SUBSET Row)]
  /\ Len(lineage.up) <= page.up /\ Len(lineage.down) <= page.down
GraphTypes == graph \subseteq Node
BeganTypes == began \in [names : SUBSET Digest, visible : SUBSET Contents]

LEMMA TypesInParts ==
  TypeOK <=> /\ ShelfTypeOK /\ PageTypes /\ FactTypes /\ LineageTypes
             /\ GraphTypes /\ BeganTypes
BY DEF TypeOK, PageTypes, FactTypes, LineageTypes, GraphTypes, BeganTypes

\* What uploads do to the tables: they only add.
LEMMA UploadGrows ==
  ASSUME ShelfTypeOK, Upload
  PROVE  ShelfTypeOK' /\ names \subseteq names' /\ Visible \subseteq Visible'
<1>1. ASSUME NEW d \in Offered, Name(d)
      PROVE  ShelfTypeOK' /\ names \subseteq names' /\ Visible \subseteq Visible'
  <2>1. d \in Digest
    BY ShelfAssumption
  <2> QED
    BY <1>1, <2>1 DEF Name, ShelfTypeOK, Visible
<1>2. ASSUME NEW c \in Contents, NEW now \in 1..MaxTime, Enter(c, now)
      PROVE  ShelfTypeOK' /\ names \subseteq names' /\ Visible \subseteq Visible'
  <2>1. created' = [created EXCEPT ![c] = now] /\ names' = names
    BY <1>2 DEF Enter
  <2>2. created' \in [Contents -> 0..MaxTime]
    BY <2>1, ShelfAssumption DEF ShelfTypeOK
  <2>3. \A x \in Contents : created'[x] = created[x] \/ created'[x] = now
    BY <2>1 DEF ShelfTypeOK
  <2> QED
    BY <2>1, <2>2, <2>3 DEF ShelfTypeOK, Visible
<1> QED
  BY <1>1, <1>2 DEF Upload

\* A link has the name of a source and leads to a node.
LEMMA LinkTypes ==
  ASSUME NEW ids, NEW next \in SUBSET Row, NEW pool \in SUBSET Targets
  PROVE  LinksTo(ids, next, pool) \subseteq [label : SourceNames, to : Targets]
<1> SUFFICES ASSUME NEW l \in LinksTo(ids, next, pool)
             PROVE  l \in [label : SourceNames, to : Targets]
  OBVIOUS
<1>1. PICK r \in next : \E s \in Sources[r.bottle] : \E m \in pool :
        l = [label |-> s.name, to |-> m]
  BY DEF LinksTo
<1>2. PICK s \in Sources[r.bottle], m \in pool : l = [label |-> s.name, to |-> m]
  BY <1>1
<1>3. s.name \in SourceNames
  BY ScopesAssumption DEF Row
<1> QED
  BY <1>2, <1>3

\* Drawing a node.
LEMMA NodeTypes ==
  ASSUME NEW name \in Targets, NEW kind \in Kinds, NEW at \in Int,
         NEW links \in SUBSET [label : SourceNames, to : Targets]
  PROVE  /\ NodeOf(name, kind, at, links) \in Node
         /\ NodeOf(name, kind, at, links).name = name
         /\ NodeOf(name, kind, at, links).kind = kind
         /\ NodeOf(name, kind, at, links).at = at
         /\ NodeOf(name, kind, at, links).links = links
BY DEF NodeOf, Node

LEMMA OtherNodeTypes ==
  ASSUME NEW o \in Origin, NEW at \in Int,
         NEW links \in SUBSET [label : SourceNames, to : Targets]
  PROVE  /\ OtherNode(o, at, links) \in Node
         /\ OtherNode(o, at, links).name = o.to
         /\ OtherNode(o, at, links).kind \in {"url", "external"}
         /\ OtherNode(o, at, links).at = at
         /\ OtherNode(o, at, links).links = links
BY DEF OtherNode, Node, Origin, Kinds

\* A step that changes the stage only.
LEMMA GotoTypes ==
  ASSUME PageTypes, NEW s, Goto(s)
  PROVE  page'.stage = s /\ page'.digest = page.digest /\ page'.at = page.at
         /\ page'.up = page.up /\ page'.down = page.down
BY DEF PageTypes, Goto

LEMMA GotoPageTypes ==
  ASSUME PageTypes, NEW s, Goto(s), UNCHANGED root,
         s \in {"idle", "missing", "done", "children", "parents"} \cup Reading
  PROVE  PageTypes'
BY DEF PageTypes, Goto

\* The parts of a state that a step leaves alone.
LEMMA ShelfStays == ShelfTypeOK /\ UNCHANGED shelf => ShelfTypeOK'
BY DEF shelf, ShelfTypeOK

LEMMA FactsStay == FactTypes /\ UNCHANGED facts => FactTypes'
BY DEF FactTypes

LEMMA LineageStays ==
  LineageTypes /\ UNCHANGED lineage /\ page'.up = page.up /\ page'.down = page.down
    => LineageTypes'
BY DEF LineageTypes

LEMMA GraphStays == GraphTypes /\ UNCHANGED graph => GraphTypes'
BY DEF GraphTypes

LEMMA BeganStays == BeganTypes /\ UNCHANGED began => BeganTypes'
BY DEF BeganTypes

\* Everything that a read asks for is typed.
LEMMA QueryTypes ==
  ASSUME ShelfTypeOK
  PROVE  /\ Visible \subseteq Contents
         /\ \A t : Stored(t) \subseteq Contents
         /\ \A c : DigestsOf(c) \subseteq Digest
         /\ \A t, D : Having(t, D) \subseteq Contents
         /\ \A D : ParentsOf(D) \subseteq Contents /\ ChildrenOf(D) \subseteq Contents
         /\ \A d : FindDeprecatedBy(d) \subseteq Digest
         /\ \A d : FindDeprecates(d) \subseteq Digest
         /\ \A d : PullsOf(d) \subseteq Contents
<1>1. Visible \subseteq Contents /\ names \subseteq Digest
  BY DEF ShelfTypeOK, Visible
<1>2. \A t : Stored(t) \subseteq Contents
  BY <1>1 DEF Stored
<1>3. \A c : DigestsOf(c) \subseteq Digest
  BY <1>1 DEF DigestsOf
<1>4. \A t, D : Having(t, D) \subseteq Contents
  BY <1>2 DEF Having
<1>5. \A D : ParentsOf(D) \subseteq Contents /\ ChildrenOf(D) \subseteq Contents
  BY <1>2 DEF ParentsOf, ChildrenOf
<1>6. \A d : FindDeprecatedBy(d) \subseteq Digest /\ FindDeprecates(d) \subseteq Digest
  BY <1>1 DEF FindDeprecatedBy, FindDeprecates
<1>7. \A d : PullsOf(d) \subseteq Contents
  BY <1>2 DEF PullsOf
<1> QED
  BY <1>1, <1>2, <1>3, <1>4, <1>5, <1>6, <1>7

LEMMA RequestTypes ==
  ASSUME TypeOK, NEW q \in Asked, Request(q)
  PROVE  TypeOK'
<1>1. ShelfTypeOK'
  BY ShelfStays DEF TypeOK, Request
<1>2. q \in [digest : Digest, up : 0..MaxDepth, down : 0..MaxDepth]
  BY BottlePageAssumption
<1>3. PageTypes' /\ page'.up = q.up /\ page'.down = q.down
  BY <1>2, SomeDigest, BottlePageAssumption DEF Request, PageTypes, Reading
<1>4. FactTypes'
  BY DEF Request, NoFacts, FactTypes
<1>5. lineage' \in [up : Seq(SUBSET Row), down : Seq(SUBSET Row)]
      /\ lineage'.up = <<>> /\ lineage'.down = <<>>
  BY DEF Request, NoLineage
<1>6. LineageTypes'
  BY <1>2, <1>3, <1>5 DEF LineageTypes
<1>7. GraphTypes'
  BY DEF Request, GraphTypes
<1>8. BeganTypes'
  BY QueryTypes DEF Request, BeganTypes, TypeOK, ShelfTypeOK
<1> QED
  BY <1>1, <1>3, <1>4, <1>6, <1>7, <1>8
     DEF TypeOK, PageTypes, FactTypes, LineageTypes, GraphTypes, BeganTypes

LEMMA FindBottleTypes ==
  ASSUME TypeOK, FindBottle
  PROVE  TypeOK'
<1> USE TypesInParts
<1>1. ShelfTypeOK' /\ FactTypes' /\ GraphTypes' /\ BeganTypes'
  BY ShelfStays, FactsStay, GraphStays, BeganStays DEF FindBottle
<1>2. root' \in Row
  <2>1. CASE UNCHANGED root
    BY <2>1 DEF PageTypes
  <2>2. ASSUME NEW c \in Having("bottle", {page.digest}), NEW d \in names,
               root' = RowOf(c, d)
        PROVE  root' \in Row
    BY <2>2, QueryTypes DEF RowOf, Row, ShelfTypeOK
  <2> QED
    BY <2>1, <2>2 DEF FindBottle
<1>3. PICK s \in {"missing", "manifestations"} : Goto(s)
  BY DEF FindBottle
<1>4. PageTypes'
  BY <1>2, <1>3 DEF Goto, PageTypes, Reading
<1>5. LineageTypes'
  BY <1>3, GotoTypes, LineageStays DEF FindBottle
<1> QED
  BY <1>1, <1>4, <1>5
     DEF TypeOK, PageTypes, FactTypes, LineageTypes, GraphTypes, BeganTypes

LEMMA FactTypesStep ==
  ASSUME TypeOK, NEW s, NEW next \in Reading, Fact(s, next), FactTypes'
  PROVE  TypeOK'
<1> USE TypesInParts
<1>1. ShelfTypeOK' /\ GraphTypes' /\ BeganTypes'
  BY ShelfStays, GraphStays, BeganStays DEF Fact
<1>2. Goto(next) /\ UNCHANGED root
  BY DEF Fact
<1>3. PageTypes' /\ LineageTypes'
  BY <1>2, GotoTypes, GotoPageTypes, LineageStays DEF Fact
<1> QED
  BY <1>1, <1>3 DEF TypeOK, PageTypes, FactTypes, LineageTypes, GraphTypes, BeganTypes

LEMMA ReadFactTypes ==
  ASSUME TypeOK,
         \/ FindManifestations \/ ReadDeprecatedBy \/ ReadDeprecates
         \/ BottlePulls \/ UserPulls
  PROVE  TypeOK'
<1> USE TypesInParts, QueryTypes
<1>1. CASE FindManifestations
  <2>1. PICK seen \in {{}, {e \in Stored("event") : BottleDigest(e)[1] = root.bottle}} :
          facts' = [facts EXCEPT !.seen = seen]
    BY <1>1 DEF FindManifestations
  <2>2. FactTypes'
    BY <2>1 DEF FactTypes
  <2> QED
    BY <1>1, <2>2, FactTypesStep DEF FindManifestations, Reading
<1>2. CASE ReadDeprecatedBy
  <2>1. FactTypes'
    BY <1>2 DEF ReadDeprecatedBy, FactTypes
  <2> QED
    BY <1>2, <2>1, FactTypesStep DEF ReadDeprecatedBy, Reading
<1>3. CASE ReadDeprecates
  <2>1. FactTypes'
    BY <1>3 DEF ReadDeprecates, FactTypes
  <2> QED
    BY <1>3, <2>1, FactTypesStep DEF ReadDeprecates, Reading
<1>4. CASE BottlePulls
  <2>1. Cardinality(PullsOf(page.digest)) \in Nat
    BY StoredFinite
  <2>2. FactTypes'
    BY <1>4, <2>1 DEF BottlePulls, FactTypes
  <2> QED
    BY <1>4, <2>2, FactTypesStep DEF BottlePulls, Reading
<1>5. CASE UserPulls
  <2> DEFINE Pulls(u) == {e \in PullsOf(page.digest) : Puller[e] = u}
  <2>1. PICK U \in SUBSET {Puller[e] : e \in PullsOf(page.digest)} :
          facts' = [facts EXCEPT !.users = [u \in U |-> Cardinality(Pulls(u))]]
    BY <1>5 DEF UserPulls
  <2>2. \A u : Cardinality(Pulls(u)) \in Nat
    BY StoredFinite
  <2>3. U \subseteq Users
    BY DEF PullsOf, Users, Stored, Visible
  <2> HIDE DEF Pulls
  <2>4. facts'.users = [u \in U |-> Cardinality(Pulls(u))]
    BY <2>1 DEF FactTypes
  <2>5. DOMAIN facts'.users \subseteq Users
        /\ \A u \in DOMAIN facts'.users : facts'.users[u] \in Nat
    BY <2>2, <2>3, <2>4
  <2>6. FactTypes'
    BY <2>1, <2>4, <2>5 DEF FactTypes
  <2> QED
    BY <1>5, <2>6, FactTypesStep DEF UserPulls, Reading
<1> QED
  BY <1>1, <1>2, <1>3, <1>4, <1>5

\* One generation more.
LEMMA AppendTypes ==
  ASSUME NEW S, NEW s \in Seq(S), NEW x \in S
  PROVE  /\ Append(s, x) \in Seq(S)
         /\ Len(Append(s, x)) = Len(s) + 1
         /\ Append(s, x)[Len(s) + 1] = x
         /\ \A i \in 1..Len(s) : Append(s, x)[i] = s[i]
OBVIOUS

LEMMA FindRelativesTypes ==
  ASSUME TypeOK, FindParents \/ FindChildren
  PROVE  TypeOK'
<1> USE TypesInParts, QueryTypes
<1>1. ShelfTypeOK' /\ FactTypes' /\ GraphTypes' /\ BeganTypes'
  BY ShelfStays, FactsStay, GraphStays, BeganStays DEF FindParents, FindChildren
<1>2. PageTypes'
  BY DEF FindParents, FindChildren, PageTypes
<1>3. names \subseteq Digest
  BY DEF ShelfTypeOK
<1>4. LineageTypes'
  <2>1. CASE FindParents
    <3>1. PICK gen \in Listings(ParentsOf(Frontier(lineage.up))) :
            lineage' = [lineage EXCEPT !.up = Append(@, gen)]
      BY <2>1 DEF FindParents
    <3>2. gen \in SUBSET Row
      BY <1>3, ListingRows
    <3>3. /\ Append(lineage.up, gen) \in Seq(SUBSET Row)
          /\ Len(Append(lineage.up, gen)) = Len(lineage.up) + 1
      BY <3>2, AppendTypes DEF LineageTypes
    <3>4. lineage'.up = Append(lineage.up, gen) /\ lineage'.down = lineage.down
          /\ lineage' \in [up : Seq(SUBSET Row), down : Seq(SUBSET Row)]
      BY <3>1, <3>3 DEF LineageTypes
    <3> QED
      BY <2>1, <3>3, <3>4 DEF FindParents, LineageTypes, PageTypes
  <2>2. CASE FindChildren
    <3>1. PICK gen \in Listings(ChildrenOf(Frontier(lineage.down))) :
            lineage' = [lineage EXCEPT !.down = Append(@, gen)]
      BY <2>2 DEF FindChildren
    <3>2. gen \in SUBSET Row
      BY <1>3, ListingRows
    <3>3. /\ Append(lineage.down, gen) \in Seq(SUBSET Row)
          /\ Len(Append(lineage.down, gen)) = Len(lineage.down) + 1
      BY <3>2, AppendTypes DEF LineageTypes
    <3>4. lineage'.down = Append(lineage.down, gen) /\ lineage'.up = lineage.up
          /\ lineage' \in [up : Seq(SUBSET Row), down : Seq(SUBSET Row)]
      BY <3>1, <3>3 DEF LineageTypes
    <3> QED
      BY <2>2, <3>3, <3>4 DEF FindChildren, LineageTypes, PageTypes
  <2> QED
    BY <2>1, <2>2
<1> QED
  BY <1>1, <1>2, <1>4 DEF TypeOK, PageTypes, FactTypes, LineageTypes, GraphTypes, BeganTypes

\* How far the request is.
Staged ==
  /\ page.stage = "bottle" => lineage = NoLineage
  /\ page.stage \in Reading => graph = {} /\ page.at = page.down
  /\ page.stage = "children" => page.at <= page.down
  /\ page.stage \in {"parents", "done"} => page.at \in 1..(page.up + 1)
  /\ page.stage = "done" => page.at = page.up + 1
  /\ page.stage \in {"descendants", "children", "parents", "done"} =>
       Len(lineage.up) = page.up
  /\ page.stage \in {"children", "parents", "done"} => Len(lineage.down) = page.down

\* The generation before the n-th upwards, and downwards.
PriorUp(n) == IF n = 1 THEN {root} ELSE lineage.up[n - 1]
PriorDown(n) == IF n = 1 THEN {root} ELSE lineage.down[n - 1]

LEMMA GenerationTypes ==
  ASSUME PageTypes, LineageTypes
  PROVE  /\ \A n \in 1..Len(lineage.up) : lineage.up[n] \subseteq Row
         /\ \A n \in 1..Len(lineage.down) : lineage.down[n] \subseteq Row
         /\ \A n \in 1..Len(lineage.up) : PriorUp(n) \subseteq Row
         /\ \A n \in 1..Len(lineage.down) : PriorDown(n) \subseteq Row
<1>1. \A n \in 1..Len(lineage.up) : lineage.up[n] \subseteq Row
  BY DEF LineageTypes
<1>2. \A n \in 1..Len(lineage.down) : lineage.down[n] \subseteq Row
  BY DEF LineageTypes
<1>3. root \in Row
  BY DEF PageTypes
<1>4. \A n \in 1..Len(lineage.up) : PriorUp(n) \subseteq Row
  <2> SUFFICES ASSUME NEW n \in 1..Len(lineage.up) PROVE PriorUp(n) \subseteq Row
    OBVIOUS
  <2>1. n = 1 \/ n - 1 \in 1..Len(lineage.up)
    BY DEF LineageTypes
  <2> QED
    BY <1>1, <1>3, <2>1 DEF PriorUp
<1>5. \A n \in 1..Len(lineage.down) : PriorDown(n) \subseteq Row
  <2> SUFFICES ASSUME NEW n \in 1..Len(lineage.down) PROVE PriorDown(n) \subseteq Row
    OBVIOUS
  <2>1. n = 1 \/ n - 1 \in 1..Len(lineage.down)
    BY DEF LineageTypes
  <2> QED
    BY <1>2, <1>3, <2>1 DEF PriorDown
<1> QED
  BY <1>1, <1>2, <1>4, <1>5

\* Names of nodes can be linked to.
LEMMA NameTypes ==
  GraphTypes => Names(graph) \subseteq Targets
BY DEF GraphTypes, Names, Node

\* The next place in the graph.
LEMMA PageMoves ==
  ASSUME PageTypes, NEW k \in 0..(MaxDepth + 1), page' = [page EXCEPT !.at = k],
         UNCHANGED root
  PROVE  /\ PageTypes'
         /\ page'.at = k /\ page'.stage = page.stage /\ page'.digest = page.digest
         /\ page'.up = page.up /\ page'.down = page.down
BY DEF PageTypes

\* What DrawChildren adds at place n.
NextDown(n) == IF n = page.down THEN {} ELSE lineage.down[n + 1]
NewDown(n) == IF n = page.down THEN lineage.down[n] ELSE Undrawn(lineage.down[n])
PoolDown(n) == Names(graph) \cup {r.name : r \in NewDown(n)}
DrawnDown(n) ==
  {NodeOf(r.name, "relative", n, LinksTo(r.digests, NextDown(n), PoolDown(n))) :
     r \in NewDown(n)}

LEMMA ChildrenDrawn ==
  DrawChildren => /\ graph' = graph \cup DrawnDown(page.at)
                  /\ page.stage = "children" /\ page.at > 0
                  /\ page' = [page EXCEPT !.at = @ - 1]
                  /\ UNCHANGED <<shelf, root, facts, lineage, began>>
BY DEF DrawChildren, DrawnDown, NewDown, NextDown, PoolDown

LEMMA ChildrenTypes ==
  ASSUME TypeOK, Staged, DrawChildren
  PROVE  /\ TypeOK'
         /\ \A m \in DrawnDown(page.at) : m.at = page.at /\ m.kind = "relative"
         /\ \A r \in NewDown(page.at) : \E m \in DrawnDown(page.at) : m.name = r.name
<1> USE TypesInParts, ChildrenDrawn
<1> DEFINE n == page.at
<1>1. n \in 1..Len(lineage.down) /\ n \in Int
  BY DEF Staged, PageTypes
<1>2. n = page.down \/ n + 1 \in 1..Len(lineage.down)
  BY <1>1 DEF Staged, PageTypes, LineageTypes
<1>3. NextDown(n) \subseteq Row
  BY <1>2, GenerationTypes DEF NextDown
<1>4. NewDown(n) \subseteq Row
  BY <1>1, GenerationTypes DEF NewDown, Undrawn
<1>5. PoolDown(n) \subseteq Targets
  BY <1>4, NameTypes DEF PoolDown, Row, Targets
<1>6. \A r \in NewDown(n) :
        LinksTo(r.digests, NextDown(n), PoolDown(n)) \in SUBSET [label : SourceNames, to : Targets]
  BY <1>3, <1>5, LinkTypes
<1>7. \A r \in NewDown(n) : r.name \in Targets /\ "relative" \in Kinds
  BY <1>4 DEF Row, Targets, Kinds
<1>8. \A r \in NewDown(n) :
        LET m == NodeOf(r.name, "relative", n, LinksTo(r.digests, NextDown(n), PoolDown(n)))
        IN  m \in Node /\ m.name = r.name /\ m.kind = "relative" /\ m.at = n
  BY <1>1, <1>6, <1>7, NodeTypes
<1> HIDE DEF n
<1>9. /\ DrawnDown(n) \subseteq Node
      /\ \A m \in DrawnDown(n) : m.at = n /\ m.kind = "relative"
      /\ \A r \in NewDown(n) : \E m \in DrawnDown(n) : m.name = r.name
  BY <1>8 DEF DrawnDown
<1>10. GraphTypes'
  BY <1>9 DEF GraphTypes, n
<1>11. ShelfTypeOK' /\ FactTypes' /\ BeganTypes'
  BY ShelfStays, FactsStay, BeganStays
<1>12. PageTypes' /\ page'.up = page.up /\ page'.down = page.down
  <2>1. page.at - 1 \in 0..(MaxDepth + 1)
    BY BottlePageAssumption DEF PageTypes
  <2> QED
    BY <2>1, PageMoves
<1>13. LineageTypes'
  BY <1>12, LineageStays
<1>14. TypeOK'
  BY <1>10, <1>11, <1>12, <1>13
     DEF TypeOK, PageTypes, FactTypes, LineageTypes, GraphTypes, BeganTypes
<1> QED
  BY <1>9, <1>14 DEF n

\* The node that DrawRoot adds.
FirstDown == IF page.down = 0 THEN {} ELSE lineage.down[1]
RootNode == NodeOf(root.name, "main", 0, LinksTo(root.digests, FirstDown, Names(graph)))

LEMMA RootDrawn ==
  DrawRoot => /\ graph' = graph \cup {RootNode}
              /\ page.stage = "children" /\ page.at = 0
              /\ page' = [page EXCEPT !.stage = "parents", !.at = 1]
              /\ UNCHANGED <<shelf, root, facts, lineage, began>>
BY DEF DrawRoot, RootNode, FirstDown

LEMMA RootTypes ==
  ASSUME TypeOK, Staged, DrawRoot
  PROVE  /\ TypeOK'
         /\ RootNode.at = 0 /\ RootNode.kind = "main" /\ RootNode.name = root.name
<1> USE TypesInParts, RootDrawn
<1>1. FirstDown \subseteq Row
  BY GenerationTypes DEF FirstDown, Staged, PageTypes
<1>2. LinksTo(root.digests, FirstDown, Names(graph))
        \in SUBSET [label : SourceNames, to : Targets]
  BY <1>1, NameTypes, LinkTypes
<1>3. root.name \in Targets /\ "main" \in Kinds /\ 0 \in Int
  BY DEF PageTypes, Row, Targets, Kinds
<1>4. RootNode \in Node /\ RootNode.at = 0 /\ RootNode.kind = "main"
      /\ RootNode.name = root.name
  BY <1>2, <1>3, NodeTypes DEF RootNode
<1>5. GraphTypes'
  BY <1>4 DEF GraphTypes
<1>6. ShelfTypeOK' /\ FactTypes' /\ BeganTypes'
  BY ShelfStays, FactsStay, BeganStays
<1>7. PageTypes' /\ page'.up = page.up /\ page'.down = page.down
  <2>1. 1 \in 0..(MaxDepth + 1)
    BY BottlePageAssumption
  <2> QED
    BY <2>1 DEF PageTypes
<1>8. LineageTypes'
  BY <1>7, LineageStays
<1>9. TypeOK'
  BY <1>5, <1>6, <1>7, <1>8
     DEF TypeOK, PageTypes, FactTypes, LineageTypes, GraphTypes, BeganTypes
<1> QED
  BY <1>4, <1>9

\* What DrawParents adds at place n.
LinksUp(n, ids) == LinksTo(ids, PriorUp(n), Names(graph))
DrawnUp(n) ==
  {NodeOf(r.name, "relative", 0 - n, LinksUp(n, r.digests)) :
     r \in Undrawn(lineage.up[n])}
DrawnOthers(n) ==
  {OtherNode(o, 0 - n, LinksUp(n, {o.to})) :
     o \in {x \in Others(PriorUp(n), lineage.up[n]) : x.to \notin Names(graph)}}

LEMMA ParentsDrawn ==
  DrawParents => /\ graph' = graph \cup DrawnUp(page.at) \cup DrawnOthers(page.at)
                 /\ page.stage = "parents" /\ page.at <= page.up
                 /\ page' = [page EXCEPT !.at = @ + 1]
                 /\ UNCHANGED <<shelf, root, facts, lineage, began>>
BY DEF DrawParents, DrawnUp, DrawnOthers, LinksUp, PriorUp

\* What a node shows that DrawParents adds.
LEMMA ParentNodes ==
  ASSUME TypeOK, Staged, DrawParents, NEW n, n = page.at
  PROVE  /\ n \in 1..Len(lineage.up)
         /\ \A r \in Undrawn(lineage.up[n]) :
              LET m == NodeOf(r.name, "relative", 0 - n, LinksUp(n, r.digests))
              IN  m \in Node /\ m.name = r.name /\ m.kind = "relative"
                  /\ m.at = 0 - n /\ m.links = LinksUp(n, r.digests)
         /\ \A o \in Others(PriorUp(n), lineage.up[n]) :
              LET m == OtherNode(o, 0 - n, LinksUp(n, {o.to}))
              IN  m \in Node /\ m.name = o.to /\ m.kind \in {"url", "external"}
                  /\ m.at = 0 - n /\ m.links = LinksUp(n, {o.to})
<1> USE TypesInParts
<1>1. n \in 1..Len(lineage.up) /\ 0 - n \in Int
  BY ParentsDrawn DEF Staged, PageTypes
<1>2. lineage.up[n] \subseteq Row /\ PriorUp(n) \subseteq Row
  BY <1>1, GenerationTypes
<1>3. \A ids : LinksUp(n, ids) \in SUBSET [label : SourceNames, to : Targets]
  BY <1>2, NameTypes, LinkTypes DEF LinksUp
<1>4. \A r \in Undrawn(lineage.up[n]) : r.name \in Targets /\ "relative" \in Kinds
  BY <1>2 DEF Undrawn, Row, Targets, Kinds
<1>5. \A o \in Others(PriorUp(n), lineage.up[n]) : o \in Origin
  <2> SUFFICES ASSUME NEW o \in Others(PriorUp(n), lineage.up[n]) PROVE o \in Origin
    OBVIOUS
  <2>1. PICK r \in PriorUp(n) :
          o \in {[by |-> r.bottle, name |-> s.name, to |-> s.to] :
                 s \in Sources[r.bottle]}
    BY DEF Others, Origins
  <2>2. PICK s \in Sources[r.bottle] :
          o = [by |-> r.bottle, name |-> s.name, to |-> s.to]
    BY <2>1
  <2>3. r.bottle \in Contents /\ s \in [name : SourceNames, to : Targets]
    BY <1>2, ScopesAssumption DEF Row
  <2> QED
    BY <2>2, <2>3 DEF Origin
<1>6. \A r \in Undrawn(lineage.up[n]) :
        LET m == NodeOf(r.name, "relative", 0 - n, LinksUp(n, r.digests))
        IN  m \in Node /\ m.name = r.name /\ m.kind = "relative"
            /\ m.at = 0 - n /\ m.links = LinksUp(n, r.digests)
  BY <1>1, <1>3, <1>4, NodeTypes
<1>7. \A o \in Others(PriorUp(n), lineage.up[n]) :
        LET m == OtherNode(o, 0 - n, LinksUp(n, {o.to}))
        IN  m \in Node /\ m.name = o.to /\ m.kind \in {"url", "external"}
            /\ m.at = 0 - n /\ m.links = LinksUp(n, {o.to})
  BY <1>1, <1>3, <1>5, OtherNodeTypes
<1> QED
  BY <1>1, <1>6, <1>7

LEMMA ParentsTypes ==
  ASSUME TypeOK, Staged, DrawParents
  PROVE  TypeOK'
<1> USE TypesInParts, ParentsDrawn
<1>1. DrawnUp(page.at) \subseteq Node /\ DrawnOthers(page.at) \subseteq Node
  <2>1. PICK n : n = page.at
    OBVIOUS
  <2>2. \A r \in Undrawn(lineage.up[n]) :
          NodeOf(r.name, "relative", 0 - n, LinksUp(n, r.digests)) \in Node
    BY <2>1, ParentNodes
  <2>3. \A o \in Others(PriorUp(n), lineage.up[n]) :
          OtherNode(o, 0 - n, LinksUp(n, {o.to})) \in Node
    BY <2>1, ParentNodes
  <2>4. DrawnUp(n) \subseteq Node
    BY <2>2 DEF DrawnUp
  <2>5. DrawnOthers(n) \subseteq Node
    BY <2>3 DEF DrawnOthers
  <2> QED
    BY <2>1, <2>4, <2>5
<1>2. GraphTypes'
  BY <1>1 DEF GraphTypes
<1>3. ShelfTypeOK' /\ FactTypes' /\ BeganTypes'
  BY ShelfStays, FactsStay, BeganStays
<1>4. PageTypes' /\ page'.up = page.up /\ page'.down = page.down
  <2>1. page.at + 1 \in 0..(MaxDepth + 1)
    BY BottlePageAssumption DEF PageTypes
  <2> QED
    BY <2>1, PageMoves
<1>5. LineageTypes'
  BY <1>4, LineageStays
<1> QED
  BY <1>2, <1>3, <1>4, <1>5
     DEF TypeOK, PageTypes, FactTypes, LineageTypes, GraphTypes, BeganTypes

\* Steps that change nothing but the stage.
LEMMA MoveTypes ==
  ASSUME TypeOK, FoundGenerations \/ Reply \/ Abandon
  PROVE  TypeOK'
<1> USE TypesInParts
<1>1. PICK s \in {"descendants", "children", "done", "missing"} : Goto(s)
  BY DEF FoundGenerations, Reply, Abandon
<1>2. UNCHANGED <<shelf, root, facts, lineage, graph, began>>
  BY DEF FoundGenerations, Reply, Abandon
<1>3. PageTypes' /\ LineageTypes'
  BY <1>1, <1>2, GotoTypes, GotoPageTypes, LineageStays DEF Reading
<1> QED
  BY <1>2, <1>3, ShelfStays, FactsStay, GraphStays, BeganStays
     DEF TypeOK, PageTypes, FactTypes, LineageTypes, GraphTypes, BeganTypes

LEMMA GrowTypes ==
  ASSUME TypeOK, Grow
  PROVE  TypeOK' /\ names \subseteq names' /\ Visible \subseteq Visible'
BY UploadGrows DEF Grow, TypeOK

LEMMA NextTypes == TypeOK /\ Staged /\ [Next]_vars => TypeOK'
<1> SUFFICES ASSUME TypeOK, Staged, [Next]_vars PROVE TypeOK'
  OBVIOUS
<1>1. ASSUME NEW q \in Asked, Request(q) PROVE TypeOK'
  BY <1>1, RequestTypes
<1>2. CASE Read
  BY <1>2, FindBottleTypes, ReadFactTypes, FindRelativesTypes, MoveTypes DEF Read
<1>3. CASE Draw
  BY <1>3, ChildrenTypes, RootTypes, ParentsTypes, MoveTypes DEF Draw
<1>4. CASE Abandon
  BY <1>4, MoveTypes
<1>5. CASE Grow
  BY <1>5, GrowTypes
<1>6. CASE UNCHANGED vars
  BY <1>6 DEF vars, shelf, TypeOK, ShelfTypeOK
<1> QED
  BY <1>1, <1>2, <1>3, <1>4, <1>5, <1>6 DEF Next, Handle

-----------------------------------------------------------------------------
(* The inductive invariant *)

\* The bottles on record when the request began.
Before == {b \in began.visible : Doc[b].type = "bottle"}

BeganEarlier == began.names \subseteq names /\ began.visible \subseteq Visible

\* A row says what is so, even if there is more by now.
Genuine(r) ==
  /\ r.bottle \in Stored("bottle")
  /\ r.name \in r.digests
  /\ r.digests \subseteq DigestsOf(r.bottle)

RootFound ==
  page.stage \in (Reading \ {"bottle"}) \cup {"children", "parents", "done"} =>
    Genuine(root) /\ page.digest \in root.digests

RowsGenuine ==
  /\ \A n \in 1..Len(lineage.up) : \A r \in lineage.up[n] : Genuine(r)
  /\ \A n \in 1..Len(lineage.down) : \A r \in lineage.down[n] : Genuine(r)

\* A row is in a generation because one of the generation before has it as a
\* source, under a digest that the row has.
Sourced ==
  \A n \in 1..Len(lineage.up) : \A r \in lineage.up[n] :
    \E q \in PriorUp(n) : \E s \in Sources[q.bottle] : s.to \in r.digests

\* A source that could be followed when the request began was followed.
Closed ==
  \A n \in 1..Len(lineage.up) : \A q \in PriorUp(n) : \A s \in Sources[q.bottle] :
    s.to \in began.names /\ s.to[1] \in Before => s.to \in AllDigests(lineage.up[n])

\* Every line of bottles that there was when the request began is followed up
\* to the generations found.
LineUp(n, line) ==
  line[0] = root.bottle /\ \A i \in 0..(n - 1) : Fed(line[i + 1], line[i])
LineDown(n, line) ==
  line[0] = root.bottle /\ \A i \in 0..(n - 1) : Fed(line[i], line[i + 1])

LinesUp ==
  \A n \in 1..Len(lineage.up) : \A line \in [0..n -> began.visible] :
    LineUp(n, line) => \E r \in lineage.up[n] : r.bottle = line[n]
LinesDown ==
  \A n \in 1..Len(lineage.down) : \A line \in [0..n -> began.visible] :
    LineDown(n, line) => \E r \in lineage.down[n] : r.bottle = line[n]

\* There is a node for the row.
Covered(r) == \E m \in graph : m.name \in r.digests

DownCovered(from) ==
  \A n \in from..Len(lineage.down) : \A r \in lineage.down[n] : Covered(r)
UpCovered(to) ==
  \A n \in 1..to : \A r \in lineage.up[n] : Covered(r)

Drawn ==
  /\ page.stage = "children" => DownCovered(page.at + 1)
  /\ page.stage \in {"parents", "done"} =>
       DownCovered(1) /\ Covered(root) /\ UpCovered(page.at - 1)

\* A bottle drawn as unknown was unknown when the request began, or known by
\* other digests only.
UnknownThen ==
  \A m \in graph : m.kind = "external" /\ m.name \in began.names =>
    m.name[1] \notin Before

\* What is read of deprecations has what there was before, and is so.
DeprecatesRead ==
  /\ {e \in began.names : e[1] \in Before /\ e \in Deprecates[root.bottle]}
       \subseteq facts.deprecates
  /\ facts.deprecates \subseteq
       {e \in names : e[1] \in Stored("bottle") /\ e \in Deprecates[root.bottle]}
DeprecatedByRead ==
  /\ {e \in began.names : e[1] \in Before /\ page.digest \in Deprecates[e[1]]}
       \subseteq facts.deprecatedBy
  /\ facts.deprecatedBy \subseteq
       {e \in names : e[1] \in Stored("bottle") /\ page.digest \in Deprecates[e[1]]}

Later == {"pulls", "users", "ancestors", "descendants", "children", "parents", "done"}
DeprecationsRead ==
  /\ page.stage \in Later \cup {"deprecates"} => DeprecatesRead
  /\ page.stage \in Later => DeprecatedByRead

Inv == /\ TypeOK /\ Staged /\ BeganEarlier /\ RootFound /\ RowsGenuine
       /\ Sourced /\ Closed /\ LinesUp /\ LinesDown
       /\ Drawn /\ UnknownThen /\ EveryAncestorPoints /\ DeprecationsRead

LEMMA InitInv == Init => Inv
<1> SUFFICES ASSUME Init PROVE Inv
  OBVIOUS
<1>1. TypeOK
  BY InitTypes
<1>2. /\ page.stage = "idle" /\ Len(lineage.up) = 0 /\ Len(lineage.down) = 0
      /\ graph = {} /\ began.names = names /\ began.visible = Visible
  BY DEF Init, NoLineage
<1>3. Staged /\ BeganEarlier /\ RootFound /\ Drawn /\ DeprecationsRead
  BY <1>2 DEF Staged, BeganEarlier, RootFound, Reading, Drawn, DeprecationsRead, Later
<1>4. RowsGenuine /\ Sourced /\ Closed /\ LinesUp /\ LinesDown
  BY <1>2 DEF RowsGenuine, Sourced, Closed, LinesUp, LinesDown
<1>5. UnknownThen /\ EveryAncestorPoints
  BY <1>2 DEF UnknownThen, EveryAncestorPoints
<1> QED
  BY <1>1, <1>3, <1>4, <1>5 DEF Inv

LEMMA RequestInv ==
  ASSUME Inv, NEW q \in Asked, Request(q)
  PROVE  Inv'
<1>1. TypeOK'
  BY RequestTypes DEF Inv
<1>2. /\ page'.stage = "bottle" /\ page'.at = page'.down
      /\ lineage' = NoLineage /\ graph' = {}
      /\ began'.names = names /\ began'.visible = Visible /\ UNCHANGED shelf
  BY DEF Request
<1>3. Visible' = Visible /\ names' = names
  BY <1>2 DEF shelf, Visible
<1>4. Len(lineage'.up) = 0 /\ Len(lineage'.down) = 0
  BY <1>2 DEF NoLineage
<1>5. Staged' /\ BeganEarlier' /\ RootFound' /\ Drawn' /\ DeprecationsRead'
  BY <1>2, <1>3 DEF Staged, BeganEarlier, RootFound, Reading, Drawn, DeprecationsRead, Later
<1>6. RowsGenuine'
  BY <1>4 DEF RowsGenuine
<1>7. Sourced' /\ Closed' /\ LinesUp' /\ LinesDown'
  BY <1>4 DEF Sourced, Closed, LinesUp, LinesDown
<1>8. UnknownThen' /\ EveryAncestorPoints'
  BY <1>2 DEF UnknownThen, EveryAncestorPoints
<1> QED
  BY <1>1, <1>5, <1>6, <1>7, <1>8 DEF Inv

\* What a step leaves true that touches neither the tables nor what was found.
LEMMA FoundStays ==
  ASSUME Inv, UNCHANGED <<shelf, root, lineage, began>>
  PROVE  (BeganEarlier /\ RowsGenuine /\ Sourced /\ Closed /\ LinesUp /\ LinesDown)'
<1>1. Visible' = Visible /\ names' = names /\ root' = root /\ lineage' = lineage
      /\ began' = began
  BY DEF shelf, Visible
<1>2. BeganEarlier'
  BY <1>1 DEF Inv, BeganEarlier
<1>3. \A r : Genuine(r) => Genuine(r)'
  BY <1>1 DEF Genuine, Stored, DigestsOf
<1>4. RowsGenuine'
  BY <1>1, <1>3 DEF Inv, RowsGenuine
<1>5. Sourced' /\ Closed'
  BY <1>1 DEF Inv, Sourced, Closed, PriorUp, Before
<1>6. /\ \A n, line : LineUp(n, line)' <=> LineUp(n, line)
      /\ \A n, line : LineDown(n, line)' <=> LineDown(n, line)
  BY <1>1 DEF LineUp, LineDown, Fed
<1>7. LinesUp'
  BY <1>1, <1>6 DEF Inv, LinesUp
<1>8. LinesDown'
  BY <1>1, <1>6 DEF Inv, LinesDown
<1> QED
  BY <1>2, <1>4, <1>5, <1>7, <1>8

LEMMA GraphAsBefore ==
  ASSUME Inv, UNCHANGED <<graph, began>>
  PROVE  UnknownThen' /\ EveryAncestorPoints'
BY DEF Inv, UnknownThen, Before, EveryAncestorPoints

LEMMA GrowInv ==
  ASSUME Inv, Grow
  PROVE  Inv'
<1>1. TypeOK' /\ names \subseteq names' /\ Visible \subseteq Visible'
  BY GrowTypes DEF Inv
<1>2. UNCHANGED <<page, root, facts, lineage, graph, began>>
  BY DEF Grow
<1>3. \A t : Stored(t) \subseteq Stored(t)'
  BY <1>1 DEF Stored
<1>4. \A r : Genuine(r) => Genuine(r)'
  BY <1>1, <1>3 DEF Genuine, DigestsOf
<1>5. Staged' /\ BeganEarlier'
  BY <1>1, <1>2 DEF Inv, Staged, BeganEarlier
<1>6. RootFound' /\ RowsGenuine'
  BY <1>2, <1>4 DEF Inv, RootFound, RowsGenuine
<1>7. Sourced' /\ Closed'
  BY <1>2 DEF Inv, Sourced, Closed, PriorUp, Before
<1>8. LinesUp' /\ LinesDown'
  BY <1>2 DEF Inv, LinesUp, LinesDown, LineUp, LineDown, Fed
<1>9. Drawn'
  BY <1>2 DEF Inv, Drawn, DownCovered, UpCovered, Covered
<1>10. UnknownThen' /\ EveryAncestorPoints'
  BY <1>2, GraphAsBefore
<1>11. DeprecatesRead => DeprecatesRead'
  BY <1>1, <1>2, <1>3 DEF DeprecatesRead, Before
<1>12. DeprecatedByRead => DeprecatedByRead'
  BY <1>1, <1>2, <1>3 DEF DeprecatedByRead, Before
<1>13. DeprecationsRead'
  BY <1>2, <1>11, <1>12 DEF Inv, DeprecationsRead
<1> QED
  BY <1>1, <1>5, <1>6, <1>7, <1>8, <1>9, <1>10, <1>13 DEF Inv

\* Steps that change the stage only.
LEMMA MoveInv ==
  ASSUME Inv, FoundGenerations \/ Reply \/ Abandon
  PROVE  Inv'
<1> USE TypesInParts
<1>1. TypeOK'
  BY MoveTypes DEF Inv
<1>2. UNCHANGED <<shelf, root, facts, lineage, graph, began>>
  BY DEF FoundGenerations, Reply, Abandon
<1>3. PICK s : Goto(s) /\ page'.stage = s
  BY GotoTypes DEF FoundGenerations, Reply, Abandon, Inv
<1>4. page'.digest = page.digest /\ page'.at = page.at /\ page'.up = page.up
      /\ page'.down = page.down
  BY <1>3, GotoTypes DEF Inv
<1>5. /\ FoundGenerations => \/ page.stage = "ancestors" /\ s = "descendants"
                                  /\ Len(lineage.up) = page.up
                             \/ page.stage = "descendants" /\ s = "children"
                                  /\ Len(lineage.down) = page.down
      /\ Reply => page.stage = "parents" /\ s = "done" /\ page.at > page.up
      /\ Abandon => page.stage \in Reading /\ s = "missing"
  BY <1>3 DEF FoundGenerations, Reply, Abandon, Goto, Inv, PageTypes
<1>6. page.up \in Nat /\ page.down \in Nat /\ page.at \in Nat
  BY DEF Inv, PageTypes
<1>7. (BeganEarlier /\ RowsGenuine /\ Sourced /\ Closed /\ LinesUp /\ LinesDown)'
  BY <1>2, FoundStays
<1>8. UnknownThen' /\ EveryAncestorPoints'
  BY <1>2, GraphAsBefore
<1>9. Staged'
  BY <1>2, <1>3, <1>4, <1>5, <1>6 DEF Inv, Staged, Reading
<1>10. RootFound'
  <2>1. Genuine(root) => Genuine(root)'
    BY <1>2 DEF Genuine, Stored, DigestsOf, shelf, Visible
  <2> QED
    BY <2>1, <1>2, <1>3, <1>4, <1>5 DEF Inv, RootFound, Reading
<1>11. Drawn'
  <2>1. \A r : Covered(r) <=> Covered(r)'
    BY <1>2 DEF Covered
  <2>2. \A k : (DownCovered(k) => DownCovered(k)') /\ (UpCovered(k) => UpCovered(k)')
    BY <1>2, <2>1 DEF DownCovered, UpCovered
  <2>3. Covered(root) => Covered(root)'
    BY <1>2, <2>1
  <2>4. page'.stage = "children" => DownCovered(page.at + 1)'
    <3> SUFFICES ASSUME page'.stage = "children" PROVE DownCovered(page.at + 1)'
      OBVIOUS
    <3>1. page.stage = "descendants" /\ Len(lineage.down) = page.down
      BY <1>3, <1>5
    <3>2. page'.at = Len(lineage'.down)
      BY <1>2, <1>4, <3>1 DEF Inv, Staged, Reading
    <3> QED
      BY <1>4, <1>6, <3>2 DEF DownCovered
  <2>5. page'.stage # "parents"
    BY <1>3, <1>5
  <2>6. page'.stage = "done" =>
          page.stage = "parents" /\ page'.at = page.at
    BY <1>3, <1>4, <1>5
  <2>7. page'.stage = "done" =>
          DownCovered(1) /\ Covered(root) /\ UpCovered(page.at - 1)
    BY <2>6 DEF Inv, Drawn
  <2>8. page'.stage = "done" =>
          DownCovered(1)' /\ Covered(root)' /\ UpCovered(page.at - 1)'
    <3>1. UpCovered(page.at - 1) => UpCovered(page.at - 1)'
      BY <1>2, <1>4, <2>1 DEF UpCovered
    <3> QED
      BY <2>2, <2>3, <2>7, <3>1
  <2> QED
    BY <2>4, <2>5, <2>8 DEF Drawn
<1>12. DeprecationsRead'
  <2>1. DeprecatesRead => DeprecatesRead'
    BY <1>2, <1>4 DEF DeprecatesRead, Before, Stored, shelf, Visible
  <2>2. DeprecatedByRead => DeprecatedByRead'
    BY <1>2, <1>4 DEF DeprecatedByRead, Before, Stored, shelf, Visible
  <2>3. page'.stage \in Later \cup {"deprecates"} => page.stage \in Later
    BY <1>3, <1>5 DEF Later
  <2> QED
    BY <2>1, <2>2, <2>3 DEF Inv, DeprecationsRead
<1> QED
  BY <1>1, <1>7, <1>8, <1>9, <1>10, <1>11, <1>12 DEF Inv

LEMMA FindBottleInv ==
  ASSUME Inv, FindBottle
  PROVE  Inv'
<1> USE TypesInParts
<1>1. TypeOK'
  BY FindBottleTypes DEF Inv
<1>2. UNCHANGED <<shelf, facts, lineage, graph, began>> /\ page.stage = "bottle"
  BY DEF FindBottle
<1>3. Len(lineage.up) = 0 /\ Len(lineage.down) = 0 /\ graph = {} /\ page.at = page.down
  BY <1>2 DEF Inv, Staged, NoLineage, Reading
<1>4. PICK s \in {"missing", "manifestations"} : Goto(s) /\ page'.stage = s
  BY GotoTypes DEF FindBottle, Inv
<1>5. page'.digest = page.digest /\ page'.at = page.at /\ page'.down = page.down
  BY <1>4, GotoTypes DEF Inv
<1>6. Staged'
  BY <1>2, <1>3, <1>4, <1>5 DEF Inv, Staged, Reading
<1>7. BeganEarlier'
  BY <1>2 DEF Inv, BeganEarlier, shelf, Visible
<1>8. RowsGenuine' /\ Sourced' /\ Closed' /\ LinesUp' /\ LinesDown'
  BY <1>2, <1>3 DEF RowsGenuine, Sourced, Closed, LinesUp, LinesDown
<1>9. UnknownThen' /\ EveryAncestorPoints'
  BY <1>2, GraphAsBefore
<1>10. Drawn' /\ DeprecationsRead'
  BY <1>4 DEF Drawn, DeprecationsRead, Later
<1>11. RootFound'
  <2>1. CASE Goto("missing")
    BY <1>4, <2>1 DEF Inv, PageTypes, Goto, RootFound, Reading
  <2>2. ASSUME NEW c \in Having("bottle", {page.digest}), NEW d \in names,
               d[1] = c, root' = RowOf(c, d)
        PROVE  RootFound'
    <3>1. /\ root'.bottle = c /\ root'.digests = DigestsOf(c) /\ root'.name = d
          /\ c \in Stored("bottle") /\ page.digest \in DigestsOf(c)
      BY <2>2 DEF RowOf, Having
    <3>2. d \in DigestsOf(c)
      BY <2>2 DEF DigestsOf
    <3>3. Stored("bottle")' = Stored("bottle") /\ \A x : DigestsOf(x)' = DigestsOf(x)
      BY <1>2 DEF Stored, DigestsOf, shelf, Visible
    <3> QED
      BY <1>5, <3>1, <3>2, <3>3 DEF RootFound, Genuine
  <2> QED
    BY <2>1, <2>2 DEF FindBottle
<1> QED
  BY <1>1, <1>6, <1>7, <1>8, <1>9, <1>10, <1>11 DEF Inv

\* The bottle of the page is the only one with the digest asked for.
LEMMA RootAlone ==
  ASSUME names \subseteq Digest, Genuine(root), page.digest \in root.digests
  PROVE  Having("bottle", {page.digest}) = {root.bottle}
BY DEF Genuine, Having, DigestsOf

LEMMA FactInv ==
  ASSUME Inv,
         \/ FindManifestations \/ ReadDeprecatedBy \/ ReadDeprecates
         \/ BottlePulls \/ UserPulls
  PROVE  Inv'
<1> USE TypesInParts
<1>1. TypeOK' /\ names \subseteq Digest
  BY ReadFactTypes DEF Inv, ShelfTypeOK
<1>2. PICK s \in Reading \ {"bottle"}, next \in Reading \ {"bottle", "descendants"} : Fact(s, next)
  BY DEF FindManifestations, ReadDeprecatedBy, ReadDeprecates, BottlePulls, UserPulls, Reading
<1>3. /\ page.stage = s /\ page'.stage = next /\ Goto(next)
      /\ page'.digest = page.digest /\ page'.at = page.at /\ page'.down = page.down
      /\ UNCHANGED <<shelf, root, lineage, graph, began>>
  BY <1>2, GotoTypes DEF Fact, Inv
<1>4. (BeganEarlier /\ RowsGenuine /\ Sourced /\ Closed /\ LinesUp /\ LinesDown)'
  BY <1>3, FoundStays
<1>5. UnknownThen' /\ EveryAncestorPoints'
  BY <1>3, GraphAsBefore
<1>6. Staged' /\ Drawn'
  BY <1>2, <1>3 DEF Inv, Staged, Reading, Drawn
<1>7. Genuine(root) /\ page.digest \in root.digests
  BY <1>2, <1>3 DEF Inv, RootFound
<1>8. RootFound'
  BY <1>3, <1>7 DEF RootFound, Genuine, Stored, DigestsOf, shelf, Visible
<1>9. names' = names /\ Stored("bottle")' = Stored("bottle") /\ Before' = Before
      /\ began' = began /\ root' = root
  BY <1>3 DEF Stored, shelf, Visible, Before
<1>10. Before \subseteq Stored("bottle") /\ began.names \subseteq names
  BY DEF Inv, BeganEarlier, Before, Stored
<1>11. CASE FindManifestations
  BY <1>1, <1>3, <1>4, <1>5, <1>6, <1>8, <1>11
     DEF FindManifestations, Fact, Goto, PageTypes, Inv, DeprecationsRead, Later
<1>12. CASE ReadDeprecatedBy
  <2>1. facts'.deprecates = FindDeprecatedBy(page.digest) /\ page'.stage = "deprecates"
    BY <1>12, GotoTypes DEF ReadDeprecatedBy, Fact, FactTypes, Inv
  <2>2. Having("bottle", {page.digest}) = {root.bottle}
    BY <1>1, <1>7, RootAlone
  <2>3. UNION {Deprecates[b] : b \in {root.bottle}} = Deprecates[root.bottle]
    OBVIOUS
  <2>4. FindDeprecatedBy(page.digest) =
          {e \in names : e[1] \in Stored("bottle") /\ e \in Deprecates[root.bottle]}
    BY <2>2, <2>3 DEF FindDeprecatedBy
  <2>5. DeprecatesRead'
    BY <1>9, <1>10, <2>1, <2>4 DEF DeprecatesRead
  <2> QED
    BY <1>1, <1>4, <1>5, <1>6, <1>8, <2>1, <2>5 DEF Inv, DeprecationsRead, Later
<1>13. CASE ReadDeprecates
  <2>1. /\ facts'.deprecatedBy = FindDeprecates(page.digest)
        /\ facts'.deprecates = facts.deprecates
        /\ page.stage = "deprecates"
    BY <1>13 DEF ReadDeprecates, Fact, FactTypes, Inv
  <2>2. DeprecatesRead'
    BY <1>3, <1>9, <2>1 DEF Inv, DeprecationsRead, DeprecatesRead
  <2>3. DeprecatedByRead'
    BY <1>3, <1>9, <1>10, <2>1 DEF DeprecatedByRead, FindDeprecates
  <2> QED
    BY <1>1, <1>4, <1>5, <1>6, <1>8, <2>2, <2>3 DEF Inv, DeprecationsRead
<1>14. CASE BottlePulls \/ UserPulls
  <2>1. /\ facts'.deprecatedBy = facts.deprecatedBy
        /\ facts'.deprecates = facts.deprecates
        /\ page.stage \in Later
    <3>1. CASE BottlePulls
      BY <3>1 DEF BottlePulls, Fact, FactTypes, Inv, Later
    <3>2. CASE UserPulls
      <4>1. PICK f : facts' = [facts EXCEPT !.users = f]
        BY <3>2 DEF UserPulls
      <4> QED
        BY <3>2, <4>1 DEF UserPulls, Fact, FactTypes, Inv, Later
    <3> QED
      BY <1>14, <3>1, <3>2
  <2>2. DeprecatesRead'
    BY <1>3, <1>9, <2>1 DEF Inv, DeprecationsRead, DeprecatesRead
  <2>3. DeprecatedByRead'
    BY <1>3, <1>9, <2>1 DEF Inv, DeprecationsRead, DeprecatedByRead
  <2> QED
    BY <1>1, <1>4, <1>5, <1>6, <1>8, <2>2, <2>3 DEF Inv, DeprecationsRead
<1> QED
  BY <1>11, <1>12, <1>13, <1>14

\* P is a generation and F the digests by which the next one is asked for.
Asks(F, P) ==
  /\ \A q \in P : Genuine(q) /\ F \cap q.digests # {}
  /\ \A d \in F : \E q \in P : d \in q.digests

\* The bottles asked for are those of the generation.
LEMMA AsksForBottles ==
  ASSUME names \subseteq Digest, NEW F, NEW P, Asks(F, P)
  PROVE  Having("bottle", F) = {q.bottle : q \in P}
<1>1. ASSUME NEW o \in Having("bottle", F) PROVE \E q \in P : q.bottle = o
  <2>1. PICK d \in DigestsOf(o) : d \in F
    BY <1>1 DEF Having
  <2>2. PICK q \in P : d \in q.digests /\ q.digests \subseteq DigestsOf(q.bottle)
    BY <2>1 DEF Asks, Genuine
  <2> QED
    BY <2>1, <2>2 DEF DigestsOf
<1>2. ASSUME NEW q \in P PROVE q.bottle \in Having("bottle", F)
  BY DEF Asks, Genuine, Having
<1> QED
  BY <1>1, <1>2

\* FindParents finds those bottles that a source of the generation names, and
\* all of them.
LEMMA ParentsFollow ==
  ASSUME names \subseteq Digest, NEW F, NEW P, Asks(F, P)
  PROVE  /\ \A b \in ParentsOf(F) : \E q \in P : \E s \in Sources[q.bottle] :
              s.to \in DigestsOf(b)
         /\ \A q \in P : \A s \in Sources[q.bottle] :
              s.to \in names /\ s.to[1] \in Stored("bottle") => s.to[1] \in ParentsOf(F)
<1>1. Having("bottle", F) = {q.bottle : q \in P}
  BY AsksForBottles
<1>2. ASSUME NEW b \in ParentsOf(F)
      PROVE  \E q \in P : \E s \in Sources[q.bottle] : s.to \in DigestsOf(b)
  BY <1>1 DEF ParentsOf
<1>3. ASSUME NEW q \in P, NEW s \in Sources[q.bottle],
             s.to \in names, s.to[1] \in Stored("bottle")
      PROVE  s.to[1] \in ParentsOf(F)
  BY <1>1, <1>3 DEF ParentsOf, DigestsOf
<1> QED
  BY <1>2, <1>3

\* FindChildren finds all bottles that have one of the generation as a source.
LEMMA ChildrenFollow ==
  ASSUME names \subseteq Digest, NEW F, NEW P, Asks(F, P),
         NEW q \in P, NEW c \in Stored("bottle"), NEW s \in Sources[c],
         s.to \in names, s.to[1] = q.bottle
  PROVE  c \in ChildrenOf(F)
<1>1. PICK d \in F : d \in q.digests /\ q.digests \subseteq DigestsOf(q.bottle)
  BY DEF Asks, Genuine
<1>2. d \in F \cap names /\ d[1] = q.bottle
  BY <1>1 DEF DigestsOf
<1> QED
  BY <1>2 DEF ChildrenOf, DigestsOf

\* A digest of a known bottle that is fed to the next generation.
LEMMA LastGeneration ==
  ASSUME Genuine(root), NEW gens \in Seq(SUBSET Row), NEW P,
         P = IF gens = <<>> THEN {root} ELSE gens[Len(gens)],
         \A r \in P : Genuine(r)
  PROVE  Asks(Frontier(gens), P)
<1>1. CASE gens = <<>>
  BY <1>1 DEF Asks, Frontier, Genuine
<1>2. CASE gens # <<>>
  <2>1. Frontier(gens) = AllDigests(P)
    BY <1>2 DEF Frontier
  <2>2. \A d : d \in AllDigests(P) <=> \E q \in P : d \in q.digests
    BY DEF AllDigests
  <2>3. \A q \in P : q.name \in q.digests /\ q.name \in AllDigests(P)
    BY <2>2 DEF Genuine
  <2> QED
    BY <2>1, <2>2, <2>3 DEF Asks
<1> QED
  BY <1>1, <1>2

\* The lines that go through one more generation are those that went through
\* the generations before, and one step further.
LEMMA LineShorter ==
  ASSUME NEW N \in Nat \ {0}, NEW line \in [0..N -> began.visible]
  PROVE  \E sub \in [0..(N - 1) -> began.visible] :
           /\ \A i \in 0..(N - 1) : sub[i] = line[i]
           /\ LineUp(N, line) => LineUp(N - 1, sub)
           /\ LineDown(N, line) => LineDown(N - 1, sub)
<1> DEFINE sub == [i \in 0..(N - 1) |-> line[i]]
<1>1. sub \in [0..(N - 1) -> began.visible] /\ \A i \in 0..(N - 1) : sub[i] = line[i]
  OBVIOUS
<1> HIDE DEF sub
<1>2. \A i \in 0..((N - 1) - 1) : i \in 0..(N - 1) /\ i + 1 \in 0..(N - 1)
  OBVIOUS
<1>3. sub[0] = line[0]
  BY <1>1
<1>4. LineUp(N, line) => LineUp(N - 1, sub)
  BY <1>1, <1>2, <1>3 DEF LineUp
<1>5. LineDown(N, line) => LineDown(N - 1, sub)
  BY <1>1, <1>2, <1>3 DEF LineDown
<1> QED
  BY <1>1, <1>4, <1>5

\* What a further generation leaves as it was.
LEMMA OneMore ==
  ASSUME TypeOK', Inv, FindParents \/ FindChildren
  PROVE  /\ UNCHANGED <<shelf, page, root, facts, graph, began>>
         /\ names' = names /\ began' = began /\ root' = root /\ page' = page
         /\ \A r : Genuine(r) => Genuine(r)'
         /\ BeganEarlier' /\ RootFound' /\ DeprecationsRead'
         /\ UnknownThen' /\ EveryAncestorPoints' /\ Drawn'
         /\ Genuine(root) /\ names \subseteq Digest
         /\ Before \subseteq Stored("bottle") /\ began.names \subseteq names
<1>1. UNCHANGED <<shelf, page, root, facts, graph, began>>
      /\ page.stage \in {"ancestors", "descendants"}
  BY DEF FindParents, FindChildren
<1>2. names' = names /\ Visible' = Visible
  BY <1>1 DEF shelf, Visible
<1>3. \A r : Genuine(r) => Genuine(r)'
  BY <1>2 DEF Genuine, Stored, DigestsOf
<1>4. BeganEarlier' /\ RootFound'
  BY <1>1, <1>2, <1>3 DEF Inv, BeganEarlier, RootFound
<1>5. DeprecationsRead'
  BY <1>1, <1>2 DEF Inv, DeprecationsRead, DeprecatesRead, DeprecatedByRead, Before, Stored
<1>6. UnknownThen' /\ EveryAncestorPoints'
  BY <1>1, GraphAsBefore
<1>7. Drawn'
  BY <1>1 DEF Drawn
<1>8. Genuine(root)
  BY <1>1 DEF Inv, RootFound, Reading
<1>9. names \subseteq Digest /\ Before \subseteq Stored("bottle") /\ began.names \subseteq names
  BY DEF Inv, TypeOK, ShelfTypeOK, BeganEarlier, Before, Stored
<1> QED
  BY <1>1, <1>2, <1>3, <1>4, <1>5, <1>6, <1>7, <1>8, <1>9

LEMMA FindParentsInv ==
  ASSUME Inv, FindParents
  PROVE  Inv'
<1> USE TypesInParts
<1>1. TypeOK'
  BY FindRelativesTypes DEF Inv
<1>2. page.stage = "ancestors" /\ Len(lineage.up) < page.up
  BY DEF FindParents
<1>3. PICK N : N = Len(lineage.up) + 1
  OBVIOUS
<1>4. PICK F : F = Frontier(lineage.up)
  OBVIOUS
<1>5. PICK P : P = PriorUp(N)
  OBVIOUS
<1>6. PICK B : B = ParentsOf(F)
  OBVIOUS
<1>7. PICK gen \in Listings(B) : lineage' = [lineage EXCEPT !.up = Append(@, gen)]
  BY <1>4, <1>6 DEF FindParents
<1>8. B \subseteq Contents /\ B \subseteq Stored("bottle")
  BY <1>6, QueryTypes DEF Inv, ParentsOf
<1>9. /\ gen \in SUBSET Row
      /\ \A r \in gen : r.bottle \in B /\ r.digests = DigestsOf(r.bottle)
                        /\ r.name \in r.digests
      /\ \A c \in B : \E r \in gen : r.bottle = c
  <2>1. names \subseteq Digest
    BY <1>1, OneMore
  <2> QED
    BY <1>7, <1>8, <2>1, ListingRows
<1>10. lineage.up \in Seq(SUBSET Row) /\ N \in Nat \ {0} /\ Len(lineage.up) \in Nat
  BY <1>3 DEF Inv, LineageTypes
<1>11. /\ lineage'.up = Append(lineage.up, gen) /\ lineage'.down = lineage.down
  BY <1>7 DEF Inv, LineageTypes
<1>12. /\ Len(lineage'.up) = N /\ lineage'.up[N] = gen
       /\ \A n \in 1..(N - 1) : lineage'.up[n] = lineage.up[n]
  BY <1>3, <1>9, <1>10, <1>11, AppendTypes
<1>13. root' = root /\ began' = began /\ page' = page /\ names' = names
  BY <1>1, OneMore
<1>14. \A n \in 1..N : PriorUp(n)' = PriorUp(n)
  BY <1>10, <1>12, <1>13 DEF PriorUp
<1>15. \A q \in P : Genuine(q)
  BY <1>1, <1>3, <1>5, <1>10, OneMore DEF Inv, RowsGenuine, PriorUp
<1>16. Asks(F, P)
  <2>1. P = IF lineage.up = <<>> THEN {root} ELSE lineage.up[Len(lineage.up)]
    BY <1>3, <1>5, <1>10 DEF PriorUp
  <2> QED
    BY <1>1, <1>4, <1>10, <1>15, <2>1, OneMore, LastGeneration
<1>17. /\ \A b \in B : \E q \in P : \E s \in Sources[q.bottle] : s.to \in DigestsOf(b)
       /\ \A q \in P : \A s \in Sources[q.bottle] :
            s.to \in names /\ s.to[1] \in Stored("bottle") => s.to[1] \in B
  BY <1>1, <1>6, <1>16, OneMore, ParentsFollow
<1>18. Before \subseteq Stored("bottle") /\ began.names \subseteq names
  BY <1>1, OneMore
<1>19. \A n \in 1..N : n = N \/ n \in 1..(N - 1)
  BY <1>10
<1>20. N - 1 = Len(lineage.up)
  BY <1>3, <1>10
<1>21. RowsGenuine'
  <2>1. \A r \in gen : Genuine(r)'
    BY <1>1, <1>8, <1>9, OneMore DEF Genuine
  <2>2. \A n \in 1..N : \A r \in lineage'.up[n] : Genuine(r)'
    BY <1>1, <1>12, <1>19, <1>20, <2>1, OneMore DEF Inv, RowsGenuine
  <2>3. \A n \in 1..Len(lineage'.down) : \A r \in lineage'.down[n] : Genuine(r)'
    BY <1>1, <1>11, OneMore DEF Inv, RowsGenuine
  <2> QED
    BY <1>12, <2>2, <2>3 DEF RowsGenuine
<1>22. Sourced'
  <2>1. \A r \in gen : \E q \in P : \E s \in Sources[q.bottle] : s.to \in r.digests
    BY <1>9, <1>17
  <2>2. \A n \in 1..N : \A r \in lineage'.up[n] :
          \E q \in PriorUp(n) : \E s \in Sources[q.bottle] : s.to \in r.digests
    BY <1>5, <1>12, <1>19, <1>20, <2>1 DEF Inv, Sourced
  <2> QED
    BY <1>12, <1>14, <2>2 DEF Sourced
<1>23. Closed'
  <2>1. ASSUME NEW q \in P, NEW s \in Sources[q.bottle],
               s.to \in began.names, s.to[1] \in Before
        PROVE  s.to \in AllDigests(gen)
    <3>1. PICK r \in gen : r.bottle = s.to[1]
      BY <1>9, <1>17, <1>18, <2>1
    <3>2. s.to \in r.digests
      BY <1>9, <1>18, <2>1, <3>1 DEF DigestsOf
    <3> QED
      BY <3>2 DEF AllDigests
  <2>2. \A n \in 1..N : \A q \in PriorUp(n) : \A s \in Sources[q.bottle] :
          s.to \in began.names /\ s.to[1] \in Before => s.to \in AllDigests(lineage'.up[n])
    BY <1>5, <1>12, <1>19, <1>20, <2>1 DEF Inv, Closed
  <2> QED
    BY <1>12, <1>13, <1>14, <2>2 DEF Closed, Before
<1>24. LinesUp'
  <2>1. ASSUME NEW line \in [0..N -> began.visible], LineUp(N, line)
        PROVE  \E r \in gen : r.bottle = line[N]
    <3>1. PICK sub \in [0..(N - 1) -> began.visible] :
            (\A i \in 0..(N - 1) : sub[i] = line[i]) /\ LineUp(N - 1, sub)
      BY <1>10, <2>1, LineShorter
    <3>2. \E q \in P : q.bottle = line[N - 1]
      <4>1. CASE N = 1
        BY <1>5, <2>1, <4>1 DEF LineUp, PriorUp
      <4>2. CASE N # 1
        <5>1. N - 1 \in 1..Len(lineage.up) /\ N - 1 \in 0..(N - 1)
          BY <1>10, <1>20, <4>2
        <5>2. \E q \in lineage.up[N - 1] : q.bottle = sub[N - 1]
          BY <3>1, <5>1 DEF Inv, LinesUp
        <5> QED
          BY <1>5, <3>1, <4>2, <5>1, <5>2 DEF PriorUp
      <4> QED
        BY <4>1, <4>2
    <3>3. Fed(line[N], line[N - 1])
      <4>1. N - 1 \in 0..(N - 1) /\ (N - 1) + 1 = N
        BY <1>10
      <4> QED
        BY <2>1, <4>1 DEF LineUp
    <3>4. line[N] \in Before
          /\ \E s \in Sources[line[N - 1]] : s.to \in began.names /\ s.to[1] = line[N]
      BY <3>3 DEF Fed, Before
    <3>5. line[N] \in B
      BY <1>17, <1>18, <3>2, <3>4
    <3> QED
      BY <1>9, <3>5
  <2>2. \A n \in 1..N : \A line \in [0..n -> began.visible] :
          LineUp(n, line) => \E r \in lineage'.up[n] : r.bottle = line[n]
    BY <1>12, <1>19, <1>20, <2>1 DEF Inv, LinesUp
  <2>3. \A n, line : LineUp(n, line)' <=> LineUp(n, line)
    BY <1>13 DEF LineUp, Fed
  <2> QED
    BY <1>12, <1>13, <2>2, <2>3 DEF LinesUp
<1>25. LinesDown'
  <2>1. \A n, line : LineDown(n, line)' <=> LineDown(n, line)
    BY <1>13 DEF LineDown, Fed
  <2> QED
    BY <1>11, <1>13, <2>1 DEF Inv, LinesDown
<1>26. Staged'
  BY <1>2, <1>13, OneMore, <1>1 DEF Inv, Staged, Reading
<1> QED
  BY <1>1, <1>21, <1>22, <1>23, <1>24, <1>25, <1>26, OneMore DEF Inv

LEMMA FindChildrenInv ==
  ASSUME Inv, FindChildren
  PROVE  Inv'
<1> USE TypesInParts
<1>1. TypeOK'
  BY FindRelativesTypes DEF Inv
<1>2. page.stage = "descendants" /\ Len(lineage.down) < page.down
  BY DEF FindChildren
<1>3. PICK N : N = Len(lineage.down) + 1
  OBVIOUS
<1>4. PICK F : F = Frontier(lineage.down)
  OBVIOUS
<1>5. PICK P : P = PriorDown(N)
  OBVIOUS
<1>6. PICK B : B = ChildrenOf(F)
  OBVIOUS
<1>7. PICK gen \in Listings(B) : lineage' = [lineage EXCEPT !.down = Append(@, gen)]
  BY <1>4, <1>6 DEF FindChildren
<1>8. B \subseteq Contents /\ B \subseteq Stored("bottle")
  BY <1>6, QueryTypes DEF Inv, ChildrenOf
<1>9. /\ gen \in SUBSET Row
      /\ \A r \in gen : r.bottle \in B /\ r.digests = DigestsOf(r.bottle)
                        /\ r.name \in r.digests
      /\ \A c \in B : \E r \in gen : r.bottle = c
  <2>1. names \subseteq Digest
    BY <1>1, OneMore
  <2> QED
    BY <1>7, <1>8, <2>1, ListingRows
<1>10. lineage.down \in Seq(SUBSET Row) /\ N \in Nat \ {0} /\ Len(lineage.down) \in Nat
  BY <1>3 DEF Inv, LineageTypes
<1>11. /\ lineage'.down = Append(lineage.down, gen) /\ lineage'.up = lineage.up
  BY <1>7 DEF Inv, LineageTypes
<1>12. /\ Len(lineage'.down) = N /\ lineage'.down[N] = gen
       /\ \A n \in 1..(N - 1) : lineage'.down[n] = lineage.down[n]
  BY <1>3, <1>9, <1>10, <1>11, AppendTypes
<1>13. root' = root /\ began' = began /\ page' = page /\ names' = names
  BY <1>1, OneMore
<1>14. \A q \in P : Genuine(q)
  BY <1>1, <1>3, <1>5, <1>10, OneMore DEF Inv, RowsGenuine, PriorDown
<1>15. Asks(F, P)
  <2>1. P = IF lineage.down = <<>> THEN {root} ELSE lineage.down[Len(lineage.down)]
    BY <1>3, <1>5, <1>10 DEF PriorDown
  <2> QED
    BY <1>1, <1>4, <1>10, <1>14, <2>1, OneMore, LastGeneration
<1>16. \A q \in P : \A c \in Stored("bottle") : \A s \in Sources[c] :
         s.to \in names /\ s.to[1] = q.bottle => c \in B
  BY <1>1, <1>6, <1>15, OneMore, ChildrenFollow
<1>17. Before \subseteq Stored("bottle") /\ began.names \subseteq names
  BY <1>1, OneMore
<1>18. \A n \in 1..N : n = N \/ n \in 1..(N - 1)
  BY <1>10
<1>19. N - 1 = Len(lineage.down)
  BY <1>3, <1>10
<1>20. RowsGenuine'
  <2>1. \A r \in gen : Genuine(r)'
    BY <1>1, <1>8, <1>9, OneMore DEF Genuine
  <2>2. \A n \in 1..N : \A r \in lineage'.down[n] : Genuine(r)'
    BY <1>1, <1>12, <1>18, <1>19, <2>1, OneMore DEF Inv, RowsGenuine
  <2>3. \A n \in 1..Len(lineage'.up) : \A r \in lineage'.up[n] : Genuine(r)'
    BY <1>1, <1>11, OneMore DEF Inv, RowsGenuine
  <2> QED
    BY <1>12, <2>2, <2>3 DEF RowsGenuine
<1>21. Sourced' /\ Closed'
  BY <1>11, <1>13 DEF Inv, Sourced, Closed, PriorUp, Before
<1>22. LinesUp'
  <2>1. \A n, line : LineUp(n, line)' <=> LineUp(n, line)
    BY <1>13 DEF LineUp, Fed
  <2> QED
    BY <1>11, <1>13, <2>1 DEF Inv, LinesUp
<1>23. LinesDown'
  <2>1. ASSUME NEW line \in [0..N -> began.visible], LineDown(N, line)
        PROVE  \E r \in gen : r.bottle = line[N]
    <3>1. PICK sub \in [0..(N - 1) -> began.visible] :
            (\A i \in 0..(N - 1) : sub[i] = line[i]) /\ LineDown(N - 1, sub)
      BY <1>10, <2>1, LineShorter
    <3>2. \E q \in P : q.bottle = line[N - 1]
      <4>1. CASE N = 1
        BY <1>5, <2>1, <4>1 DEF LineDown, PriorDown
      <4>2. CASE N # 1
        <5>1. N - 1 \in 1..Len(lineage.down) /\ N - 1 \in 0..(N - 1)
          BY <1>10, <1>19, <4>2
        <5>2. \E q \in lineage.down[N - 1] : q.bottle = sub[N - 1]
          BY <3>1, <5>1 DEF Inv, LinesDown
        <5> QED
          BY <1>5, <3>1, <4>2, <5>1, <5>2 DEF PriorDown
      <4> QED
        BY <4>1, <4>2
    <3>3. Fed(line[N - 1], line[N])
      <4>1. N - 1 \in 0..(N - 1) /\ (N - 1) + 1 = N
        BY <1>10
      <4> QED
        BY <2>1, <4>1 DEF LineDown
    <3>4. line[N] \in Before
          /\ \E s \in Sources[line[N]] : s.to \in began.names /\ s.to[1] = line[N - 1]
      BY <3>3 DEF Fed, Before
    <3>5. line[N] \in B
      BY <1>16, <1>17, <3>2, <3>4
    <3> QED
      BY <1>9, <3>5
  <2>2. \A n \in 1..N : \A line \in [0..n -> began.visible] :
          LineDown(n, line) => \E r \in lineage'.down[n] : r.bottle = line[n]
    BY <1>12, <1>18, <1>19, <2>1 DEF Inv, LinesDown
  <2>3. \A n, line : LineDown(n, line)' <=> LineDown(n, line)
    BY <1>13 DEF LineDown, Fed
  <2> QED
    BY <1>12, <1>13, <2>2, <2>3 DEF LinesDown
<1>24. Staged'
  BY <1>1, <1>2, <1>11, <1>13, OneMore DEF Inv, Staged, Reading
<1> QED
  BY <1>1, <1>20, <1>21, <1>22, <1>23, <1>24, OneMore DEF Inv

\* What a step leaves true that only draws.
LEMMA DrawingStays ==
  ASSUME Inv, UNCHANGED <<shelf, root, facts, lineage, began>>,
         page.stage \in {"children", "parents"}, page'.digest = page.digest,
         page'.stage \in {"children", "parents"}, graph \subseteq graph'
  PROVE  /\ (BeganEarlier /\ RowsGenuine /\ Sourced /\ Closed /\ LinesUp /\ LinesDown)'
         /\ RootFound' /\ DeprecationsRead'
         /\ \A r : Covered(r) => Covered(r)'
         /\ Genuine(root)
<1>1. (BeganEarlier /\ RowsGenuine /\ Sourced /\ Closed /\ LinesUp /\ LinesDown)'
  BY FoundStays
<1>2. names' = names /\ Stored("bottle")' = Stored("bottle") /\ Before' = Before
      /\ began' = began /\ root' = root /\ facts' = facts
  BY DEF Stored, shelf, Visible, Before
<1>3. Genuine(root) /\ page.digest \in root.digests
  BY DEF Inv, RootFound
<1>4. RootFound'
  BY <1>2, <1>3 DEF RootFound, Genuine, DigestsOf
<1>5. DeprecatesRead /\ DeprecatedByRead
  BY DEF Inv, DeprecationsRead, Later
<1>6. DeprecatesRead' /\ DeprecatedByRead'
  BY <1>2, <1>5 DEF DeprecatesRead, DeprecatedByRead
<1>7. DeprecationsRead'
  BY <1>6 DEF DeprecationsRead
<1>8. \A r : Covered(r) => Covered(r)'
  BY DEF Covered
<1> QED
  BY <1>1, <1>3, <1>4, <1>7, <1>8

\* A row with no node is among the undrawn.
LEMMA CoveredOrNew ==
  ASSUME NEW gen, NEW r \in gen
  PROVE  Covered(r) \/ r \in Undrawn(gen)
BY DEF Covered, Undrawn, Names

LEMMA DrawChildrenInv ==
  ASSUME Inv, DrawChildren
  PROVE  Inv'
<1> USE TypesInParts, ChildrenDrawn
<1>1. PICK n : n = page.at
  OBVIOUS
<1>2. /\ TypeOK'
      /\ \A m \in DrawnDown(n) : m.at = n /\ m.kind = "relative"
      /\ \A r \in NewDown(n) : \E m \in DrawnDown(n) : m.name = r.name
  BY <1>1, ChildrenTypes DEF Inv
<1>3. /\ n \in Nat /\ n > 0 /\ n <= page.down /\ Len(lineage.down) = page.down
      /\ page.down \in Nat
  BY <1>1 DEF Inv, Staged, PageTypes
<1>4. page'.at = n - 1 /\ page'.stage = "children" /\ page'.digest = page.digest
      /\ page'.up = page.up /\ page'.down = page.down
  BY <1>1 DEF Inv, PageTypes
<1>5. graph' = graph \cup DrawnDown(n)
  BY <1>1
<1>6. /\ (BeganEarlier /\ RowsGenuine /\ Sourced /\ Closed /\ LinesUp /\ LinesDown)'
      /\ RootFound' /\ DeprecationsRead'
      /\ \A r : Covered(r) => Covered(r)'
  BY <1>4, <1>5, DrawingStays
<1>7. Staged'
  BY <1>3, <1>4 DEF Inv, Staged, Reading
<1>8. Drawn'
  <2>1. ASSUME NEW r \in lineage.down[n] PROVE Covered(r)'
    <3>1. r.name \in r.digests
      BY <1>3 DEF Inv, RowsGenuine, Genuine
    <3>2. ASSUME r \in NewDown(n) PROVE Covered(r)'
      BY <1>2, <1>5, <3>1, <3>2 DEF Covered
    <3>3. r \in NewDown(n) \/ Covered(r)
      BY CoveredOrNew DEF NewDown
    <3> QED
      BY <1>6, <3>2, <3>3
  <2>2. DownCovered(n + 1)
    BY <1>1 DEF Inv, Drawn
  <2>3. \A k \in n..Len(lineage.down) : k = n \/ k \in (n + 1)..Len(lineage.down)
    BY <1>3
  <2>4. \A k \in n..Len(lineage.down) : \A r \in lineage.down[k] : Covered(r)'
    BY <1>6, <2>1, <2>2, <2>3 DEF DownCovered
  <2>5. DownCovered(page.at + 1)'
    <3>1. page'.at + 1 = n /\ lineage' = lineage
      BY <1>3, <1>4
    <3> QED
      BY <2>4, <3>1 DEF DownCovered
  <2> QED
    BY <1>4, <2>5 DEF Drawn
<1>9. UnknownThen'
  BY <1>2, <1>5 DEF Inv, UnknownThen, Before
<1>10. EveryAncestorPoints'
  BY <1>2, <1>3, <1>5 DEF Inv, EveryAncestorPoints
<1> QED
  BY <1>2, <1>6, <1>7, <1>8, <1>9, <1>10 DEF Inv

LEMMA DrawRootInv ==
  ASSUME Inv, DrawRoot
  PROVE  Inv'
<1> USE TypesInParts, RootDrawn
<1>1. /\ TypeOK'
      /\ RootNode.at = 0 /\ RootNode.kind = "main" /\ RootNode.name = root.name
  BY RootTypes DEF Inv
<1>2. page'.at = 1 /\ page'.stage = "parents" /\ page'.digest = page.digest
      /\ page'.up = page.up /\ page'.down = page.down /\ page.up \in Nat
  <2>1. PageTypes /\ page' = [page EXCEPT !.stage = "parents", !.at = 1]
    BY DEF Inv
  <2> QED
    BY <2>1 DEF PageTypes
<1>3. graph' = graph \cup {RootNode}
  OBVIOUS
<1>4. /\ (BeganEarlier /\ RowsGenuine /\ Sourced /\ Closed /\ LinesUp /\ LinesDown)'
      /\ RootFound' /\ DeprecationsRead'
      /\ \A r : Covered(r) => Covered(r)'
      /\ Genuine(root)
  BY <1>2, <1>3, DrawingStays
<1>5. Staged'
  BY <1>2 DEF Inv, Staged, Reading
<1>6. Drawn'
  <2>1. DownCovered(1)
    BY DEF Inv, Drawn
  <2>2. DownCovered(1)'
    BY <1>4, <2>1 DEF DownCovered
  <2>3. Covered(root)'
    BY <1>1, <1>3, <1>4 DEF Covered, Genuine
  <2>4. UpCovered(page.at - 1)'
    BY <1>2 DEF UpCovered
  <2> QED
    BY <1>2, <2>2, <2>3, <2>4 DEF Drawn
<1>7. UnknownThen'
  BY <1>1, <1>3 DEF Inv, UnknownThen, Before
<1>8. EveryAncestorPoints'
  BY <1>1, <1>3 DEF Inv, EveryAncestorPoints
<1> QED
  BY <1>1, <1>4, <1>5, <1>6, <1>7, <1>8 DEF Inv

\* A source of a row that has a node is drawn with an arrow to it.
LEMMA ArrowThere ==
  ASSUME NEW n, NEW ids, NEW q \in PriorUp(n), Covered(q),
         NEW s \in Sources[q.bottle], s.to \in ids
  PROVE  LinksUp(n, ids) # {}
<1>1. PICK m \in graph : m.name \in q.digests
  BY DEF Covered
<1>2. [label |-> s.name, to |-> m.name] \in LinksUp(n, ids)
  BY <1>1 DEF LinksUp, LinksTo, Names
<1> QED
  BY <1>2

LEMMA DrawParentsInv ==
  ASSUME Inv, DrawParents
  PROVE  Inv'
<1> USE TypesInParts, ParentsDrawn
<1>1. PICK n : n = page.at
  OBVIOUS
<1>2. TypeOK'
  BY ParentsTypes DEF Inv
<1>3. /\ n \in 1..Len(lineage.up) /\ n \in Nat /\ page.up = Len(lineage.up)
      /\ page.up \in Nat /\ 0 < n
  BY <1>1, ParentNodes DEF Inv, Staged, PageTypes
<1>4. page'.at = n + 1 /\ page'.stage = "parents" /\ page'.digest = page.digest
      /\ page'.up = page.up /\ page'.down = page.down
  BY <1>1 DEF Inv, PageTypes
<1>5. graph' = graph \cup DrawnUp(n) \cup DrawnOthers(n)
  BY <1>1
<1>6. /\ (BeganEarlier /\ RowsGenuine /\ Sourced /\ Closed /\ LinesUp /\ LinesDown)'
      /\ RootFound' /\ DeprecationsRead'
      /\ \A r : Covered(r) => Covered(r)'
  BY <1>4, <1>5, DrawingStays
<1>7. Staged'
  BY <1>3, <1>4 DEF Inv, Staged, Reading
<1>8. DownCovered(1) /\ Covered(root) /\ UpCovered(n - 1)
  BY <1>1 DEF Inv, Drawn
<1>9. \A q \in PriorUp(n) : Covered(q)
  <2>1. CASE n = 1
    BY <1>8, <2>1 DEF PriorUp
  <2>2. CASE n # 1
    <3>1. n - 1 \in 1..(n - 1)
      BY <1>3, <2>2
    <3> QED
      BY <1>8, <2>2, <3>1 DEF PriorUp, UpCovered
  <2> QED
    BY <2>1, <2>2
<1>10. ASSUME NEW m \in DrawnUp(n)
       PROVE  /\ m.kind = "relative" /\ m.at < 0 /\ m.links # {}
              /\ \E r \in Undrawn(lineage.up[n]) : m.name = r.name
  <2>1. PICK r \in Undrawn(lineage.up[n]) :
          m = NodeOf(r.name, "relative", 0 - n, LinksUp(n, r.digests))
    BY DEF DrawnUp
  <2>2. /\ m.kind = "relative" /\ m.at = 0 - n /\ m.name = r.name
        /\ m.links = LinksUp(n, r.digests)
    BY <1>1, <2>1, ParentNodes DEF Inv
  <2>3. PICK q \in PriorUp(n) : \E s \in Sources[q.bottle] : s.to \in r.digests
    BY <1>3, <2>1 DEF Inv, Sourced, Undrawn
  <2>4. LinksUp(n, r.digests) # {}
    BY <1>9, <2>3, ArrowThere
  <2> QED
    BY <1>3, <2>2, <2>4
<1>11. ASSUME NEW m \in DrawnOthers(n)
       PROVE  /\ m.at < 0 /\ m.links # {}
              /\ m.name \in began.names => m.name[1] \notin Before
  <2>1. PICK o \in Others(PriorUp(n), lineage.up[n]) :
          m = OtherNode(o, 0 - n, LinksUp(n, {o.to}))
    BY DEF DrawnOthers
  <2>2. m.at = 0 - n /\ m.name = o.to /\ m.links = LinksUp(n, {o.to})
    BY <1>1, <2>1, ParentNodes DEF Inv
  <2>3. o.to \notin AllDigests(lineage.up[n])
    BY DEF Others
  <2>4. PICK q \in PriorUp(n) : \E s \in Sources[q.bottle] : s.to = o.to
    <3>1. PICK q \in PriorUp(n) :
            o \in {[by |-> q.bottle, name |-> s.name, to |-> s.to] :
                   s \in Sources[q.bottle]}
      BY DEF Others, Origins
    <3>2. \E s \in Sources[q.bottle] : s.to = o.to
      BY <3>1
    <3> QED
      BY <3>2
  <2>5. LinksUp(n, {o.to}) # {}
    BY <1>9, <2>4, ArrowThere
  <2>6. o.to \in began.names => o.to[1] \notin Before
    BY <1>3, <2>3, <2>4 DEF Inv, Closed
  <2>7. 0 - n < 0
    BY <1>3
  <2> QED
    BY <2>2, <2>5, <2>6, <2>7
<1>12. Drawn'
  <2>1. ASSUME NEW r \in lineage.up[n] PROVE Covered(r)'
    <3>1. r.name \in r.digests
      BY <1>3 DEF Inv, RowsGenuine, Genuine
    <3>2. ASSUME r \in Undrawn(lineage.up[n]) PROVE Covered(r)'
      <4>1. NodeOf(r.name, "relative", 0 - n, LinksUp(n, r.digests)) \in graph'
        BY <1>5, <3>2 DEF DrawnUp
      <4>2. NodeOf(r.name, "relative", 0 - n, LinksUp(n, r.digests)).name = r.name
        BY <1>1, <3>2, ParentNodes DEF Inv
      <4> QED
        BY <3>1, <4>1, <4>2 DEF Covered
    <3> QED
      BY <1>6, <3>2, CoveredOrNew
  <2>2. \A k \in 1..n : k = n \/ k \in 1..(n - 1)
    BY <1>3
  <2>3. \A k \in 1..n : \A r \in lineage.up[k] : Covered(r)'
    BY <1>6, <1>8, <2>1, <2>2 DEF UpCovered
  <2>4. UpCovered(page.at - 1)'
    <3>1. page'.at - 1 = n /\ lineage' = lineage
      BY <1>3, <1>4
    <3> QED
      BY <2>3, <3>1 DEF UpCovered
  <2>5. DownCovered(1)' /\ Covered(root)'
    BY <1>6, <1>8 DEF DownCovered
  <2> QED
    BY <1>4, <2>4, <2>5 DEF Drawn
<1>13. UnknownThen'
  <2>1. Before' = Before /\ began' = began
    BY DEF Before
  <2>2. \A m \in graph' : m.kind = "external" /\ m.name \in began.names =>
          m.name[1] \notin Before
    BY <1>5, <1>10, <1>11 DEF Inv, UnknownThen
  <2> QED
    BY <2>1, <2>2 DEF UnknownThen
<1>14. EveryAncestorPoints'
  BY <1>5, <1>10, <1>11 DEF Inv, EveryAncestorPoints
<1> QED
  BY <1>2, <1>6, <1>7, <1>12, <1>13, <1>14 DEF Inv

LEMMA NextInv == Inv /\ [Next]_vars => Inv'
<1> SUFFICES ASSUME Inv, [Next]_vars PROVE Inv'
  OBVIOUS
<1>1. ASSUME NEW q \in Asked, Request(q) PROVE Inv'
  BY <1>1, RequestInv
<1>2. CASE Read
  BY <1>2, FindBottleInv, FactInv, FindParentsInv, FindChildrenInv, MoveInv DEF Read
<1>3. CASE Draw
  BY <1>3, DrawChildrenInv, DrawRootInv, DrawParentsInv, MoveInv DEF Draw
<1>4. CASE Abandon
  BY <1>4, MoveInv
<1>5. CASE Grow
  BY <1>5, GrowInv
<1>6. CASE UNCHANGED vars
  <2>1. TypeOK'
    BY <1>6, NextTypes DEF Inv
  <2>2. /\ page' = page /\ facts' = facts /\ graph' = graph /\ root' = root
        /\ lineage' = lineage /\ UNCHANGED <<shelf, root, lineage, began>>
        /\ UNCHANGED <<graph, began>>
    BY <1>6 DEF vars
  <2>3. (BeganEarlier /\ RowsGenuine /\ Sourced /\ Closed /\ LinesUp /\ LinesDown)'
    BY <2>2, FoundStays
  <2>4. UnknownThen' /\ EveryAncestorPoints'
    BY <2>2, GraphAsBefore
  <2>5. Staged' /\ Drawn'
    BY <2>2 DEF Inv, Staged, Drawn, DownCovered, UpCovered, Covered
  <2>6. RootFound'
    BY <2>2 DEF Inv, RootFound, Genuine, Stored, DigestsOf, shelf, Visible
  <2>7. DeprecationsRead'
    BY <2>2 DEF Inv, DeprecationsRead, DeprecatesRead, DeprecatedByRead, Before,
                Stored, shelf, Visible
  <2> QED
    BY <2>1, <2>3, <2>4, <2>5, <2>6, <2>7 DEF Inv
<1> QED
  BY <1>1, <1>2, <1>3, <1>4, <1>5, <1>6 DEF Next, Handle

LEMMA InvHolds == Spec => []Inv
BY InitInv, NextInv, PTL DEF Spec

-----------------------------------------------------------------------------
(* Theorems *)

\* The tables, the request and what it has read keep their types, whatever is
\* uploaded between the statements.
THEOREM TypeCorrect == Spec => []TypeOK
<1>1. Inv => TypeOK
  BY DEF Inv
<1> QED
  BY <1>1, InvHolds, PTL

\* From every ancestor an arrow leads to a bottle that was drawn before, as the
\* comment of the drawing asks.  A row or a source is drawn because one of the
\* generation before has it as a source (Sourced), and that one has a node
\* (Drawn).
THEOREM AncestorsPoint == Spec => []EveryAncestorPoints
<1>1. Inv => EveryAncestorPoints
  BY DEF Inv
<1> QED
  BY <1>1, InvHolds, PTL

\* A page that is sent lists the digests in the bottle's own list that were on
\* record when the request began, and every digest of the bottles whose lists have
\* the digest asked for; and nothing that is not so.
THEOREM DeprecationsFound == Spec => []DeprecationsListed
<1>1. Inv => DeprecationsListed
  <2> SUFFICES ASSUME Inv, page.stage = "done" PROVE DeprecationsListed
    BY DEF DeprecationsListed
  <2>1. DeprecatesRead /\ DeprecatedByRead
    BY DEF Inv, DeprecationsRead, Later
  <2>2. \A e \in began.names :
          e[1] \in began.visible /\ Doc[e[1]].type = "bottle" <=> e[1] \in Before
    BY DEF Before
  <2> QED
    BY <2>1, <2>2 DEF DeprecationsListed, DeprecatesRead, DeprecatedByRead
<1> QED
  BY <1>1, InvHolds, PTL

\* A relative of whom the generations found have a row has a node, and one that
\* says what it is unless the bottle got a digest meanwhile.
LEMMA RowShown ==
  ASSUME Inv, NEW r, Genuine(r), Covered(r), r.bottle \in Before
  PROVE  Shown(r.bottle)
<1>1. PICK m \in graph : m.name \in r.digests
  BY DEF Covered
<1>2. m.name \in names /\ m.name \in Digest /\ m.name[1] = r.bottle
  BY <1>1 DEF Genuine, DigestsOf, Inv, TypeOK, ShelfTypeOK
<1>3. m.kind = "external" => Grew(r.bottle)
  BY <1>2 DEF Inv, UnknownThen, Grew
<1> QED
  BY <1>1, <1>2, <1>3 DEF Shown

\* Every relative on record when the request began, within the generations asked
\* for and by whichever aliases the relations were recorded, is shown: for any
\* graph of bottles, also when a bottle is reached in several ways, and for any
\* uploads between the statements.
THEOREM NoRelativeMissed == Spec => []NothingMissed
<1>1. Inv => NothingMissed
  <2> SUFFICES ASSUME Inv, page.stage = "done" PROVE NothingMissed
    BY DEF NothingMissed
  <2>1. /\ Len(lineage.up) = page.up /\ Len(lineage.down) = page.down
        /\ DownCovered(1) /\ UpCovered(page.up)
        /\ page.up \in Nat /\ page.down \in Nat
    <3>1. page.at = page.up + 1 /\ page.up \in Nat /\ page.down \in Nat
      BY TypesInParts DEF Inv, Staged, PageTypes
    <3>2. page.at - 1 = page.up
      BY <3>1
    <3> QED
      BY <3>1, <3>2 DEF Inv, Staged, Drawn
  <2>2. ASSUME NEW n \in 1..page.up, NEW line \in [0..n -> began.visible],
               line[0] = root.bottle, \A i \in 0..(n - 1) : Fed(line[i + 1], line[i])
        PROVE  Shown(line[n])
    <3>1. PICK r \in lineage.up[n] : r.bottle = line[n]
      BY <2>1, <2>2 DEF Inv, LinesUp, LineUp
    <3>2. Genuine(r) /\ Covered(r)
      BY <2>1 DEF Inv, RowsGenuine, UpCovered
    <3>3. n - 1 \in 0..(n - 1) /\ (n - 1) + 1 = n
      BY <2>1
    <3>4. line[n] \in Before
      BY <2>2, <3>3 DEF Fed, Before
    <3> QED
      BY <3>1, <3>2, <3>4, RowShown
  <2>3. ASSUME NEW n \in 1..page.down, NEW line \in [0..n -> began.visible],
               line[0] = root.bottle, \A i \in 0..(n - 1) : Fed(line[i], line[i + 1])
        PROVE  Shown(line[n])
    <3>1. PICK r \in lineage.down[n] : r.bottle = line[n]
      BY <2>1, <2>3 DEF Inv, LinesDown, LineDown
    <3>2. Genuine(r) /\ Covered(r)
      BY <2>1 DEF Inv, RowsGenuine, DownCovered
    <3>3. n - 1 \in 0..(n - 1) /\ (n - 1) + 1 = n
      BY <2>1
    <3>4. line[n] \in Before
      BY <2>3, <3>3 DEF Fed, Before
    <3> QED
      BY <3>1, <3>2, <3>4, RowShown
  <2> QED
    BY <2>2, <2>3 DEF NothingMissed
<1> QED
  BY <1>1, InvHolds, PTL

-----------------------------------------------------------------------------
(* The drawing: what else holds of the rows and of the nodes *)

HasSourceIn(x, S) == \E s \in Sources[x] : s.to \in Digest /\ s.to[1] \in S

\* The bottles made from c, and from those, and so on: they are in every set
\* that has all that is made from it or from c.
Heirs(c) == {S \in SUBSET Contents :
               \A x \in Contents : HasSourceIn(x, S \cup {c}) => x \in S}
Descendants(c) == {d \in Contents : \A S \in Heirs(c) : d \in S}

LEMMA DescendantsClosed ==
  ASSUME NEW c, NEW x \in Contents, HasSourceIn(x, Descendants(c) \cup {c})
  PROVE  x \in Descendants(c)
<1>1. ASSUME NEW S \in Heirs(c) PROVE x \in S
  <2>1. Descendants(c) \subseteq S
    BY DEF Descendants
  <2>2. HasSourceIn(x, S \cup {c})
    BY <2>1 DEF HasSourceIn
  <2> QED
    BY <2>2 DEF Heirs
<1> QED
  BY <1>1 DEF Descendants

\* No bottle is made from itself: of its descendants one would be the first,
\* and without that one the others would be all.
LEMMA NotItsOwn ==
  ASSUME NEW c \in Contents
  PROVE  c \notin Descendants(c)
<1> SUFFICES ASSUME c \in Descendants(c) PROVE FALSE
  OBVIOUS
<1>1. Descendants(c) \in SUBSET Contents /\ Descendants(c) # {}
  BY DEF Descendants
<1>2. PICK y \in Descendants(c) :
        \A s \in Sources[y] : s.to \in Digest => s.to[1] \notin Descendants(c)
  BY <1>1, SourcesAreOlder
<1>3. Descendants(c) \ {y} \in Heirs(c)
  <2> SUFFICES ASSUME NEW x \in Contents,
                      HasSourceIn(x, (Descendants(c) \ {y}) \cup {c})
               PROVE  x \in Descendants(c) \ {y}
    BY <1>1 DEF Heirs
  <2>1. HasSourceIn(x, Descendants(c) \cup {c})
    BY DEF HasSourceIn
  <2>2. x \in Descendants(c)
    BY <2>1, DescendantsClosed
  <2>3. x # y
    BY <1>2 DEF HasSourceIn
  <2> QED
    BY <2>2, <2>3
<1> QED
  BY <1>3 DEF Descendants

\* A row has the digests that there were when the request began.
Complete(r) == {d \in began.names : d[1] = r.bottle} \subseteq r.digests

RowsComplete ==
  /\ \A n \in 1..Len(lineage.up) : \A r \in lineage.up[n] : Complete(r)
  /\ \A n \in 1..Len(lineage.down) : \A r \in lineage.down[n] : Complete(r)

\* A generation has one row for each bottle.
Single(gen) == \A q, r \in gen : q.bottle = r.bottle => q = r

OneRowEach ==
  /\ \A n \in 1..Len(lineage.up) : Single(lineage.up[n])
  /\ \A n \in 1..Len(lineage.down) : Single(lineage.down[n])

Descending ==
  \A n \in 1..Len(lineage.down) : \A r \in lineage.down[n] :
    r.bottle \in Descendants(root.bottle)

\* The nodes drawn so far are to the right of those to come.
Placed ==
  /\ page.stage = "children" =>
       \A m \in graph : /\ m.kind = "relative"
                        /\ m.at > page.at /\ m.at <= page.down
                        /\ m.name[1] \in Descendants(root.bottle)
  /\ page.stage \in {"parents", "done"} => \A m \in graph : m.at > 0 - page.at

Named == \A m \in graph : m.kind \in {"main", "relative"} => m.name \in names

Laid == /\ RowsComplete /\ OneRowEach /\ Descending
        /\ Placed /\ Named /\ ArrowsGenuine /\ DrawnOnce

\* A step that finds nothing and draws nothing.
LEMMA QuietStep ==
  ASSUME Laid, UNCHANGED <<root, lineage, graph, began>>, names \subseteq names',
         \/ graph = {}
         \/ page'.stage = page.stage /\ page'.at = page.at /\ page'.down = page.down
         \/ page.stage = "parents" /\ page'.stage = "done" /\ page'.at = page.at
  PROVE  Laid'
<1>1. \A c : Grew(c) => Grew(c)'
  BY DEF Grew
<1>2. RowsComplete' /\ OneRowEach' /\ Descending'
  BY DEF Laid, RowsComplete, Complete, OneRowEach, Single, Descending
<1>3. Placed' /\ Named'
  BY DEF Laid, Placed, Named
<1>4. ArrowsGenuine' /\ DrawnOnce'
  BY <1>1 DEF Laid, ArrowsGenuine, DrawnOnce
<1> QED
  BY <1>2, <1>3, <1>4 DEF Laid

\* The rows that the statement for a further generation returns.
LEMMA FreshRows ==
  ASSUME Inv, NEW B \in SUBSET Contents, NEW gen \in Listings(B)
  PROVE  /\ gen \in SUBSET Row
         /\ \A r \in gen : r.bottle \in B /\ Complete(r)
         /\ Single(gen)
<1>1. names \subseteq Digest /\ began.names \subseteq names
  BY DEF Inv, TypeOK, ShelfTypeOK, BeganEarlier
<1>2. /\ gen \in SUBSET Row
      /\ \A r \in gen : r.bottle \in B /\ r.digests = DigestsOf(r.bottle)
  BY <1>1, ListingRows
<1>3. \A r \in gen : Complete(r)
  BY <1>1, <1>2 DEF Complete, DigestsOf
<1>4. PICK f \in [B -> names] : gen = {RowOf(c, f[c]) : c \in B}
  BY DEF Listings
<1>5. \A r \in gen : r = RowOf(r.bottle, f[r.bottle])
  BY <1>4 DEF RowOf
<1>6. Single(gen)
  BY <1>5 DEF Single
<1> QED
  BY <1>2, <1>3, <1>6

LEMMA FindParentsLaid ==
  ASSUME Inv, Laid, FindParents
  PROVE  Laid'
<1> USE TypesInParts
<1>1. PICK B : B = ParentsOf(Frontier(lineage.up))
  OBVIOUS
<1>2. PICK gen \in Listings(B) : lineage' = [lineage EXCEPT !.up = Append(@, gen)]
  BY <1>1 DEF FindParents
<1>3. B \subseteq Contents
  BY <1>1, QueryTypes DEF Inv
<1>4. /\ gen \in SUBSET Row /\ Single(gen)
      /\ \A r \in gen : r.bottle \in B /\ Complete(r)
  BY <1>2, <1>3, FreshRows
<1>5. PICK N : N = Len(lineage.up) + 1
  OBVIOUS
<1>6. lineage.up \in Seq(SUBSET Row) /\ Len(lineage.up) \in Nat
      /\ lineage'.up = Append(lineage.up, gen) /\ lineage'.down = lineage.down
  BY <1>2 DEF Inv, LineageTypes
<1>7. /\ Len(lineage'.up) = N /\ lineage'.up[N] = gen
      /\ \A n \in 1..Len(lineage.up) : lineage'.up[n] = lineage.up[n]
  BY <1>4, <1>5, <1>6, AppendTypes
<1>8. \A n \in 1..N : n = N \/ n \in 1..Len(lineage.up)
  BY <1>5, <1>6
<1>9. UNCHANGED <<page, root, graph, began>> /\ graph = {}
  BY DEF FindParents, Inv, Staged, Reading
<1>10. RowsComplete'
  <2>1. \A n \in 1..N : \A r \in lineage'.up[n] : Complete(r)
    BY <1>4, <1>7, <1>8 DEF Laid, RowsComplete
  <2> QED
    BY <1>6, <1>7, <1>9, <2>1 DEF Laid, RowsComplete, Complete
<1>11. OneRowEach'
  <2>1. \A n \in 1..N : Single(lineage'.up[n])
    BY <1>4, <1>7, <1>8 DEF Laid, OneRowEach
  <2> QED
    BY <1>6, <1>7, <2>1 DEF Laid, OneRowEach
<1>12. Descending'
  BY <1>6, <1>9 DEF Laid, Descending
<1>13. Placed' /\ Named' /\ ArrowsGenuine' /\ DrawnOnce'
  BY <1>9 DEF Placed, Named, ArrowsGenuine, DrawnOnce
<1> QED
  BY <1>10, <1>11, <1>12, <1>13 DEF Laid

LEMMA FindChildrenLaid ==
  ASSUME Inv, Laid, FindChildren
  PROVE  Laid'
<1> USE TypesInParts
<1>1. PICK F : F = Frontier(lineage.down)
  OBVIOUS
<1>2. PICK B : B = ChildrenOf(F)
  OBVIOUS
<1>3. PICK gen \in Listings(B) : lineage' = [lineage EXCEPT !.down = Append(@, gen)]
  BY <1>1, <1>2 DEF FindChildren
<1>4. B \subseteq Contents /\ names \subseteq Digest
  BY <1>2, QueryTypes DEF Inv, ShelfTypeOK
<1>5. /\ gen \in SUBSET Row /\ Single(gen)
      /\ \A r \in gen : r.bottle \in B /\ Complete(r)
  BY <1>3, <1>4, FreshRows
<1>6. PICK N : N = Len(lineage.down) + 1
  OBVIOUS
<1>7. lineage.down \in Seq(SUBSET Row) /\ Len(lineage.down) \in Nat
      /\ lineage'.down = Append(lineage.down, gen) /\ lineage'.up = lineage.up
  BY <1>3 DEF Inv, LineageTypes
<1>8. /\ Len(lineage'.down) = N /\ lineage'.down[N] = gen
      /\ \A n \in 1..Len(lineage.down) : lineage'.down[n] = lineage.down[n]
  BY <1>5, <1>6, <1>7, AppendTypes
<1>9. \A n \in 1..N : n = N \/ n \in 1..Len(lineage.down)
  BY <1>6, <1>7
<1>10. UNCHANGED <<page, root, graph, began>> /\ graph = {}
  BY DEF FindChildren, Inv, Staged, Reading
<1>11. RowsComplete'
  <2>1. \A n \in 1..N : \A r \in lineage'.down[n] : Complete(r)
    BY <1>5, <1>8, <1>9 DEF Laid, RowsComplete
  <2> QED
    BY <1>7, <1>8, <1>10, <2>1 DEF Laid, RowsComplete, Complete
<1>12. OneRowEach'
  <2>1. \A n \in 1..N : Single(lineage'.down[n])
    BY <1>5, <1>8, <1>9 DEF Laid, OneRowEach
  <2> QED
    BY <1>7, <1>8, <2>1 DEF Laid, OneRowEach
<1>13. Descending'
  <2>1. PICK P : P = PriorDown(N)
    OBVIOUS
  <2>2. N = 1 \/ N - 1 \in 1..Len(lineage.down)
    BY <1>6, <1>7
  <2>3. /\ \A q \in P : q.bottle \in Descendants(root.bottle) \cup {root.bottle}
        /\ \A q \in P : Genuine(q)
        /\ Genuine(root)
    <3>1. Genuine(root)
      BY DEF FindChildren, Inv, RootFound, Reading
    <3> QED
      BY <2>1, <2>2, <3>1 DEF PriorDown, Laid, Descending, Inv, RowsGenuine
  <2>4. Asks(F, P)
    <3>1. P = IF lineage.down = <<>> THEN {root} ELSE lineage.down[Len(lineage.down)]
      BY <1>6, <1>7, <2>1 DEF PriorDown
    <3> QED
      BY <1>1, <1>7, <2>3, <3>1, LastGeneration
  <2>5. ASSUME NEW b \in B PROVE b \in Descendants(root.bottle)
    <3>1. PICK s \in Sources[b], d \in F \cap names : s.to \in DigestsOf(d[1])
      BY <1>2 DEF ChildrenOf
    <3>2. PICK q \in P : d \in q.digests
      BY <2>4, <3>1 DEF Asks
    <3>3. d[1] = q.bottle
      BY <2>3, <3>2 DEF Genuine, DigestsOf
    <3>4. s.to \in Digest /\ s.to[1] = q.bottle
      BY <1>4, <3>1, <3>3 DEF DigestsOf
    <3>5. HasSourceIn(b, Descendants(root.bottle) \cup {root.bottle})
      BY <2>3, <3>4 DEF HasSourceIn
    <3> QED
      BY <1>4, <3>5, DescendantsClosed
  <2>6. \A n \in 1..N : \A r \in lineage'.down[n] : r.bottle \in Descendants(root.bottle)
    BY <1>5, <1>8, <1>9, <2>5 DEF Laid, Descending
  <2> QED
    BY <1>8, <1>10, <2>6 DEF Descending
<1>14. Placed' /\ Named' /\ ArrowsGenuine' /\ DrawnOnce'
  BY <1>10 DEF Placed, Named, ArrowsGenuine, DrawnOnce
<1> QED
  BY <1>11, <1>12, <1>13, <1>14 DEF Laid

\* What an arrow means: it leads to a bottle by one of the digests of its row,
\* from one of ids that is a source of that bottle.
LEMMA LinkLeads ==
  ASSUME NEW ids, NEW next, NEW pool, \A r \in next : Genuine(r),
         NEW l \in LinksTo(ids, next, pool)
  PROVE  \E r \in next :
           /\ l.to \in pool /\ l.to \in r.digests /\ l.to[1] = r.bottle
           /\ \E s \in Sources[l.to[1]] : s.name = l.label /\ s.to \in ids
<1>1. PICK r \in next :
        l \in {[label |-> s.name, to |-> m] :
                 s \in {x \in Sources[r.bottle] : x.to \in ids},
                 m \in pool \cap r.digests}
  BY DEF LinksTo
<1>2. PICK s \in {x \in Sources[r.bottle] : x.to \in ids}, m \in pool \cap r.digests :
        l = [label |-> s.name, to |-> m]
  BY <1>1
<1>3. l.to = m /\ l.label = s.name
  BY <1>2
<1>4. m[1] = r.bottle
  BY <1>2 DEF Genuine, DigestsOf
<1> QED
  BY <1>2, <1>3, <1>4

\* The name of a row stands for the digests of the row.
LEMMA AliasOf ==
  ASSUME names \subseteq Digest, NEW r, Genuine(r), NEW d \in r.digests
  PROVE  /\ {d, r.name} \subseteq Digest /\ d[1] = r.name[1]
         /\ d \in names /\ r.name \in names /\ d[1] = r.bottle
BY DEF Genuine, DigestsOf

\* A digest that a row of the same bottle lacks came after the request.
LEMMA CameLater ==
  ASSUME NEW r, Complete(r), NEW d \in names, d[1] = r.bottle, d \notin r.digests
  PROVE  Grew(r.bottle)
BY DEF Complete, Grew

\* What the arrows of a node have to be.
Leads(n) ==
  \A l \in n.links :
    /\ \E m \in graph : m.name = l.to /\ (m.at > n.at \/ Grew(m.name[1]))
    /\ \E s \in Sources[l.to[1]] :
         /\ s.name = l.label
         /\ \/ s.to = n.name
            \/ {s.to, n.name} \subseteq Digest /\ s.to[1] = n.name[1]

LEMMA ArrowsLead == ArrowsGenuine <=> \A n \in graph : Leads(n)
BY DEF ArrowsGenuine, Leads

\* The rows of a generation that have no node get one each.
LEMMA OnceMore ==
  ASSUME Named, DrawnOnce, UNCHANGED <<names, began>>,
         NEW gen, Single(gen), NEW added,
         graph' = graph \cup added,
         \A m \in added : m.kind \in {"main", "relative"} =>
           \E r \in gen : /\ m.name = r.name /\ Genuine(r) /\ Complete(r)
                          /\ \A k \in graph : k.name \notin r.digests,
         \A m, n \in added : {m.kind, n.kind} \subseteq {"main", "relative"}
                             /\ m.name = n.name => m = n
  PROVE  DrawnOnce' /\ Named'
<1>1. \A c : Grew(c)' <=> Grew(c)
  BY DEF Grew
<1>2. Named'
  <2>1. \A r : Genuine(r) => r.name \in names
    BY DEF Genuine, DigestsOf
  <2> QED
    BY <2>1 DEF Named
<1>3. ASSUME NEW m \in added, NEW n \in graph,
             {m.kind, n.kind} \subseteq {"main", "relative"}, m.name[1] = n.name[1]
      PROVE  Grew(m.name[1])
  <2>1. PICK r \in gen : /\ m.name = r.name /\ Genuine(r) /\ Complete(r)
                         /\ n.name \notin r.digests
    BY <1>3
  <2>2. m.name[1] = r.bottle /\ n.name \in names
    BY <1>3, <2>1 DEF Genuine, DigestsOf, Named
  <2> QED
    BY <1>3, <2>1, <2>2, CameLater
<1>4. ASSUME NEW m \in added, NEW n \in added,
             {m.kind, n.kind} \subseteq {"main", "relative"}, m.name[1] = n.name[1]
      PROVE  m = n
  <2>1. PICK r \in gen : m.name = r.name /\ Genuine(r)
    BY <1>4
  <2>2. PICK q \in gen : n.name = q.name /\ Genuine(q)
    BY <1>4
  <2>3. r.bottle = q.bottle
    BY <1>4, <2>1, <2>2 DEF Genuine, DigestsOf
  <2>4. r = q
    BY <2>3 DEF Single
  <2> QED
    BY <1>4, <2>1, <2>2, <2>4
<1>5. DrawnOnce'
  <2> SUFFICES ASSUME NEW m \in graph', NEW n \in graph',
                      {m.kind, n.kind} \subseteq {"main", "relative"},
                      m.name[1] = n.name[1]
               PROVE  m = n \/ Grew(m.name[1])
    BY <1>1 DEF DrawnOnce
  <2>1. CASE m \in graph /\ n \in graph
    BY <2>1 DEF DrawnOnce
  <2>2. CASE m \in added /\ n \in graph
    BY <1>3, <2>2
  <2>3. CASE m \in graph /\ n \in added
    <3>1. Grew(n.name[1])
      BY <1>3, <2>3
    <3> QED
      BY <3>1
  <2>4. CASE m \in added /\ n \in added
    BY <1>4, <2>4
  <2> QED
    BY <2>1, <2>2, <2>3, <2>4
<1> QED
  BY <1>2, <1>5

\* What a drawing step does not touch.
LEMMA RowsStay ==
  ASSUME Laid, UNCHANGED <<root, lineage, began>>
  PROVE  RowsComplete' /\ OneRowEach' /\ Descending'
BY DEF Laid, RowsComplete, Complete, OneRowEach, Single, Descending

\* Nodes keep what their arrows lead to.
LEMMA ArrowsStay ==
  ASSUME ArrowsGenuine, UNCHANGED <<names, began>>, NEW added,
         graph' = graph \cup added, \A m \in added : Leads(m)'
  PROVE  ArrowsGenuine'
<1>1. \A c : Grew(c)' <=> Grew(c)
  BY DEF Grew
<1>2. \A n \in graph : Leads(n)'
  BY <1>1, ArrowsLead DEF Leads
<1>3. \A n \in graph' : Leads(n)'
  BY <1>2
<1> QED
  BY <1>3 DEF ArrowsGenuine, Leads

LEMMA DrawChildrenLaid ==
  ASSUME Inv, Laid, DrawChildren
  PROVE  Laid'
<1> USE TypesInParts, ChildrenDrawn
<1>1. PICK n : n = page.at
  OBVIOUS
<1>2. /\ n \in 1..Len(lineage.down) /\ n \in Nat /\ page.down = Len(lineage.down)
      /\ page.down \in Nat /\ n <= page.down
  BY <1>1 DEF Inv, Staged, PageTypes, LineageTypes
<1>3. /\ page'.at = n - 1 /\ page'.stage = "children" /\ page'.down = page.down
      /\ UNCHANGED <<names, root, lineage, began>>
      /\ graph' = graph \cup DrawnDown(n)
  BY <1>1 DEF Inv, PageTypes, shelf
<1>4. /\ \A m \in graph : /\ m.kind = "relative" /\ m.at > n /\ m.at <= page.down
                          /\ m.name[1] \in Descendants(root.bottle)
      /\ \A m \in graph : m.at \in Int
      /\ names \subseteq Digest
  BY <1>1 DEF Laid, Placed, Inv, GraphTypes, Node, ShelfTypeOK
<1>5. ASSUME NEW r \in NewDown(n)
      PROVE  /\ r \in lineage.down[n] /\ Genuine(r) /\ Complete(r)
             /\ r.bottle \in Descendants(root.bottle)
             /\ \A k \in graph : k.name \notin r.digests
  <2>1. r \in lineage.down[n]
    BY DEF NewDown, Undrawn
  <2>2. n = page.down => graph = {}
    BY <1>2, <1>4
  <2>3. n # page.down => \A k \in graph : k.name \notin r.digests
    BY DEF NewDown, Undrawn, Names
  <2> QED
    BY <1>2, <2>1, <2>2, <2>3 DEF Inv, RowsGenuine, Laid, RowsComplete, Descending
<1>6. ASSUME NEW m \in DrawnDown(n)
      PROVE  \E r \in NewDown(n) :
               m = NodeOf(r.name, "relative", n, LinksTo(r.digests, NextDown(n), PoolDown(n)))
  BY DEF DrawnDown
<1>7. ASSUME NEW m \in DrawnDown(n)
      PROVE  \E r \in NewDown(n) :
               /\ m.name = r.name /\ m.kind = "relative" /\ m.at = n
               /\ m.links = LinksTo(r.digests, NextDown(n), PoolDown(n))
  BY <1>6 DEF NodeOf
<1>8. DrawnOnce' /\ Named'
  <2>1. Single(lineage.down[n]) /\ Named /\ DrawnOnce
    BY <1>2 DEF Laid, OneRowEach
  <2>2. \A m \in DrawnDown(n) : m.kind \in {"main", "relative"} =>
          \E r \in lineage.down[n] : /\ m.name = r.name /\ Genuine(r) /\ Complete(r)
                                     /\ \A k \in graph : k.name \notin r.digests
    BY <1>5, <1>7
  <2>3. ASSUME NEW m \in DrawnDown(n), NEW k \in DrawnDown(n), m.name = k.name
        PROVE  m = k
    <3>1. PICK r \in NewDown(n) :
            m = NodeOf(r.name, "relative", n, LinksTo(r.digests, NextDown(n), PoolDown(n)))
      BY <1>6
    <3>2. PICK q \in NewDown(n) :
            k = NodeOf(q.name, "relative", n, LinksTo(q.digests, NextDown(n), PoolDown(n)))
      BY <1>6
    <3>3. r.name = q.name
      BY <2>3, <3>1, <3>2 DEF NodeOf
    <3>4. r.bottle = q.bottle
      BY <1>5, <3>3 DEF Genuine, DigestsOf
    <3>5. r = q
      BY <1>5, <2>1, <3>4 DEF Single
    <3> QED
      BY <3>1, <3>2, <3>5
  <2> QED
    BY <1>3, <2>1, <2>2, <2>3, OnceMore
<1>9. Placed'
  <2>1. ASSUME NEW m \in DrawnDown(n)
        PROVE  /\ m.kind = "relative" /\ m.at > n - 1 /\ m.at <= page.down
               /\ m.name[1] \in Descendants(root.bottle)
    <3>1. PICK r \in NewDown(n) : m.name = r.name /\ m.kind = "relative" /\ m.at = n
      BY <1>7
    <3>2. r.name[1] = r.bottle
      BY <1>5 DEF Genuine, DigestsOf
    <3> QED
      BY <1>2, <1>5, <3>1, <3>2
  <2>2. ASSUME NEW m \in graph
        PROVE  /\ m.kind = "relative" /\ m.at > n - 1 /\ m.at <= page.down
               /\ m.name[1] \in Descendants(root.bottle)
    BY <1>2, <1>4
  <2> QED
    BY <1>3, <2>1, <2>2 DEF Placed
<1>10. ASSUME NEW m \in DrawnDown(n) PROVE Leads(m)'
  <2>1. PICK r \in NewDown(n) :
          /\ m.name = r.name /\ m.kind = "relative" /\ m.at = n
          /\ m.links = LinksTo(r.digests, NextDown(n), PoolDown(n))
    BY <1>7
  <2>2. ASSUME NEW q \in NextDown(n)
        PROVE  n + 1 \in 1..Len(lineage.down) /\ q \in lineage.down[n + 1]
               /\ Genuine(q) /\ Covered(q)
    <3>1. n # page.down /\ q \in lineage.down[n + 1]
      BY <2>2 DEF NextDown
    <3>2. n + 1 \in 1..Len(lineage.down)
      BY <1>2, <3>1
    <3>3. DownCovered(n + 1)
      BY <1>1 DEF Inv, Drawn
    <3>4. n + 1 \in (n + 1)..Len(lineage.down)
      BY <1>2, <3>2
    <3> QED
      BY <3>1, <3>2, <3>3, <3>4 DEF Inv, RowsGenuine, DownCovered
  <2> SUFFICES ASSUME NEW l \in m.links
               PROVE  /\ \E k \in graph' : /\ k.name = l.to
                                           /\ k.at > m.at \/ Grew(k.name[1])'
                      /\ \E s \in Sources[l.to[1]] :
                           /\ s.name = l.label
                           /\ {s.to, m.name} \subseteq Digest /\ s.to[1] = m.name[1]
    BY DEF Leads
  <2>3. PICK q \in NextDown(n) :
          /\ l.to \in PoolDown(n) /\ l.to \in q.digests /\ l.to[1] = q.bottle
          /\ \E s \in Sources[l.to[1]] : s.name = l.label /\ s.to \in r.digests
    <3>1. \A q \in NextDown(n) : Genuine(q)
      BY <2>2
    <3> QED
      BY <2>1, <3>1, LinkLeads
  <2>4. \E s \in Sources[l.to[1]] :
          s.name = l.label /\ {s.to, m.name} \subseteq Digest /\ s.to[1] = m.name[1]
    BY <1>4, <1>5, <2>1, <2>3, AliasOf
  <2>5. \E k \in graph' : k.name = l.to /\ (k.at > m.at \/ Grew(k.name[1])')
    <3>1. CASE l.to \in Names(graph)
      BY <1>3, <1>4, <2>1, <3>1 DEF Names
    <3>2. CASE \E x \in NewDown(n) : l.to = x.name
      <4>1. PICK x \in NewDown(n) : l.to = x.name
        BY <3>2
      <4>2. PICK k \in DrawnDown(n) : k.name = l.to
        BY <1>1, <4>1, ChildrenTypes DEF Inv
      <4>3. PICK j \in graph : j.name \in q.digests
        BY <2>2 DEF Covered
      <4>4. x.bottle = q.bottle
        BY <1>5, <2>3, <4>1 DEF Genuine, DigestsOf
      <4>5. j.name \in names /\ j.name[1] = x.bottle
        BY <2>2, <4>3, <4>4 DEF Genuine, DigestsOf
      <4>6. Grew(x.bottle)
        BY <1>5, <4>3, <4>5, CameLater
      <4>7. Grew(k.name[1])'
        BY <1>3, <2>3, <4>2, <4>4, <4>6 DEF Grew
      <4> QED
        BY <1>3, <4>2, <4>7
    <3> QED
      BY <2>3, <3>1, <3>2 DEF PoolDown
  <2> QED
    BY <2>4, <2>5
<1>11. ArrowsGenuine'
  BY <1>3, <1>10, ArrowsStay DEF Laid
<1> QED
  BY <1>3, <1>8, <1>9, <1>11, RowsStay DEF Laid

LEMMA DrawRootLaid ==
  ASSUME Inv, Laid, DrawRoot
  PROVE  Laid'
<1> USE TypesInParts, RootDrawn
<1>0. PICK x : x = RootNode
  OBVIOUS
<1>1. /\ x.at = 0 /\ x.kind = "main" /\ x.name = root.name
      /\ x.links = LinksTo(root.digests, FirstDown, Names(graph))
  BY <1>0 DEF RootNode, NodeOf
<1>2. /\ page'.at = 1 /\ page'.stage = "parents"
      /\ UNCHANGED <<names, root, lineage, began>>
      /\ graph' = graph \cup {x}
  BY <1>0 DEF Inv, PageTypes, shelf
<1>3. /\ \A m \in graph : /\ m.kind = "relative" /\ m.at > 0
                          /\ m.name[1] \in Descendants(root.bottle)
      /\ \A m \in graph : m.at \in Int
      /\ names \subseteq Digest
  BY DEF Laid, Placed, Inv, GraphTypes, Node, ShelfTypeOK
<1>4. Genuine(root) /\ root.bottle \in Contents
  BY DEF Inv, RootFound, PageTypes, Row
<1>5. root.name \in names /\ root.name[1] = root.bottle
  BY <1>4 DEF Genuine, DigestsOf
<1>6. \A m \in graph : m.name[1] # root.name[1]
  BY <1>3, <1>4, <1>5, NotItsOwn
<1>7. Named' /\ Placed'
  BY <1>1, <1>2, <1>3, <1>5 DEF Laid, Named, Placed
<1>8. \A c : Grew(c)' <=> Grew(c)
  BY <1>2 DEF Grew
<1>9. DrawnOnce'
  <2> SUFFICES ASSUME NEW m \in graph', NEW n \in graph',
                      {m.kind, n.kind} \subseteq {"main", "relative"},
                      m.name[1] = n.name[1]
               PROVE  m = n \/ Grew(m.name[1])
    BY <1>8 DEF DrawnOnce
  <2>1. CASE m \in graph /\ n \in graph
    BY <2>1 DEF Laid, DrawnOnce
  <2>2. CASE m = x \/ n = x
    BY <1>1, <1>2, <1>6, <2>2
  <2> QED
    BY <1>2, <2>1, <2>2
<1>10. Leads(x)'
  <2>1. \A q \in FirstDown : Genuine(q)
    BY DEF FirstDown, Inv, Staged, PageTypes, RowsGenuine
  <2> SUFFICES ASSUME NEW l \in x.links
               PROVE  /\ \E k \in graph' : k.name = l.to /\ k.at > x.at
                      /\ \E s \in Sources[l.to[1]] :
                           /\ s.name = l.label
                           /\ {s.to, x.name} \subseteq Digest
                           /\ s.to[1] = x.name[1]
    BY DEF Leads
  <2>2. PICK q \in FirstDown :
          /\ l.to \in Names(graph)
          /\ \E s \in Sources[l.to[1]] : s.name = l.label /\ s.to \in root.digests
    BY <1>1, <2>1, LinkLeads
  <2>3. \E k \in graph' : k.name = l.to /\ k.at > x.at
    BY <1>1, <1>2, <1>3, <2>2 DEF Names
  <2>4. \E s \in Sources[l.to[1]] :
          /\ s.name = l.label
          /\ {s.to, root.name} \subseteq Digest /\ s.to[1] = root.name[1]
    BY <1>3, <1>4, <2>2, AliasOf
  <2> QED
    BY <1>1, <2>3, <2>4
<1>11. ArrowsGenuine'
  BY <1>2, <1>10, ArrowsStay DEF Laid
<1> QED
  BY <1>2, <1>7, <1>9, <1>11, RowsStay DEF Laid

LEMMA DrawParentsLaid ==
  ASSUME Inv, Laid, DrawParents
  PROVE  Laid'
<1> USE TypesInParts, ParentsDrawn
<1>1. PICK n : n = page.at
  OBVIOUS
<1>2. n \in 1..Len(lineage.up) /\ n \in Nat /\ n > 0
  BY <1>1, ParentNodes DEF Inv
<1>0. PICK added : added = DrawnUp(n) \cup DrawnOthers(n)
  OBVIOUS
<1>3. /\ page'.at = n + 1 /\ page'.stage = "parents"
      /\ UNCHANGED <<names, root, lineage, began>>
      /\ graph' = graph \cup added
  BY <1>0, <1>1 DEF Inv, PageTypes, shelf
<1>4. /\ \A m \in graph : m.at > 0 - n /\ m.at \in Int
      /\ names \subseteq Digest
  BY <1>1 DEF Laid, Placed, Inv, GraphTypes, Node, ShelfTypeOK
<1>5. Single(lineage.up[n]) /\ Named /\ DrawnOnce
  BY <1>2 DEF Laid, OneRowEach
<1>6. ASSUME NEW r \in Undrawn(lineage.up[n])
      PROVE  /\ r \in lineage.up[n] /\ Genuine(r) /\ Complete(r)
             /\ \A k \in graph : k.name \notin r.digests
  BY <1>2 DEF Undrawn, Names, Inv, RowsGenuine, Laid, RowsComplete
<1>7. ASSUME NEW m \in DrawnUp(n)
      PROVE  \E r \in Undrawn(lineage.up[n]) :
               /\ m = NodeOf(r.name, "relative", 0 - n, LinksUp(n, r.digests))
               /\ m.name = r.name /\ m.kind = "relative" /\ m.at = 0 - n
               /\ m.links = LinksUp(n, r.digests)
  <2>1. PICK r \in Undrawn(lineage.up[n]) :
          m = NodeOf(r.name, "relative", 0 - n, LinksUp(n, r.digests))
    BY DEF DrawnUp
  <2> QED
    BY <2>1 DEF NodeOf
<1>8. ASSUME NEW m \in DrawnOthers(n)
      PROVE  /\ m.kind \in {"url", "external"} /\ m.at = 0 - n
             /\ m.links = LinksUp(n, {m.name})
  <2>1. PICK o \in Others(PriorUp(n), lineage.up[n]) :
          m = OtherNode(o, 0 - n, LinksUp(n, {o.to}))
    BY DEF DrawnOthers
  <2> QED
    BY <2>1 DEF OtherNode
<1>9. DrawnOnce' /\ Named'
  <2>1. \A m \in added : m.kind \in {"main", "relative"} => m \in DrawnUp(n)
    BY <1>0, <1>8
  <2>2. \A m \in added : m.kind \in {"main", "relative"} =>
          \E r \in lineage.up[n] : /\ m.name = r.name /\ Genuine(r) /\ Complete(r)
                                   /\ \A k \in graph : k.name \notin r.digests
    BY <1>6, <1>7, <2>1
  <2>3. ASSUME NEW m \in DrawnUp(n), NEW k \in DrawnUp(n), m.name = k.name
        PROVE  m = k
    <3>1. PICK r \in Undrawn(lineage.up[n]) :
            /\ m = NodeOf(r.name, "relative", 0 - n, LinksUp(n, r.digests))
            /\ m.name = r.name
      BY <1>7
    <3>2. PICK q \in Undrawn(lineage.up[n]) :
            /\ k = NodeOf(q.name, "relative", 0 - n, LinksUp(n, q.digests))
            /\ k.name = q.name
      BY <1>7
    <3>3. r.bottle = q.bottle
      BY <1>6, <2>3, <3>1, <3>2 DEF Genuine, DigestsOf
    <3>4. r = q
      BY <1>5, <1>6, <3>3 DEF Single
    <3> QED
      BY <3>1, <3>2, <3>4
  <2>4. \A m, k \in added :
          {m.kind, k.kind} \subseteq {"main", "relative"} /\ m.name = k.name => m = k
    BY <2>1, <2>3
  <2> QED
    BY <1>3, <1>5, <2>2, <2>4, OnceMore
<1>10. Placed'
  <2>1. \A m \in added : m.at = 0 - n
    BY <1>0, <1>7, <1>8
  <2>2. 0 - n > 0 - (n + 1) /\ \A i \in Int : i > 0 - n => i > 0 - (n + 1)
    BY <1>2
  <2>3. \A m \in graph' : m.at > 0 - (n + 1)
    BY <1>3, <1>4, <2>1, <2>2
  <2> QED
    BY <1>3, <2>3 DEF Placed
<1>11. \A q \in PriorUp(n) : Genuine(q)
  <2>1. n = 1 \/ n - 1 \in 1..Len(lineage.up)
    BY <1>2 DEF Inv, LineageTypes
  <2> QED
    BY <2>1 DEF PriorUp, Inv, RootFound, RowsGenuine
<1>12. ASSUME NEW ids, NEW l \in LinksUp(n, ids)
       PROVE  /\ \E k \in graph' : k.name = l.to /\ k.at > 0 - n
              /\ \E s \in Sources[l.to[1]] : s.name = l.label /\ s.to \in ids
  <2>1. /\ l.to \in Names(graph)
        /\ \E s \in Sources[l.to[1]] : s.name = l.label /\ s.to \in ids
    BY <1>11, LinkLeads DEF LinksUp
  <2>2. \E k \in graph' : k.name = l.to /\ k.at > 0 - n
    BY <1>3, <1>4, <2>1 DEF Names
  <2> QED
    BY <2>1, <2>2
<1>13. ASSUME NEW m \in DrawnUp(n) PROVE Leads(m)'
  <2>1. PICK r \in Undrawn(lineage.up[n]) :
          m.name = r.name /\ m.at = 0 - n /\ m.links = LinksUp(n, r.digests)
    BY <1>7
  <2>2. \A l \in m.links :
          /\ \E k \in graph' : k.name = l.to /\ k.at > m.at
          /\ \E s \in Sources[l.to[1]] : s.name = l.label /\ s.to \in r.digests
    BY <1>12, <2>1
  <2>3. \A d \in r.digests : {d, m.name} \subseteq Digest /\ d[1] = m.name[1]
    BY <1>4, <1>6, <2>1, AliasOf
  <2> QED
    BY <2>2, <2>3 DEF Leads
<1>14. ASSUME NEW m \in DrawnOthers(n) PROVE Leads(m)'
  <2>1. m.at = 0 - n /\ m.links = LinksUp(n, {m.name})
    BY <1>8
  <2>2. \A l \in m.links :
          /\ \E k \in graph' : k.name = l.to /\ k.at > m.at
          /\ \E s \in Sources[l.to[1]] : s.name = l.label /\ s.to \in {m.name}
    BY <1>12, <2>1
  <2> QED
    BY <2>2 DEF Leads
<1>15. ArrowsGenuine'
  BY <1>0, <1>3, <1>13, <1>14, ArrowsStay DEF Laid
<1> QED
  BY <1>3, <1>9, <1>10, <1>15, RowsStay DEF Laid

LEMMA LaidNext == Inv /\ Laid /\ [Next]_vars => Laid'
<1> SUFFICES ASSUME Inv, Laid, [Next]_vars PROVE Laid'
  OBVIOUS
<1> USE TypesInParts
<1>1. ASSUME NEW q \in Asked, Request(q) PROVE Laid'
  <2>1. page'.stage = "bottle" /\ graph' = {} /\ lineage' = NoLineage
    BY <1>1 DEF Request
  <2>2. Len(lineage'.up) = 0 /\ Len(lineage'.down) = 0
    BY <2>1 DEF NoLineage
  <2>3. RowsComplete' /\ OneRowEach' /\ Descending'
    BY <2>2 DEF RowsComplete, OneRowEach, Descending
  <2> QED
    BY <2>1, <2>3 DEF Laid, Placed, Named, ArrowsGenuine, DrawnOnce
<1>2. CASE FindBottle
  <2>1. /\ page'.stage \in {"missing", "manifestations"} /\ graph = {}
        /\ UNCHANGED <<lineage, graph>> /\ lineage = NoLineage
    BY <1>2, GotoTypes DEF FindBottle, Inv, Staged, Reading
  <2>2. Len(lineage'.up) = 0 /\ Len(lineage'.down) = 0
    BY <2>1 DEF NoLineage
  <2>3. RowsComplete' /\ OneRowEach' /\ Descending'
    BY <2>2 DEF RowsComplete, OneRowEach, Descending
  <2> QED
    BY <2>1, <2>3 DEF Laid, Placed, Named, ArrowsGenuine, DrawnOnce
<1>3. CASE \/ FindManifestations \/ ReadDeprecatedBy \/ ReadDeprecates
           \/ BottlePulls \/ UserPulls \/ FoundGenerations \/ Abandon
  <2>1. graph = {} /\ UNCHANGED <<shelf, root, lineage, graph, began>>
    BY <1>3 DEF FindManifestations, ReadDeprecatedBy, ReadDeprecates, BottlePulls,
                UserPulls, FoundGenerations, Abandon, Fact, Inv, Staged, Reading
  <2> QED
    BY <2>1, QuietStep DEF shelf
<1>4. CASE Reply
  <2>1. page.stage = "parents" /\ page'.stage = "done" /\ page'.at = page.at
    BY <1>4, GotoTypes DEF Reply, Inv
  <2> QED
    BY <1>4, <2>1, QuietStep DEF Reply, shelf
<1>5. CASE Grow
  BY <1>5, GrowTypes, QuietStep DEF Grow, Inv
<1>6. CASE UNCHANGED vars
  BY <1>6, QuietStep DEF vars, shelf
<1> QED
  BY <1>1, <1>2, <1>3, <1>4, <1>5, <1>6, FindParentsLaid, FindChildrenLaid,
     DrawChildrenLaid, DrawRootLaid, DrawParentsLaid
     DEF Next, Handle, Read, Draw

LEMMA LaidInit == Init => Laid
<1> SUFFICES ASSUME Init PROVE Laid
  OBVIOUS
<1>1. graph = {} /\ Len(lineage.up) = 0 /\ Len(lineage.down) = 0
  BY DEF Init, NoLineage
<1>2. RowsComplete /\ OneRowEach /\ Descending
  BY <1>1 DEF RowsComplete, OneRowEach, Descending
<1> QED
  BY <1>1, <1>2 DEF Laid, Placed, Named, ArrowsGenuine, DrawnOnce

LEMMA LaidHolds == Spec => []Laid
BY LaidInit, LaidNext, InvHolds, PTL DEF Spec

\* Every arrow of the page leads to the right and says what is so, although the
\* generations are read one after the other: the nodes are drawn from the right
\* to the left (Placed), and a name among those looked up that is not drawn yet
\* came after the request (RowsComplete, Drawn).
THEOREM ArrowsAreGenuine == Spec => []ArrowsGenuine
<1>1. Laid => ArrowsGenuine
  BY DEF Laid
<1> QED
  BY <1>1, LaidHolds, PTL

\* No bottle is drawn twice, however often it is a relative: a row without a node
\* has every digest that there was when the request began (RowsComplete), and
\* the bottle of the page, which is drawn without looking, is not among its own
\* descendants (NotItsOwn).
THEOREM NothingDrawnTwice == Spec => []DrawnOnce
<1>1. Laid => DrawnOnce
  BY DEF Laid
<1> QED
  BY <1>1, LaidHolds, PTL

=============================================================================
