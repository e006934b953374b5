----------------------------- MODULE BottleSearch -----------------------------
(***************************************************************************)
(* The catalogue and the leaderboard (GET /www/catalog.html and            *)
(* /www/leaderboard.html): a page that loads the bottles found one part    *)
(* after another while it is scrolled, and beside them the names of their  *)
(* metrics and the keys of the labels they have in common.  Every part is  *)
(* a request and a statement of its own, and uploads go on between them;   *)
(* the page keeps the time of its opening, and each part asks for the      *)
(* bottles created before.                                                 *)
(***************************************************************************)
EXTENDS Queries

CONSTANTS
  Asked,      \* bound: what is searched for, bottleRequestParams
  Malformed,  \* those of them that validate() rejects
  PageLimit,  \* the bottles of a part when the request does not say: 9
  NoList      \* a list that is not loaded

\* The parameters of a request.
Parameters ==
  {"selectors", "author", "words", "repository", "key", "notes", "parentsOf",
   "childrenOf", "deprecatedBy", "deprecates", "showDeprecated", "parts",
   "metrics", "sortBy", "ascending", "limit", "bottle"}

ASSUME BottleSearchAssumption ==
  /\ IsFiniteSet(Contents)
  /\ PageLimit \in Nat \ {0}
  /\ Asked # {}
  /\ Malformed \subseteq Asked
  /\ \A q \in Asked : DOMAIN q = Parameters /\ q.limit \in Nat
  /\ \A q \in Asked \ Malformed : \A sel \in q.selectors : \A r \in sel :
       r.op \in {"in", "notin", "exists", "absent", "gt", "lt"}

VARIABLES
  visit,    \* the page: its stage, the search, its time and the next part
  shown,    \* the parts shown, each a set of rows
  metrics,  \* the list of metrics, once it is loaded
  labels,   \* the list of common labels, once it is loaded
  steady    \* observed: what is searched for was the same all the time

vars == <<shelf, visit, shown, metrics, labels, steady>>

-----------------------------------------------------------------------------
(* Statements *)

\* Four filters join the table digests under the same name.
Clashes(q) ==
  LET joins == <<q.deprecatedBy # NoDigest, q.deprecates # NoDigest,
                 q.parts # {}, q.metrics # {}>>
  IN  \E i, j \in DOMAIN joins : i < j /\ joins[i] /\ joins[j]

\* Are deprecated bottles asked for?
ShowDeprecated(q) == q.showDeprecated \/ q.deprecatedBy # NoDigest

\* The bottles that the filters let pass.
Filtered(q) ==
  {b \in Stored("bottle") :
     /\ BySelectors(b, q.selectors)
     /\ ByDescription(b, q.words)
     /\ ByAuthor(b, q.author)
     /\ ByRepository(b, q.repository)
     /\ WithSignature(b, q.key)
     /\ WithAnnotations(b, q.notes)
     /\ q.parentsOf # NoDigest => b \in ParentsOf({q.parentsOf})
     /\ q.childrenOf # NoDigest => b \in ChildrenOf({q.childrenOf})
     /\ q.deprecatedBy # NoDigest =>
          DigestsOf(b) \cap FindDeprecatedBy(q.deprecatedBy) # {}
     /\ q.deprecates # NoDigest =>
          DigestsOf(b) \cap FindDeprecates(q.deprecates) # {}
     /\ ShowDeprecated(q) \/ ExcludeDeprecated(b)
     /\ FilterByParts(b, q.parts)
     /\ FilterByMetric(b, q.metrics)}

\* Faulty Found: the time of the page is forgotten.
FoundNow(q, before) == {b \in Filtered(q) : SortByMetric(b, q.sortBy)}

\* The bottles of a page that was opened at the time before.
Found(q, before) ==
  {b \in Filtered(q) : SortByMetric(b, q.sortBy) /\ created[b] <= before}

\* May a be listed before b?  SQL promises no order unless one is asked for.
\* The rank of a description precedes the metric, and is not modelled.
Precedes(a, b, q) ==
  \/ q.sortBy = ""
  \/ q.words # {}
  \/ IF q.ascending THEN MetricOf(a, q.sortBy) <= MetricOf(b, q.sortBy)
                    ELSE MetricOf(a, q.sortBy) >= MetricOf(b, q.sortBy)

LimitOf(q) == IF q.limit = 0 THEN PageLimit ELSE q.limit

\* Faulty Offset: the number of the part, not of its first row.
OffsetOfPart(q, n) == n

Offset(q, n) == n * LimitOf(q)

Minimum(m, n) == IF m < n THEN m ELSE n

\* What part n may hold of the bottles in B: those between the rows that are
\* skipped and the rows that are left over, in some order of the list.
Parts(B, q, n) ==
  LET skipped == Minimum(Offset(q, n), Cardinality(B))
      size == Minimum(LimitOf(q), Cardinality(B) - skipped)
      Ahead(A, C) == \A a \in A, c \in C : Precedes(a, c, q)
  IN  {P \in SUBSET B :
         /\ Cardinality(P) = size
         /\ \E S \in SUBSET (B \ P) :
              /\ Cardinality(S) = skipped
              /\ Ahead(S, P) /\ Ahead(S, B \ (S \cup P)) /\ Ahead(P, B \ (S \cup P))}

PullEvents(b) == {e \in Stored("event") : About[e].pull /\ BottleOf(e) = b}

\* Faulty NumPulls: the sum over the joined rows, one for each alias.
NumPullsSummed(b) == Cardinality(PullEvents(b)) * Cardinality(DigestsOf(b))

\* The rows joined for a bottle all have its number of pulls; one is taken.
NumPulls(b) == Cardinality(PullEvents(b))

\* A row shown of a bottle.
RowOf(b, total) == [bottle |-> b, pulls |-> NumPulls(b), total |-> total]

\* Faulty MetricNames: of all bottles that pass the filters but the default one.
MetricNamesOfAll(q, before) ==
  {m.name : m \in UNION {About[b].metrics :
     b \in {x \in Filtered([q EXCEPT !.showDeprecated = TRUE]) : created[x] <= before}}}

\* getMetricNamesFromRequestParams.  The order is no condition here.
MetricNames(q, before) ==
  {m.name : m \in UNION {About[b].metrics :
     b \in {x \in Filtered(q) : created[x] <= before}}}

\* getCommonLabelsFromRequestParams: the keys that as many bottles have as there
\* are, newer ones counted.
CommonLabels(q, before) ==
  LET B == {b \in Filtered(q) : created[b] <= before}
      With(k) == {b \in B : \E l \in About[b].labels : l.key = k}
  IN  {k \in {l.key : l \in UNION {About[b].labels : b \in B}} :
         Cardinality(With(k)) = Cardinality(Filtered(q))}

-----------------------------------------------------------------------------
(* The visitor *)

\* What the page is about, for the properties.
Wanted(q, before) == {b \in Filtered(q) : created[b] <= before}

Goto(s) == visit' = [visit EXCEPT !.stage = s]

Init ==
  /\ ShelfInit
  /\ visit = [stage |-> "away", query |-> CHOOSE q \in Asked : TRUE, before |-> 1, part |-> 0]
  /\ shown = <<>>
  /\ metrics = NoList
  /\ labels = NoList
  /\ steady = TRUE

\* The page begins: nothing is shown yet.
Cleared ==
  /\ shown' = <<>>
  /\ metrics' = NoList
  /\ labels' = NoList
  /\ steady' = TRUE

\* A page is opened, at the time that the server reads.
Open(q, now) ==
  /\ visit.stage \in {"away", "invalid", "ended", "failed"}
  /\ visit' = [stage |-> IF q \in Malformed THEN "invalid" ELSE "open",
               query |-> q, before |-> now, part |-> 0]
  /\ Cleared
  /\ UNCHANGED shelf

\* The search bar is submitted: the page goes to a bottle, or shows an error and
\* keeps its list, or starts over with the time it has.
Refine(q) ==
  /\ visit.stage \in {"open", "ended", "failed"}
  /\ q \notin Malformed
  /\ visit' = [visit EXCEPT !.stage = IF q.bottle # NoDigest THEN "away" ELSE "open",
                            !.query = q, !.part = 0]
  /\ Cleared
  /\ UNCHANGED shelf

\* The last row comes into sight and asks for the next part.
LoadPart ==
  /\ visit.stage = "open"
  /\ LET q == visit.query
         B == Found(q, visit.before)
     IN  IF Clashes(q)
           THEN Goto("failed") /\ UNCHANGED shown
           ELSE \E P \in Parts(B, q, visit.part) :
             /\ shown' = Append(shown, {RowOf(b, Cardinality(B)) : b \in P})
             /\ visit' = [visit EXCEPT !.stage = IF P = {} THEN "ended" ELSE @,
                                       !.part = @ + 1]
  /\ UNCHANGED <<shelf, metrics, labels, steady>>

\* The lists beside the first part are loaded with it.
LoadMetrics ==
  /\ visit.stage \in {"open", "ended"}
  /\ shown # <<>>
  /\ metrics = NoList
  /\ metrics' = MetricNames(visit.query, visit.before)
  /\ UNCHANGED <<shelf, visit, shown, labels, steady>>

LoadLabels ==
  /\ visit.stage \in {"open", "ended"}
  /\ shown # <<>>
  /\ labels = NoList
  /\ labels' = CommonLabels(visit.query, visit.before)
  /\ UNCHANGED <<shelf, visit, shown, metrics, steady>>

\* Uploads go on.
Grow ==
  /\ Upload
  /\ UNCHANGED <<visit, shown, metrics, labels>>
  /\ steady' = (steady /\ Wanted(visit.query, visit.before)'
                            = Wanted(visit.query, visit.before))

Next ==
  \/ \E q \in Asked, now \in 1..MaxTime : Open(q, now)
  \/ \E q \in Asked : Refine(q)
  \/ LoadPart
  \/ LoadMetrics
  \/ LoadLabels
  \/ Grow

Spec == Init /\ [][Next]_vars

-----------------------------------------------------------------------------
(* Properties *)

ShownIn(i) == {r.bottle : r \in shown[i]}

\* No two of the bottles B have the same place in the order.
Strict(B, q) == \A a, b \in B : a # b => ~(Precedes(a, b, q) /\ Precedes(b, a, q))

\* Who scrolls to the end has seen every bottle of the search exactly once, in
\* the order asked for and with their true number, whatever was uploaded
\* meanwhile: unless what was uploaded changed the list of the older bottles,
\* or the order leaves two of them in no order.
ScrollComplete ==
  visit.stage = "ended" /\ steady =>
    LET q == visit.query
        W == {b \in Wanted(q, visit.before) : SortByMetric(b, q.sortBy)}
    IN  Strict(W, q) =>
          /\ UNION {ShownIn(i) : i \in DOMAIN shown} = W
          /\ \A i, j \in DOMAIN shown : i < j =>
               \A a \in ShownIn(i), b \in ShownIn(j) : ~Precedes(b, a, q)
          /\ \A i \in DOMAIN shown : \A r \in shown[i] : r.total = Cardinality(W)

\* A bottle uploaded after the page was opened, that deprecates none and is no
\* parent asked for, leaves the parts to come as they were.
NewBottlesDoNotDisturb ==
  [][\A c \in Contents :
       /\ created[c] = 0 /\ created'[c] > visit.before
       /\ Doc[c].type = "bottle" /\ Deprecates[c] = {}
       /\ visit.query.parentsOf = NoDigest /\ visit.query.deprecatedBy = NoDigest
       => Found(visit.query, visit.before)' = Found(visit.query, visit.before)]_created

\* The list offers the metrics of every bottle shown.
MetricsOffered ==
  metrics # NoList /\ steady =>
    \A i \in DOMAIN shown : \A b \in ShownIn(i) : \A m \in About[b].metrics :
      m.name \in metrics

\* The list offers no metric that none of the bottles has, so that choosing one
\* never leads to an empty page; beside a filter by parts or by deprecation it is
\* answered 400 instead (Clashes).
MetricsLeadSomewhere ==
  metrics # NoList /\ steady =>
    \A n \in metrics : \E b \in Wanted(visit.query, visit.before) :
      FilterByMetric(b, {[name |-> n, op |-> "any", bound |-> 0]})

\* Every bottle shown has the labels that are said to be common.
CommonLabelsTrue ==
  labels # NoList /\ steady =>
    \A i \in DOMAIN shown : \A b \in ShownIn(i) : \A k \in labels :
      \E l \in About[b].labels : l.key = k

\* What stands beside the bottles is read by statements of its own, and is true of
\* them all the same.
ListsTrue == MetricsOffered /\ MetricsLeadSomewhere /\ CommonLabelsTrue

\* The number of pulls shown with a bottle is no more than it has: an event counts
\* once, however many aliases the bottle has.
PullsCounted ==
  \A i \in DOMAIN shown : \A r \in shown[i] :
    r.pulls <= Cardinality({e \in Stored("event") :
                              About[e].pull /\ BottleDigest(e)[1] = r.bottle})

\* What a requirement means where the code refers to: Matches of Kubernetes'
\* selector.go, which compares integers and selects by no other value.
LabelMap(b) == [k \in {l.key : l \in About[b].labels} |->
                  (CHOOSE l \in About[b].labels : l.key = k).value]
Selects(r, map) ==
  LET has == r.key \in DOMAIN map
  IN  CASE r.op = "in"     -> has /\ map[r.key] \in r.values
        [] r.op = "notin"  -> ~has \/ map[r.key] \notin r.values
        [] r.op = "exists" -> has
        [] r.op = "absent" -> ~has
        [] r.op = "gt"     -> has /\ \E n \in IntegerOf[map[r.key]] : n > r.bound
        [] r.op = "lt"     -> has /\ \E n \in IntegerOf[map[r.key]] : n < r.bound

\* Is every label of b that q compares with a bound the text of an integer, and
\* one that a float64 holds exactly?
Comparable(b, q) ==
  \A sel \in q.selectors : \A r \in sel : \A l \in About[b].labels :
    r.op \in {"gt", "lt"} /\ l.key = r.key =>
      IntegerOf[l.value] # {} /\ NumberOf[l.value] = IntegerOf[l.value]

\* The joins and subqueries made of selectors select the bottles that Kubernetes
\* would, whichever labels a bottle has or lacks: of the bottles whose labels can
\* be compared as the selectors ask, if they ask for that.  Otherwise the answers
\* differ: 7.5 is above 5 only here, and on Postgres so is a word.
SelectorsAgree ==
  \A b \in Stored("bottle") : \A q \in Asked \ Malformed :
    Comparable(b, q) =>
      (BySelectors(b, q.selectors) <=>
         \/ q.selectors = {}
         \/ \E sel \in q.selectors : \A r \in sel : Selects(r, LabelMap(b)))

\* A bottle is found by the key of a signature exactly when any digest of it
\* leads to a signature made with the key.
SignedFound ==
  \A d \in {x \in names : x[1] \in Stored("bottle")} :
    \A key \in {q.key : q \in Asked} \ {""} :
      WithSignature(d[1], key) <=> SigValid(d, key) # {}

\* Every location given for a bottle has a manifest of the bottle that is there,
\* and every event is a location under any of the bottle's digests.
LocationsResolve ==
  \A d \in names : d[1] \in Stored("bottle") =>
    LET found == Locations(d)
    IN  /\ \A l \in found :
             \E m \in Having("manifest", {l.digest}) : BottleOf(m) = d[1]
        /\ \A e \in Stored("event") : BottleDigest(e)[1] = d[1] =>
             \E l \in found : l.digest = Doc[e].subject

\* It makes no difference by which of its digests a bottle is asked for.
AliasesAlike == SignedFound /\ LocationsResolve

=============================================================================
