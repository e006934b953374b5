-------------------------------- MODULE Queries --------------------------------
(***************************************************************************)
(* The searches over the stored objects: the filters that the search pages *)
(* and the API put together, and the answers of the API that follow a      *)
(* bottle under any of its digests.  Each is one SQL statement.  The unit  *)
(* of the numbers is left open, so that they may be fractions of one.      *)
(***************************************************************************)
EXTENDS Scopes

CONSTANTS
  About,         \* of each content, what is searched for in it
  NumberOf,      \* the numbers that ParseFloat reads in a label's value: one or none
  IntegerOf,     \* those that ParseInt reads in it, for which Kubernetes looks
  NaNAboveAll    \* does the database sort NaN above every number (Postgres)?

(***************************************************************************)
(* What a document holds beside its references.                            *)
(*   labels      a bottle's labels, records [key, value] with distinct keys*)
(*   metrics     a bottle's metrics, records [name, value], distinct names *)
(*   authors     the names and addresses of a bottle's authors             *)
(*   words       the words of its description                              *)
(*   parts       the digests of its parts                                  *)
(*   repository  where an event was seen                                   *)
(*   pull        is the event a pull?                                      *)
(*   signed      a signature summary's entries, records [key, note]        *)
(***************************************************************************)
ASSUME QueriesAssumption ==
  /\ DOMAIN About = Contents
  /\ NaNAboveAll \in BOOLEAN
  /\ \A c \in Contents :
       /\ \A k, l \in About[c].labels : k.key = l.key => k = l
       /\ \A l \in About[c].labels : /\ NumberOf[l.value] \subseteq Int
                                     /\ IntegerOf[l.value] \subseteq Int
       /\ \A m, n \in About[c].metrics : m.name = n.name => m = n
       /\ \A m \in About[c].metrics : m.value \in Int

\* The bottle that a manifest, an event or a signature is about.
BottleOf(c) ==
  CASE Doc[c].type = "manifest"  -> Doc[c].subject[1]
    [] Doc[c].type = "event"     -> Doc[Doc[c].subject[1]].subject[1]
    [] Doc[c].type = "signature" -> Doc[c].bottle[1]

-----------------------------------------------------------------------------
(* Label selectors: a request has several, a selector several requirements, *)
(* records [key, op, values, bound].  The parser takes integers for bounds;  *)
(* the column numeric_value has what ParseFloat read in the value, or NaN.   *)

Above(v, bound) == IF NumberOf[v] = {} THEN NaNAboveAll
                                       ELSE \E n \in NumberOf[v] : n > bound
Below(v, bound) == \E n \in NumberOf[v] : n < bound

\* Faulty Meets: the conditions of the joined row, as once written: a bottle
\* without the key, or with another one, is judged by the wrong row.
MeetsByRow(b, r) ==
  \E l \in About[b].labels :
    CASE r.op = "in"     -> l.key = r.key /\ l.value \in r.values
      [] r.op = "notin"  -> l.key = r.key /\ l.value \notin r.values
      [] r.op = "exists" -> l.key = r.key
      [] r.op = "absent" -> l.key # r.key
      [] r.op = "gt"     -> l.key = r.key /\ Above(l.value, r.bound)
      [] r.op = "lt"     -> l.key = r.key /\ Below(l.value, r.bound)

\* The condition of a requirement: on the row of labels joined for it, or that
\* the bottle is not among those of a subquery.
Meets(b, r) ==
  LET Row(P(_)) == \E l \in About[b].labels : l.key = r.key /\ P(l.value)
  IN  CASE r.op = "in"     -> Row(LAMBDA v : v \in r.values)
        [] r.op = "notin"  -> ~Row(LAMBDA v : v \in r.values)
        [] r.op = "exists" -> Row(LAMBDA v : TRUE)
        [] r.op = "absent" -> ~Row(LAMBDA v : TRUE)
        [] r.op = "gt"     -> Row(LAMBDA v : Above(v, r.bound))
        [] r.op = "lt"     -> Row(LAMBDA v : Below(v, r.bound))

\* Selectors are alternatives; an empty one ends the conditions.
BySelectors(b, selectors) ==
  \/ selectors = {}
  \/ {} \in selectors
  \/ \E sel \in selectors : \A r \in sel : Meets(b, r)

-----------------------------------------------------------------------------
(* The other filters.  Each takes the value of a parameter and lets every   *)
(* bottle pass when the parameter is absent.                                *)

ByAuthor(b, author) == author = "" \/ author \in About[b].authors

ByRepository(b, repo) ==
  \/ repo = ""
  \/ \E e \in Stored("event") : BottleOf(e) = b /\ About[e].repository = repo

ByDescription(b, words) == words \subseteq About[b].words

\* The entries of all signatures on the bottle.
SignedWith(b) ==
  UNION {About[s].signed : s \in {x \in Stored("signature") : BottleOf(x) = b}}

WithSignature(b, key) == key = "" \/ \E x \in SignedWith(b) : x.key = key

WithAnnotations(b, notes) == notes = {} \/ \E x \in SignedWith(b) : x.note \in notes

\* A bottle passes for each of its aliases that no bottle deprecates.
ExcludeDeprecated(b) ==
  \E d \in DigestsOf(b) : \A c \in Stored("bottle") : d \notin Deprecates[c]

FilterByParts(b, parts) == parts \subseteq About[b].parts

\* Filters are names of metrics, or bounds on them: records [name, op, bound].
FilterByMetric(b, filters) ==
  \A f \in filters : \E m \in About[b].metrics :
    /\ m.name = f.name
    /\ f.op = "gt" => m.value > f.bound
    /\ f.op = "lt" => m.value < f.bound

SortByMetric(b, name) == name = "" \/ \E m \in About[b].metrics : m.name = name

MetricOf(b, name) == (CHOOSE m \in About[b].metrics : m.name = name).value

-----------------------------------------------------------------------------
(* The API. *)

\* GET /api/location: where a bottle can be had from.
Locations(d) ==
  {[repository |-> About[e].repository, digest |-> Doc[e].subject] :
     e \in {x \in Stored("event") :
              /\ BottleOf(x) \in Having("bottle", {d})
              /\ \E m \in Stored("manifest") : BottleOf(m) = BottleOf(x)}}

\* GET /api/signature: the entries of all signatures on a bottle.
Signatures(d) ==
  UNION {{[key |-> x.key, bottle |-> Doc[s].bottle, manifest |-> Doc[s].subject] :
            x \in About[s].signed} :
         s \in {x \in Stored("signature") : BottleOf(x) \in Having("bottle", {d})}}

\* Faulty SigValid: of the digest that the signer used.
SigValidOfName(d, key) ==
  {x \in Signatures(d) : x.key = key /\ x.bottle = d}

\* GET /api/sigvalid: those made with one key.
SigValid(d, key) == {x \in Signatures(d) : x.key = key}
=============================================================================
