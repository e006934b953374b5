------------------------------ MODULE BottlePage ------------------------------
(***************************************************************************)
(* The page of a bottle (GET /www/bottle.html): handleBottle reads the     *)
(* bottle, where it was seen, what deprecates it, how often it was pulled  *)
(* and its lineage, and draws the lineage as a graph.  Every read is a     *)
(* statement of its own, so the page is put together from tables that grow *)
(* between one part of it and the next.                                    *)
(***************************************************************************)
EXTENDS Scopes

CONSTANTS
  Puller,       \* of each content, the user when it is a pull event, or NoUser
  NoUser,
  UserLimit,    \* how many users the page lists: 7
  Asked,        \* bound: the pages asked for, records [digest, up, down]
  MaxDepth,     \* bound: numGenAncestors and numGenDescendants
  MaxCommits    \* bound: what is committed while a page is read

Users == {Puller[c] : c \in Contents} \ {NoUser}

ASSUME BottlePageAssumption ==
  /\ IsFiniteSet(Contents)
  /\ DOMAIN Puller = Contents
  /\ UserLimit \in Nat
  /\ Asked # {}
  /\ Asked \subseteq [digest : Digest, up : 0..MaxDepth, down : 0..MaxDepth]
  /\ MaxDepth \in Nat
  /\ MaxCommits \in Nat

VARIABLES
  page,      \* the request: its parameters and the place in handleBottle
  root,      \* the bottle that was found
  facts,     \* what is read of it beside its lineage
  lineage,   \* the generations found, upwards and downwards
  graph,     \* the nodes drawn
  began      \* observed: the tables when the request began

vars == <<shelf, page, root, facts, lineage, graph, began>>

-----------------------------------------------------------------------------
(* Statements *)

\* A BottleRelative: a bottle, its aliases at the time, and one of them, the
\* first in whatever order the database lists them.
Row == [bottle : Contents, digests : SUBSET Digest, name : Digest]

RowOf(c, d) == [bottle |-> c, digests |-> DigestsOf(c), name |-> d]

\* The ways to list the bottles in B.
Listings(B) ==
  {{RowOf(c, f[c]) : c \in B} :
     f \in {g \in [B -> names] : \A c \in B : g[c][1] = c}}

AllDigests(gen) == UNION {r.digests : r \in gen}

\* The pull events of the very digest d.
PullsOf(d) ==
  {e \in Stored("event") : Puller[e] # NoUser /\ BottleDigest(e) = d}

-----------------------------------------------------------------------------
(* The request *)

NoRow == [bottle |-> CHOOSE c \in Contents : TRUE, digests |-> {},
          name |-> CHOOSE d \in Digest : TRUE]
NoFacts == [seen |-> {}, deprecates |-> {}, deprecatedBy |-> {},
            pulls |-> 0, users |-> [u \in {} |-> 0]]
NoLineage == [up |-> <<>>, down |-> <<>>]

Reading == {"bottle", "manifestations", "deprecatedBy", "deprecates",
            "pulls", "users", "ancestors", "descendants"}

Goto(s) == page' = [page EXCEPT !.stage = s]

Init ==
  /\ ShelfInit
  /\ page = [stage |-> "idle", digest |-> NoRow.name, up |-> 0, down |-> 0,
             at |-> 0]
  /\ root = NoRow
  /\ facts = NoFacts
  /\ lineage = NoLineage
  /\ graph = {}
  /\ began = [names |-> names, visible |-> Visible]

\* Somebody asks for the page of a digest, with so many generations upwards and
\* downwards.
Request(q) ==
  /\ page.stage \in {"idle", "missing", "done"}
  /\ page' = [stage |-> "bottle", digest |-> q.digest, up |-> q.up,
              down |-> q.down, at |-> q.down]
  /\ root' = NoRow
  /\ facts' = NoFacts
  /\ lineage' = NoLineage
  /\ graph' = {}
  /\ began' = [names |-> names, visible |-> Visible]
  /\ UNCHANGED shelf

\* The bottle itself, or 404.
FindBottle ==
  /\ page.stage = "bottle"
  /\ \/ /\ Having("bottle", {page.digest}) = {}
        /\ Goto("missing")
        /\ UNCHANGED root
     \/ \E c \in Having("bottle", {page.digest}), d \in names :
          /\ d[1] = c
          /\ root' = RowOf(c, d)
          /\ Goto("manifestations")
  /\ UNCHANGED <<shelf, facts, lineage, graph, began>>

\* One of the reads in between.
Fact(s, next) ==
  /\ page.stage = s
  /\ Goto(next)
  /\ UNCHANGED <<shelf, root, lineage, graph, began>>

\* The events by which the bottle was seen in some repository.  The query also
\* wants a manifest whose row number is that of the bottle: all are listed,
\* or none.
FindManifestations ==
  /\ Fact("manifestations", "deprecatedBy")
  /\ \E seen \in {{}, {e \in Stored("event") : BottleDigest(e)[1] = root.bottle}} :
       facts' = [facts EXCEPT !.seen = seen]

ReadDeprecatedBy ==
  /\ Fact("deprecatedBy", "deprecates")
  /\ facts' = [facts EXCEPT !.deprecates = FindDeprecatedBy(page.digest)]

ReadDeprecates ==
  /\ Fact("deprecates", "pulls")
  /\ facts' = [facts EXCEPT !.deprecatedBy = FindDeprecates(page.digest)]

BottlePulls ==
  /\ Fact("pulls", "users")
  /\ facts' = [facts EXCEPT !.pulls = Cardinality(PullsOf(page.digest))]

\* The pulls of each user; of UserLimit users when there are more.
UserPulls ==
  /\ Fact("users", "ancestors")
  /\ LET by == {Puller[e] : e \in PullsOf(page.digest)}
     IN \E U \in SUBSET by :
          /\ U = by \/ Cardinality(U) = UserLimit
          /\ Cardinality(U) <= UserLimit
          /\ facts' = [facts EXCEPT !.users = [u \in U |->
               Cardinality({e \in PullsOf(page.digest) : Puller[e] = u})]]

\* The digests of which the next generation is asked for.
Frontier(gens) == IF gens = <<>> THEN {root.name} ELSE AllDigests(gens[Len(gens)])

\* FindGenerations with FindParents: one generation more.
FindParents ==
  /\ page.stage = "ancestors"
  /\ Len(lineage.up) < page.up
  /\ \E gen \in Listings(ParentsOf(Frontier(lineage.up))) :
       lineage' = [lineage EXCEPT !.up = Append(@, gen)]
  /\ UNCHANGED <<shelf, page, root, facts, graph, began>>

\* FindGenerations with FindChildren.
FindChildren ==
  /\ page.stage = "descendants"
  /\ Len(lineage.down) < page.down
  /\ \E gen \in Listings(ChildrenOf(Frontier(lineage.down))) :
       lineage' = [lineage EXCEPT !.down = Append(@, gen)]
  /\ UNCHANGED <<shelf, page, root, facts, graph, began>>

\* All the generations in one direction are found.
FoundGenerations ==
  /\ \/ /\ page.stage = "ancestors"
        /\ Len(lineage.up) = page.up
        /\ Goto("descendants")
     \/ /\ page.stage = "descendants"
        /\ Len(lineage.down) = page.down
        /\ Goto("children")
  /\ UNCHANGED <<shelf, root, facts, lineage, graph, began>>

-----------------------------------------------------------------------------
(* The graph, drawn from the children to the parents *)

\* A source of a bottle, with the bottle that gives it.
Origin == [by : Contents, name : SourceNames, to : Targets]

\* A bottle or URI that was not found has a node for every source that names it.
Kinds == {"main", "relative", "external", "url"}
Node == [name : Targets, kind : Kinds, at : Int,
         links : SUBSET [label : SourceNames, to : Targets],
         origin : SUBSET Origin]

Names(nodes) == {n.name : n \in nodes}

\* Faulty LinksTo: whatever the source is.
LinksToAll(ids, next, pool) ==
  UNION {{[label |-> s.name, to |-> m] :
            s \in Sources[r.bottle], m \in pool \cap r.digests} : r \in next}

\* The nodes in pool for those relatives in the next generation that have one
\* of ids as a source.  The arrows are kept by the name of the source: of those
\* with the same name one is drawn.
LinksTo(ids, next, pool) ==
  UNION {{[label |-> s.name, to |-> m] :
            s \in {x \in Sources[r.bottle] : x.to \in ids},
            m \in pool \cap r.digests} : r \in next}

NodeOf(name, kind, at, links) ==
  [name |-> name, kind |-> kind, at |-> at, links |-> links, origin |-> {}]

\* The node of a source that leads to no bottle that was found.
OtherNode(o, at, links) ==
  [name |-> o.to, kind |-> IF o.to \in URIs THEN "url" ELSE "external",
   at |-> at, links |-> links, origin |-> {o}]

\* Faulty Undrawn: only the first alias is looked up.
UndrawnFirst(gen) == {r \in gen : r.name \notin Names(graph)}

\* The rows of a generation that have no node.
Undrawn(gen) == {r \in gen : Names(graph) \cap r.digests = {}}

\* The descendants, the farthest generation first; its rows are not compared
\* with the graph.
DrawChildren ==
  /\ page.stage = "children"
  /\ page.at > 0
  /\ LET n == page.at
         gen == lineage.down[n]
         new == IF n = page.down THEN gen ELSE Undrawn(gen)
         next == IF n = page.down THEN {} ELSE lineage.down[n + 1]
         pool == Names(graph) \cup {r.name : r \in new}
     IN graph' = graph \cup
          {NodeOf(r.name, "relative", n, LinksTo(r.digests, next, pool)) :
             r \in new}
  /\ page' = [page EXCEPT !.at = @ - 1]
  /\ UNCHANGED <<shelf, root, facts, lineage, began>>

\* The bottle of the page.
DrawRoot ==
  /\ page.stage = "children"
  /\ page.at = 0
  /\ LET next == IF page.down = 0 THEN {} ELSE lineage.down[1]
     IN graph' = graph \cup
          {NodeOf(root.name, "main", 0, LinksTo(root.digests, next, Names(graph)))}
  /\ page' = [page EXCEPT !.stage = "parents", !.at = 1]
  /\ UNCHANGED <<shelf, root, facts, lineage, began>>

\* The sources of the rows in gen.
Origins(gen) ==
  UNION {{[by |-> r.bottle, name |-> s.name, to |-> s.to] :
            s \in Sources[r.bottle]} : r \in gen}

\* The sources of the rows in prior which no row of gen has as an alias: URIs,
\* and bottles of which nothing is stored.
Others(prior, gen) == {o \in Origins(prior) : o.to \notin AllDigests(gen)}

\* Faulty DrawParents: the links are looked up in the generation itself.
DrawParentsAstray ==
  /\ page.stage = "parents"
  /\ page.at <= page.up
  /\ LET n == page.at
         gen == lineage.up[n]
     IN graph' = graph \cup
          {NodeOf(r.name, "relative", 0 - n,
                  LinksTo(r.digests, gen, Names(graph))) : r \in Undrawn(gen)}
  /\ page' = [page EXCEPT !.at = @ + 1]
  /\ UNCHANGED <<shelf, root, facts, lineage, began>>

\* A generation of ancestors, with what else its children have as sources.  What
\* is drawn already is looked up in the graph before this generation: a URI or
\* an unknown bottle that two of the children share gets a node for each, with
\* the same arrows, and none when an earlier generation had it as a source.
DrawParents ==
  /\ page.stage = "parents"
  /\ page.at <= page.up
  /\ LET n == page.at
         gen == lineage.up[n]
         prior == IF n = 1 THEN {root} ELSE lineage.up[n - 1]
         Links(ids) == LinksTo(ids, prior, Names(graph))
     IN graph' = graph
          \cup {NodeOf(r.name, "relative", 0 - n, Links(r.digests)) :
                  r \in Undrawn(gen)}
          \cup {OtherNode(o, 0 - n, Links({o.to})) :
                  o \in {x \in Others(prior, gen) : x.to \notin Names(graph)}}
  /\ page' = [page EXCEPT !.at = @ + 1]
  /\ UNCHANGED <<shelf, root, facts, lineage, began>>

\* The template is executed and the page sent.
Reply ==
  /\ page.stage = "parents"
  /\ page.at > page.up
  /\ Goto("done")
  /\ UNCHANGED <<shelf, root, facts, lineage, graph, began>>

\* A statement fails, or the client goes away.
Abandon ==
  /\ page.stage \in Reading
  /\ Goto("missing")
  /\ UNCHANGED <<shelf, root, facts, lineage, graph, began>>

-----------------------------------------------------------------------------

\* Drawing reads no table: what is committed meanwhile is nothing to it.
Grow ==
  /\ page.stage \in Reading
  /\ Cardinality(names \ began.names) + Cardinality(Visible \ began.visible)
       < MaxCommits
  /\ Upload
  /\ UNCHANGED <<page, root, facts, lineage, graph, began>>

Read == \/ FindBottle \/ FindManifestations \/ ReadDeprecatedBy
        \/ ReadDeprecates \/ BottlePulls \/ UserPulls
        \/ FindParents \/ FindChildren \/ FoundGenerations

Draw == DrawChildren \/ DrawRoot \/ DrawParents \/ Reply

Handle == Read \/ Draw

Next ==
  \/ \E q \in Asked : Request(q)
  \/ Handle
  \/ Abandon
  \/ Grow

Spec == Init /\ [][Next]_vars

-----------------------------------------------------------------------------
(* Properties *)

\* The tables, the request and what it has read keep their types.
TypeOK ==
  /\ ShelfTypeOK
  /\ page \in [stage : {"idle", "missing", "done", "children", "parents"} \cup Reading,
               digest : Digest, up : 0..MaxDepth, down : 0..MaxDepth,
               at : 0..(MaxDepth + 1)]
  /\ root \in Row
  /\ facts \in [seen : SUBSET Contents, deprecates : SUBSET Digest,
               deprecatedBy : SUBSET Digest, pulls : Nat, users : {facts.users}]
  /\ DOMAIN facts.users \subseteq Users
  /\ \A u \in DOMAIN facts.users : facts.users[u] \in Nat
  /\ lineage \in [up : Seq(SUBSET Row), down : Seq(SUBSET Row)]
  /\ Len(lineage.up) <= page.up /\ Len(lineage.down) <= page.down
  /\ graph \subseteq Node
  /\ began \in [names : SUBSET Digest, visible : SUBSET Contents]

\* When the request began, p was on record as a source of c.
Fed(p, c) ==
  /\ {p, c} \subseteq {b \in began.visible : Doc[b].type = "bottle"}
  /\ \E s \in Sources[c] : s.to \in began.names /\ s.to[1] = p

\* Did the bytes c get another digest while the page was read?
Grew(c) == \E d \in names \ began.names : d[1] = c

\* c has a node, and one that says what it is; unless c got a digest meanwhile,
\* by which it had been an unknown bottle before.
Shown(c) == \E n \in graph : /\ n.name \in Digest
                             /\ n.name[1] = c
                             /\ n.kind = "external" => Grew(c)

\* Every relative within the depth asked for that was on record when the request
\* began is in the graph, by whichever of its aliases each relation was recorded
\* and however many ways lead to it: FindGenerations goes on with the aliases of
\* each generation as they are when it asks (relatives.go:196-209).
NothingMissed ==
  page.stage = "done" =>
    /\ \A n \in 1..page.up : \A line \in [0..n -> began.visible] :
         /\ line[0] = root.bottle
         /\ \A i \in 0..(n - 1) : Fed(line[i + 1], line[i])
         => Shown(line[n])
    /\ \A n \in 1..page.down : \A line \in [0..n -> began.visible] :
         /\ line[0] = root.bottle
         /\ \A i \in 0..(n - 1) : Fed(line[i], line[i + 1])
         => Shown(line[n])

\* "note every ancestor should point to something" (ancestors.go:380): whatever
\* arrives between the statements, the graph never has an ancestor from which
\* no arrow leads to a bottle that was drawn before.
EveryAncestorPoints ==
  \A n \in graph : n.at < 0 => n.links # {}

\* Every arrow leads to the right, to a node of the graph, from a source to a
\* bottle that has it by that name.
ArrowsGenuine ==
  \A n \in graph : \A l \in n.links :
    /\ \E m \in graph : m.name = l.to /\ (m.at > n.at \/ Grew(m.name[1]))
    /\ \E s \in Sources[l.to[1]] :
         /\ s.name = l.label
         /\ \/ s.to = n.name
            \/ {s.to, n.name} \subseteq Digest /\ s.to[1] = n.name[1]

\* No bottle that was found on record has two nodes, although it may be several
\* kinds of relative at once and its first alias may differ from one statement to
\* the next; unless it got a digest meanwhile, of which the nearer generation did
\* not know.  A URI, or a bottle that was not found, may have several: one for
\* each source that names it in the generation where it is first met.
DrawnOnce ==
  \A m, n \in graph :
    /\ {m.kind, n.kind} \subseteq {"main", "relative"}
    /\ m.name[1] = n.name[1]
    => m = n \/ Grew(m.name[1])

\* What the page says of deprecation is so, and has what was on record when the
\* request began: of what the bottle deprecates the very digests that its list
\* gives, under whichever of its own digests the bottle was asked for (its list
\* is reached through its data), and every digest of each bottle whose list has
\* the very digest asked for.
DeprecationsListed ==
  page.stage = "done" =>
    LET others == {e \in names : e[1] \in Stored("bottle")}
        before == {e \in began.names : /\ e[1] \in began.visible
                                       /\ Doc[e[1]].type = "bottle"}
    IN /\ before \cap Deprecates[root.bottle] \subseteq facts.deprecates
       /\ facts.deprecates \subseteq others \cap Deprecates[root.bottle]
       /\ {e \in before : page.digest \in Deprecates[e[1]]} \subseteq facts.deprecatedBy
       /\ facts.deprecatedBy \subseteq {e \in others : page.digest \in Deprecates[e[1]]}

=============================================================================
