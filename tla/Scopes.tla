-------------------------------- MODULE Scopes --------------------------------
(***************************************************************************)
(* The relations between bottles, as the scopes of the queries follow      *)
(* them.                                                                   *)
(*                                                                         *)
(* A source of a bottle is a URI or names a bottle by one digest; it is    *)
(* stored as text, whether that bottle is there or not, and so is a        *)
(* deprecation.  A digest cannot be known before the bytes it names, so    *)
(* neither relation has a cycle.                                           *)
(***************************************************************************)
EXTENDS Shelf

CONSTANTS
  URIs,         \* sources that are no bottles
  SourceNames,  \* the names that bottles give to their sources
  Sources,      \* of each content, records [name, to]
  Deprecates    \* of each content, the digests it deprecates

Targets == Digest \cup URIs

ASSUME ScopesAssumption ==
  /\ URIs \cap Digest = {}
  /\ Sources \in [Contents -> SUBSET [name : SourceNames, to : Targets]]
  /\ Deprecates \in [Contents -> SUBSET Digest]
  /\ \A c \in Contents : Doc[c].type # "bottle" =>
       Sources[c] = {} /\ Deprecates[c] = {}

\* Of any contents the first to be made has none of the others as a source.
ASSUME SourcesAreOlder ==
  \A S \in SUBSET Contents : S # {} =>
    \E c \in S : \A s \in Sources[c] : s.to \in Digest => s.to[1] \notin S

\* The bottles that some source of a bottle with a digest in D names.
ParentsOf(D) ==
  {b \in Stored("bottle") : \E o \in Having("bottle", D) : \E s \in Sources[o] :
     s.to \in DigestsOf(b)}

\* Faulty ChildrenOf: the source must be one of the digests asked for.
ChildrenOfExact(D) ==
  {b \in Stored("bottle") : \E s \in Sources[b] : s.to \in D}

\* The bottles that have a source named by any alias of the digests in D.
ChildrenOf(D) ==
  {b \in Stored("bottle") : \E s \in Sources[b], d \in D \cap names :
     s.to \in DigestsOf(d[1])}

\* The digests that the bottle with the digest d deprecates, as they stand in its
\* list, of bottles on record; the other aliases of those bottles are not listed.
FindDeprecatedBy(d) ==
  LET deprecated == UNION {Deprecates[b] : b \in Having("bottle", {d})}
  IN {e \in deprecated \cap names : e[1] \in Stored("bottle")}

\* Faulty FindDeprecates: the alias is ignored.
FindDeprecatesAny(d) ==
  {e \in names : /\ e[1] \in Stored("bottle")
                 /\ \E x \in Deprecates[e[1]] : x[1] = d[1]}

\* The aliases of the bottles that deprecate the digest d.
FindDeprecates(d) ==
  {e \in names : e[1] \in Stored("bottle") /\ d \in Deprecates[e[1]]}

\* An event keeps the digest under which its manifest names the bottle.
BottleDigest(e) == Doc[Doc[e].subject[1]].subject

=============================================================================
