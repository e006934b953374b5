------------------------------- MODULE Catalog -------------------------------
(***************************************************************************)
(* What the server promises its clients, with no statements, no requests   *)
(* and no failures: a catalogue of objects that only grows and that is     *)
(* closed under references.  An object enters only when everything it      *)
(* refers to is there under the very digest it uses, so whoever copies the *)
(* catalogue in topological order never meets a dangling reference.        *)
(***************************************************************************)
EXTENDS Documents

VARIABLES
  known,     \* contents whose bytes the server holds
  names,     \* digests under which contents can be asked for
  recorded   \* objects: pairs of a type and a content

cvars == <<known, names, recorded>>

\* Does the digest d lead to a recorded object of type t?
Resolves(t, d) == d \in names /\ <<t, d[1]>> \in recorded

\* Everything that the document c refers to, read as type t, is present.
\* Artifacts are looked up among the digests of all types; a manifest must
\* have one layer per part of its bottle.
Satisfied(t, c) ==
  /\ t = "bottle" => Doc[c].artifacts \subseteq names
  /\ t \in HasSubject => Resolves(SubjectType(t), Doc[c].subject)
  /\ t = "manifest" => Doc[c].parts = Doc[Doc[c].subject[1]].parts
  /\ t = "signature" => Resolves("bottle", Doc[c].bottle)

Init ==
  /\ known = {}
  /\ names = {}
  /\ recorded = {}

\* The bytes arrive, whatever becomes of the upload afterwards.
Learn(c) ==
  /\ known' = known \cup {c}
  /\ UNCHANGED <<names, recorded>>

\* Known bytes get one more digest.
Name(d) ==
  /\ d[1] \in known
  /\ names' = names \cup {d}
  /\ UNCHANGED <<known, recorded>>

\* An object is entered, its references being there.
Record(t, c) ==
  /\ c \in known
  /\ Decodes(t, c)
  /\ Satisfied(t, c)
  /\ recorded' = recorded \cup {<<t, c>>}
  /\ UNCHANGED <<known, names>>

Next ==
  \/ \E c \in Contents : Learn(c)
  \/ \E d \in Digest : Name(d)
  \/ \E t \in Types, c \in Contents : Record(t, c)

Spec == Init /\ [][Next]_cvars

-----------------------------------------------------------------------------

\* The catalogue holds what it is declared to hold.
TypeOK ==
  /\ known \subseteq Contents
  /\ names \subseteq Digest
  /\ recorded \subseteq Types \X Contents

\* The catalogue is closed: every object recorded has its references present,
\* under the digests it uses, and its bytes can be served.
Closed ==
  /\ \A d \in names : d[1] \in known
  /\ \A r \in recorded : r[2] \in known /\ Satisfied(r[1], r[2])

=============================================================================
