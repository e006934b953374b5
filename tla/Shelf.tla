-------------------------------- MODULE Shelf --------------------------------
(***************************************************************************)
(* The tables as the reading handlers see them.  Uploads happen meanwhile: *)
(* each commits a digest (Name) or an object (Enter), in the order Catalog *)
(* promises, and nothing is ever taken away.  A read is one statement and  *)
(* sees the tables of one moment; a handler is a sequence of reads.        *)
(*                                                                         *)
(* There is one row for one content: that concurrent uploads may store an  *)
(* object twice is shown with Ingest.                                      *)
(***************************************************************************)
EXTENDS Documents, FiniteSets

CONSTANTS
  Offered,   \* the digests under which clients upload
  Known,     \* the digests on record before
  Start,     \* the objects stored before
  MaxTime    \* bound: creation times are 1..MaxTime

ASSUME ShelfAssumption ==
  /\ Offered \subseteq Digest
  /\ Known \subseteq Digest
  /\ Start \subseteq Contents
  /\ MaxTime \in Nat \ {0}

\* What was stored before was uploaded once, after what it refers to.
StartOf(t) == {c \in Start : Doc[c].type = t}
InStart(t, d) == d \in Known /\ d[1] \in StartOf(t)

ASSUME StartAssumption ==
  /\ Start \subseteq {d[1] : d \in Known}
  /\ \A c \in StartOf("bottle") : Doc[c].artifacts \subseteq Known
  /\ \A c \in StartOf("manifest") :
       /\ InStart("bottle", Doc[c].subject)
       /\ Doc[c].parts = Doc[Doc[c].subject[1]].parts
  /\ \A c \in StartOf("event") : InStart("manifest", Doc[c].subject)
  /\ \A c \in StartOf("signature") : /\ InStart("manifest", Doc[c].subject)
                                     /\ InStart("bottle", Doc[c].bottle)

VARIABLES
  names,     \* the table digests
  created    \* the time in created_at of each object, 0 when it is not stored

shelf == <<names, created>>

Visible == {c \in Contents : created[c] > 0}

Shelved == INSTANCE Catalog
             WITH known <- {d[1] : d \in names}, names <- names,
                  recorded <- {<<Doc[c].type, c>> : c \in Visible}

Stored(t) == {c \in Visible : Doc[c].type = t}

\* The aliases of the bytes c, which every reading query joins.
DigestsOf(c) == {d \in names : d[1] = c}

\* The rows of the table of t whose data has one of the digests D.
Having(t, D) == {c \in Stored(t) : DigestsOf(c) \cap D # {}}

ShelfInit ==
  /\ names = Known
  /\ created = [c \in Contents |-> IF c \in Start THEN 1 ELSE 0]

\* An upload commits a digest of some bytes.
Name(d) ==
  /\ d \notin names
  /\ names' = names \cup {d}
  /\ UNCHANGED created

\* An upload commits an object, its references being there, with the time that
\* its replica read before.
Enter(c, now) ==
  /\ created[c] = 0
  /\ DigestsOf(c) # {}
  /\ Shelved!Satisfied(Doc[c].type, c)
  /\ created' = [created EXCEPT ![c] = now]
  /\ UNCHANGED names

Upload == \/ \E d \in Offered : Name(d)
          \/ \E c \in Contents, now \in 1..MaxTime : Enter(c, now)

ShelfTypeOK ==
  /\ names \subseteq Digest
  /\ created \in [Contents -> 0..MaxTime]

=============================================================================
