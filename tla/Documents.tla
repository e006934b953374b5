------------------------------ MODULE Documents ------------------------------
(***************************************************************************)
(* The uploads of the telemetry server and the references between them.   *)
(*                                                                         *)
(* An upload is a byte string.  The same bytes may be put on any of the    *)
(* five routes (PUT /api/blob, /bottle, /manifest, /event, /signature);    *)
(* what they decode to decides what the processor of that route does.      *)
(* Bytes are members of Contents, and a digest is the pair of the bytes it *)
(* was computed from and the algorithm: distinct bytes never share a       *)
(* digest.                                                                 *)
(***************************************************************************)
EXTENDS Integers, Sequences

CONSTANTS
  Contents,      \* the byte strings that occur
  Algs,          \* the digest algorithms the server offers
  CanonicalAlg,  \* db.CanonicalDigestAlgorithm
  NoDigest,      \* the field is absent
  Doc            \* what each content decodes to

\* The processors' primary tables, in pkg/types' topological order.
Types == {"blob", "bottle", "manifest", "event", "signature"}

Digest == Contents \X Algs

\* The digest of the bytes c under the algorithm a.
DigestOf(c, a) == <<c, a>>

(***************************************************************************)
(* One record for all kinds of document.                                   *)
(*   type       the structured type the bytes decode and validate as, or   *)
(*              "blob" when they are none of the others                    *)
(*   artifacts  a bottle's public artifacts                                *)
(*   parts      a bottle's number of parts, a manifest's number of layers  *)
(*   subject    a manifest's config digest, an event's manifestDigest, a   *)
(*              signature's subject manifest                               *)
(*   bottle     a signature's subject bottle                               *)
(*   sigs       a signature summary's entries: does each one verify?       *)
(***************************************************************************)
Document ==
  [type      : Types,
   artifacts : SUBSET Digest,
   parts     : Nat,
   subject   : Digest \cup {NoDigest},
   bottle    : Digest \cup {NoDigest},
   sigs      : Seq(BOOLEAN)]

\* The document types that name another object by their subject.
HasSubject == {"manifest", "event", "signature"}

ASSUME DocumentsAssumption ==
  /\ CanonicalAlg \in Algs
  /\ NoDigest \notin Digest
  /\ DOMAIN Doc = Contents
  /\ \A c \in Contents :
       /\ Doc[c].type \in Types
       /\ Doc[c].artifacts \subseteq Digest
       /\ Doc[c].parts \in Nat
       /\ Doc[c].subject \in Digest \cup {NoDigest}
       /\ Doc[c].bottle \in Digest \cup {NoDigest}
       /\ Doc[c].sigs \in Seq(BOOLEAN)
       /\ Doc[c].type \in HasSubject => Doc[c].subject \in Digest
       /\ Doc[c].type = "signature" => Doc[c].bottle \in Digest

\* Do the bytes c decode and validate on the route of type t?  BlobProcessor
\* takes any bytes, the others return 400 (409 for an event or a signature
\* that is not JSON).
Decodes(t, c) == t = "blob" \/ Doc[c].type = t

\* The table in which the subject of a document is looked up.
SubjectType(t) == IF t = "manifest" THEN "bottle" ELSE "manifest"

=============================================================================
