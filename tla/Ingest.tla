------------------------------- MODULE Ingest --------------------------------
(***************************************************************************)
(* The upload path of the telemetry server: genericPutData and the five    *)
(* processors it calls, over the shared database.                          *)
(*                                                                         *)
(* Workers are the request goroutines of every replica that serves the     *)
(* same database.  No handler runs in a transaction, so each database      *)
(* statement is an action of its own and the statements of two requests    *)
(* interleave; a handler may die between any two of them (its client goes  *)
(* away, the 60 s timeout fires, the database reports an error) and what   *)
(* it wrote stays.                                                         *)
(***************************************************************************)
EXTENDS Documents

CONSTANTS
  Workers,      \* request goroutines
  Submissions,  \* the uploads clients make: [type, content, claim]
  Versions,     \* processor versions of the replicas that are running
  NoContent     \* no data row

ASSUME IngestAssumption ==
  /\ NoContent \notin Contents
  /\ Versions \subseteq Nat \ {0}
  /\ Submissions \subseteq [type : Types, content : Contents, claim : Digest]

VARIABLES
  data,      \* table data: contents with a row (its unique canonical digest)
  digests,   \* table digests: the data row of a digest, or NoContent
  table,     \* tables blobs ... signatures: rows in primary key order
  request    \* the handler each worker is running

vars == <<data, digests, table, request>>

-----------------------------------------------------------------------------
(* The database *)

\* A row of one of the object tables: its data row and processor version, and
\* the foreign keys its type has (0, {} when it has none).  sig is the entry
\* of the signature summary the row holds.
Row ==
  [data : Contents, version : Nat, manifest : Nat, bottle : Nat,
   artifacts : SUBSET Contents, sig : Nat]

\* Faulty IsFirst: the most recent row instead of the first.
IsLast(t, c, i) ==
  /\ i \in DOMAIN table[t]
  /\ table[t][i].data = c
  /\ \A j \in DOMAIN table[t] : table[t][j].data = c => j <= i

\* Row i is what First() finds for the data row c: the lowest primary key.
IsFirst(t, c, i) ==
  /\ i \in DOMAIN table[t]
  /\ table[t][i].data = c
  /\ \A j \in 1 .. (i - 1) : table[t][j].data # c

HasRow(t, c) == \E i \in DOMAIN table[t] : table[t][i].data = c

\* FilterByDigest: row i is the object of type t known by the digest d.
Finds(t, d, i) == digests[d] # NoContent /\ IsFirst(t, digests[d], i)

FindsNone(t, d) == digests[d] = NoContent \/ ~ HasRow(t, digests[d])

-----------------------------------------------------------------------------
(* The handlers *)

Stages ==
  {"findData", "createData", "findDigest", "createDigest", "findBase",
   "decode", "artifacts", "subject", "sigBottle", "save", "done"}

\* How the handler ended: 0 is not yet.
Statuses == {0, 201, 204, 400, 409, 412, 500}

\* base is the primary key of the row found in step 3, 0 when there is none;
\* then the 204 header is out already.  todo, missing and artifacts belong to
\* the loop over a bottle's public artifacts; manifest, bottle and sig to the
\* object about to be saved.
Request ==
  [stage : Stages, type : Types, content : Contents, digest : Digest,
   version : Nat, base : Nat, todo : SUBSET Digest, missing : SUBSET Digest,
   artifacts : SUBSET Contents, manifest : Nat, bottle : Nat, sig : Nat,
   status : Statuses]

Idle == [stage |-> "idle"]

\* The request of worker w goes on as r, the database is left alone.
Goes(w, r) ==
  /\ request' = [request EXCEPT ![w] = r]
  /\ UNCHANGED <<data, digests, table>>

\* The handler of r ends with status s.
Answered(r, s) == [r EXCEPT !.stage = "done", !.status = s]

\* What the client is told: a header that is out cannot be taken back.
Header(r) == IF r.base # 0 THEN 204 ELSE r.status

\* Faulty Receive: the client's digest is believed.
ReceiveUnchecked(w) ==
  /\ request[w].stage = "idle"
  /\ \E s \in Submissions, v \in Versions :
       Goes(w, [stage |-> "findData", type |-> s.type, content |-> s.content,
                digest |-> s.claim, version |-> v, base |-> 0, todo |-> {},
                missing |-> {}, artifacts |-> {}, manifest |-> 0,
                bottle |-> 0, sig |-> 1, status |-> 0])

\* A new upload: the body is read, digested with the algorithm of the claimed
\* digest and compared with it.
Receive(w) ==
  /\ request[w].stage = "idle"
  /\ \E s \in Submissions, v \in Versions :
       LET dgst == DigestOf(s.content, s.claim[2])
           r == [stage |-> "findData", type |-> s.type, content |-> s.content,
                 digest |-> dgst, version |-> v, base |-> 0, todo |-> {},
                 missing |-> {}, artifacts |-> {}, manifest |-> 0,
                 bottle |-> 0, sig |-> 1, status |-> 0]
       IN Goes(w, IF dgst = s.claim THEN r ELSE Answered(r, 409))

\* Step 1, SELECT of FirstOrCreate.
FindData(w) ==
  LET r == request[w] IN
  /\ r.stage = "findData"
  /\ Goes(w, [r EXCEPT !.stage = IF r.content \in data THEN "findDigest"
                                                       ELSE "createData"])

\* Step 1, INSERT: the unique index on canonical_digest decides a race.
CreateData(w) ==
  LET r == request[w] IN
  /\ r.stage = "createData"
  /\ \/ /\ r.content \notin data
        /\ data' = data \cup {r.content}
        /\ request' = [request EXCEPT ![w].stage = "findDigest"]
        /\ UNCHANGED <<digests, table>>
     \/ /\ r.content \in data
        /\ Goes(w, Answered(r, 500))

\* Step 2, SELECT by digest and data_id.
FindDigest(w) ==
  LET r == request[w] IN
  /\ r.stage = "findDigest"
  /\ Goes(w, [r EXCEPT !.stage = IF digests[r.digest] = r.content
                                 THEN "findBase" ELSE "createDigest"])

\* Step 2, INSERT under the unique index on digest.
CreateDigest(w) ==
  LET r == request[w] IN
  /\ r.stage = "createDigest"
  /\ \/ /\ digests[r.digest] = NoContent
        /\ digests' = [digests EXCEPT ![r.digest] = r.content]
        /\ request' = [request EXCEPT ![w].stage = "findBase"]
        /\ UNCHANGED <<data, table>>
     \/ /\ digests[r.digest] # NoContent
        /\ Goes(w, Answered(r, 500))

\* Faulty FindBase: bytes that are known count as an object that is recorded.
FindBaseByData(w) ==
  /\ request[w].stage = "findBase"
  /\ Goes(w, IF request[w].content \in data THEN Answered(request[w], 204)
             ELSE [request[w] EXCEPT !.stage = "decode"])

\* Step 3: the object of this data row, if any.  A row of this replica's
\* version ends the request; any other row, older or newer, is processed again.
FindBase(w) ==
  LET r == request[w] IN
  /\ r.stage = "findBase"
  /\ \/ /\ ~ HasRow(r.type, r.content)
        /\ Goes(w, [r EXCEPT !.stage = "decode"])
     \/ \E i \in DOMAIN table[r.type] :
          /\ IsFirst(r.type, r.content, i)
          /\ IF table[r.type][i].version = r.version
             THEN Goes(w, Answered(r, 204))
             ELSE Goes(w, [r EXCEPT !.stage = "decode", !.base = i])

\* The processor decodes and validates the bytes.
Decode(w) ==
  LET r == request[w] IN
  /\ r.stage = "decode"
  /\ \/ /\ ~ Decodes(r.type, r.content)
        /\ \E s \in {400, 409} :
             /\ s = 409 => r.type \in {"event", "signature"}
             /\ Goes(w, Answered(r, s))
     \/ /\ Decodes(r.type, r.content)
        /\ Goes(w,
             IF r.type = "blob" THEN [r EXCEPT !.stage = "save"]
             ELSE IF r.type = "bottle"
             THEN [r EXCEPT !.stage = "artifacts",
                            !.todo = Doc[r.content].artifacts]
             ELSE [r EXCEPT !.stage = "subject"])

\* Faulty LookupArtifact: each artifact replaces the one before.
LookupArtifactReset(w) ==
  LET r == request[w] IN
  /\ r.stage = "artifacts"
  /\ \E d \in r.todo :
       Goes(w, IF digests[d] = NoContent
               THEN [r EXCEPT !.todo = @ \ {d}, !.missing = @ \cup {d}]
               ELSE [r EXCEPT !.todo = @ \ {d}, !.artifacts = {digests[d]}])

\* BottleProcessor looks each public artifact up in the digests table.
LookupArtifact(w) ==
  LET r == request[w] IN
  /\ r.stage = "artifacts"
  /\ \E d \in r.todo :
       Goes(w, IF digests[d] = NoContent
               THEN [r EXCEPT !.todo = @ \ {d}, !.missing = @ \cup {d}]
               ELSE [r EXCEPT !.todo = @ \ {d},
                              !.artifacts = @ \cup {digests[d]}])

\* Faulty ArtifactsDone: a new bottle is let in without its artifacts.
ArtifactsDoneLater(w) ==
  LET r == request[w] IN
  /\ r.stage = "artifacts"
  /\ r.todo = {}
  /\ Goes(w, IF r.missing = {} \/ r.base = 0 THEN [r EXCEPT !.stage = "save"]
                                             ELSE Answered(r, 412))

\* After the last artifact the bottle is saved, or all that miss are reported.
ArtifactsDone(w) ==
  LET r == request[w] IN
  /\ r.stage = "artifacts"
  /\ r.todo = {}
  /\ Goes(w, IF r.missing = {} THEN [r EXCEPT !.stage = "save"]
                               ELSE Answered(r, 412))

\* Faulty LookupSubject: a new object is let in without its subject.
LookupSubjectLater(w) ==
  LET r == request[w] IN
  /\ r.stage = "subject"
  /\ Goes(w, IF r.base # 0 /\ FindsNone(SubjectType(r.type), Doc[r.content].subject)
             THEN Answered(r, 412) ELSE [r EXCEPT !.stage = "save"])

\* The manifest, event and signature processors look their subject up.  The
\* manifest's bottle must have as many parts as the manifest has layers; an
\* event takes over the bottle of its manifest.
LookupSubject(w) ==
  LET r == request[w]
      d == Doc[r.content].subject
      t == SubjectType(r.type)
  IN
  /\ r.stage = "subject"
  /\ \/ /\ FindsNone(t, d)
        /\ Goes(w, Answered([r EXCEPT !.missing = {d}], 412))
     \/ \E i \in DOMAIN table[t] :
          /\ Finds(t, d, i)
          /\ CASE r.type = "manifest" ->
                    Goes(w, IF Doc[table[t][i].data].parts = Doc[r.content].parts
                            THEN [r EXCEPT !.stage = "save", !.bottle = i]
                            ELSE Answered(r, 400))
               [] r.type = "event" ->
                    Goes(w, [r EXCEPT !.stage = "save", !.manifest = i,
                                      !.bottle = table[t][i].bottle])
               [] OTHER ->
                    Goes(w, [r EXCEPT !.stage = "sigBottle", !.manifest = i])

\* Faulty LookupSigBottle: the manifest's bottle is taken for the signature's.
LookupSigBottleOfManifest(w) ==
  /\ request[w].stage = "sigBottle"
  /\ Goes(w, [request[w] EXCEPT !.stage = "save",
                !.bottle = table["manifest"][request[w].manifest].bottle])

\* SignatureProcessor looks the bottle up by the digest in the summary; its
\* absence is a plain 400.
LookupSigBottle(w) ==
  LET r == request[w]
      d == Doc[r.content].bottle
  IN
  /\ r.stage = "sigBottle"
  /\ \/ /\ FindsNone("bottle", d)
        /\ Goes(w, Answered(r, 400))
     \/ \E i \in DOMAIN table["bottle"] :
          /\ Finds("bottle", d, i)
          /\ Goes(w, [r EXCEPT !.stage = "save", !.bottle = i])

\* The row the processor hands to gorm's Save.
NewRow(r) ==
  [data |-> r.content, version |-> r.version, manifest |-> r.manifest,
   bottle |-> r.bottle, artifacts |-> r.artifacts,
   sig |-> IF r.type = "signature" THEN r.sig ELSE 0]

\* Faulty Write: always an INSERT.
WriteInsert(t, base, row) ==
  table' = [table EXCEPT ![t] = Append(@, row)]

\* gorm's Save, one transaction: an INSERT without a primary key, else an
\* UPDATE of the row.
Write(t, base, row) ==
  table' = [table EXCEPT ![t] = IF base = 0 THEN Append(@, row)
                                ELSE [@ EXCEPT ![base] = row]]

\* The one Save of the blob, bottle, manifest and event processors.
Save(w) ==
  LET r == request[w] IN
  /\ r.stage = "save"
  /\ r.type # "signature"
  /\ Write(r.type, r.base, NewRow(r))
  /\ request' = [request EXCEPT ![w] = Answered(r, 201)]
  /\ UNCHANGED <<data, digests>>

\* Faulty SaveSignature: the last entry is left out.
SaveSignatureShort(w) ==
  LET r == request[w] IN
  /\ r.stage = "save"
  /\ r.type = "signature"
  /\ \/ /\ r.sig >= Len(Doc[r.content].sigs)
        /\ Goes(w, Answered(r, 201))
     \/ /\ r.sig < Len(Doc[r.content].sigs)
        /\ Write("signature", r.base, NewRow(r))
        /\ request' = [request EXCEPT ![w].sig = @ + 1]
        /\ UNCHANGED <<data, digests>>

\* SignatureProcessor verifies and saves one entry after the other, each with
\* the same base; the first that does not verify ends the request.
SaveSignature(w) ==
  LET r == request[w]
      sigs == Doc[r.content].sigs
  IN
  /\ r.stage = "save"
  /\ r.type = "signature"
  /\ \/ /\ r.sig > Len(sigs)
        /\ Goes(w, Answered(r, 201))
     \/ /\ r.sig <= Len(sigs) /\ ~ sigs[r.sig]
        /\ Goes(w, Answered(r, 400))
     \/ /\ r.sig <= Len(sigs) /\ sigs[r.sig]
        /\ Write("signature", r.base, NewRow(r))
        /\ request' = [request EXCEPT ![w].sig = @ + 1]
        /\ UNCHANGED <<data, digests>>

\* The answer is delivered and the goroutine is free again.
Deliver(w) ==
  /\ request[w].stage = "done"
  /\ Goes(w, Idle)

\* A statement fails or the context is cancelled: what was written stays.
Fail(w) ==
  /\ request[w].stage \notin {"idle", "done"}
  /\ Goes(w, Answered(request[w], 500))

\* A step of the handler itself, fault free.
Step(w) ==
  \/ FindData(w)       \/ CreateData(w)
  \/ FindDigest(w)     \/ CreateDigest(w)
  \/ FindBase(w)       \/ Decode(w)
  \/ LookupArtifact(w) \/ ArtifactsDone(w)
  \/ LookupSubject(w)  \/ LookupSigBottle(w)
  \/ Save(w)           \/ SaveSignature(w)
  \/ Deliver(w)

Init ==
  /\ data = {}
  /\ digests = [d \in Digest |-> NoContent]
  /\ table = [t \in Types |-> <<>>]
  /\ request = [w \in Workers |-> Idle]

Next == \E w \in Workers : Receive(w) \/ Step(w) \/ Fail(w)

Spec == Init /\ [][Next]_vars

-----------------------------------------------------------------------------
(* Properties *)

\* Every variable has the shape of its table or handler.
TypeOK ==
  /\ data \subseteq Contents
  /\ digests \in [Digest -> Contents \cup {NoContent}]
  /\ table \in [Types -> Seq(Row)]
  /\ request \in [Workers -> Request \cup {Idle}]

\* A digest row leads to the bytes it was computed from, whatever digests
\* clients claim and however two uploads of the same bytes interleave, and
\* those bytes are stored.
ContentAddressed ==
  \A d \in Digest :
    digests[d] # NoContent => digests[d] = d[1] /\ d[1] \in data

\* The foreign keys k (of a row, or of an object about to be saved) are those
\* that the document c gives an object of type t: each leads to what the
\* server finds under the digest the document uses.
References(t, c, k) ==
  /\ k.artifacts = IF t = "bottle" THEN {digests[d] : d \in Doc[c].artifacts}
                                   ELSE {}
  /\ t = "bottle" => \A d \in Doc[c].artifacts : digests[d] # NoContent
  /\ IF t \in {"event", "signature"}
     THEN Finds("manifest", Doc[c].subject, k.manifest)
     ELSE k.manifest = 0
  /\ t = "manifest" =>
       /\ Finds("bottle", Doc[c].subject, k.bottle)
       /\ Doc[digests[Doc[c].subject]].parts = Doc[c].parts
  /\ t = "signature" => Finds("bottle", Doc[c].bottle, k.bottle)
  /\ t \in {"blob", "bottle"} => k.bottle = 0

\* The bottle of an event is that of its manifest.
Prejoined(t, k) ==
  t = "event" => k.bottle = table["manifest"][k.manifest].bottle

\* No object dangles: whatever requests were abandoned halfway, the foreign
\* keys of every saved row lead to rows holding exactly what its document names.
ReferencesHold ==
  \A t \in Types : \A i \in DOMAIN table[t] :
    LET row == table[t][i] IN
    /\ row.data \in data
    /\ Decodes(t, row.data)
    /\ References(t, row.data, row)

\* An event carries its manifest's bottle (Event.BottleID is joined in
\* advance), although the manifest row may be processed again meanwhile.
PrejoinedBottle ==
  \A t \in Types : \A i \in DOMAIN table[t] : Prejoined(t, table[t][i])

\* What a handler has learned so far still holds when it uses it, whatever
\* other handlers wrote in between.  With the invariants above it makes an
\* inductive invariant.
Learned(r) ==
  LET doc == Doc[r.content]
      seen == doc.artifacts \ (r.todo \cup r.missing)
  IN
  /\ r.digest[1] = r.content
  /\ r.stage \notin {"findData", "createData"} => r.content \in data
  /\ r.base # 0 => /\ r.base \in DOMAIN table[r.type]
                   /\ table[r.type][r.base].data = r.content
  /\ r.stage \notin {"artifacts", "save"} => r.artifacts = {}
  /\ r.stage \notin {"sigBottle", "save"} => r.manifest = 0
  /\ r.stage # "save" => r.bottle = 0
  /\ r.stage \in {"artifacts", "subject", "sigBottle", "save"} =>
       Decodes(r.type, r.content)
  /\ r.stage = "artifacts" =>
       /\ r.type = "bottle"
       /\ r.todo \cap r.missing = {}
       /\ r.todo \cup r.missing \subseteq doc.artifacts
       /\ r.artifacts = {digests[d] : d \in seen}
       /\ \A d \in seen : digests[d] # NoContent
  /\ r.stage \notin {"artifacts", "save"} => r.missing = {}
  /\ r.stage = "subject" => r.type \in HasSubject
  /\ r.stage = "sigBottle" =>
       /\ r.type = "signature"
       /\ Finds("manifest", doc.subject, r.manifest)
  /\ r.stage = "save" =>
       /\ References(r.type, r.content, r)
       /\ Prejoined(r.type, r)

InFlight ==
  \A w \in Workers :
    request[w].stage \notin {"idle", "done"} => Learned(request[w])

\* An answer of 201 or 204 means that the object is on record: a client may
\* forget an upload that was acknowledged.
SuccessMeansRecorded ==
  \A w \in Workers :
    LET r == request[w] IN
    r.stage = "done" /\ Header(r) \in {201, 204} =>
      \/ HasRow(r.type, r.content)
      \/ r.type = "signature" /\ Doc[r.content].sigs = <<>>

\* Every entry of the signature summary c is on record.
AllSignatures(c) ==
  \A k \in 1 .. Len(Doc[c].sigs) :
    \E i \in DOMAIN table["signature"] :
      /\ table["signature"][i].data = c
      /\ table["signature"][i].sig = k

\* The upload that is told 201 has recorded all entries of its summary.
CreatedMeansComplete ==
  \A w \in Workers :
    LET r == request[w] IN
    r.stage = "done" /\ r.type = "signature" /\ Header(r) = 201 =>
      AllSignatures(r.content)

\* A summary that is acknowledged, as new or as already there, is recorded
\* completely.
SignaturesComplete ==
  \A w \in Workers :
    LET r == request[w] IN
    r.stage = "done" /\ r.type = "signature" /\ Header(r) \in {201, 204} =>
      AllSignatures(r.content)

\* Uploading the same bytes again does not store the object again.
NoDuplicateObjects ==
  \A t \in Types \ {"signature"} : \A i, j \in DOMAIN table[t] :
    table[t][i].data = table[t][j].data => i = j

\* What a digest resolves to never changes once it resolves, not even when a
\* race has stored the object twice or a row is processed again.
LookupsStable ==
  [][\A t \in Types, d \in Digest : \A i \in DOMAIN table[t] :
       Finds(t, d, i) => Finds(t, d, i)']_vars

\* Processing a row again never redirects its references.
ReferencesFixed ==
  [][\A t \in Types : \A i \in DOMAIN table[t] :
       /\ i \in DOMAIN table'[t]
       /\ \A f \in {"data", "manifest", "bottle", "artifacts"} :
            table'[t][i][f] = table[t][i][f]]_vars

\* The server implements the catalogue: each statement of each handler is
\* invisible, or learns bytes, or names them, or records one object whose
\* references are all there.
RecordedObjects ==
  {o \in Types \X Contents : HasRow(o[1], o[2])}

Catalogue ==
  INSTANCE Catalog WITH known <- data,
                        names <- {d \in Digest : digests[d] # NoContent},
                        recorded <- RecordedObjects

ImplementsCatalog == Catalogue!Spec

\* Seen from outside the catalogue is closed: all that a recorded object refers
\* to can be asked for under the very digest that its document uses.
CatalogueClosed == Catalogue!Closed

=============================================================================
