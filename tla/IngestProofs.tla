---------------------------- MODULE IngestProofs -----------------------------
(***************************************************************************)
(* Theorems about Ingest, for any documents, any number of requests in     *)
(* flight and any mix of processor versions; and about the catalogue that  *)
(* it implements.                                                          *)
(***************************************************************************)
EXTENDS Ingest, TLAPS

-----------------------------------------------------------------------------
(* Type correctness *)

\* Answering a request keeps its other fields.
LEMMA AnsweredType ==
  ASSUME NEW r \in Request, NEW s \in Statuses
  PROVE  Answered(r, s) \in Request
BY DEF Answered, Request, Stages

\* A handler that is at work, as opposed to an idle worker.
LEMMA AtWork ==
  ASSUME TypeOK, NEW w \in Workers, request[w].stage # "idle"
  PROVE  request[w] \in Request
  BY DEF TypeOK, Idle

\* A step that only moves one handler on keeps every variable's type.
LEMMA GoesType ==
  ASSUME TypeOK, NEW w \in Workers, NEW r \in Request \cup {Idle}, Goes(w, r)
  PROVE  TypeOK'
  BY DEF TypeOK, Goes

\* What Save does to the tables: one row k of table t becomes the new row, and
\* it is the base row or a new last one.
LEMMA WriteEffect ==
  ASSUME TypeOK, NEW t \in Types, NEW base \in Nat, NEW row \in Row,
         base # 0 => base \in DOMAIN table[t],
         Write(t, base, row)
  PROVE  /\ table' \in [Types -> Seq(Row)]
         /\ \A u \in Types \ {t} : table'[u] = table[u]
         /\ \E k \in Nat :
              /\ DOMAIN table'[t] = DOMAIN table[t] \cup {k}
              /\ table'[t][k] = row
              /\ \A i \in DOMAIN table[t] :
                   i # k => table'[t][i] = table[t][i]
              /\ k = IF base = 0 THEN Len(table[t]) + 1 ELSE base
<1> DEFINE T == table[t]
           New == IF base = 0 THEN Append(T, row) ELSE [T EXCEPT ![base] = row]
           k == IF base = 0 THEN Len(T) + 1 ELSE base
<1>1. T \in Seq(Row) /\ DOMAIN T = 1 .. Len(T) /\ Len(T) \in Nat
  BY DEF TypeOK
<1>2. table' = [table EXCEPT ![t] = New]
  BY DEF Write
<1>3. /\ New \in Seq(Row)
      /\ DOMAIN New = DOMAIN T \cup {k}
      /\ New[k] = row
      /\ \A i \in DOMAIN T : i # k => New[i] = T[i]
  <2>1. CASE base = 0
    BY <1>1, <2>1
  <2>2. CASE base # 0
    BY <1>1, <2>2
  <2>3. QED
    BY <2>1, <2>2
<1>4. table'[t] = New
  BY <1>2 DEF TypeOK
<1>5. \A u \in Types \ {t} : table'[u] = table[u]
  BY <1>2 DEF TypeOK
<1>6. table' \in [Types -> Seq(Row)]
  BY <1>2, <1>3 DEF TypeOK
<1>7. k \in Nat
  BY <1>1
<1> QED
  BY <1>3, <1>4, <1>5, <1>6, <1>7

\* The base of a request about to be saved is a row of its table.
LEMMA BaseIsRow ==
  ASSUME TypeOK, InFlight, NEW w \in Workers, request[w].stage = "save"
  PROVE  request[w].base # 0 =>
           /\ request[w].base \in DOMAIN table[request[w].type]
           /\ table[request[w].type][request[w].base].data = request[w].content
  BY DEF InFlight, Learned

\* What a processor hands to Save is a row.
LEMMA NewRowType ==
  ASSUME NEW r \in Request
  PROVE  NewRow(r) \in Row
<1>1. (IF r.type = "signature" THEN r.sig ELSE 0) \in Nat
  BY DEF Request
<1> QED
  BY <1>1 DEF NewRow, Row, Request

\* Every step of a handler keeps the types of all variables.
LEMMA StepType ==
  ASSUME TypeOK, InFlight, NEW w \in Workers,
         Receive(w) \/ Step(w) \/ Fail(w)
  PROVE  TypeOK'
<1> DEFINE r == request[w]
<1> USE DocumentsAssumption, IngestAssumption
<1>1. CASE Receive(w)
  <2>1. PICK s \in Submissions, v \in Versions :
          LET dgst == DigestOf(s.content, s.claim[2])
              q == [stage |-> "findData", type |-> s.type,
                    content |-> s.content,
                    digest |-> dgst, version |-> v, base |-> 0, todo |-> {},
                    missing |-> {}, artifacts |-> {}, manifest |-> 0,
                    bottle |-> 0, sig |-> 1, status |-> 0]
          IN Goes(w, IF dgst = s.claim THEN q ELSE Answered(q, 409))
    BY <1>1 DEF Receive
  <2> DEFINE dgst == DigestOf(s.content, s.claim[2])
             q == [stage |-> "findData", type |-> s.type,
                   content |-> s.content,
                   digest |-> dgst, version |-> v, base |-> 0, todo |-> {},
                   missing |-> {}, artifacts |-> {}, manifest |-> 0,
                   bottle |-> 0, sig |-> 1, status |-> 0]
  <2>2. q \in Request
    <3>1. dgst \in Digest /\ v \in Nat /\ s.type \in Types /\ s.content \in Contents
      BY DEF DigestOf, Digest
    <3> HIDE DEF dgst
    <3> QED
      BY <3>1 DEF Request, Stages, Statuses
  <2>3. Answered(q, 409) \in Request
    <3> HIDE DEF q
    <3> QED
      BY <2>2, AnsweredType DEF Statuses
  <2> HIDE DEF q, dgst
  <2>4. Goes(w, IF dgst = s.claim THEN q ELSE Answered(q, 409))
    BY <2>1 DEF q, dgst
  <2> QED
    BY <2>2, <2>3, <2>4, GoesType
<1>2. CASE request[w].stage = "idle" /\ ~ Receive(w)
  BY <1>2, Zenon DEF Step, FindData, CreateData, FindDigest, CreateDigest, FindBase,
              Decode, LookupArtifact, ArtifactsDone, LookupSubject,
              LookupSigBottle, Save, SaveSignature, Deliver, Fail
<1>3. CASE r.stage # "idle"
  <2> HIDE DEF r
  <2>r. r \in Request /\ r = request[w]
    BY <1>3, AtWork DEF r
  <2>a. \A s \in Statuses : Answered(r, s) \in Request
    BY <2>r, AnsweredType
  <2>s. \A s \in {201, 204, 400, 409, 412, 500} : s \in Statuses
    BY DEF Statuses
  <2>f. \A st \in Stages : [r EXCEPT !.stage = st] \in Request
    BY <2>r DEF Request
  <2>1. CASE FindData(w)
    <3>1. Goes(w, [r EXCEPT !.stage = IF r.content \in data THEN "findDigest"
                                      ELSE "createData"])
      BY <2>1, <2>r DEF FindData
    <3> QED
      BY <3>1, <2>f, GoesType DEF Stages
  <2>2. CASE CreateData(w)
    <3>1. CASE /\ r.content \notin data
               /\ data' = data \cup {r.content}
               /\ request' = [request EXCEPT ![w].stage = "findDigest"]
               /\ UNCHANGED <<digests, table>>
      <4>1. request' = [request EXCEPT ![w] = [r EXCEPT !.stage = "findDigest"]]
        BY <3>1, <2>r
      <4>2. r.content \in Contents
        BY <2>r DEF Request
      <4> QED
        BY ZenonT(60), <3>1, <4>1, <4>2, <2>f DEF TypeOK, Stages
    <3>2. CASE Goes(w, Answered(r, 500))
      BY <3>2, <2>a, <2>s, GoesType
    <3> QED
      BY <2>2, <2>r, <3>1, <3>2 DEF CreateData
  <2>3. CASE FindDigest(w)
    <3>1. Goes(w, [r EXCEPT !.stage = IF digests[r.digest] = r.content
                                      THEN "findBase" ELSE "createDigest"])
      BY <2>3, <2>r DEF FindDigest
    <3> QED
      BY <3>1, <2>f, GoesType DEF Stages
  <2>4. CASE CreateDigest(w)
    <3>1. CASE /\ digests' = [digests EXCEPT ![r.digest] = r.content]
               /\ request' = [request EXCEPT ![w].stage = "findBase"]
               /\ UNCHANGED <<data, table>>
      <4>1. request' = [request EXCEPT ![w] = [r EXCEPT !.stage = "findBase"]]
        BY <3>1, <2>r
      <4>2. r.content \in Contents /\ r.digest \in Digest
        BY <2>r, Zenon DEF Request
      <4> QED
        BY ZenonT(60), <3>1, <4>1, <4>2, <2>f DEF TypeOK, Stages
    <3>2. CASE Goes(w, Answered(r, 500))
      BY <3>2, <2>a, <2>s, GoesType
    <3> QED
      BY <2>4, <2>r, <3>1, <3>2 DEF CreateDigest
  <2>5. CASE FindBase(w)
    <3>1. CASE Goes(w, [r EXCEPT !.stage = "decode"])
      BY <3>1, <2>f, GoesType DEF Stages
    <3>2. CASE \E i \in DOMAIN table[r.type] :
                  Goes(w, Answered(r, 204))
      BY <3>2, <2>a, <2>s, GoesType
    <3>3. ASSUME NEW i \in DOMAIN table[r.type],
                 Goes(w, [r EXCEPT !.stage = "decode", !.base = i])
          PROVE  TypeOK'
      <4>1. i \in Nat
        BY <2>r DEF TypeOK, Request
      <4>2. [r EXCEPT !.stage = "decode", !.base = i] \in Request
        BY ZenonT(60), <4>1, <2>r DEF Request, Stages
      <4> QED
        BY <3>3, <4>2, GoesType
    <3> QED
      BY <2>5, <2>r, <3>1, <3>2, <3>3 DEF FindBase
  <2>6. CASE Decode(w)
    <3>1. ASSUME NEW s \in {400, 409}, Goes(w, Answered(r, s))
          PROVE  TypeOK'
      BY <3>1, <2>a, <2>s, GoesType
    <3>2. [r EXCEPT !.stage = "artifacts", !.todo = Doc[r.content].artifacts]
            \in Request
      <4> DEFINE A == Doc[r.content].artifacts
      <4>1. A \in SUBSET Digest
        BY <2>r DEF Request
      <4> HIDE DEF A
      <4> QED
        BY ZenonT(60), <4>1, <2>r DEF Request, Stages
    <3>3. CASE Goes(w, IF r.type = "blob" THEN [r EXCEPT !.stage = "save"]
                       ELSE IF r.type = "bottle"
                       THEN [r EXCEPT !.stage = "artifacts",
                                      !.todo = Doc[r.content].artifacts]
                       ELSE [r EXCEPT !.stage = "subject"])
      BY <3>2, <3>3, <2>f, GoesType DEF Stages
    <3> QED
      BY <2>6, <2>r, <3>1, <3>3 DEF Decode
  <2>7. CASE LookupArtifact(w)
    <3>1. PICK d \in r.todo :
            Goes(w, IF digests[d] = NoContent
                    THEN [r EXCEPT !.todo = @ \ {d}, !.missing = @ \cup {d}]
                    ELSE [r EXCEPT !.todo = @ \ {d},
                                   !.artifacts = @ \cup {digests[d]}])
      BY <2>7, <2>r DEF LookupArtifact
    <3>2. d \in Digest /\ digests[d] \in Contents \cup {NoContent}
      BY <2>r DEF Request, TypeOK
    <3>3. [r EXCEPT !.todo = @ \ {d}, !.missing = @ \cup {d}] \in Request
      BY <2>r, <3>2 DEF Request
    <3>4. digests[d] # NoContent =>
            [r EXCEPT !.todo = @ \ {d}, !.artifacts = @ \cup {digests[d]}]
              \in Request
      BY <2>r, <3>2 DEF Request
    <3> QED
      BY <3>1, <3>3, <3>4, GoesType
  <2>8. CASE ArtifactsDone(w)
    <3>1. Goes(w, IF r.missing = {} THEN [r EXCEPT !.stage = "save"]
                                    ELSE Answered(r, 412))
      BY <2>8, <2>r, Zenon DEF ArtifactsDone
    <3> QED
      BY <3>1, <2>a, <2>s, <2>f, GoesType DEF Stages
  <2>9. CASE LookupSubject(w)
    <3> DEFINE d == Doc[r.content].subject
               t == SubjectType(r.type)
    <3>0. t \in Types /\ r.content \in Contents
      BY <2>r DEF SubjectType, Types, Request
    <3>1. CASE Goes(w, Answered([r EXCEPT !.missing = {d}], 412))
      <4>1. r.stage = "subject"
        BY <2>9, <2>r, Zenon DEF LookupSubject
      <4>2. r.type \in HasSubject /\ Decodes(r.type, r.content)
        BY <4>1, <2>r DEF InFlight, Learned
      <4>3. d \in Digest
        BY <4>2, <3>0 DEF Decodes, HasSubject
      <4> HIDE DEF d
      <4>4. [r EXCEPT !.missing = {d}] \in Request
        BY <2>r, <4>3 DEF Request
      <4>5. Answered([r EXCEPT !.missing = {d}], 412) \in Request
        BY <4>4, <2>s, AnsweredType
      <4> QED
        BY <3>1, <4>5, GoesType
    <3>2. ASSUME NEW i \in DOMAIN table[t],
                 \/ Goes(w, [r EXCEPT !.stage = "save", !.bottle = i])
                 \/ Goes(w, Answered(r, 400))
                 \/ /\ t = "manifest"
                    /\ Goes(w, [r EXCEPT !.stage = "save", !.manifest = i,
                                         !.bottle = table[t][i].bottle])
                 \/ Goes(w, [r EXCEPT !.stage = "sigBottle", !.manifest = i])
          PROVE  TypeOK'
      <4> HIDE DEF t
      <4>1. i \in Nat /\ table[t][i] \in Row
        BY <3>0 DEF TypeOK
      <4>2. table[t][i].bottle \in Nat
        BY <4>1 DEF Row
      <4>3. /\ [r EXCEPT !.stage = "save", !.bottle = i] \in Request
            /\ [r EXCEPT !.stage = "save", !.manifest = i,
                         !.bottle = table[t][i].bottle] \in Request
            /\ [r EXCEPT !.stage = "sigBottle", !.manifest = i] \in Request
        BY ZenonT(60), <4>1, <4>2, <2>r DEF Request, Stages
      <4> QED
        BY <3>2, <4>3, <2>a, <2>s, GoesType
    <3>3. \/ Goes(w, Answered([r EXCEPT !.missing = {d}], 412))
          \/ \E i \in DOMAIN table[t] :
               CASE r.type = "manifest" ->
                    Goes(w, IF Doc[table[t][i].data].parts = Doc[r.content].parts
                            THEN [r EXCEPT !.stage = "save", !.bottle = i]
                            ELSE Answered(r, 400))
               [] r.type = "event" ->
                    Goes(w, [r EXCEPT !.stage = "save", !.manifest = i,
                                      !.bottle = table[t][i].bottle])
               [] OTHER ->
                    Goes(w, [r EXCEPT !.stage = "sigBottle", !.manifest = i])
      BY <2>9, <2>r, Zenon DEF LookupSubject
    <3>4. r.type = "event" => t = "manifest"
      BY DEF SubjectType
    <3> HIDE DEF d, t
    <3>5. ASSUME NEW i \in DOMAIN table[t],
                 CASE r.type = "manifest" ->
                    Goes(w, IF Doc[table[t][i].data].parts = Doc[r.content].parts
                            THEN [r EXCEPT !.stage = "save", !.bottle = i]
                            ELSE Answered(r, 400))
                 [] r.type = "event" ->
                    Goes(w, [r EXCEPT !.stage = "save", !.manifest = i,
                                      !.bottle = table[t][i].bottle])
                 [] OTHER ->
                    Goes(w, [r EXCEPT !.stage = "sigBottle", !.manifest = i])
          PROVE  TypeOK'
      <4>1. CASE r.type = "manifest"
        BY <4>1, <3>5, <3>2
      <4>2. CASE r.type = "event"
        BY <4>2, <3>5, <3>4, <3>2
      <4>3. CASE r.type \notin {"manifest", "event"}
        BY <4>3, <3>5, <3>2
      <4> QED
        BY <4>1, <4>2, <4>3
    <3> QED
      BY <3>1, <3>3, <3>5, ZenonT(40)
  <2>10. CASE LookupSigBottle(w)
    <3>1. ASSUME NEW i \in DOMAIN table["bottle"],
                 Goes(w, [r EXCEPT !.stage = "save", !.bottle = i])
          PROVE  TypeOK'
      <4>1. i \in Nat
        BY DEF TypeOK, Types
      <4>2. [r EXCEPT !.stage = "save", !.bottle = i] \in Request
        BY ZenonT(60), <4>1, <2>r DEF Request, Stages
      <4> QED
        BY <3>1, <4>2, GoesType
    <3>2. CASE Goes(w, Answered(r, 400))
      BY <3>2, <2>a, <2>s, GoesType
    <3> QED
      BY <2>10, <2>r, <3>1, <3>2 DEF LookupSigBottle
  <2>w. ASSUME r.stage = "save", Write(r.type, r.base, NewRow(r))
        PROVE  table' \in [Types -> Seq(Row)]
    <3>1. NewRow(r) \in Row /\ r.type \in Types /\ r.base \in Nat
      BY <2>r, NewRowType DEF Request
    <3>2. r.base # 0 => r.base \in DOMAIN table[r.type]
      BY <2>w, <2>r, BaseIsRow
    <3> QED
      BY <2>w, <3>1, <3>2, WriteEffect
  <2>11. CASE Save(w)
    <3>1. table' \in [Types -> Seq(Row)]
      BY <2>11, <2>w, <2>r DEF Save
    <3>2. request' = [request EXCEPT ![w] = Answered(r, 201)]
      BY <2>11, <2>r DEF Save
    <3> QED
      BY <2>11, <3>1, <3>2, <2>a, <2>s DEF Save, TypeOK
  <2>12. CASE SaveSignature(w)
    <3>1. CASE Goes(w, Answered(r, 201)) \/ Goes(w, Answered(r, 400))
      BY <3>1, <2>a, <2>s, GoesType
    <3>2. CASE /\ r.stage = "save"
               /\ r.type = "signature"
               /\ Write("signature", r.base, NewRow(r))
               /\ request' = [request EXCEPT ![w].sig = @ + 1]
               /\ UNCHANGED <<data, digests>>
      <4>1. table' \in [Types -> Seq(Row)]
        BY <3>2, <2>w
      <4> DEFINE n == r.sig + 1
      <4>n. n \in Nat
        BY <2>r DEF Request
      <4> HIDE DEF n
      <4>2. [r EXCEPT !.sig = n] \in Request
        BY <4>n, <2>r DEF Request
      <4>3. request' = [request EXCEPT ![w] = [r EXCEPT !.sig = n]]
        BY <3>2, <2>r DEF n
      <4> QED
        BY <3>2, <4>1, <4>2, <4>3 DEF TypeOK
    <3> QED
      BY <2>12, <2>r, <3>1, <3>2 DEF SaveSignature
  <2>13. CASE Deliver(w)
    BY <2>13, GoesType DEF Deliver
  <2>14. CASE Fail(w)
    <3>1. Goes(w, Answered(r, 500))
      BY <2>14, <2>r DEF Fail
    <3> QED
      BY <3>1, <2>a, <2>s, GoesType
  <2>15. CASE Receive(w)
    BY <1>1, <2>15
  <2> QED
    BY <2>1, <2>2, <2>3, <2>4, <2>5, <2>6, <2>7, <2>8, <2>9, <2>10, <2>11,
       <2>12, <2>13, <2>14, <2>15 DEF Step
<1> QED
  BY <1>1, <1>2, <1>3

-----------------------------------------------------------------------------
(* The inductive invariant *)

Inv ==
  /\ TypeOK
  /\ ContentAddressed
  /\ ReferencesHold
  /\ PrejoinedBottle
  /\ InFlight

\* What no step undoes: bytes stay, a digest keeps its bytes, and a row keeps
\* its place, its bytes and its foreign keys.
Grows ==
  /\ data \subseteq data'
  /\ \A d \in Digest : digests[d] # NoContent => digests'[d] = digests[d]
  /\ \A t \in Types : \A i \in DOMAIN table[t] :
       /\ i \in DOMAIN table'[t]
       /\ table'[t][i].data = table[t][i].data
       /\ table'[t][i].manifest = table[t][i].manifest
       /\ table'[t][i].bottle = table[t][i].bottle
       /\ table'[t][i].artifacts = table[t][i].artifacts

\* First() finds one row only.
LEMMA FirstIsUnique ==
  ASSUME TypeOK, NEW t \in Types, NEW d, NEW i, NEW j,
         Finds(t, d, i), Finds(t, d, j)
  PROVE  i = j
<1>1. i \in Nat /\ j \in Nat /\ i >= 1 /\ j >= 1
  BY DEF TypeOK, Finds, IsFirst
<1>2. i \notin 1 .. (j - 1) /\ j \notin 1 .. (i - 1)
  BY DEF Finds, IsFirst
<1> QED
  BY <1>1, <1>2

\* The document decides the foreign keys: an object that is processed again
\* gets those it has.
LEMMA KeysAreUnique ==
  ASSUME TypeOK, NEW t \in Types, NEW c, NEW k, NEW l,
         References(t, c, k), Prejoined(t, k),
         References(t, c, l), Prejoined(t, l)
  PROVE  /\ k.manifest = l.manifest
         /\ k.bottle = l.bottle
         /\ k.artifacts = l.artifacts
<1>1. k.artifacts = l.artifacts
  BY DEF References
<1>2. k.manifest = l.manifest
  <2>1. CASE t \in {"event", "signature"}
    BY <2>1, FirstIsUnique DEF References, Types
  <2>2. CASE t \notin {"event", "signature"}
    BY <2>2 DEF References
  <2> QED
    BY <2>1, <2>2
<1>3. k.bottle = l.bottle
  <2>1. CASE t = "manifest"
    BY <2>1, FirstIsUnique DEF References, Types
  <2>2. CASE t = "signature"
    BY <2>2, FirstIsUnique DEF References, Types
  <2>3. CASE t = "event"
    BY <2>3, <1>2 DEF Prejoined
  <2>4. CASE t \in {"blob", "bottle"}
    BY <2>4 DEF References
  <2> QED
    BY <2>1, <2>2, <2>3, <2>4 DEF Types
<1> QED
  BY <1>1, <1>2, <1>3

\* What a step does to the database.
LEMMA StepEffect ==
  ASSUME NEW w \in Workers, Receive(w) \/ Step(w) \/ Fail(w)
  PROVE  \/ UNCHANGED <<data, digests, table>>
         \/ /\ request[w].stage = "createData"
            /\ data' = data \cup {request[w].content}
            /\ request' = [request EXCEPT ![w].stage = "findDigest"]
            /\ UNCHANGED <<digests, table>>
         \/ /\ request[w].stage = "createDigest"
            /\ digests[request[w].digest] = NoContent
            /\ digests' = [digests EXCEPT
                             ![request[w].digest] = request[w].content]
            /\ request' = [request EXCEPT ![w].stage = "findBase"]
            /\ UNCHANGED <<data, table>>
         \/ /\ request[w].stage = "save"
            /\ Write(request[w].type, request[w].base, NewRow(request[w]))
            /\ \/ request' = [request EXCEPT ![w] = Answered(request[w], 201)]
               \/ request' = [request EXCEPT ![w].sig = @ + 1]
            /\ UNCHANGED <<data, digests>>
<1>1. CASE CreateData(w)
  BY <1>1 DEF CreateData, Goes
<1>2. CASE CreateDigest(w)
  BY <1>2 DEF CreateDigest, Goes
<1>3. CASE Save(w)
  BY <1>3 DEF Save
<1>4. CASE SaveSignature(w)
  BY <1>4 DEF SaveSignature, Goes
<1>5. CASE Receive(w)
  BY <1>5 DEF Receive, Goes
<1>6. CASE FindData(w) \/ FindDigest(w) \/ FindBase(w) \/ Decode(w)
  BY ZenonT(60), <1>6 DEF FindData, FindDigest, FindBase, Decode, Goes
<1>7. CASE LookupArtifact(w) \/ ArtifactsDone(w)
  BY <1>7 DEF LookupArtifact, ArtifactsDone, Goes
<1>8. CASE LookupSubject(w)
  BY <1>8, Zenon DEF LookupSubject, Goes
<1>9. CASE LookupSigBottle(w) \/ Deliver(w) \/ Fail(w)
  BY <1>9 DEF LookupSigBottle, Deliver, Fail, Goes
<1> QED
  BY <1>1, <1>2, <1>3, <1>4, <1>5, <1>6, <1>7, <1>8, <1>9 DEF Step

\* Every step only adds.
LEMMA StepGrows ==
  ASSUME Inv, NEW w \in Workers, Receive(w) \/ Step(w) \/ Fail(w)
  PROVE  Grows
<1> DEFINE r == request[w]
<1>1. CASE UNCHANGED <<data, digests, table>>
  BY <1>1 DEF Grows
<1>2. CASE data' = data \cup {r.content} /\ UNCHANGED <<digests, table>>
  BY <1>2 DEF Grows
<1>3. CASE /\ r.stage = "createDigest"
           /\ digests[r.digest] = NoContent
           /\ digests' = [digests EXCEPT ![r.digest] = r.content]
           /\ UNCHANGED <<data, table>>
  BY <1>3 DEF Grows, Inv, TypeOK
<1>4. CASE /\ r.stage = "save"
           /\ Write(r.type, r.base, NewRow(r))
           /\ UNCHANGED <<data, digests>>
  <2>1. r \in Request
    BY <1>4, AtWork DEF Inv
  <2>2. Learned(r)
    BY <1>4 DEF Inv, InFlight
  <2>3. /\ r.type \in Types /\ r.base \in Nat /\ NewRow(r) \in Row
        /\ r.base # 0 => r.base \in DOMAIN table[r.type]
    BY <2>1, <2>2, NewRowType DEF Request, Learned
  <2> DEFINE t == r.type
             row == NewRow(r)
  <2>4. /\ \A u \in Types \ {t} : table'[u] = table[u]
        /\ \E k \in Nat :
              /\ DOMAIN table'[t] = DOMAIN table[t] \cup {k}
              /\ table'[t][k] = row
              /\ \A i \in DOMAIN table[t] :
                   i # k => table'[t][i] = table[t][i]
              /\ k = IF r.base = 0 THEN Len(table[t]) + 1 ELSE r.base
    BY <1>4, <2>3, WriteEffect DEF Inv
  <2>5. PICK k \in Nat :
              /\ DOMAIN table'[t] = DOMAIN table[t] \cup {k}
              /\ table'[t][k] = row
              /\ \A i \in DOMAIN table[t] :
                   i # k => table'[t][i] = table[t][i]
              /\ k = IF r.base = 0 THEN Len(table[t]) + 1 ELSE r.base
    BY <2>4
  <2>6. /\ row.data = r.content
        /\ row.manifest = r.manifest
        /\ row.bottle = r.bottle
        /\ row.artifacts = r.artifacts
    BY DEF NewRow
  <2>7. ASSUME k \in DOMAIN table[t]
        PROVE  /\ row.data = table[t][k].data
               /\ row.manifest = table[t][k].manifest
               /\ row.bottle = table[t][k].bottle
               /\ row.artifacts = table[t][k].artifacts
    <3>1. r.base # 0
      BY <2>5, <2>7, <2>3 DEF Inv, TypeOK
    <3>2. k = r.base /\ table[t][k].data = r.content
      BY <3>1, <2>2, <2>5 DEF Learned
    <3>3. References(t, r.content, r) /\ Prejoined(t, r)
      BY <1>4, <2>2 DEF Learned
    <3>4. References(t, r.content, table[t][k]) /\ Prejoined(t, table[t][k])
      BY <2>7, <2>3, <3>2 DEF Inv, ReferencesHold, PrejoinedBottle
    <3> QED
      BY <2>3, <2>6, <3>2, <3>3, <3>4, KeysAreUnique DEF Inv
  <2> HIDE DEF t, row
  <2> QED
    BY <1>4, <2>4, <2>5, <2>7 DEF Grows
<1> QED
  BY <1>1, <1>2, <1>3, <1>4, StepEffect

-----------------------------------------------------------------------------
(* What handlers have learned stays true *)

\* A lookup that succeeds gives the same row after any step.
LEMMA FindsStable ==
  ASSUME TypeOK, Grows, NEW t \in Types, NEW d \in Digest, NEW i,
         Finds(t, d, i)
  PROVE  Finds(t, d, i)' /\ digests'[d] = digests[d] /\ i \in DOMAIN table[t]
<1>1. digests[d] # NoContent /\ digests'[d] = digests[d]
  BY DEF Finds, Grows
<1>2. i \in DOMAIN table[t] /\ DOMAIN table[t] = 1 .. Len(table[t])
        /\ Len(table[t]) \in Nat
  BY DEF Finds, IsFirst, TypeOK
<1>3. \A j \in 1 .. (i - 1) : j \in DOMAIN table[t]
  BY <1>2
<1> QED
  BY <1>1, <1>2, <1>3 DEF Finds, IsFirst, Grows

\* Foreign keys that lead to what the document names go on doing so.
LEMMA KeysStable ==
  ASSUME TypeOK, Grows, NEW t \in Types, NEW c \in Contents, NEW k,
         Decodes(t, c), References(t, c, k)
  PROVE  References(t, c, k)'
<1> USE DocumentsAssumption
<1>1. \A d \in Doc[c].artifacts : d \in Digest
  OBVIOUS
<1>2. t = "bottle" => \A d \in Doc[c].artifacts :
                        digests[d] # NoContent /\ digests'[d] = digests[d]
  BY <1>1 DEF References, Grows
<1>2a. /\ t = "bottle" => \A d \in Doc[c].artifacts : digests'[d] # NoContent
       /\ k.artifacts = IF t = "bottle"
                        THEN {digests'[d] : d \in Doc[c].artifacts} ELSE {}
  <2> DEFINE A == Doc[c].artifacts
  <2>1. k.artifacts = IF t = "bottle" THEN {digests[d] : d \in A} ELSE {}
    BY DEF References
  <2>2. t = "bottle" =>
          \A d \in A : digests[d] # NoContent /\ digests'[d] = digests[d]
    BY <1>2
  <2> HIDE DEF A
  <2>3. CASE t = "bottle"
    <3>1. {digests[d] : d \in A} = {digests'[d] : d \in A}
      BY <2>2, <2>3
    <3> QED
      BY <2>1, <2>2, <2>3, <3>1 DEF A
  <2>4. CASE t # "bottle"
    BY <2>1, <2>4
  <2> QED
    BY <2>3, <2>4
<1>3. ASSUME t \in HasSubject
      PROVE  Doc[c].subject \in Digest
  BY <1>3 DEF Decodes, HasSubject
<1>4. ASSUME t \in {"event", "signature"}
      PROVE  Finds("manifest", Doc[c].subject, k.manifest)'
  <2>1. Finds("manifest", Doc[c].subject, k.manifest)
    BY <1>4 DEF References
  <2> QED
    BY <2>1, <1>3, <1>4, FindsStable DEF HasSubject, Types
<1>5. ASSUME t = "manifest"
      PROVE  /\ Finds("bottle", Doc[c].subject, k.bottle)'
             /\ Doc[digests'[Doc[c].subject]].parts = Doc[c].parts
  <2>1. /\ Finds("bottle", Doc[c].subject, k.bottle)
        /\ Doc[digests[Doc[c].subject]].parts = Doc[c].parts
    BY <1>5 DEF References
  <2> QED
    BY <2>1, <1>3, <1>5, FindsStable DEF HasSubject, Types
<1>6. ASSUME t = "signature"
      PROVE  Finds("bottle", Doc[c].bottle, k.bottle)'
  <2>1. Finds("bottle", Doc[c].bottle, k.bottle) /\ Doc[c].bottle \in Digest
    BY <1>6 DEF References, Decodes
  <2> QED
    BY <2>1, FindsStable DEF Types
<1>7. /\ t \in {"blob", "bottle"} => k.bottle = 0
      /\ t \notin {"event", "signature"} => k.manifest = 0
  BY DEF References
<1> QED
  BY <1>2a, <1>4, <1>5, <1>6, <1>7 DEF References

\* An event's bottle goes on being its manifest's.
LEMMA PrejoinedStable ==
  ASSUME TypeOK, Grows, NEW t \in Types, NEW c, NEW k,
         References(t, c, k), Prejoined(t, k)
  PROVE  Prejoined(t, k)'
<1> SUFFICES ASSUME t = "event" PROVE k.bottle = table'["manifest"][k.manifest].bottle
  BY DEF Prejoined
<1>1. k.manifest \in DOMAIN table["manifest"]
  BY DEF References, Finds, IsFirst
<1> QED
  BY <1>1 DEF Grows, Prejoined, Types

\* What a handler has learned outlives the steps of the others.
LEMMA LearnedStable ==
  ASSUME TypeOK, Grows, NEW r \in Request, Learned(r)
  PROVE  Learned(r)'
<1> USE DocumentsAssumption
<1> DEFINE doc == Doc[r.content]
           seen == doc.artifacts \ (r.todo \cup r.missing)
<1>1. r.stage \notin {"findData", "createData"} => r.content \in data'
  BY DEF Learned, Grows
<1>2. r.base # 0 => /\ r.base \in DOMAIN table'[r.type]
                    /\ table'[r.type][r.base].data = r.content
  BY DEF Learned, Grows, Request
<1>3. ASSUME r.stage = "artifacts"
      PROVE  /\ r.artifacts = {digests'[d] : d \in seen}
             /\ \A d \in seen : digests'[d] # NoContent
  <2>1. \A d \in seen : d \in Digest
    BY DEF Request
  <2>2. /\ r.artifacts = {digests[d] : d \in seen}
        /\ \A d \in seen : digests[d] # NoContent
    BY <1>3 DEF Learned
  <2>3. \A d \in seen : digests'[d] = digests[d]
    BY <2>1, <2>2 DEF Grows
  <2> HIDE DEF seen
  <2> QED
    BY <2>2, <2>3
<1>4. ASSUME r.stage = "sigBottle"
      PROVE  Finds("manifest", doc.subject, r.manifest)'
  <2>1. /\ Finds("manifest", doc.subject, r.manifest)
        /\ r.type = "signature" /\ Decodes(r.type, r.content)
    BY <1>4 DEF Learned
  <2>2. doc.subject \in Digest
    BY <2>1 DEF Decodes, HasSubject, Request
  <2> QED
    BY <2>1, <2>2, FindsStable DEF Types
<1>5. ASSUME r.stage = "save"
      PROVE  References(r.type, r.content, r)' /\ Prejoined(r.type, r)'
  <2>1. /\ References(r.type, r.content, r) /\ Prejoined(r.type, r)
        /\ Decodes(r.type, r.content)
        /\ r.type \in Types /\ r.content \in Contents
    BY <1>5 DEF Learned, Request
  <2> QED
    BY <2>1, KeysStable, PrejoinedStable
<1>6. /\ r.digest[1] = r.content
      /\ r.stage \notin {"artifacts", "save"} => r.artifacts = {}
      /\ r.stage \notin {"sigBottle", "save"} => r.manifest = 0
      /\ r.stage # "save" => r.bottle = 0
      /\ r.stage \in {"artifacts", "subject", "sigBottle", "save"} =>
           Decodes(r.type, r.content)
      /\ r.stage = "artifacts" =>
           /\ r.type = "bottle"
           /\ r.todo \cap r.missing = {}
           /\ r.todo \cup r.missing \subseteq doc.artifacts
      /\ r.stage \notin {"artifacts", "save"} => r.missing = {}
      /\ r.stage = "subject" => r.type \in HasSubject
      /\ r.stage = "sigBottle" => r.type = "signature"
  BY DEF Learned
<1> QED
  BY <1>1, <1>2, <1>3, <1>4, <1>5, <1>6, Zenon DEF Learned

-----------------------------------------------------------------------------
(* What a step learns is true *)

\* The value of w's handler after a step that only moves it on.
LEMMA GoesTo ==
  ASSUME TypeOK, NEW w \in Workers, NEW q, Goes(w, q)
  PROVE  request'[w] = q
  BY DEF TypeOK, Goes

\* An answered request is done.
LEMMA AnsweredIsDone ==
  ASSUME NEW r \in Request, NEW s
  PROVE  Answered(r, s).stage = "done"
  BY DEF Answered, Request

\* Every step but CreateData leaves the handler with knowledge that is true of
\* the database before the step.
LEMMA StepLearns ==
  ASSUME Inv, NEW w \in Workers, Receive(w) \/ Step(w) \/ Fail(w),
         ~ CreateData(w), request'[w].stage \notin {"idle", "done"}
  PROVE  Learned(request'[w])
<1> USE DocumentsAssumption, IngestAssumption
<1>1. CASE Receive(w)
  <2>1. PICK s \in Submissions, v \in Versions :
          LET dgst == DigestOf(s.content, s.claim[2])
              q == [stage |-> "findData", type |-> s.type,
                    content |-> s.content,
                    digest |-> dgst, version |-> v, base |-> 0, todo |-> {},
                    missing |-> {}, artifacts |-> {}, manifest |-> 0,
                    bottle |-> 0, sig |-> 1, status |-> 0]
          IN Goes(w, IF dgst = s.claim THEN q ELSE Answered(q, 409))
    BY <1>1 DEF Receive
  <2> DEFINE dgst == DigestOf(s.content, s.claim[2])
             q == [stage |-> "findData", type |-> s.type,
                   content |-> s.content,
                   digest |-> dgst, version |-> v, base |-> 0, todo |-> {},
                   missing |-> {}, artifacts |-> {}, manifest |-> 0,
                   bottle |-> 0, sig |-> 1, status |-> 0]
  <2>2. Answered(q, 409).stage = "done"
    BY DEF Answered
  <2>3. Goes(w, IF dgst = s.claim THEN q ELSE Answered(q, 409))
    BY <2>1
  <2>4. dgst[1] = s.content
    BY DEF DigestOf
  <2>5. request'[w] = IF dgst = s.claim THEN q ELSE Answered(q, 409)
    <3> HIDE DEF q, dgst
    <3> QED
      BY <2>3, GoesTo DEF Inv
  <2>6. request'[w] = q
    <3> HIDE DEF q, dgst
    <3> QED
      BY <2>2, <2>5
  <2> HIDE DEF dgst
  <2> QED
    BY <2>4, <2>6 DEF Learned
<1>2. CASE request[w].stage \in {"idle", "done"} /\ ~ Receive(w)
  <2>1. Deliver(w)
    BY <1>2, Zenon DEF Step, FindData, CreateData, FindDigest, CreateDigest,
              FindBase, Decode, LookupArtifact, ArtifactsDone, LookupSubject,
              LookupSigBottle, Save, SaveSignature, Fail
  <2>2. request'[w] = Idle
    BY <2>1, GoesTo DEF Deliver, Inv
  <2> QED
    BY <2>2 DEF Idle
<1>3. CASE request[w].stage \notin {"idle", "done"} /\ ~ Receive(w)
  <2>r. PICK r \in Request : r = request[w]
    BY <1>3, AtWork DEF Inv
  <2>l. Learned(r)
    BY <1>3, <2>r DEF Inv, InFlight
  <2>g. \A q : Goes(w, q) => request'[w] = q
    BY GoesTo DEF Inv
  <2>d. \A q \in Request : \A s : ~ Goes(w, Answered(q, s))
    BY <2>g, AnsweredIsDone
  <2>1. CASE FindData(w)
    <3>1. /\ r.stage = "findData"
          /\ request'[w] = [r EXCEPT !.stage = IF r.content \in data
                                               THEN "findDigest"
                                               ELSE "createData"]
      BY <2>1, <2>r, <2>g DEF FindData
    <3> QED
      BY <3>1, <2>l DEF Learned, Request
  <2>3. CASE FindDigest(w)
    <3>1. /\ r.stage = "findDigest"
          /\ request'[w] = [r EXCEPT !.stage =
                              IF digests[r.digest] = r.content
                              THEN "findBase" ELSE "createDigest"]
      BY <2>3, <2>r, <2>g DEF FindDigest
    <3> QED
      BY <3>1, <2>l DEF Learned, Request
  <2>4. CASE CreateDigest(w)
    <3>1. /\ r.stage = "createDigest"
          /\ request' = [request EXCEPT ![w].stage = "findBase"]
      BY <2>4, <2>r, <2>d DEF CreateDigest
    <3>2. request'[w] = [r EXCEPT !.stage = "findBase"]
      BY <3>1, <2>r DEF Inv, TypeOK
    <3> QED
      BY <3>1, <3>2, <2>l, SMTT(40) DEF Learned, Request
  <2>5. CASE FindBase(w)
    <3>0. r.stage = "findBase"
      BY <2>5, <2>r DEF FindBase
    <3>1. CASE Goes(w, [r EXCEPT !.stage = "decode"])
      <4>1. request'[w] = [r EXCEPT !.stage = "decode"]
        BY <3>1, <2>g
      <4> QED
        BY <3>0, <4>1, <2>l DEF Learned, Request
    <3>2. ASSUME NEW i \in DOMAIN table[r.type],
                 IsFirst(r.type, r.content, i),
                 Goes(w, [r EXCEPT !.stage = "decode", !.base = i])
          PROVE  Learned(request'[w])
      <4>1. request'[w] = [r EXCEPT !.stage = "decode", !.base = i]
        BY <3>2, <2>g
      <4>2. table[r.type][i].data = r.content
        BY <3>2 DEF IsFirst
      <4> QED
        BY <3>0, <4>1, <4>2, <2>l DEF Learned, Request
    <3> QED
      BY <2>5, <2>r, <2>d, <3>1, <3>2 DEF FindBase
  <2>6. CASE Decode(w)
    <3>0. /\ r.stage = "decode"
          /\ Decodes(r.type, r.content)
          /\ Goes(w,
               IF r.type = "blob" THEN [r EXCEPT !.stage = "save"]
               ELSE IF r.type = "bottle"
               THEN [r EXCEPT !.stage = "artifacts",
                              !.todo = Doc[r.content].artifacts]
               ELSE [r EXCEPT !.stage = "subject"])
      BY <2>6, <2>r, <2>d DEF Decode
    <3>1. /\ r.artifacts = {} /\ r.manifest = 0 /\ r.bottle = 0
          /\ r.missing = {}
      BY <3>0, <2>l DEF Learned
    <3>2. CASE r.type = "blob"
      <4>1. request'[w] = [r EXCEPT !.stage = "save"]
        BY <3>0, <3>2, <2>g
      <4>2. References("blob", r.content, [r EXCEPT !.stage = "save"])
        BY <3>1, <3>2 DEF References, Request
      <4> QED
        BY <3>0, <3>1, <3>2, <4>1, <4>2, <2>l DEF Learned, Request, Prejoined
    <3>3. CASE r.type = "bottle"
      <4> DEFINE A == Doc[r.content].artifacts
                 q == [r EXCEPT !.stage = "artifacts", !.todo = A]
      <4>1. request'[w] = q
        BY <3>0, <3>3, <2>g
      <4>2. /\ q.stage = "artifacts" /\ q.todo = A /\ q.missing = {}
            /\ q.artifacts = {} /\ q.manifest = 0 /\ q.bottle = 0
            /\ q.type = "bottle" /\ q.content = r.content
            /\ q.digest = r.digest /\ q.base = r.base
        BY <3>1, <3>3 DEF Request
      <4> HIDE DEF q
      <4>3. Doc[q.content].artifacts \ (q.todo \cup q.missing) = {}
        BY <4>2
      <4>4. {} = {digests[d] : d \in Doc[q.content].artifacts
                                         \ (q.todo \cup q.missing)}
        BY <4>3
      <4>5. /\ r.digest[1] = r.content /\ r.content \in data
            /\ r.base # 0 => /\ r.base \in DOMAIN table[r.type]
                             /\ table[r.type][r.base].data = r.content
        BY <3>0, <2>l DEF Learned
      <4>6. Learned(q)
        BY <4>2, <4>3, <4>4, <4>5, <3>0, <3>3 DEF Learned
      <4> QED
        BY <4>1, <4>6
    <3>4. CASE r.type \notin {"blob", "bottle"}
      <4>1. request'[w] = [r EXCEPT !.stage = "subject"]
        BY <3>0, <3>4, <2>g
      <4>2. r.type \in HasSubject
        BY <3>4 DEF HasSubject, Request, Types
      <4> QED
        BY <3>0, <3>1, <4>1, <4>2, <2>l DEF Learned, Request
    <3> QED
      BY <3>2, <3>3, <3>4
  <2>7. CASE LookupArtifact(w)
    <3> DEFINE A == Doc[r.content].artifacts
               seen == A \ (r.todo \cup r.missing)
    <3>0. /\ r.stage = "artifacts"
          /\ r.type = "bottle"
          /\ r.todo \cap r.missing = {}
          /\ r.todo \cup r.missing \subseteq A
          /\ r.artifacts = {digests[d] : d \in seen}
          /\ \A d \in seen : digests[d] # NoContent
          /\ r.manifest = 0 /\ r.bottle = 0
          /\ Decodes(r.type, r.content)
          /\ r.digest[1] = r.content /\ r.content \in data
          /\ r.base # 0 => /\ r.base \in DOMAIN table[r.type]
                           /\ table[r.type][r.base].data = r.content
      BY <2>7, <2>r, <2>l DEF LookupArtifact, Learned
    <3>1. PICK d \in r.todo :
            Goes(w, IF digests[d] = NoContent
                    THEN [r EXCEPT !.todo = @ \ {d}, !.missing = @ \cup {d}]
                    ELSE [r EXCEPT !.todo = @ \ {d},
                                   !.artifacts = @ \cup {digests[d]}])
      BY <2>7, <2>r DEF LookupArtifact
    <3>2. CASE digests[d] = NoContent
      <4> DEFINE q == [r EXCEPT !.todo = @ \ {d}, !.missing = @ \cup {d}]
      <4>1. request'[w] = q
        BY <3>1, <3>2, <2>g
      <4>2. /\ q.stage = r.stage /\ q.type = r.type /\ q.content = r.content
            /\ q.digest = r.digest /\ q.base = r.base
            /\ q.artifacts = r.artifacts
            /\ q.manifest = r.manifest /\ q.bottle = r.bottle
            /\ q.todo = r.todo \ {d} /\ q.missing = r.missing \cup {d}
        BY DEF Request
      <4>3. q.todo \cup q.missing = r.todo \cup r.missing
        BY <4>2
      <4> HIDE DEF q
      <4>4. seen = Doc[q.content].artifacts \ (q.todo \cup q.missing)
        BY <4>2, <4>3
      <4> HIDE DEF seen
      <4>5. q.todo \cap q.missing = {}
        BY <3>0, <4>2
      <4> QED
        BY <3>0, <4>1, <4>2, <4>3, <4>4, <4>5 DEF Learned
    <3>3. CASE digests[d] # NoContent
      <4> DEFINE q == [r EXCEPT !.todo = @ \ {d},
                                !.artifacts = @ \cup {digests[d]}]
                 seen2 == A \ (q.todo \cup q.missing)
      <4>1. request'[w] = q
        BY <3>1, <3>3, <2>g
      <4>2. /\ q.stage = r.stage /\ q.type = r.type /\ q.content = r.content
            /\ q.digest = r.digest /\ q.base = r.base
            /\ q.missing = r.missing
            /\ q.manifest = r.manifest /\ q.bottle = r.bottle
            /\ q.todo = r.todo \ {d}
            /\ q.artifacts = r.artifacts \cup {digests[d]}
        BY DEF Request
      <4> HIDE DEF q
      <4>3. seen2 = seen \cup {d}
        BY <3>0, <4>2
      <4>4. seen2 = Doc[q.content].artifacts \ (q.todo \cup q.missing)
        BY <4>2
      <4> HIDE DEF seen, seen2
      <4>5. /\ q.artifacts = {digests[e] : e \in seen2}
            /\ \A e \in seen2 : digests[e] # NoContent
        BY <3>0, <3>3, <4>2, <4>3
      <4>6. q.todo \cap q.missing = {} /\ q.todo \cup q.missing \subseteq A
        BY <3>0, <4>2
      <4> QED
        BY <3>0, <4>1, <4>2, <4>4, <4>5, <4>6 DEF Learned
    <3> QED
      BY <3>2, <3>3
  <2>8. CASE ArtifactsDone(w)
    <3> DEFINE A == Doc[r.content].artifacts
    <3>1. /\ r.stage = "artifacts" /\ r.todo = {} /\ r.missing = {}
          /\ request'[w] = [r EXCEPT !.stage = "save"]
      BY <2>8, <2>r, <2>d, <2>g DEF ArtifactsDone
    <3>2. A \ (r.todo \cup r.missing) = A
      BY <3>1
    <3>3. /\ r.type = "bottle" /\ r.manifest = 0 /\ r.bottle = 0
          /\ r.artifacts = {digests[d] : d \in A}
          /\ \A d \in A : digests[d] # NoContent
      BY <3>1, <3>2, <2>l DEF Learned
    <3>4. /\ References(r.type, r.content, [r EXCEPT !.stage = "save"])
          /\ Prejoined(r.type, [r EXCEPT !.stage = "save"])
      BY <3>3 DEF References, Prejoined, Request
    <3> QED
      BY <3>1, <3>4, <2>l DEF Learned, Request
  <2>9. CASE LookupSubject(w)
    <3> DEFINE d == Doc[r.content].subject
               t == SubjectType(r.type)
    <3>0. /\ r.stage = "subject"
          /\ r.type \in HasSubject
          /\ Decodes(r.type, r.content)
          /\ r.artifacts = {} /\ r.manifest = 0 /\ r.bottle = 0
      BY <2>9, <2>r, <2>l, Zenon DEF LookupSubject, Learned
    <3>1. d \in Digest
      BY <3>0 DEF Decodes, HasSubject, Request
    <3>2. ~ Goes(w, Answered([r EXCEPT !.missing = {d}], 412))
      <4> HIDE DEF d
      <4>1. [r EXCEPT !.missing = {d}] \in Request
        BY <3>1, Zenon DEF Request
      <4> QED
        BY <4>1, <2>d
    <3>3. PICK i \in DOMAIN table[t] :
            /\ Finds(t, d, i)
            /\ CASE r.type = "manifest" ->
                      Goes(w, IF Doc[table[t][i].data].parts = Doc[r.content].parts
                              THEN [r EXCEPT !.stage = "save", !.bottle = i]
                              ELSE Answered(r, 400))
                 [] r.type = "event" ->
                      Goes(w, [r EXCEPT !.stage = "save", !.manifest = i,
                                        !.bottle = table[t][i].bottle])
                 [] OTHER ->
                      Goes(w, [r EXCEPT !.stage = "sigBottle", !.manifest = i])
      BY <2>9, <2>r, <3>2, Zenon DEF LookupSubject
    <3>4. CASE r.type = "manifest"
      <4>1. t = "bottle" /\ table[t][i].data = digests[d]
        BY <3>3, <3>4 DEF SubjectType, Finds, IsFirst
      <4>2. Goes(w, IF Doc[table[t][i].data].parts = Doc[r.content].parts
                    THEN [r EXCEPT !.stage = "save", !.bottle = i]
                    ELSE Answered(r, 400))
        BY <3>3, <3>4
      <4>3. Doc[table[t][i].data].parts = Doc[r.content].parts
        BY <4>2, <2>d
      <4>4. request'[w] = [r EXCEPT !.stage = "save", !.bottle = i]
        BY <4>2, <4>3, <2>g
      <4>5. References(r.type, r.content, [r EXCEPT !.stage = "save",
                                                    !.bottle = i])
        BY <3>0, <3>3, <3>4, <4>1, <4>3 DEF References, Request
      <4> QED
        BY <3>0, <3>4, <4>4, <4>5, <2>l DEF Learned, Request, Prejoined
    <3>5. CASE r.type = "event"
      <4>1. t = "manifest"
        BY <3>5 DEF SubjectType
      <4> DEFINE q == [r EXCEPT !.stage = "save", !.manifest = i,
                                !.bottle = table[t][i].bottle]
      <4>2. request'[w] = q
        BY <3>3, <3>5, <2>g
      <4>3. References(r.type, r.content, q)
        BY <3>0, <3>3, <3>5, <4>1 DEF References, Request
      <4>4. Prejoined(r.type, q)
        BY <4>1 DEF Prejoined, Request
      <4> QED
        BY <3>0, <3>5, <4>2, <4>3, <4>4, <2>l DEF Learned, Request
    <3>6. CASE r.type = "signature"
      <4>1. t = "manifest"
        BY <3>6 DEF SubjectType
      <4>2. request'[w] = [r EXCEPT !.stage = "sigBottle", !.manifest = i]
        BY <3>3, <3>6, <2>g
      <4> QED
        BY <3>0, <3>3, <3>6, <4>1, <4>2, <2>l DEF Learned, Request
    <3> QED
      BY <3>0, <3>4, <3>5, <3>6, Zenon DEF HasSubject
  <2>10. CASE LookupSigBottle(w)
    <3>1. PICK i \in DOMAIN table["bottle"] :
            /\ Finds("bottle", Doc[r.content].bottle, i)
            /\ Goes(w, [r EXCEPT !.stage = "save", !.bottle = i])
      BY ZenonT(60), <2>10, <2>r, <2>d DEF LookupSigBottle
    <3>2. request'[w] = [r EXCEPT !.stage = "save", !.bottle = i]
      BY <3>1, <2>g
    <3>3. /\ r.stage = "sigBottle" /\ r.type = "signature"
          /\ r.artifacts = {}
          /\ Finds("manifest", Doc[r.content].subject, r.manifest)
      BY <2>10, <2>r, <2>l DEF LookupSigBottle, Learned
    <3>4. /\ References(r.type, r.content, [r EXCEPT !.stage = "save",
                                                     !.bottle = i])
          /\ Prejoined(r.type, [r EXCEPT !.stage = "save", !.bottle = i])
      BY <3>1, <3>3 DEF References, Prejoined, Request
    <3> QED
      BY <3>2, <3>3, <3>4, <2>l DEF Learned, Request
  <2>11. CASE Save(w)
    <3>1. request'[w] = Answered(r, 201)
      BY <2>11, <2>r DEF Save, Inv, TypeOK
    <3> QED
      BY <3>1, AnsweredIsDone
  <2>12. CASE SaveSignature(w)
    <3>1. /\ r.stage = "save"
          /\ request' = [request EXCEPT ![w].sig = @ + 1]
      BY <2>12, <2>r, <2>d DEF SaveSignature
    <3>2. request'[w] = [r EXCEPT !.sig = @ + 1]
      BY <3>1, <2>r DEF Inv, TypeOK
    <3>3. References(r.type, r.content, r) /\ Prejoined(r.type, r)
      BY <3>1, <2>l DEF Learned
    <3>4. /\ References(r.type, r.content, [r EXCEPT !.sig = @ + 1])
          /\ Prejoined(r.type, [r EXCEPT !.sig = @ + 1])
      BY <3>3 DEF References, Prejoined, Request
    <3> QED
      BY SMTT(30), <3>1, <3>2, <3>4, <2>l DEF Learned, Request
  <2>14. CASE Fail(w)
    BY <2>14, <2>r, <2>d DEF Fail
  <2>13. CASE Deliver(w)
    BY <2>13, <1>3 DEF Deliver
  <2> QED
    BY <1>3, <2>1, <2>3, <2>4, <2>5, <2>6, <2>7, <2>8, <2>9, <2>10, <2>11,
       <2>12, <2>13, <2>14 DEF Step
<1> QED
  BY <1>1, <1>2, <1>3

-----------------------------------------------------------------------------
(* Invariance *)

\* A request moved on by a step has its stage and its other fields as the step
\* leaves them; the requests of other workers are as they were.
LEMMA OthersUntouched ==
  ASSUME TypeOK, NEW w \in Workers, Receive(w) \/ Step(w) \/ Fail(w),
         NEW u \in Workers, u # w
  PROVE  request'[u] = request[u]
<1>1. CASE \E q : Goes(w, q)
  BY <1>1 DEF Goes, TypeOK
<1>2. CASE \E q : request' = [request EXCEPT ![w] = q]
  BY <1>2 DEF TypeOK
<1>3. CASE \E x : request' = [request EXCEPT ![w].stage = x]
  BY <1>3 DEF TypeOK
<1>4. CASE request' = [request EXCEPT ![w].sig = @ + 1]
  BY <1>4 DEF TypeOK
<1>5. CASE Receive(w)
  BY <1>5, <1>1, Zenon DEF Receive
<1>6. CASE CreateData(w) \/ CreateDigest(w)
  BY <1>6, <1>1, <1>3, Zenon DEF CreateData, CreateDigest
<1>7. CASE Save(w) \/ SaveSignature(w)
  BY <1>7, <1>1, <1>2, <1>4, Zenon DEF Save, SaveSignature
<1>8. CASE FindData(w) \/ FindDigest(w) \/ FindBase(w) \/ Decode(w)
  BY <1>8, <1>1, Zenon DEF FindData, FindDigest, FindBase, Decode
<1>9. CASE LookupArtifact(w) \/ ArtifactsDone(w) \/ LookupSigBottle(w)
  BY <1>9, <1>1, Zenon DEF LookupArtifact, ArtifactsDone, LookupSigBottle
<1>10. CASE LookupSubject(w)
  <2>1. CASE request[w].type = "manifest"
    BY <1>10, <2>1, <1>1 DEF LookupSubject
  <2>2. CASE request[w].type = "event"
    BY <1>10, <2>2, <1>1 DEF LookupSubject
  <2>3. CASE request[w].type \notin {"manifest", "event"}
    BY <1>10, <2>3, <1>1, Zenon DEF LookupSubject
  <2> QED
    BY <2>1, <2>2, <2>3
<1>11. CASE Deliver(w) \/ Fail(w)
  BY <1>11, <1>1, Zenon DEF Deliver, Fail
<1> QED
  BY <1>5, <1>6, <1>7, <1>8, <1>9, <1>10, <1>11 DEF Step

\* After a step every handler knows what it has to.
LEMMA StepInFlight ==
  ASSUME Inv, NEW w \in Workers, Receive(w) \/ Step(w) \/ Fail(w)
  PROVE  InFlight'
<1>1. TypeOK /\ TypeOK' /\ Grows
  BY StepType, StepGrows DEF Inv
<1> SUFFICES ASSUME NEW u \in Workers, request'[u].stage \notin {"idle", "done"}
             PROVE  \E q : q = request'[u] /\ Learned(q)'
  BY DEF InFlight
<1>2. request'[u] \in Request
  BY <1>1 DEF TypeOK, Idle
<1>3. CASE u # w
  <2>1. request'[u] = request[u]
    BY <1>1, <1>3, OthersUntouched
  <2>2. Learned(request[u])
    BY <2>1 DEF Inv, InFlight
  <2>3. PICK q \in Request : q = request[u]
    BY <1>2, <2>1
  <2>4. Learned(q)'
    BY <1>1, <2>2, <2>3, LearnedStable
  <2> QED
    BY <2>1, <2>3, <2>4
<1>4. CASE u = w /\ ~ CreateData(w)
  <2>1. Learned(request'[w])
    BY <1>4, StepLearns
  <2>2. PICK q \in Request : q = request'[w]
    BY <1>2, <1>4
  <2>3. Learned(q)'
    BY <1>1, <2>1, <2>2, LearnedStable
  <2> QED
    BY <1>4, <2>2, <2>3
<1>5. CASE u = w /\ CreateData(w)
  <2>1. PICK r : r = request[w]
    OBVIOUS
  <2>2. r \in Request /\ r.stage = "createData"
    BY <1>1, <1>5, <2>1, AtWork DEF CreateData
  <2>3. ~ Goes(w, Answered(r, 500))
    BY <1>1, <1>5, <2>2, GoesTo, AnsweredIsDone
  <2>4. /\ data' = data \cup {r.content}
        /\ request' = [request EXCEPT ![w].stage = "findDigest"]
        /\ UNCHANGED <<digests, table>>
    BY <1>5, <2>1, <2>3 DEF CreateData
  <2>5. request'[w] = [r EXCEPT !.stage = "findDigest"]
    BY <1>1, <2>1, <2>4 DEF TypeOK
  <2>6. Learned(r)
    BY <2>1, <2>2 DEF Inv, InFlight
  <2>7. PICK q : q = [r EXCEPT !.stage = "findDigest"]
    OBVIOUS
  <2>8. Learned(q)'
    BY <2>2, <2>4, <2>6, <2>7 DEF Learned, Request
  <2> QED
    BY <1>5, <2>5, <2>7, <2>8
<1> QED
  BY <1>3, <1>4, <1>5

\* A new digest row leads to the bytes of the request that was checked.
LEMMA StepAddressed ==
  ASSUME Inv, NEW w \in Workers, Receive(w) \/ Step(w) \/ Fail(w)
  PROVE  ContentAddressed'
<1>1. Grows
  BY StepGrows
<1>2. CASE UNCHANGED digests
  BY <1>1, <1>2 DEF ContentAddressed, Grows, Inv
<1>3. CASE /\ request[w].stage = "createDigest"
           /\ digests' = [digests EXCEPT
                            ![request[w].digest] = request[w].content]
  <2>1. /\ request[w] \in Request
        /\ request[w].digest[1] = request[w].content
        /\ request[w].content \in data
    BY <1>3, AtWork DEF Inv, InFlight, Learned
  <2> QED
    BY <1>1, <1>3, <2>1 DEF ContentAddressed, Grows, Inv, TypeOK, Request
<1> QED
  BY <1>2, <1>3, StepEffect

\* Rows: the old ones keep what they refer to, the new one has what its handler
\* learned.
LEMMA StepReferences ==
  ASSUME Inv, NEW w \in Workers, Receive(w) \/ Step(w) \/ Fail(w)
  PROVE  ReferencesHold' /\ PrejoinedBottle'
<1>1. TypeOK /\ TypeOK' /\ Grows
  BY StepType, StepGrows DEF Inv
<1> SUFFICES ASSUME NEW t \in Types, NEW i \in DOMAIN table'[t]
             PROVE  \E row : /\ row = table'[t][i]
                             /\ row.data \in data'
                             /\ Decodes(t, row.data)
                             /\ References(t, row.data, row)'
                             /\ Prejoined(t, row)'
  <2> DEFINE Q(row, u, j) == /\ row = table'[u][j]
                             /\ row.data \in data'
                             /\ Decodes(u, row.data)
                             /\ References(u, row.data, row)'
                             /\ Prejoined(u, row)'
  <2>1. ASSUME \A u \in Types : \A j \in DOMAIN table'[u] : \E row : Q(row, u, j)
        PROVE  ReferencesHold' /\ PrejoinedBottle'
    BY <2>1, Zenon DEF ReferencesHold, PrejoinedBottle
  <2> QED
    BY <2>1
<1>2. PICK row : row = table'[t][i]
  OBVIOUS
\* A row with the bytes and keys of something that held before the step.
<1>3. ASSUME NEW k, NEW c \in Contents, c = row.data,
             c \in data, Decodes(t, c), References(t, c, k), Prejoined(t, k),
             row.manifest = k.manifest, row.bottle = k.bottle,
             row.artifacts = k.artifacts
      PROVE  /\ row.data \in data'
             /\ Decodes(t, row.data)
             /\ References(t, row.data, row)'
             /\ Prejoined(t, row)'
  <2>1. References(t, c, row) /\ Prejoined(t, row)
    BY <1>3 DEF References, Prejoined
  <2>2. References(t, c, row)' /\ Prejoined(t, row)'
    BY <1>1, <1>3, <2>1, KeysStable, PrejoinedStable
  <2> QED
    BY <1>1, <1>3, <2>2 DEF Grows
<1>4. CASE i \in DOMAIN table[t]
  <2>1. PICK k : k = table[t][i]
    OBVIOUS
  <2>2. /\ k.data \in data /\ Decodes(t, k.data)
        /\ References(t, k.data, k) /\ Prejoined(t, k)
        /\ k.data \in Contents
    BY <1>4, <2>1 DEF Inv, ReferencesHold, PrejoinedBottle, TypeOK
  <2>3. /\ row.data = k.data /\ row.manifest = k.manifest
        /\ row.bottle = k.bottle /\ row.artifacts = k.artifacts
    BY <1>1, <1>2, <1>4, <2>1 DEF Grows
  <2> QED
    BY <1>2, <1>3, <2>2, <2>3
<1>5. CASE i \notin DOMAIN table[t]
  <2>1. PICK r : r = request[w]
    OBVIOUS
  <2>2. /\ r.stage = "save"
        /\ Write(r.type, r.base, NewRow(r))
    BY <1>5, <2>1, StepEffect
  <2>3. r \in Request /\ Learned(r)
    BY <1>1, <2>1, <2>2, AtWork DEF Inv, InFlight
  <2>4. /\ r.type \in Types /\ r.base \in Nat /\ NewRow(r) \in Row
        /\ r.base # 0 => r.base \in DOMAIN table[r.type]
        /\ r.content \in Contents
    BY <2>3, NewRowType DEF Request, Learned
  <2>5. /\ \A u \in Types \ {r.type} : table'[u] = table[u]
        /\ \E k \in Nat :
              /\ DOMAIN table'[r.type] = DOMAIN table[r.type] \cup {k}
              /\ table'[r.type][k] = NewRow(r)
    BY <1>1, <2>2, <2>4, WriteEffect
  <2>6. t = r.type /\ row = NewRow(r)
    BY <1>2, <1>5, <2>5
  <2>7. /\ row.data = r.content /\ row.manifest = r.manifest
        /\ row.bottle = r.bottle /\ row.artifacts = r.artifacts
    BY <2>6 DEF NewRow
  <2>8. /\ r.content \in data /\ Decodes(t, r.content)
        /\ References(t, r.content, r) /\ Prejoined(t, r)
    BY <2>2, <2>3, <2>6 DEF Learned
  <2> QED
    BY <1>2, <1>3, <2>4, <2>7, <2>8
<1> QED
  BY <1>4, <1>5

\* Nothing is stored and nothing is known at first.
LEMMA InitInv == Init => Inv
<1> SUFFICES ASSUME Init PROVE Inv
  OBVIOUS
<1>1. TypeOK
  BY DEF Init, TypeOK
<1>2. ContentAddressed /\ InFlight
  BY DEF Init, ContentAddressed, InFlight, Idle
<1>3. \A t \in Types : DOMAIN table[t] = {}
  BY DEF Init
<1>4. ReferencesHold /\ PrejoinedBottle
  BY <1>3 DEF ReferencesHold, PrejoinedBottle
<1> QED
  BY <1>1, <1>2, <1>4 DEF Inv

\* What holds of the tables holds while they are left alone.
LEMMA SameTables ==
  ASSUME Inv, UNCHANGED <<data, digests, table>>
  PROVE  ContentAddressed' /\ ReferencesHold' /\ PrejoinedBottle'
<1>1. Grows /\ TypeOK
  BY DEF Grows, Inv
<1>2. ContentAddressed'
  BY DEF ContentAddressed, Inv
<1>3. PrejoinedBottle'
  BY DEF PrejoinedBottle, Prejoined, Inv
<1>4. ReferencesHold'
  <2> SUFFICES ASSUME NEW t \in Types, NEW i \in DOMAIN table[t]
               PROVE  \E row : /\ row = table'[t][i]
                               /\ row.data \in data'
                               /\ Decodes(t, row.data)
                               /\ References(t, row.data, row)'
    BY Zenon DEF ReferencesHold
  <2>1. PICK row : row = table[t][i]
    OBVIOUS
  <2>2. /\ row.data \in data /\ Decodes(t, row.data)
        /\ References(t, row.data, row) /\ row.data \in Contents
    BY <2>1 DEF ReferencesHold, TypeOK, Inv
  <2> QED
    BY <1>1, <2>1, <2>2, KeysStable
<1> QED
  BY <1>2, <1>3, <1>4

\* Every step preserves the inductive invariant.
LEMMA NextInv == Inv /\ [Next]_vars => Inv'
<1> SUFFICES ASSUME Inv, [Next]_vars PROVE Inv'
  OBVIOUS
<1>1. ASSUME NEW w \in Workers, Receive(w) \/ Step(w) \/ Fail(w)
      PROVE  Inv'
  BY <1>1, StepType, StepAddressed, StepReferences, StepInFlight DEF Inv
<1>2. CASE UNCHANGED vars
  <2> USE <1>2 DEF vars, Inv
  <2>1. TypeOK'
    BY DEF TypeOK
  <2>2. Grows
    BY DEF Grows
  <2>3. InFlight'
    <3> SUFFICES ASSUME NEW w \in Workers,
                        request[w].stage \notin {"idle", "done"}
                 PROVE  \E q : q = request'[w] /\ Learned(q)'
      BY DEF InFlight
    <3>1. PICK q \in Request : q = request[w]
      BY DEF TypeOK, Idle
    <3> QED
      BY <2>2, <3>1, LearnedStable DEF InFlight
  <2> QED
    BY <2>1, <2>3, SameTables
<1> QED
  BY <1>1, <1>2 DEF Next

\* The inductive invariant holds of every behaviour.
THEOREM Invariance == Spec => []Inv
  BY InitInv, NextInv, PTL DEF Spec

\* Tables, digests and handlers keep their shape (genericPutData and the
\* processors never store a row of another shape).
THEOREM TypeCorrect == Spec => []TypeOK
<1>1. Inv => TypeOK
  BY DEF Inv
<1> QED
  BY <1>1, Invariance, PTL

\* No upload, however it is interleaved or abandoned, leaves a digest that leads
\* to bytes it was not computed from.
THEOREM DigestsAreAddressed == Spec => []ContentAddressed
<1>1. Inv => ContentAddressed
  BY DEF Inv
<1> QED
  BY <1>1, Invariance, PTL

\* Every saved object's references lead to what its document names: referential
\* integrity without transactions, with any number of replicas and versions.
THEOREM ReferentialIntegrity == Spec => []ReferencesHold
<1>1. Inv => ReferencesHold
  BY DEF Inv
<1> QED
  BY <1>1, Invariance, PTL

\* The bottle joined in advance into an event is always its manifest's bottle.
THEOREM EventsPrejoined == Spec => []PrejoinedBottle
<1>1. Inv => PrejoinedBottle
  BY DEF Inv
<1> QED
  BY <1>1, Invariance, PTL

\* What a handler reads stays true until it uses it: the gap between its
\* statements can hide additions only.
THEOREM KnowledgeIsStable == Spec => []InFlight
<1>1. Inv => InFlight
  BY DEF Inv
<1> QED
  BY <1>1, Invariance, PTL

-----------------------------------------------------------------------------
(* What a step may never do *)

\* Every step only adds, and never redirects.
LEMMA NextGrows == Inv /\ [Next]_vars => Grows
<1> SUFFICES ASSUME Inv, [Next]_vars PROVE Grows
  OBVIOUS
<1>1. CASE UNCHANGED vars
  BY <1>1 DEF vars, Grows
<1> QED
  BY <1>1, StepGrows DEF Next

\* A digest that resolves to a row resolves to that row for ever.
THEOREM LookupsNeverMove == Spec => LookupsStable
<1>1. Inv /\ [Next]_vars =>
        [\A t \in Types, d \in Digest : \A i \in DOMAIN table[t] :
           Finds(t, d, i) => Finds(t, d, i)']_vars
  BY NextGrows, FindsStable DEF Inv
<1> QED
  BY <1>1, Invariance, PTL DEF Spec, LookupsStable

\* Processing a row again, by whatever version, never redirects its references.
THEOREM ReferencesNeverMove == Spec => ReferencesFixed
<1>1. Inv /\ [Next]_vars =>
        [\A t \in Types : \A i \in DOMAIN table[t] :
           /\ i \in DOMAIN table'[t]
           /\ \A f \in {"data", "manifest", "bottle", "artifacts"} :
                table'[t][i][f] = table[t][i][f]]_vars
  BY NextGrows DEF Grows
<1> QED
  BY <1>1, Invariance, PTL DEF Spec, ReferencesFixed

-----------------------------------------------------------------------------
(* The server implements the catalogue *)

USE DEF Catalogue!cvars

\* The two readings of the documents are the same.
LEMMA SameDocuments ==
  /\ Catalogue!Digest = Digest
  /\ Catalogue!Types = Types
  /\ Catalogue!HasSubject = HasSubject
  /\ \A t : Catalogue!SubjectType(t) = SubjectType(t)
  /\ \A t, c : Catalogue!Decodes(t, c) <=> Decodes(t, c)
  BY DEF Catalogue!Digest, Digest, Catalogue!Types, Types,
         Catalogue!HasSubject, HasSubject, Catalogue!SubjectType, SubjectType,
         Catalogue!Decodes, Decodes

\* A lookup that finds a row finds a recorded object.
LEMMA FindsResolves ==
  ASSUME Inv, NEW t \in Types, NEW d \in Digest, NEW i, Finds(t, d, i)
  PROVE  Catalogue!Resolves(t, d) /\ digests[d] = d[1]
<1>1. digests[d] # NoContent /\ digests[d] = d[1] /\ d[1] \in Contents
  BY DEF Finds, Inv, ContentAddressed, Digest
<1>2. HasRow(t, d[1])
  BY <1>1 DEF Finds, IsFirst, HasRow
<1>3. <<t, d[1]>> \in RecordedObjects
  BY <1>1, <1>2 DEF RecordedObjects
<1> QED
  BY <1>1, <1>3 DEF Catalogue!Resolves

\* An object that is about to be saved has its references in the catalogue.
LEMMA KeysSatisfy ==
  ASSUME Inv, NEW t \in Types, NEW c \in Contents, NEW k,
         Decodes(t, c), References(t, c, k)
  PROVE  Catalogue!Satisfied(t, c)
<1> USE DocumentsAssumption
<1>1. t = "bottle" =>
        Doc[c].artifacts \subseteq {d \in Digest : digests[d] # NoContent}
  BY DEF References
<1>2. ASSUME t \in HasSubject
      PROVE  Catalogue!Resolves(SubjectType(t), Doc[c].subject)
  <2>1. Doc[c].subject \in Digest
    BY <1>2 DEF Decodes, HasSubject
  <2>2. CASE t = "manifest"
    BY <2>1, <2>2, FindsResolves DEF References, SubjectType, Types
  <2>3. CASE t \in {"event", "signature"}
    BY <2>1, <2>3, FindsResolves DEF References, SubjectType, Types
  <2> QED
    BY <1>2, <2>2, <2>3 DEF HasSubject
<1>3. ASSUME t = "manifest"
      PROVE  Doc[c].parts = Doc[Doc[c].subject[1]].parts
  <2>1. Doc[c].subject \in Digest
    BY <1>3 DEF Decodes, HasSubject
  <2>2. digests[Doc[c].subject] = Doc[c].subject[1]
    BY <1>3, <2>1, FindsResolves DEF References, Types
  <2> QED
    BY <1>3, <2>2 DEF References
<1>4. ASSUME t = "signature"
      PROVE  Catalogue!Resolves("bottle", Doc[c].bottle)
  <2>1. Doc[c].bottle \in Digest
    BY <1>4 DEF Decodes
  <2> QED
    BY <1>4, <2>1, FindsResolves DEF References, Types
<1> QED
  BY <1>1, <1>2, <1>3, <1>4, SameDocuments DEF Catalogue!Satisfied

\* Each step of a handler is a step of the catalogue or leaves it alone.
LEMMA StepImplements ==
  ASSUME Inv, NEW w \in Workers, Receive(w) \/ Step(w) \/ Fail(w)
  PROVE  [Catalogue!Next]_(Catalogue!cvars)
<1> DEFINE names == {d \in Digest : digests[d] # NoContent}
<1>1. CASE UNCHANGED <<data, digests, table>>
  BY <1>1 DEF RecordedObjects, HasRow
<1>2. CASE /\ request[w].stage = "createData"
           /\ data' = data \cup {request[w].content}
           /\ UNCHANGED <<digests, table>>
  <2>1. request[w].content \in Contents
    BY <1>2, AtWork DEF Inv, Request
  <2>2. Catalogue!Learn(request[w].content)
    BY <1>2 DEF Catalogue!Learn, RecordedObjects, HasRow
  <2> QED
    BY <2>1, <2>2 DEF Catalogue!Next
<1>3. CASE /\ request[w].stage = "createDigest"
           /\ digests' = [digests EXCEPT
                            ![request[w].digest] = request[w].content]
           /\ UNCHANGED <<data, table>>
  <2> DEFINE r == request[w]
  <2>1. /\ r.content \in Contents /\ r.digest \in Digest
        /\ r.digest[1] = r.content /\ r.content \in data
    BY <1>3, AtWork DEF Inv, InFlight, Learned, Request
  <2>2. r.content # NoContent
    BY <2>1, IngestAssumption
  <2>3. {d \in Digest : digests'[d] # NoContent} = names \cup {r.digest}
    BY <1>3, <2>1, <2>2 DEF Inv, TypeOK
  <2>4. PICK d : d = r.digest
    OBVIOUS
  <2>5. Catalogue!Name(d)
    BY <1>3, <2>1, <2>3, <2>4 DEF Catalogue!Name, RecordedObjects, HasRow
  <2> QED
    BY <2>1, <2>4, <2>5, SameDocuments DEF Catalogue!Next
<1>4. CASE /\ request[w].stage = "save"
           /\ Write(request[w].type, request[w].base, NewRow(request[w]))
           /\ UNCHANGED <<data, digests>>
  <2>1. PICK r : r = request[w]
    OBVIOUS
  <2>2. r \in Request /\ Learned(r)
    BY <1>4, <2>1, AtWork DEF Inv, InFlight
  <2>3. /\ r.type \in Types /\ r.base \in Nat /\ NewRow(r) \in Row
        /\ r.base # 0 => r.base \in DOMAIN table[r.type]
        /\ r.content \in Contents
        /\ r.content \in data /\ Decodes(r.type, r.content)
        /\ References(r.type, r.content, r)
    BY <1>4, <2>1, <2>2, NewRowType DEF Request, Learned
  <2>4. /\ \A u \in Types \ {r.type} : table'[u] = table[u]
        /\ \E k \in Nat :
              /\ DOMAIN table'[r.type] = DOMAIN table[r.type] \cup {k}
              /\ table'[r.type][k] = NewRow(r)
    BY <1>4, <2>1, <2>3, WriteEffect DEF Inv
  <2>5. PICK k \in Nat :
              /\ DOMAIN table'[r.type] = DOMAIN table[r.type] \cup {k}
              /\ table'[r.type][k] = NewRow(r)
    BY <2>4
  <2>6. NewRow(r).data = r.content
    BY DEF NewRow
  <2>7. Grows
    BY StepGrows
  <2>8. ASSUME NEW t \in Types, NEW c \in Contents
        PROVE  (HasRow(t, c))' <=> HasRow(t, c) \/ (t = r.type /\ c = r.content)
    <3>1. CASE t # r.type
      BY <2>4, <3>1 DEF HasRow
    <3>2. CASE t = r.type
      BY <2>3, <2>5, <2>6, <2>7, <3>2 DEF HasRow, Grows
    <3> QED
      BY <3>1, <3>2
  <2>9. RecordedObjects' = RecordedObjects \cup {<<r.type, r.content>>}
    BY <2>3, <2>8 DEF RecordedObjects
  <2>10. Catalogue!Record(r.type, r.content)
    BY <1>4, <2>3, <2>9, KeysSatisfy, SameDocuments DEF Catalogue!Record
  <2> QED
    BY <2>3, <2>10, SameDocuments DEF Catalogue!Next
<1> QED
  BY <1>1, <1>2, <1>3, <1>4, StepEffect

\* genericPutData, one statement at a time and abandoned anywhere, implements
\* the atomic catalogue that only ever records objects whose references are
\* there.
THEOREM Refinement == Spec => ImplementsCatalog
<1>1. Init => Catalogue!Init
  BY DEF Init, Catalogue!Init, RecordedObjects, HasRow
<1>2. Inv /\ [Next]_vars => [Catalogue!Next]_(Catalogue!cvars)
  <2> SUFFICES ASSUME Inv, [Next]_vars
               PROVE  [Catalogue!Next]_(Catalogue!cvars)
    OBVIOUS
  <2>1. CASE UNCHANGED vars
    BY <2>1 DEF vars, RecordedObjects, HasRow
  <2> QED
    BY <2>1, StepImplements DEF Next
<1> QED
  BY <1>1, <1>2, Invariance, PTL DEF Spec, ImplementsCatalog, Catalogue!Spec

\* In the catalogue, what is satisfied stays satisfied while it grows.
LEMMA SatisfiedGrows ==
  ASSUME Catalogue!Next, NEW t, NEW c, Catalogue!Satisfied(t, c)
  PROVE  Catalogue!Satisfied(t, c)'
BY DEF Catalogue!Next, Catalogue!Learn, Catalogue!Name, Catalogue!Record,
       Catalogue!Satisfied, Catalogue!Resolves

\* A catalogue that is closed under references stays so, whatever enters it: who
\* copies it meets no object whose references are missing.
THEOREM CatalogueIsClosed == Catalogue!Spec => []Catalogue!Closed
<1>1. Catalogue!Init => Catalogue!Closed
  BY DEF Catalogue!Init, Catalogue!Closed
<1>2. ASSUME Catalogue!Closed, Catalogue!Next
      PROVE  Catalogue!Closed'
  <2> DEFINE held == data
             named == {d \in Digest : digests[d] # NoContent}
  <2>1. \A d \in named' : d[1] \in held'
    BY <1>2 DEF Catalogue!Closed, Catalogue!Next, Catalogue!Learn,
                Catalogue!Name, Catalogue!Record
  <2>2. ASSUME NEW o \in RecordedObjects'
        PROVE  o[2] \in held' /\ Catalogue!Satisfied(o[1], o[2])'
    <3>1. CASE o \in RecordedObjects
      <4>1. held \subseteq held'
        BY <1>2 DEF Catalogue!Next, Catalogue!Learn, Catalogue!Name, Catalogue!Record
      <4> QED
        BY <1>2, <3>1, <4>1, SatisfiedGrows DEF Catalogue!Closed
    <3>2. CASE o \notin RecordedObjects
      <4>1. PICK t \in Catalogue!Types, c \in Contents :
              Catalogue!Record(t, c) /\ o = <<t, c>>
        BY <1>2, <2>2, <3>2 DEF Catalogue!Next, Catalogue!Learn, Catalogue!Name,
                                Catalogue!Record
      <4>2. c \in held' /\ Catalogue!Satisfied(t, c)'
        BY <1>2, <4>1, SatisfiedGrows DEF Catalogue!Record
      <4> QED
        BY <4>1, <4>2
    <3> QED
      BY <3>1, <3>2
  <2> QED
    BY <2>1, <2>2 DEF Catalogue!Closed
<1>3. Catalogue!Closed /\ UNCHANGED Catalogue!cvars => Catalogue!Closed'
  BY DEF Catalogue!Closed, Catalogue!Satisfied, Catalogue!Resolves
<1> QED
  BY <1>1, <1>2, <1>3, PTL DEF Catalogue!Spec

\* The catalogue that clients see is closed, at all times and for any documents.
THEOREM ServerClosed == Spec => []CatalogueClosed
BY Refinement, CatalogueIsClosed, PTL DEF ImplementsCatalog, CatalogueClosed

-----------------------------------------------------------------------------
(* Answers are true *)

\* What an answer claims, and what a handler must know before it may claim it:
\* the digest leads to the bytes and the object has a row, or something misses.
True(r) ==
  /\ r.stage \in {"findBase", "decode", "artifacts", "subject", "sigBottle",
                  "save"} => digests[r.digest] = r.content
  /\ r.base # 0 => /\ digests[r.digest] = r.content
                   /\ HasRow(r.type, r.content)
  /\ r.sig # 1 => HasRow(r.type, r.content)
  /\ r.stage = "done" /\ r.status \in {201, 204} =>
       /\ digests[r.digest] = r.content
       /\ \/ HasRow(r.type, r.content)
          \/ r.type = "signature" /\ Doc[r.content].sigs = <<>>
  /\ r.stage = "done" /\ r.status = 412 => r.missing # {}

AnswersTrue ==
  \A w \in Workers : request[w].stage # "idle" => True(request[w])

\* A row with the bytes c stays.
LEMMA RowsStay ==
  ASSUME Grows, NEW t \in Types, NEW c, HasRow(t, c)
  PROVE  HasRow(t, c)'
  BY DEF HasRow, Grows

\* Nothing that happens to the tables makes an answer false.
LEMMA TrueStays ==
  ASSUME Grows, NEW r \in Request, True(r)
  PROVE  True(r)'
<1>1. r.type \in Types /\ r.digest \in Digest /\ r.content # NoContent
  BY IngestAssumption DEF Request
<1>2. digests[r.digest] = r.content => digests'[r.digest] = r.content
  BY <1>1 DEF Grows
<1>3. HasRow(r.type, r.content) => HasRow(r.type, r.content)'
  BY <1>1, RowsStay
<1> QED
  BY <1>2, <1>3 DEF True

\* After its own step a handler still claims what is true.
LEMMA StepTrue ==
  ASSUME Inv, NEW w \in Workers, Receive(w) \/ Step(w) \/ Fail(w),
         request[w].stage # "idle" => True(request[w]),
         request'[w].stage # "idle"
  PROVE  \E q : q = request'[w] /\ True(q)'
<1> USE DocumentsAssumption, IngestAssumption
<1>1. Grows /\ TypeOK /\ TypeOK'
  BY StepGrows, StepType DEF Inv
<1>2. request'[w] \in Request
  BY <1>1 DEF TypeOK, Idle
\* A handler that moves on and leaves the tables alone.
<1>3. ASSUME NEW q, Goes(w, q), q \in Request => True(q)
      PROVE  \E p : p = request'[w] /\ True(p)'
  BY <1>1, <1>2, <1>3, GoesTo, TrueStays
<1>4. CASE Receive(w)
  <2>1. PICK s \in Submissions, v \in Versions :
          LET dgst == DigestOf(s.content, s.claim[2])
              q == [stage |-> "findData", type |-> s.type,
                    content |-> s.content,
                    digest |-> dgst, version |-> v, base |-> 0, todo |-> {},
                    missing |-> {}, artifacts |-> {}, manifest |-> 0,
                    bottle |-> 0, sig |-> 1, status |-> 0]
          IN Goes(w, IF dgst = s.claim THEN q ELSE Answered(q, 409))
    BY <1>4, Zenon DEF Receive
  <2> DEFINE dgst == DigestOf(s.content, s.claim[2])
             q == [stage |-> "findData", type |-> s.type,
                   content |-> s.content,
                   digest |-> dgst, version |-> v, base |-> 0, todo |-> {},
                   missing |-> {}, artifacts |-> {}, manifest |-> 0,
                   bottle |-> 0, sig |-> 1, status |-> 0]
  <2>2. True(q) /\ True(Answered(q, 409))
    <3> HIDE DEF dgst
    <3> QED
      BY DEF True, Answered
  <2> QED
    BY <2>1, <2>2, <1>3
<1>5. CASE ~Receive(w)
  <2>1. PICK r : r = request[w]
    OBVIOUS
  <2>2. r.stage # "idle"
    BY <1>5, <2>1, Zenon DEF Fail, Step, FindData, CreateData, FindDigest, CreateDigest,
           FindBase, Decode, LookupArtifact, ArtifactsDone, LookupSubject,
           LookupSigBottle, Save, SaveSignature, Deliver
  <2>3. r \in Request /\ True(r)
    BY <1>1, <2>1, <2>2, AtWork
  <2>4. \A s \in Statuses \ {201, 204, 412} : True(Answered(r, s))
    BY <2>3 DEF True, Answered, Request
  <2>5. CASE FindData(w)
    <3>1. /\ r.stage = "findData"
          /\ Goes(w, [r EXCEPT !.stage = IF r.content \in data
                                         THEN "findDigest" ELSE "createData"])
      BY <2>1, <2>5 DEF FindData
    <3>2. True([r EXCEPT !.stage = IF r.content \in data
                                   THEN "findDigest" ELSE "createData"])
      BY <2>3, <3>1 DEF True, Request
    <3> QED
      BY <1>3, <3>1, <3>2
  <2>6. CASE CreateData(w)
    <3>1. CASE Goes(w, Answered(r, 500))
      BY <1>3, <2>4, <3>1 DEF Statuses
    <3>2. CASE request' = [request EXCEPT ![w].stage = "findDigest"]
      <4>1. PICK q : q = [r EXCEPT !.stage = "findDigest"]
        OBVIOUS
      <4>2. request'[w] = q
        BY <1>1, <2>1, <3>2, <4>1 DEF TypeOK
      <4>3. True(q)
        BY <2>3, <4>1 DEF True, Request
      <4> QED
        BY <1>1, <1>2, <4>2, <4>3, TrueStays
    <3> QED
      BY <2>1, <2>6, <3>1, <3>2 DEF CreateData
  <2>7. CASE FindDigest(w)
    <3>1. Goes(w, [r EXCEPT !.stage = IF digests[r.digest] = r.content
                                      THEN "findBase" ELSE "createDigest"])
      BY <2>1, <2>7 DEF FindDigest
    <3>2. True([r EXCEPT !.stage = IF digests[r.digest] = r.content
                                   THEN "findBase" ELSE "createDigest"])
      BY <2>3 DEF True, Request
    <3> QED
      BY <1>3, <3>1, <3>2
  <2>8. CASE CreateDigest(w)
    <3>1. CASE Goes(w, Answered(r, 500))
      BY <1>3, <2>4, <3>1 DEF Statuses
    <3>2. CASE /\ digests' = [digests EXCEPT ![r.digest] = r.content]
               /\ request' = [request EXCEPT ![w].stage = "findBase"]
      <4>1. PICK q : q = [r EXCEPT !.stage = "findBase"]
        OBVIOUS
      <4>2. request'[w] = q
        BY <1>1, <2>1, <3>2, <4>1 DEF TypeOK
      <4>3. /\ q.stage = "findBase" /\ q.type = r.type
            /\ q.content = r.content /\ q.digest = r.digest
            /\ q.base = r.base /\ q.sig = r.sig
        BY <2>3, <4>1 DEF Request
      <4>4. digests'[q.digest] = q.content
        BY <1>1, <2>3, <3>2, <4>3 DEF TypeOK, Request
      <4>5. True(r)'
        BY <1>1, <2>3, TrueStays
      <4>6. True(q)'
        BY <4>3, <4>4, <4>5 DEF True
      <4> QED
        BY <4>2, <4>6
    <3> QED
      BY <2>1, <2>8, <3>1, <3>2 DEF CreateDigest
  <2>9. CASE FindBase(w)
    <3>0. r.stage = "findBase"
      BY <2>1, <2>9 DEF FindBase
    <3>1. CASE Goes(w, [r EXCEPT !.stage = "decode"])
      <4>1. True([r EXCEPT !.stage = "decode"])
        BY <2>3, <3>0 DEF True, Request
      <4> QED
        BY <1>3, <3>1, <4>1
    <3>2. CASE \E i \in DOMAIN table[r.type] :
                 /\ IsFirst(r.type, r.content, i)
                 /\ \/ Goes(w, Answered(r, 204))
                    \/ Goes(w, [r EXCEPT !.stage = "decode", !.base = i])
      <4>1. PICK i \in DOMAIN table[r.type] :
                 /\ IsFirst(r.type, r.content, i)
                 /\ \/ Goes(w, Answered(r, 204))
                    \/ Goes(w, [r EXCEPT !.stage = "decode", !.base = i])
        BY <3>2
      <4>2. HasRow(r.type, r.content)
        BY <4>1 DEF IsFirst, HasRow
      <4>3. True(Answered(r, 204))
        BY <2>3, <3>0, <4>2 DEF True, Answered, Request
      <4>4. True([r EXCEPT !.stage = "decode", !.base = i])
        BY <2>3, <3>0, <4>2 DEF True, Request
      <4> QED
        BY <1>3, <4>1, <4>3, <4>4
    <3> QED
      BY <2>1, <2>9, <3>1, <3>2 DEF FindBase
  <2>10. CASE Decode(w)
    <3>0. r.stage = "decode"
      BY <2>1, <2>10 DEF Decode
    <3>1. CASE \E s \in {400, 409} : Goes(w, Answered(r, s))
      BY <1>3, <2>4, <3>1 DEF Statuses
    <3>2. CASE Goes(w,
             IF r.type = "blob" THEN [r EXCEPT !.stage = "save"]
             ELSE IF r.type = "bottle"
             THEN [r EXCEPT !.stage = "artifacts",
                            !.todo = Doc[r.content].artifacts]
             ELSE [r EXCEPT !.stage = "subject"])
      <4>1. /\ True([r EXCEPT !.stage = "save"])
            /\ True([r EXCEPT !.stage = "artifacts",
                              !.todo = Doc[r.content].artifacts])
            /\ True([r EXCEPT !.stage = "subject"])
        BY <2>3, <3>0 DEF True, Request
      <4> QED
        BY <1>3, <3>2, <4>1
    <3> QED
      BY <2>1, <2>10, <3>1, <3>2 DEF Decode
  <2>11. CASE LookupArtifact(w)
    <3>0. r.stage = "artifacts"
      BY <2>1, <2>11 DEF LookupArtifact
    <3>1. PICK d \in r.todo :
       Goes(w, IF digests[d] = NoContent
               THEN [r EXCEPT !.todo = @ \ {d}, !.missing = @ \cup {d}]
               ELSE [r EXCEPT !.todo = @ \ {d},
                              !.artifacts = @ \cup {digests[d]}])
      BY <2>1, <2>11 DEF LookupArtifact
    <3>2. /\ True([r EXCEPT !.todo = @ \ {d}, !.missing = @ \cup {d}])
          /\ True([r EXCEPT !.todo = @ \ {d}, !.artifacts = @ \cup {digests[d]}])
      BY <2>3, <3>0 DEF True, Request
    <3> QED
      BY <1>3, <3>1, <3>2
  <2>12. CASE ArtifactsDone(w)
    <3>0. r.stage = "artifacts"
      BY <2>1, <2>12 DEF ArtifactsDone
    <3>1. Goes(w, IF r.missing = {} THEN [r EXCEPT !.stage = "save"]
                                    ELSE Answered(r, 412))
      BY <2>1, <2>12 DEF ArtifactsDone
    <3>2. True([r EXCEPT !.stage = "save"])
      BY <2>3, <3>0 DEF True, Request
    <3>3. r.missing # {} => True(Answered(r, 412))
      BY <2>3 DEF True, Answered, Request
    <3> QED
      BY <1>3, <3>1, <3>2, <3>3
  <2>13. CASE LookupSubject(w)
    <3>0. r.stage = "subject"
      BY <2>1, <2>13, Zenon DEF LookupSubject
    <3>1. CASE Goes(w, Answered([r EXCEPT !.missing = {Doc[r.content].subject}],
                                412))
      <4>1. True(Answered([r EXCEPT !.missing = {Doc[r.content].subject}], 412))
        BY <2>3, SMTT(40) DEF True, Answered, Request
      <4> QED
        BY <1>3, <3>1, <4>1
    <3>2. CASE Goes(w, Answered(r, 400))
      BY <1>3, <2>4, <3>2 DEF Statuses
    <3>3. CASE \E i, b : \/ Goes(w, [r EXCEPT !.stage = "save", !.bottle = i])
                       \/ Goes(w, [r EXCEPT !.stage = "save", !.manifest = i,
                                            !.bottle = b])
                       \/ Goes(w, [r EXCEPT !.stage = "sigBottle",
                                            !.manifest = i])
      <4>1. \A i, b : /\ True([r EXCEPT !.stage = "save", !.bottle = i])
                      /\ True([r EXCEPT !.stage = "save", !.manifest = i,
                                        !.bottle = b])
                      /\ True([r EXCEPT !.stage = "sigBottle", !.manifest = i])
        BY <2>3, <3>0, SMTT(40) DEF True, Request
      <4> QED
        BY <1>3, <3>3, <4>1
    <3>4. CASE r.type = "manifest"
      BY <2>1, <2>13, <3>1, <3>2, <3>3, <3>4, ZenonT(40) DEF LookupSubject
    <3>5. CASE r.type = "event"
      BY <2>1, <2>13, <3>1, <3>2, <3>3, <3>5, ZenonT(40) DEF LookupSubject
    <3>6. CASE r.type \notin {"manifest", "event"}
      BY <2>1, <2>13, <3>1, <3>2, <3>3, <3>6, Zenon DEF LookupSubject
    <3> QED
      BY <3>4, <3>5, <3>6, Zenon
  <2>14. CASE LookupSigBottle(w)
    <3>0. r.stage = "sigBottle"
      BY <2>1, <2>14 DEF LookupSigBottle
    <3>1. \A i : True([r EXCEPT !.stage = "save", !.bottle = i])
      BY <2>3, <3>0 DEF True, Request
    <3>2. CASE Goes(w, Answered(r, 400))
      BY <1>3, <2>4, <3>2 DEF Statuses
    <3>3. CASE \E i : Goes(w, [r EXCEPT !.stage = "save", !.bottle = i])
      BY <1>3, <3>1, <3>3
    <3> QED
      BY <2>1, <2>14, <3>2, <3>3 DEF LookupSigBottle
\* The row that is written has the bytes of the request.
  <2>15. ASSUME r.stage = "save", Write(r.type, r.base, NewRow(r))
         PROVE  HasRow(r.type, r.content)'
    <3>1. /\ r.type \in Types /\ r.base \in Nat /\ NewRow(r) \in Row
          /\ r.base # 0 => r.base \in DOMAIN table[r.type]
      BY <2>1, <2>3, <2>15, NewRowType, BaseIsRow DEF Request, Inv
    <3>2. \E k \in Nat : /\ DOMAIN table'[r.type] = DOMAIN table[r.type] \cup {k}
                         /\ table'[r.type][k] = NewRow(r)
      BY <1>1, <2>15, <3>1, WriteEffect
    <3>3. NewRow(r).data = r.content
      BY DEF NewRow
    <3> QED
      BY <3>2, <3>3 DEF HasRow
  <2>16. CASE Save(w)
    <3>1. /\ r.stage = "save"
          /\ Write(r.type, r.base, NewRow(r))
          /\ request' = [request EXCEPT ![w] = Answered(r, 201)]
          /\ digests' = digests
      BY <2>1, <2>16 DEF Save
    <3>2. PICK q : q = Answered(r, 201)
      OBVIOUS
    <3>3. request'[w] = q
      BY <1>1, <3>1, <3>2 DEF TypeOK
    <3>4. /\ q.stage = "done" /\ q.type = r.type /\ q.content = r.content
          /\ q.digest = r.digest /\ q.status = 201
      BY <2>3, <3>2 DEF Answered, Request
    <3>5. HasRow(r.type, r.content)' /\ digests'[r.digest] = r.content
      BY <2>3, <2>15, <3>1 DEF True
    <3> QED
      BY <3>3, <3>4, <3>5 DEF True
  <2>17. CASE SaveSignature(w)
    <3> DEFINE sigs == Doc[r.content].sigs
    <3>0. r.stage = "save" /\ r.type = "signature"
      BY <2>1, <2>17 DEF SaveSignature
    <3>1. CASE r.sig > Len(sigs) /\ Goes(w, Answered(r, 201))
      <4>1. sigs \in Seq(BOOLEAN) /\ r.sig \in Nat
        BY <2>3 DEF Request
      <4>2. r.sig # 1 \/ sigs = <<>>
        <5> HIDE DEF sigs
        <5> QED
          BY <3>1, <4>1
      <4>3. digests[r.digest] = r.content
        BY <2>3, <3>0 DEF True
      <4>4. PICK q : q = Answered(r, 201)
        OBVIOUS
      <4>5. /\ q.stage = "done" /\ q.type = r.type /\ q.content = r.content
            /\ q.digest = r.digest /\ q.base = r.base /\ q.sig = r.sig
            /\ q.status = 201
        BY <2>3, <4>4 DEF Answered, Request
      <4>6. True(q)
        BY <2>3, <3>0, <4>2, <4>3, <4>5 DEF True
      <4> QED
        BY <1>3, <3>1, <4>4, <4>6
    <3>2. CASE Goes(w, Answered(r, 400))
      BY <1>3, <2>4, <3>2 DEF Statuses
    <3>3. CASE /\ Write("signature", r.base, NewRow(r))
               /\ request' = [request EXCEPT ![w].sig = @ + 1]
               /\ digests' = digests
      <4>1. PICK q : q = [r EXCEPT !.sig = @ + 1]
        OBVIOUS
      <4>2. request'[w] = q
        BY <1>1, <2>1, <3>3, <4>1 DEF TypeOK
      <4>3. /\ q.stage = "save" /\ q.type = r.type /\ q.content = r.content
            /\ q.digest = r.digest
        BY <2>3, <3>0, <4>1 DEF Request
      <4>4. HasRow(r.type, r.content)' /\ digests'[r.digest] = r.content
        BY <2>3, <2>15, <3>0, <3>3 DEF True
      <4> QED
        BY <4>2, <4>3, <4>4 DEF True
    <3> QED
      BY <2>1, <2>17, <3>1, <3>2, <3>3 DEF SaveSignature
  <2>18. CASE Deliver(w)
    BY <1>1, <2>18, GoesTo DEF Deliver, Idle
  <2>19. CASE Fail(w)
    BY <1>3, <2>1, <2>4, <2>19 DEF Fail, Statuses
  <2> QED
    BY <1>5, <2>5, <2>6, <2>7, <2>8, <2>9, <2>10, <2>11, <2>12, <2>13, <2>14,
       <2>16, <2>17, <2>18, <2>19 DEF Step
<1> QED
  BY <1>4, <1>5

LEMMA NextTrue == Inv /\ AnswersTrue /\ [Next]_vars => AnswersTrue'
<1> SUFFICES ASSUME Inv, AnswersTrue, [Next]_vars,
                    NEW u \in Workers, request'[u].stage # "idle"
             PROVE  \E q : q = request'[u] /\ True(q)'
  BY DEF AnswersTrue
<1>1. Grows /\ TypeOK
  BY NextGrows DEF Inv
<1>2. CASE request'[u] = request[u]
  <2>1. request[u] \in Request /\ True(request[u])
    BY <1>1, <1>2, AtWork DEF AnswersTrue
  <2> QED
    BY <1>1, <1>2, <2>1, TrueStays
<1>3. CASE UNCHANGED vars
  BY <1>2, <1>3 DEF vars
<1>4. ASSUME NEW w \in Workers, Receive(w) \/ Step(w) \/ Fail(w)
      PROVE  \E q : q = request'[u] /\ True(q)'
  <2>1. CASE u # w
    BY <1>1, <1>2, <1>4, <2>1, OthersUntouched
  <2>2. CASE u = w
    BY <1>4, <2>2, StepTrue DEF AnswersTrue
  <2> QED
    BY <2>1, <2>2
<1> QED
  BY <1>3, <1>4 DEF Next

\* An answer of 201 or 204 is never premature: when a client hears it the object
\* is on record, whatever version's header was sent early.
THEOREM AcknowledgedIsRecorded == Spec => []SuccessMeansRecorded
<1>1. Init => AnswersTrue
  BY DEF Init, AnswersTrue, Idle
<1>2. Inv /\ AnswersTrue => SuccessMeansRecorded
  <2> SUFFICES ASSUME Inv, AnswersTrue, NEW w \in Workers,
                      request[w].stage = "done",
                      Header(request[w]) \in {201, 204}
               PROVE  \/ HasRow(request[w].type, request[w].content)
                      \/ /\ request[w].type = "signature"
                         /\ Doc[request[w].content].sigs = <<>>
    BY DEF SuccessMeansRecorded
  <2> QED
    BY DEF AnswersTrue, True, Header
<1> QED
  BY <1>1, <1>2, InitInv, NextInv, NextTrue, PTL DEF Spec


-----------------------------------------------------------------------------
(* How a request goes on *)

\* The stages in which a processor is at work for a request.
Processing == {"decode", "artifacts", "subject", "sigBottle", "save"}

\* The request q is what the request r may become by a step of its handler,
\* seen from the tables before the step.
Follows(r, q) ==
  /\ q.type = r.type /\ q.content = r.content /\ q.version = r.version
  /\ \/ q.base = r.base
     \/ q.base \in DOMAIN table[r.type] /\ table[r.type][q.base].version # r.version
  /\ \/ q.sig = r.sig
     \/ /\ q.sig = r.sig + 1
        /\ r.stage = "save" /\ r.type = "signature"
        /\ r.sig <= Len(Doc[r.content].sigs)
        /\ Write(r.type, r.base, NewRow(r))
  /\ q.stage = "done" /\ q.status = 201 /\ r.type = "signature" =>
       r.sig > Len(Doc[r.content].sigs)
  /\ q.stage \in Processing =>
       r.stage \in Processing \/ q.base # 0 \/ ~ HasRow(r.type, r.content)

\* A handler that is at work becomes one of those that may follow.
LEMMA StepFollows ==
  ASSUME TypeOK, NEW w \in Workers, Step(w) \/ Fail(w),
         request'[w].stage # "idle"
  PROVE  /\ request[w].stage # "idle"
         /\ Follows(request[w], request'[w])
<1>1. PICK r : r = request[w]
  BY Zenon
<1>2. r.stage # "idle"
  BY <1>1, Zenon DEF Fail, Step, FindData, CreateData, FindDigest, CreateDigest,
         FindBase, Decode, LookupArtifact, ArtifactsDone, LookupSubject,
         LookupSigBottle, Save, SaveSignature, Deliver
<1>3. r \in Request
  BY <1>1, <1>2, AtWork
<1>4. \A q : Goes(w, q) => request'[w] = q
  BY GoesTo
<1> SUFFICES Follows(r, request'[w])
  BY <1>1, <1>2
\* An answer other than 201.
<1>5. ASSUME NEW s \in {204, 400, 409, 412, 500}, Goes(w, Answered(r, s))
      PROVE  Follows(r, request'[w])
  <2>1. PICK q : q = Answered(r, s)
    OBVIOUS
  <2>2. request'[w] = q
    BY <1>4, <1>5, <2>1
  <2>3. /\ q.type = r.type /\ q.content = r.content /\ q.version = r.version
        /\ q.base = r.base /\ q.sig = r.sig
        /\ q.stage = "done" /\ q.status = s
    BY <1>3, <2>1 DEF Answered, Request
  <2> QED
    BY <2>2, <2>3 DEF Follows, Processing
\* The next stage, with whatever has been learned.
<1>6. ASSUME NEW q, q = request'[w],
             q.type = r.type, q.content = r.content, q.version = r.version,
             q.base = r.base, q.sig = r.sig, q.stage # "done",
             q.stage \in Processing => r.stage \in Processing
      PROVE  Follows(r, request'[w])
  BY <1>6 DEF Follows
<1>7. CASE FindData(w)
  <2>1. Goes(w, [r EXCEPT !.stage = IF r.content \in data THEN "findDigest"
                                    ELSE "createData"])
    BY <1>1, <1>7 DEF FindData
  <2>2. PICK q : q = [r EXCEPT !.stage = IF r.content \in data THEN "findDigest"
                                         ELSE "createData"]
    OBVIOUS
  <2>3. /\ q.type = r.type /\ q.content = r.content /\ q.version = r.version
        /\ q.base = r.base /\ q.sig = r.sig
        /\ q.stage \in {"findDigest", "createData"}
    BY <1>3, <2>2 DEF Request
  <2>4. request'[w] = q
    BY <1>4, <2>1, <2>2
  <2> QED
    BY <1>6, <2>3, <2>4 DEF Processing
<1>8. CASE CreateData(w)
  <2>1. CASE Goes(w, Answered(r, 500))
    BY <1>5, <2>1
  <2>2. CASE request' = [request EXCEPT ![w].stage = "findDigest"]
    <3>1. PICK q : q = [r EXCEPT !.stage = "findDigest"]
      OBVIOUS
    <3>2. request'[w] = q
      BY <1>1, <2>2, <3>1 DEF TypeOK
    <3>3. /\ q.type = r.type /\ q.content = r.content /\ q.version = r.version
          /\ q.base = r.base /\ q.sig = r.sig /\ q.stage = "findDigest"
      BY <1>3, <3>1 DEF Request
    <3> QED
      BY <1>6, <3>2, <3>3 DEF Processing
  <2> QED
    BY <1>1, <1>8, <2>1, <2>2 DEF CreateData
<1>9. CASE FindDigest(w)
  <2>1. Goes(w, [r EXCEPT !.stage = IF digests[r.digest] = r.content
                                    THEN "findBase" ELSE "createDigest"])
    BY <1>1, <1>9 DEF FindDigest
  <2>2. PICK q : q = [r EXCEPT !.stage = IF digests[r.digest] = r.content
                                         THEN "findBase" ELSE "createDigest"]
    OBVIOUS
  <2>3. /\ q.type = r.type /\ q.content = r.content /\ q.version = r.version
        /\ q.base = r.base /\ q.sig = r.sig
        /\ q.stage \in {"findBase", "createDigest"}
    BY <1>3, <2>2 DEF Request
  <2>4. request'[w] = q
    BY <1>4, <2>1, <2>2
  <2> QED
    BY <1>6, <2>3, <2>4 DEF Processing
<1>10. CASE CreateDigest(w)
  <2>1. CASE Goes(w, Answered(r, 500))
    BY <1>5, <2>1
  <2>2. CASE request' = [request EXCEPT ![w].stage = "findBase"]
    <3>1. PICK q : q = [r EXCEPT !.stage = "findBase"]
      BY Zenon
    <3>2. request'[w] = q
      BY <1>1, <2>2, <3>1 DEF TypeOK
    <3>3. /\ q.type = r.type /\ q.content = r.content /\ q.version = r.version
          /\ q.base = r.base /\ q.sig = r.sig /\ q.stage = "findBase"
      BY <1>3, <3>1 DEF Request
    <3> QED
      BY <1>6, <3>2, <3>3 DEF Processing
  <2> QED
    BY <1>1, <1>10, <2>1, <2>2 DEF CreateDigest
<1>11. CASE FindBase(w)
  <2>1. CASE ~ HasRow(r.type, r.content) /\ Goes(w, [r EXCEPT !.stage = "decode"])
    <3>1. PICK q : q = [r EXCEPT !.stage = "decode"]
      OBVIOUS
    <3>2. request'[w] = q
      BY <1>4, <2>1, <3>1
    <3>3. /\ q.type = r.type /\ q.content = r.content /\ q.version = r.version
          /\ q.base = r.base /\ q.sig = r.sig /\ q.stage = "decode"
      BY <1>3, <3>1 DEF Request
    <3> QED
      BY <2>1, <3>2, <3>3 DEF Follows
  <2>2. ASSUME NEW i \in DOMAIN table[r.type],
               IF table[r.type][i].version = r.version
               THEN Goes(w, Answered(r, 204))
               ELSE Goes(w, [r EXCEPT !.stage = "decode", !.base = i])
        PROVE  Follows(r, request'[w])
    <3>1. CASE Goes(w, Answered(r, 204))
      BY <1>5, <3>1
    <3>2. CASE /\ table[r.type][i].version # r.version
               /\ Goes(w, [r EXCEPT !.stage = "decode", !.base = i])
      <4>1. PICK q : q = [r EXCEPT !.stage = "decode", !.base = i]
        OBVIOUS
      <4>2. request'[w] = q
        BY <1>4, <3>2, <4>1
      <4>3. /\ q.type = r.type /\ q.content = r.content /\ q.version = r.version
            /\ q.base = i /\ q.sig = r.sig /\ q.stage = "decode"
        BY <1>3, <4>1 DEF Request
      <4>4. i # 0
        <5>1. table[r.type] \in Seq(Row)
          BY <1>3 DEF TypeOK, Request
        <5> QED
          BY <5>1
      <4> QED
        BY <3>2, <4>2, <4>3, <4>4 DEF Follows
    <3> QED
      BY <2>2, <3>1, <3>2
  <2> QED
    BY <1>1, <1>11, <2>1, <2>2, Zenon DEF FindBase
<1>12. CASE Decode(w)
  <2>1. CASE \E s \in {400, 409} : Goes(w, Answered(r, s))
    BY <1>5, <2>1
  <2>2. CASE Goes(w,
             IF r.type = "blob" THEN [r EXCEPT !.stage = "save"]
             ELSE IF r.type = "bottle"
             THEN [r EXCEPT !.stage = "artifacts",
                            !.todo = Doc[r.content].artifacts]
             ELSE [r EXCEPT !.stage = "subject"])
    <3>1. PICK q : q = IF r.type = "blob" THEN [r EXCEPT !.stage = "save"]
             ELSE IF r.type = "bottle"
             THEN [r EXCEPT !.stage = "artifacts",
                            !.todo = Doc[r.content].artifacts]
             ELSE [r EXCEPT !.stage = "subject"]
      OBVIOUS
    <3>2. request'[w] = q
      BY <1>4, <2>2, <3>1
    <3>3. /\ q.type = r.type /\ q.content = r.content /\ q.version = r.version
          /\ q.base = r.base /\ q.sig = r.sig
          /\ q.stage \in {"save", "artifacts", "subject"}
      BY <1>3, <3>1 DEF Request
    <3>4. r.stage = "decode"
      BY <1>1, <1>12 DEF Decode
    <3> QED
      BY <1>6, <3>2, <3>3, <3>4 DEF Processing
  <2> QED
    BY <1>1, <1>12, <2>1, <2>2 DEF Decode
<1>13. CASE LookupArtifact(w)
  <2>1. PICK d \in r.todo :
          Goes(w, IF digests[d] = NoContent
                  THEN [r EXCEPT !.todo = @ \ {d}, !.missing = @ \cup {d}]
                  ELSE [r EXCEPT !.todo = @ \ {d},
                                 !.artifacts = @ \cup {digests[d]}])
    BY <1>1, <1>13 DEF LookupArtifact
  <2>2. PICK q : q = IF digests[d] = NoContent
                  THEN [r EXCEPT !.todo = @ \ {d}, !.missing = @ \cup {d}]
                  ELSE [r EXCEPT !.todo = @ \ {d},
                                 !.artifacts = @ \cup {digests[d]}]
    OBVIOUS
  <2>3. request'[w] = q
    BY <1>4, <2>1, <2>2
  <2>4. r.stage = "artifacts"
    BY <1>1, <1>13 DEF LookupArtifact
  <2>5. /\ q.type = r.type /\ q.content = r.content /\ q.version = r.version
        /\ q.base = r.base /\ q.sig = r.sig /\ q.stage = "artifacts"
    BY <1>3, <2>2, <2>4 DEF Request
  <2> QED
    BY <1>6, <2>3, <2>4, <2>5 DEF Processing
<1>14. CASE ArtifactsDone(w)
  <2>1. CASE Goes(w, Answered(r, 412))
    BY <1>5, <2>1
  <2>2. CASE Goes(w, [r EXCEPT !.stage = "save"])
    <3>1. PICK q : q = [r EXCEPT !.stage = "save"]
      BY Zenon
    <3>2. request'[w] = q
      BY <1>4, <2>2, <3>1
    <3>3. /\ q.type = r.type /\ q.content = r.content /\ q.version = r.version
          /\ q.base = r.base /\ q.sig = r.sig /\ q.stage = "save"
      BY <1>3, <3>1 DEF Request
    <3>4. r.stage = "artifacts"
      BY <1>1, <1>14 DEF ArtifactsDone
    <3> QED
      BY <1>6, <3>2, <3>3, <3>4 DEF Processing
  <2> QED
    BY <1>1, <1>14, <2>1, <2>2 DEF ArtifactsDone
<1>15. CASE LookupSubject(w)
  <2>0. r.stage = "subject"
    BY <1>1, <1>15, Zenon DEF LookupSubject
  <2>1. CASE Goes(w, Answered([r EXCEPT !.missing = {Doc[r.content].subject}],
                              412))
    <3>1. PICK m : m = {Doc[r.content].subject}
      OBVIOUS
    <3>2. PICK q : q = Answered([r EXCEPT !.missing = m], 412)
      OBVIOUS
    <3>3. request'[w] = q
      BY <1>4, <2>1, <3>1, <3>2
    <3>4. /\ q.type = r.type /\ q.content = r.content /\ q.version = r.version
          /\ q.base = r.base /\ q.sig = r.sig
          /\ q.stage = "done" /\ q.status = 412
      BY <1>3, <3>2 DEF Answered, Request
    <3> QED
      BY <3>3, <3>4 DEF Follows, Processing
  <2>2. CASE Goes(w, Answered(r, 400))
    BY <1>5, <2>2
  <2>3. CASE \E i, b : \/ Goes(w, [r EXCEPT !.stage = "save", !.bottle = i])
                     \/ Goes(w, [r EXCEPT !.stage = "save", !.manifest = i,
                                          !.bottle = b])
                     \/ Goes(w, [r EXCEPT !.stage = "sigBottle",
                                          !.manifest = i])
    <3>1. PICK i, b : \/ Goes(w, [r EXCEPT !.stage = "save", !.bottle = i])
                      \/ Goes(w, [r EXCEPT !.stage = "save", !.manifest = i,
                                           !.bottle = b])
                      \/ Goes(w, [r EXCEPT !.stage = "sigBottle",
                                           !.manifest = i])
      BY <2>3
    <3>2. PICK q : /\ Goes(w, q)
                   /\ \/ q = [r EXCEPT !.stage = "save", !.bottle = i]
                      \/ q = [r EXCEPT !.stage = "save", !.manifest = i,
                                       !.bottle = b]
                      \/ q = [r EXCEPT !.stage = "sigBottle", !.manifest = i]
      BY <3>1
    <3>3. /\ q.type = r.type /\ q.content = r.content /\ q.version = r.version
          /\ q.base = r.base /\ q.sig = r.sig
          /\ q.stage \in {"save", "sigBottle"}
      BY <1>3, <3>2, Zenon DEF Request
    <3> QED
      BY <1>4, <1>6, <2>0, <3>2, <3>3 DEF Processing
  <2>4. CASE r.type = "manifest"
    BY <1>1, <1>15, <2>1, <2>2, <2>3, <2>4, ZenonT(40) DEF LookupSubject
  <2>5. CASE r.type = "event"
    BY <1>1, <1>15, <2>1, <2>2, <2>3, <2>5, ZenonT(40) DEF LookupSubject
  <2>6. CASE r.type \notin {"manifest", "event"}
    BY <1>1, <1>15, <2>1, <2>2, <2>3, <2>6, Zenon DEF LookupSubject
  <2> QED
    BY <2>4, <2>5, <2>6
<1>16. CASE LookupSigBottle(w)
  <2>1. CASE Goes(w, Answered(r, 400))
    BY <1>5, <2>1
  <2>2. ASSUME NEW i, Goes(w, [r EXCEPT !.stage = "save", !.bottle = i])
        PROVE  Follows(r, request'[w])
    <3>1. PICK q : q = [r EXCEPT !.stage = "save", !.bottle = i]
      OBVIOUS
    <3>2. request'[w] = q
      BY <1>4, <2>2, <3>1
    <3>3. /\ q.type = r.type /\ q.content = r.content /\ q.version = r.version
          /\ q.base = r.base /\ q.sig = r.sig /\ q.stage = "save"
      BY <1>3, <3>1 DEF Request
    <3>4. r.stage = "sigBottle"
      BY <1>1, <1>16 DEF LookupSigBottle
    <3> QED
      BY <1>6, <3>2, <3>3, <3>4 DEF Processing
  <2> QED
    BY <1>1, <1>16, <2>1, <2>2 DEF LookupSigBottle
\* The two ways to be told 201.
<1>17. ASSUME r.type = "signature" => r.sig > Len(Doc[r.content].sigs),
              request'[w] = Answered(r, 201)
       PROVE  Follows(r, request'[w])
  <2>1. PICK q : q = request'[w]
    OBVIOUS
  <2>2. /\ q.type = r.type /\ q.content = r.content /\ q.version = r.version
        /\ q.base = r.base /\ q.sig = r.sig /\ q.stage = "done"
    BY <1>3, <1>17, <2>1 DEF Answered, Request
  <2> QED
    BY <1>17, <2>1, <2>2 DEF Follows, Processing
<1>18. CASE Save(w)
  <2>1. r.type # "signature" /\ request'[w] = Answered(r, 201)
    BY <1>1, <1>18 DEF Save, TypeOK
  <2> QED
    BY <1>17, <2>1
<1>19. CASE SaveSignature(w)
  <2>0. r.stage = "save" /\ r.type = "signature"
    BY <1>1, <1>19 DEF SaveSignature
  <2>1. CASE r.sig > Len(Doc[r.content].sigs) /\ Goes(w, Answered(r, 201))
    BY <1>4, <1>17, <2>1
  <2>2. CASE Goes(w, Answered(r, 400))
    BY <1>5, <2>2
  <2>3. CASE /\ r.sig <= Len(Doc[r.content].sigs)
             /\ Write("signature", r.base, NewRow(r))
             /\ request' = [request EXCEPT ![w].sig = @ + 1]
    <3>1. PICK q : q = [r EXCEPT !.sig = @ + 1]
      OBVIOUS
    <3>2. request'[w] = q
      BY <1>1, <2>3, <3>1 DEF TypeOK
    <3>3. /\ q.type = r.type /\ q.content = r.content /\ q.version = r.version
          /\ q.base = r.base /\ q.sig = r.sig + 1 /\ q.stage = "save"
      BY <1>3, <2>0, <3>1 DEF Request
    <3> QED
      BY <2>0, <2>3, <3>2, <3>3 DEF Follows, Processing
  <2> QED
    BY <1>1, <1>19, <2>1, <2>2, <2>3 DEF SaveSignature
<1>20. CASE Deliver(w)
  BY <1>4, <1>20 DEF Deliver, Idle
<1>21. CASE Fail(w)
  BY <1>1, <1>5, <1>21 DEF Fail
<1> QED
  BY <1>7, <1>8, <1>9, <1>10, <1>11, <1>12, <1>13, <1>14, <1>15, <1>16,
     <1>18, <1>19, <1>20, <1>21 DEF Step

\* A request that has just been received.
LEMMA ReceiveStarts ==
  ASSUME TypeOK, NEW w \in Workers, Receive(w)
  PROVE  /\ request[w].stage = "idle"
         /\ request'[w].version \in Versions
         /\ request'[w].base = 0 /\ request'[w].sig = 1
         /\ request'[w].stage \in {"findData", "done"}
         /\ request'[w].status # 201
         /\ UNCHANGED table
<1>0. PICK s \in Submissions, v \in Versions :
        \E q :
          /\ q = [stage |-> "findData", type |-> s.type, content |-> s.content,
                  digest |-> DigestOf(s.content, s.claim[2]), version |-> v,
                  base |-> 0, todo |-> {},
                  missing |-> {}, artifacts |-> {}, manifest |-> 0,
                  bottle |-> 0, sig |-> 1, status |-> 0]
          /\ Goes(w, q) \/ Goes(w, Answered(q, 409))
  BY DEF Receive
<1>1. PICK q :
        /\ q.version = v /\ q.base = 0 /\ q.sig = 1 /\ q.stage = "findData"
        /\ q.status = 0
        /\ v \in Versions
        /\ Goes(w, q) \/ Goes(w, Answered(q, 409))
  BY <1>0
<1>2. request'[w] = q \/ request'[w] = Answered(q, 409)
  BY <1>1, GoesTo
<1>4. PICK a : a = Answered(q, 409)
  OBVIOUS
<1>5. /\ a.version = v /\ a.base = 0 /\ a.sig = 1 /\ a.stage = "done"
      /\ a.status = 409
  BY <1>1, <1>4 DEF Answered
<1>6. table' = table
  BY <1>1 DEF Goes
<1>7. request[w].stage = "idle"
  BY DEF Receive
<1> QED
  BY <1>1, <1>2, <1>4, <1>5, <1>6, <1>7


\* What a step does to the rows: none changes, or the handler saves one.
LEMMA StepRows ==
  ASSUME Inv, NEW w \in Workers, Receive(w) \/ Step(w) \/ Fail(w)
  PROVE  \/ UNCHANGED table
         \/ \E r \in Request : \E k \in Nat :
              /\ r = request[w] /\ r.stage = "save"
              /\ \A t \in Types \ {r.type} : table'[t] = table[t]
              /\ DOMAIN table'[r.type] = DOMAIN table[r.type] \cup {k}
              /\ table'[r.type][k] = NewRow(r)
              /\ \A i \in DOMAIN table[r.type] :
                   i # k => table'[r.type][i] = table[r.type][i]
              /\ k = IF r.base = 0 THEN Len(table[r.type]) + 1 ELSE r.base
<1>1. CASE UNCHANGED table
  BY <1>1
<1>2. CASE /\ request[w].stage = "save"
           /\ Write(request[w].type, request[w].base, NewRow(request[w]))
  <2>1. PICK r \in Request : r = request[w]
    BY <1>2, AtWork DEF Inv
  <2>2. /\ r.type \in Types /\ r.base \in Nat /\ NewRow(r) \in Row
        /\ r.base # 0 => r.base \in DOMAIN table[r.type]
    BY <1>2, <2>1, NewRowType, BaseIsRow DEF Request, Inv
  <2>3. PICK row : row = NewRow(r)
    OBVIOUS
  <2>4. Write(r.type, r.base, row)
    BY <1>2, <2>1, <2>3
  <2>5. /\ \A t \in Types \ {r.type} : table'[t] = table[t]
        /\ \E k \in Nat :
             /\ DOMAIN table'[r.type] = DOMAIN table[r.type] \cup {k}
             /\ table'[r.type][k] = row
             /\ \A i \in DOMAIN table[r.type] :
                  i # k => table'[r.type][i] = table[r.type][i]
             /\ k = IF r.base = 0 THEN Len(table[r.type]) + 1 ELSE r.base
    BY <2>2, <2>3, <2>4, WriteEffect DEF Inv
  <2> QED
    BY <1>2, <2>1, <2>3, <2>5
<1> QED
  BY <1>1, <1>2, StepEffect

-----------------------------------------------------------------------------
(* One release: what is created is complete *)

\* Only one release runs: no row is ever processed again.
OneRelease ==
  /\ \A t \in Types : \A i \in DOMAIN table[t] : table[t][i].version \in Versions
  /\ \A w \in Workers : request[w].stage # "idle" =>
       request[w].version \in Versions /\ request[w].base = 0

\* Entry k of the summary c is on record.
Entered(c, k) ==
  \E i \in DOMAIN table["signature"] :
    /\ table["signature"][i].data = c
    /\ table["signature"][i].sig = k

\* A handler has entered what lies behind it.
Enters(r) ==
  /\ r.sig >= 1
  /\ r.type = "signature" => \A k \in 1 .. (r.sig - 1) : Entered(r.content, k)
  /\ r.type = "signature" /\ r.stage = "done" /\ r.status = 201 =>
       AllSignatures(r.content)

EntriesKept ==
  \A w \in Workers : request[w].stage # "idle" => Enters(request[w])

\* With one release no row is taken for an outdated one.
LEMMA NextOneRelease ==
  ASSUME \A u, v \in Versions : u = v, Inv, OneRelease,
         NEW w \in Workers, Receive(w) \/ Step(w) \/ Fail(w)
  PROVE  OneRelease'
<1>1. TypeOK /\ TypeOK'
  BY StepType DEF Inv
<1>2. ASSUME NEW t \in Types, NEW i \in DOMAIN table'[t]
      PROVE  table'[t][i].version \in Versions
  <2>1. CASE table' = table
    BY <2>1, <1>2 DEF OneRelease
  <2>2. ASSUME NEW r \in Request, NEW k \in Nat, r = request[w],
               r.stage = "save",
               \A u \in Types \ {r.type} : table'[u] = table[u],
               DOMAIN table'[r.type] = DOMAIN table[r.type] \cup {k},
               table'[r.type][k] = NewRow(r),
               \A j \in DOMAIN table[r.type] :
                 j # k => table'[r.type][j] = table[r.type][j]
        PROVE  table'[t][i].version \in Versions
    <3>1. NewRow(r).version \in Versions
      BY <2>2 DEF NewRow, OneRelease
    <3> QED
      BY <1>2, <2>2, <3>1 DEF OneRelease
  <2> QED
    BY <2>1, <2>2, StepRows
<1>3. ASSUME NEW u \in Workers, request'[u].stage # "idle"
      PROVE  request'[u].version \in Versions /\ request'[u].base = 0
  <2>1. CASE u # w
    BY <1>1, <1>3, <2>1, OthersUntouched DEF OneRelease
  <2>2. CASE Receive(w) /\ u = w
    BY <1>1, <2>2, ReceiveStarts
  <2>3. CASE (Step(w) \/ Fail(w)) /\ u = w
    <3>1. PICK r, q : r = request[w] /\ q = request'[w]
      OBVIOUS
    <3>2. r.stage # "idle" /\ Follows(r, q) /\ r.type \in Types
      BY <1>1, <1>3, <2>3, <3>1, StepFollows, AtWork DEF Request
    <3>3. r.version \in Versions /\ r.base = 0
      BY <3>1, <3>2 DEF OneRelease
    <3>4. q.base \in DOMAIN table[r.type] => table[r.type][q.base].version = r.version
      BY <3>2, <3>3 DEF OneRelease
    <3> QED
      BY <2>3, <3>1, <3>2, <3>3, <3>4 DEF Follows
  <2> QED
    BY <2>1, <2>2, <2>3
<1> QED
  BY <1>2, <1>3 DEF OneRelease

\* Then the rows of the table only become more, each as it was.
LEMMA EntriesStay ==
  ASSUME Inv, OneRelease, NEW w \in Workers, Receive(w) \/ Step(w) \/ Fail(w),
         NEW c, NEW n, Entered(c, n)
  PROVE  Entered(c, n)'
<1>1. PICK i \in DOMAIN table["signature"] :
        table["signature"][i].data = c /\ table["signature"][i].sig = n
  BY DEF Entered
<1> SUFFICES i \in DOMAIN table'["signature"]
             /\ table'["signature"][i] = table["signature"][i]
  BY <1>1 DEF Entered
<1>2. CASE table' = table
  BY <1>2
<1>3. ASSUME NEW r \in Request, NEW k \in Nat, r = request[w],
             r.stage = "save",
             \A u \in Types \ {r.type} : table'[u] = table[u],
             DOMAIN table'[r.type] = DOMAIN table[r.type] \cup {k},
             \A j \in DOMAIN table[r.type] :
               j # k => table'[r.type][j] = table[r.type][j],
             k = IF r.base = 0 THEN Len(table[r.type]) + 1 ELSE r.base
      PROVE  /\ i \in DOMAIN table'["signature"]
             /\ table'["signature"][i] = table["signature"][i]
  <2>1. k = Len(table[r.type]) + 1 /\ r.type \in Types
    BY <1>3 DEF OneRelease, Request
  <2>2. k \notin DOMAIN table[r.type]
    BY <2>1 DEF Inv, TypeOK
  <2> QED
    BY <1>3, <2>2 DEF Types
<1> QED
  BY <1>2, <1>3, StepRows

\* A summary's handler enters one after the other and none is lost.
LEMMA NextEntriesKept ==
  ASSUME \A u, v \in Versions : u = v, Inv, OneRelease, EntriesKept,
         NEW w \in Workers, Receive(w) \/ Step(w) \/ Fail(w)
  PROVE  EntriesKept'
<1> USE DocumentsAssumption
<1> SUFFICES ASSUME NEW u \in Workers, request'[u].stage # "idle"
             PROVE  \E q : q = request'[u] /\ Enters(q)'
  BY DEF EntriesKept
<1>1. TypeOK /\ TypeOK'
  BY StepType DEF Inv
<1>2. ASSUME NEW c, AllSignatures(c)
      PROVE  AllSignatures(c)'
  <2>1. \A k \in 1 .. Len(Doc[c].sigs) : Entered(c, k)
    BY <1>2 DEF AllSignatures, Entered
  <2>2. \A k \in 1 .. Len(Doc[c].sigs) : Entered(c, k)'
    BY <2>1, EntriesStay
  <2> QED
    BY <2>2 DEF AllSignatures, Entered
<1>3. CASE u # w
  <2>1. PICK q : q = request[u]
    OBVIOUS
  <2>2. q = request'[u] /\ Enters(q)
    BY <1>1, <1>3, <2>1, OthersUntouched DEF EntriesKept
  <2> QED
    BY <1>2, <2>2, EntriesStay DEF Enters
<1>4. CASE Receive(w) /\ u = w
  <2>1. PICK q : q = request'[w]
    OBVIOUS
  <2>2. q.sig = 1 /\ q.status # 201
    BY <1>1, <1>4, <2>1, ReceiveStarts
  <2> QED
    BY <1>4, <2>1, <2>2 DEF Enters
<1>5. CASE (Step(w) \/ Fail(w)) /\ u = w
  <2>1. PICK r, q : r = request[w] /\ q = request'[w]
    OBVIOUS
  <2>2. r.stage # "idle" /\ Follows(r, q) /\ r \in Request /\ Enters(r)
    BY <1>1, <1>5, <2>1, StepFollows, AtWork DEF EntriesKept
  <2>3. /\ q.type = r.type /\ q.content = r.content /\ r.sig \in Nat
        /\ q.sig \in {r.sig, r.sig + 1} /\ r.sig >= 1
    BY <2>2 DEF Follows, Request, Enters
  <2>4. ASSUME r.type = "signature", q.sig = r.sig + 1
        PROVE  Entered(r.content, r.sig)'
    <3>1. r.stage = "save" /\ Write(r.type, r.base, NewRow(r))
      BY <2>2, <2>3, <2>4 DEF Follows
    <3>2. PICK row : row = NewRow(r)
      OBVIOUS
    <3>3. /\ r.type \in Types /\ r.base \in Nat /\ row \in Row
          /\ r.base # 0 => r.base \in DOMAIN table[r.type]
      BY <2>1, <2>2, <3>1, <3>2, NewRowType, BaseIsRow DEF Request, Inv
    <3>4. \E k \in Nat : /\ DOMAIN table'[r.type] = DOMAIN table[r.type] \cup {k}
                         /\ table'[r.type][k] = row
      BY <1>1, <3>1, <3>2, <3>3, WriteEffect
    <3>5. row.data = r.content /\ row.sig = r.sig
      BY <2>4, <3>2 DEF NewRow
    <3> QED
      BY <2>4, <3>4, <3>5 DEF Entered
  <2>5. ASSUME q.type = "signature", NEW k \in 1 .. (q.sig - 1)
        PROVE  Entered(q.content, k)'
    <3>1. CASE k \in 1 .. (r.sig - 1)
      BY <2>2, <2>3, <2>5, <3>1, EntriesStay DEF Enters
    <3>2. CASE k \notin 1 .. (r.sig - 1)
      <4>1. k = r.sig /\ q.sig = r.sig + 1
        BY <2>3, <2>5, <3>2
      <4> QED
        BY <2>3, <2>4, <2>5, <4>1
    <3> QED
      BY <3>1, <3>2
  <2>6. ASSUME q.type = "signature", q.stage = "done", q.status = 201
        PROVE  AllSignatures(q.content)'
    <3>1. r.sig > Len(Doc[r.content].sigs)
      BY <2>2, <2>3, <2>6 DEF Follows
    <3>2. Doc[r.content].sigs \in Seq(BOOLEAN)
      BY <2>2 DEF Request
    <3>3. \A k \in 1 .. Len(Doc[r.content].sigs) : k \in 1 .. (r.sig - 1)
      BY <2>3, <3>1, <3>2
    <3>4. \A k \in 1 .. Len(Doc[r.content].sigs) : Entered(r.content, k)
      BY <2>2, <2>3, <2>6, <3>3 DEF Enters
    <3>5. AllSignatures(r.content)
      BY <3>4 DEF AllSignatures, Entered
    <3> QED
      BY <1>2, <2>3, <3>5
  <2>7. q.sig >= 1
    BY <2>3
  <2> QED
    BY <1>5, <2>1, <2>5, <2>6, <2>7 DEF Enters
<1> QED
  BY <1>3, <1>4, <1>5

\* With one release, the client that is told 201 for a signature summary finds
\* all its entries on record, however uploads of the same summary interleave.
\* (With two, the one that processes the summary again writes all its entries
\* over the first row.)
THEOREM CreatedIsComplete ==
  ASSUME \A u, v \in Versions : u = v
  PROVE  Spec => []CreatedMeansComplete
<1>1. Init => OneRelease /\ EntriesKept
  <2> SUFFICES ASSUME Init PROVE OneRelease /\ EntriesKept
    OBVIOUS
  <2>1. \A t \in Types : DOMAIN table[t] = {}
    BY DEF Init
  <2>2. \A w \in Workers : request[w].stage = "idle"
    BY DEF Init, Idle
  <2> QED
    BY <2>1, <2>2 DEF OneRelease, EntriesKept
<1>2. Inv /\ OneRelease /\ EntriesKept /\ [Next]_vars
        => OneRelease' /\ EntriesKept'
  <2> SUFFICES ASSUME Inv, OneRelease, EntriesKept, [Next]_vars
               PROVE  OneRelease' /\ EntriesKept'
    OBVIOUS
  <2>1. CASE UNCHANGED vars
    BY <2>1 DEF vars, OneRelease, EntriesKept, Enters, Entered, AllSignatures
  <2>2. ASSUME NEW w \in Workers, Receive(w) \/ Step(w) \/ Fail(w)
        PROVE  OneRelease' /\ EntriesKept'
    BY <2>2, NextOneRelease, NextEntriesKept
  <2> QED
    BY <2>1, <2>2 DEF Next
<1>3. OneRelease /\ EntriesKept => CreatedMeansComplete
  BY DEF OneRelease, EntriesKept, Enters, CreatedMeansComplete, Header
<1> QED
  BY <1>1, <1>2, <1>3, InitInv, NextInv, PTL DEF Spec

=============================================================================
