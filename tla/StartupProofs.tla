---------------------------- MODULE StartupProofs ----------------------------
(***************************************************************************)
(* Theorems about Startup: what holds of the upload path goes on holding   *)
(* when replicas of several releases start, migrate, crash and serve side  *)
(* by side, and the rows they leave behind never keep a release from       *)
(* starting.  A replica that has the database to itself serves no outdated *)
(* row and stores every object once.                                       *)
(***************************************************************************)
EXTENDS Startup, IngestProofs

-----------------------------------------------------------------------------
(* The invariant of the uploads *)

\* A worker that turns to something it knows enough about.
LEMMA MoveInv ==
  ASSUME Inv, NEW w \in Workers, NEW r \in Request \cup {Idle}, Goes(w, r),
         r.stage \notin {"idle", "done"} => Learned(r)
  PROVE  Inv'
<1>1. UNCHANGED <<data, digests, table>> /\ request' = [request EXCEPT ![w] = r]
  BY DEF Goes
<1>2. TypeOK'
  BY GoesType DEF Inv
<1>3. Grows
  BY <1>1 DEF Grows
<1>4. InFlight'
  <2> SUFFICES ASSUME NEW u \in Workers,
                      request'[u].stage \notin {"idle", "done"}
               PROVE  \E q : q = request'[u] /\ Learned(q)'
    BY DEF InFlight
  <2>1. PICK q : q = request'[u]
    OBVIOUS
  <2>2. q \in Request
    BY <1>2, <2>1 DEF TypeOK, Idle
  <2>3. Learned(q)
    BY <1>1, <2>1 DEF Inv, InFlight, TypeOK
  <2> QED
    BY <1>3, <2>1, <2>2, <2>3, LearnedStable DEF Inv
<1> QED
  BY <1>1, <1>2, <1>4, SameTables DEF Inv

\* What Reprocess knows of a row that it takes.
LEMMA TakeLearns ==
  ASSUME STypeOK, Inv, NEW w \in Workers, progress[w] < Len(Processors),
         NEW i \in Outdated(Current(w), version[w])
  PROVE  /\ Reprocessing(w, i, version[w]) \in Request
         /\ Learned(Reprocessing(w, i, version[w]))
<1> USE DocumentsAssumption, IngestAssumption
<1> DEFINE t == Current(w)
           c == table[t][i].data
           r == Reprocessing(w, i, version[w])
<1>1. t \in Types
  <2>1. progress[w] + 1 \in 1 .. 5
    BY DEF STypeOK, Processors
  <2> QED
    BY <2>1 DEF Current, Processors, Types
<1>2. i \in DOMAIN table[t] /\ i \in Nat /\ c \in Contents
  <2>1. i \in DOMAIN table[t]
    BY DEF Outdated
  <2> HIDE DEF t
  <2>2. table[t] \in Seq(Row)
    BY <1>1 DEF Inv, TypeOK
  <2>3. i \in Nat /\ table[t][i] \in Row
    BY <2>1, <2>2
  <2> QED
    BY <2>1, <2>3 DEF Row
<1>3. c \in data
  BY <1>1, <1>2 DEF Inv, ReferencesHold
<1>4. DigestOf(c, CanonicalAlg) \in Digest /\ DigestOf(c, CanonicalAlg)[1] = c
  BY <1>2 DEF DigestOf, Digest
<1>5. version[w] \in Nat
  BY DEF STypeOK
<1> HIDE DEF t
<1>6. r = [stage |-> "decode", type |-> t, content |-> c,
           digest |-> DigestOf(c, CanonicalAlg), version |-> version[w],
           base |-> i, todo |-> {}, missing |-> {}, artifacts |-> {},
           manifest |-> 0, bottle |-> 0, sig |-> 1, status |-> 0]
  BY DEF Reprocessing, t
<1> HIDE DEF c, r
<1>7. r \in Request
  BY <1>1, <1>2, <1>4, <1>5, <1>6 DEF Request, Stages, Statuses
<1>8. Learned(r)
  BY <1>2, <1>3, <1>4, <1>6 DEF Learned, c
<1> QED
  BY <1>7, <1>8 DEF r

\* A step of a replica is one of the upload path or moves a single worker.
LEMMA SNextInv == STypeOK /\ Inv /\ [SNext]_svars => Inv'
<1> SUFFICES ASSUME STypeOK, Inv, [SNext]_svars PROVE Inv'
  OBVIOUS
<1>1. CASE UNCHANGED vars
  BY <1>1, NextInv
<1>2. ASSUME NEW w \in Workers, Receive(w) \/ Step(w) \/ Fail(w)
      PROVE  Inv'
  BY <1>2, NextInv DEF Next
<1>3. ASSUME NEW w \in Workers, Goes(w, Idle) PROVE Inv'
  BY <1>3, MoveInv DEF Idle
<1>4. ASSUME NEW w \in Workers, Take(w) PROVE Inv'
  <2>1. PICK i \in Outdated(Current(w), version[w]) :
          Goes(w, Reprocessing(w, i, version[w]))
    BY <1>4 DEF Take
  <2> QED
    BY <1>4, <2>1, TakeLearns, MoveInv DEF Take
<1> QED
  BY <1>1, <1>2, <1>3, <1>4 DEF SNext, Start, Reprocessed, NextTable, Accept,
                               Statement, StatementFails, Crash, svars, vars

\* The variables of the replicas keep their types.
LEMMA SNextType == STypeOK /\ Inv /\ [SNext]_svars => STypeOK'
<1> SUFFICES ASSUME STypeOK, Inv, [SNext]_svars PROVE STypeOK'
  OBVIOUS
<1>1. TypeOK'
  BY SNextInv DEF Inv
<1>2. CASE UNCHANGED replica
  BY <1>1, <1>2 DEF STypeOK, replica
<1>3. ASSUME NEW w \in Workers,
             Start(w) \/ Reprocessed(w) \/ NextTable(w) \/ Crash(w)
      PROVE  STypeOK'
  BY <1>1, <1>3 DEF STypeOK, Start, Reprocessed, NextTable, Crash, Phases,
                    Processors
<1> QED
  BY <1>2, <1>3 DEF SNext, Take, Accept, Statement, StatementFails, svars,
                    replica

-----------------------------------------------------------------------------
(* Reprocessing goes through *)

\* How the reprocessing of a row may end: saved, a fault, or a signature
\* summary with an entry that does not verify.
Ends(r) ==
  \/ r.status \in {201, 500}
  \/ /\ r.type = "signature" /\ r.status = 400
     /\ \E k \in DOMAIN Doc[r.content].sigs : ~ Doc[r.content].sigs[k]

\* A processor at work on a row, with nothing missing so far.
Redoes(r) ==
  /\ r.base # 0
  /\ r.stage \in {"decode", "artifacts", "subject", "sigBottle", "save", "done"}
  /\ r.missing = {}
  /\ r.sig >= 1
  /\ r.stage = "done" => Ends(r)

Redoing ==
  \A w \in Workers :
    phase[w] = "migrating" /\ request[w].stage # "idle" => Redoes(request[w])

\* The references of a row that is processed again resolve.
LEMMA BaseResolves ==
  ASSUME Inv, NEW r \in Request, Learned(r), r.base # 0
  PROVE  /\ Decodes(r.type, r.content)
         /\ \E k : References(r.type, r.content, k)
<1>1. /\ r.type \in Types
      /\ r.base \in DOMAIN table[r.type]
      /\ table[r.type][r.base].data = r.content
  BY Zenon DEF Learned, Request
<1> QED
  BY <1>1 DEF Inv, ReferencesHold

\* The processor of a row never finds a reference missing.
LEMMA RedoStep ==
  ASSUME Inv, NEW w \in Workers, request[w].stage \notin {"idle", "done"},
         Redoes(request[w]), Step(w) \/ Fail(w)
  PROVE  Redoes(request'[w])
<1> USE DocumentsAssumption
<1>1. PICK r : r = request[w]
  OBVIOUS
<1>2. /\ r \in Request /\ Learned(r) /\ Redoes(r) /\ TypeOK
      /\ r.stage \in {"decode", "artifacts", "subject", "sigBottle", "save"}
  BY <1>1, AtWork DEF Inv, InFlight, Redoes
<1>3. PICK k : Decodes(r.type, r.content) /\ References(r.type, r.content, k)
  BY <1>2, BaseResolves DEF Redoes
<1>4. \A q : Goes(w, q) => request'[w] = q
  BY <1>2, GoesTo
<1>5. \A s \in {201, 500} : Redoes(Answered(r, s))
  BY <1>2 DEF Redoes, Answered, Ends, Request
<1>6. CASE Fail(w)
  BY <1>1, <1>4, <1>5, <1>6 DEF Fail
<1>7. CASE Decode(w)
  <2>1. \/ Goes(w, [r EXCEPT !.stage = "save"])
        \/ Goes(w, [r EXCEPT !.stage = "artifacts",
                             !.todo = Doc[r.content].artifacts])
        \/ Goes(w, [r EXCEPT !.stage = "subject"])
    BY <1>1, <1>3, <1>7 DEF Decode
  <2> QED
    BY ZenonT(60), <1>2, <1>4, <2>1 DEF Redoes, Request
<1>8. CASE LookupArtifact(w)
  <2>1. PICK d \in r.todo :
          Goes(w, IF digests[d] = NoContent
                  THEN [r EXCEPT !.todo = @ \ {d}, !.missing = @ \cup {d}]
                  ELSE [r EXCEPT !.todo = @ \ {d},
                                 !.artifacts = @ \cup {digests[d]}])
    BY <1>1, <1>8 DEF LookupArtifact
  <2>2. r.stage = "artifacts"
    BY <1>1, <1>8 DEF LookupArtifact
  <2>3. digests[d] # NoContent
    BY <1>2, <1>3, <2>2 DEF Learned, References
  <2>4. Goes(w, [r EXCEPT !.todo = @ \ {d}, !.artifacts = @ \cup {digests[d]}])
    BY <2>1, <2>3
  <2> QED
    BY <1>2, <1>4, <2>2, <2>4 DEF Redoes, Request
<1>9. CASE ArtifactsDone(w)
  <2>1. Goes(w, [r EXCEPT !.stage = "save"])
    BY <1>1, <1>2, <1>9 DEF ArtifactsDone, Redoes
  <2> QED
    BY <1>2, <1>4, <2>1 DEF Redoes, Request
<1>10. CASE LookupSubject(w)
  <2> DEFINE d == Doc[r.content].subject
             t == SubjectType(r.type)
  <2>1. r.type \in HasSubject
    BY <1>1, <1>2, <1>10, Zenon DEF LookupSubject, Learned
  <2>2. PICK j : Finds(t, d, j)
    BY <1>3, <2>1 DEF References, SubjectType, HasSubject
  <2>3. ~ FindsNone(t, d)
    BY <2>2 DEF Finds, FindsNone, HasRow, IsFirst
  <2>4. r.type = "manifest" => Doc[digests[d]].parts = Doc[r.content].parts
    BY <1>3, Zenon DEF References
  <2>5. PICK i \in DOMAIN table[t] :
          /\ Finds(t, d, i)
          /\ CASE r.type = "manifest" ->
                    Goes(w, IF Doc[table[t][i].data].parts = Doc[r.content].parts
                            THEN [r EXCEPT !.stage = "save", !.bottle = i]
                            ELSE Answered(r, 400))
               [] r.type = "event" ->
                    Goes(w, [r EXCEPT !.stage = "save", !.manifest = i,
                                      !.bottle = table[t][i].bottle])
               [] OTHER ->
                    Goes(w, [r EXCEPT !.stage = "sigBottle", !.manifest = i])
    BY <1>1, <1>10, <2>3, Zenon DEF LookupSubject
  <2>6. table[t][i].data = digests[d]
    BY <2>5 DEF Finds, IsFirst
  <2> HIDE DEF d, t
  <2>7. \/ Goes(w, [r EXCEPT !.stage = "save", !.bottle = i])
        \/ Goes(w, [r EXCEPT !.stage = "save", !.manifest = i,
                             !.bottle = table[t][i].bottle])
        \/ Goes(w, [r EXCEPT !.stage = "sigBottle", !.manifest = i])
    <3>1. CASE r.type = "manifest"
      BY <3>1, <2>4, <2>5, <2>6
    <3>2. CASE r.type = "event"
      BY <3>2, <2>5
    <3>3. CASE r.type \notin {"manifest", "event"}
      BY <3>3, <2>5
    <3> QED
      BY <3>1, <3>2, <3>3
  <2>8. CASE Goes(w, [r EXCEPT !.stage = "save", !.bottle = i])
    <3>1. request'[w] = [r EXCEPT !.stage = "save", !.bottle = i]
      BY <1>4, <2>8
    <3> QED
      BY <1>2, <3>1 DEF Redoes, Request
  <2>9. CASE Goes(w, [r EXCEPT !.stage = "save", !.manifest = i,
                               !.bottle = table[t][i].bottle])
    <3>1. PICK b : b = table[t][i].bottle
      OBVIOUS
    <3>2. request'[w] = [r EXCEPT !.stage = "save", !.manifest = i, !.bottle = b]
      BY <1>4, <2>9, <3>1
    <3> QED
      BY <1>2, <3>2 DEF Redoes, Request
  <2>10. CASE Goes(w, [r EXCEPT !.stage = "sigBottle", !.manifest = i])
    <3>1. request'[w] = [r EXCEPT !.stage = "sigBottle", !.manifest = i]
      BY <1>4, <2>10
    <3> QED
      BY <1>2, <3>1 DEF Redoes, Request
  <2> QED
    BY <2>7, <2>8, <2>9, <2>10
<1>11. CASE LookupSigBottle(w)
  <2> DEFINE d == Doc[r.content].bottle
  <2>1. r.type = "signature"
    BY <1>1, <1>2, <1>11 DEF LookupSigBottle, Learned
  <2>2. ~ FindsNone("bottle", d)
    BY <1>3, <2>1 DEF References, Finds, FindsNone, HasRow, IsFirst
  <2>3. PICK i : Goes(w, [r EXCEPT !.stage = "save", !.bottle = i])
    BY <1>1, <1>11, <2>2 DEF LookupSigBottle
  <2> QED
    BY ZenonT(60), <1>2, <1>4, <2>3 DEF Redoes, Request
<1>12. CASE Save(w)
  <2>1. request'[w] = Answered(r, 201)
    BY <1>1, <1>2, <1>12 DEF Save, TypeOK
  <2> QED
    BY <1>5, <2>1
<1>13. CASE SaveSignature(w)
  <2> DEFINE sigs == Doc[r.content].sigs
  <2>1. r.stage = "save" /\ r.type = "signature"
    BY <1>1, <1>13 DEF SaveSignature
  <2>2. CASE Goes(w, Answered(r, 201))
    BY <1>4, <1>5, <2>2
  <2>3. CASE /\ r.sig <= Len(sigs) /\ ~ sigs[r.sig]
             /\ Goes(w, Answered(r, 400))
    <3>1. sigs \in Seq(BOOLEAN)
      BY <1>2 DEF Request
    <3>2. r.sig \in Nat /\ r.sig >= 1
      BY <1>2 DEF Redoes, Request
    <3>3. r.sig \in DOMAIN sigs /\ ~ sigs[r.sig]
      <4> HIDE DEF sigs
      <4> QED
        BY <2>3, <3>1, <3>2
    <3> DEFINE a == Answered(r, 400)
    <3>4. request'[w] = a
      BY <1>4, <2>3
    <3>5. /\ a.stage = "done" /\ a.status = 400 /\ a.type = "signature"
          /\ a.content = r.content /\ a.base = r.base
          /\ a.missing = r.missing /\ a.sig = r.sig
      BY <1>2, <2>1 DEF Answered, Request
    <3> HIDE DEF a
    <3>6. Ends(a)
      BY <3>3, <3>5 DEF Ends
    <3> QED
      BY <1>2, <3>4, <3>5, <3>6 DEF Redoes
  <2>4. CASE request' = [request EXCEPT ![w].sig = @ + 1]
    <3>1. request'[w] = [r EXCEPT !.sig = @ + 1]
      BY <1>1, <2>4 DEF TypeOK, Inv
    <3> QED
      BY <1>2, <3>1, <2>1 DEF Redoes, Request
  <2> QED
    BY <1>1, <1>13, <2>2, <2>3, <2>4 DEF SaveSignature
<1> QED
  BY <1>1, <1>2, <1>6, <1>7, <1>8, <1>9, <1>10, <1>11, <1>12, <1>13
     DEF Step, FindData, CreateData, FindDigest, CreateDigest, FindBase, Deliver

\* A replica that is down handles nothing.
Rests == \A w \in Workers : phase[w] = "down" => request[w].stage = "idle"

SInv == STypeOK /\ Inv /\ Rests /\ Redoing

\* The steps of the processor that reprocesses keep it on its way.
LEMMA StatementRedoes ==
  ASSUME SInv, NEW w \in Workers, Statement(w) \/ StatementFails(w)
  PROVE  Rests' /\ Redoing'
<1>1. UNCHANGED replica /\ (Step(w) \/ Fail(w))
  BY DEF Statement, StatementFails
<1>2. \A u \in Workers \ {w} : request'[u] = request[u]
  BY <1>1, OthersUntouched, Zenon DEF SInv, STypeOK
<1>3. request[w].stage # "idle"
  BY <1>1, Zenon DEF Step, Fail, FindData, CreateData, FindDigest, CreateDigest,
              FindBase, Decode, LookupArtifact, ArtifactsDone, LookupSubject,
              LookupSigBottle, Save, SaveSignature, Deliver
<1>4. phase[w] # "down"
  BY <1>3 DEF SInv, Rests
<1>5. phase' = phase
  BY <1>1 DEF replica
<1>6. Rests'
  BY <1>2, <1>4, <1>5 DEF SInv, Rests
<1>7. ASSUME phase[w] = "migrating" PROVE Redoes(request'[w])
  <2>1. request[w].stage # "done"
    BY <1>7 DEF Statement, StatementFails, Fail
  <2> QED
    BY <1>1, <1>3, <1>7, <2>1, RedoStep DEF SInv, Redoing
<1>8. Redoing'
  <2> SUFFICES ASSUME NEW u \in Workers, phase[u] = "migrating",
                      request'[u].stage # "idle"
               PROVE  Redoes(request'[u])
    BY <1>5 DEF Redoing, Redoes, Ends
  <2> QED
    BY <1>2, <1>7 DEF SInv, Redoing
<1> QED
  BY <1>6, <1>8

\* The invariant of the replicas is inductive.
LEMMA SNextSInv == SInv /\ [SNext]_svars => SInv'
<1> SUFFICES ASSUME SInv, [SNext]_svars PROVE SInv'
  OBVIOUS
<1> USE DEF SInv
<1>1. STypeOK' /\ Inv'
  BY SNextInv, SNextType
<1>2. CASE UNCHANGED svars
  BY <1>1, <1>2 DEF svars, Rests, Redoing, Redoes, Ends
<1>3. ASSUME NEW w \in Workers, Start(w) \/ NextTable(w)
      PROVE  Rests' /\ Redoing'
  <2>1. /\ request' = request /\ request[w].stage = "idle"
        /\ \A u \in Workers \ {w} : phase'[u] = phase[u]
    BY <1>3 DEF Start, NextTable, vars, Rests, STypeOK
  <2> QED
    BY <2>1 DEF Rests, Redoing, Redoes, Ends
<1>4. ASSUME NEW w \in Workers, Reprocessed(w) \/ Crash(w)
      PROVE  Rests' /\ Redoing'
  <2>1. /\ request' = [request EXCEPT ![w] = Idle]
        /\ \A u \in Workers \ {w} : phase'[u] = phase[u]
    BY <1>4 DEF Reprocessed, Crash, Goes, STypeOK
  <2>2. /\ request'[w].stage = "idle"
        /\ \A u \in Workers \ {w} : request'[u] = request[u]
    BY <2>1 DEF STypeOK, TypeOK, Idle
  <2> QED
    BY <2>1, <2>2 DEF Rests, Redoing, Redoes, Ends
<1>5. ASSUME NEW w \in Workers, Take(w) PROVE Rests' /\ Redoing'
  <2>1. PICK i \in Outdated(Current(w), version[w]) :
          Goes(w, Reprocessing(w, i, version[w]))
    BY <1>5 DEF Take
  <2>2. PICK r : r = Reprocessing(w, i, version[w])
    OBVIOUS
  <2>3. r \in Request /\ Learned(r)
    BY <1>5, <2>2, TakeLearns DEF Take
  <2>4. r.base # 0
    <3>1. r.base = i /\ r.stage = "decode"
      BY <2>2 DEF Reprocessing
    <3>2. r.type \in Types /\ r.type = Current(w)
      BY <2>2, <2>3 DEF Reprocessing, Request
    <3>3. PICK t : t = Current(w)
      OBVIOUS
    <3>4. i \in DOMAIN table[t] /\ table[t] \in Seq(Row)
      BY <2>1, <3>2, <3>3 DEF Outdated, STypeOK, TypeOK
    <3> QED
      BY <3>1, <3>4
  <2>5. Redoes(r)
    BY <2>2, <2>4 DEF Redoes, Reprocessing
  <2>6. /\ request'[w] = r
        /\ \A u \in Workers \ {w} : request'[u] = request[u]
    BY <2>1, <2>2 DEF Goes, STypeOK, TypeOK
  <2>7. phase' = phase /\ phase[w] = "migrating"
    BY <1>5 DEF Take, replica
  <2> QED
    BY <2>5, <2>6, <2>7 DEF Rests, Redoing, Redoes, Ends
<1>6. ASSUME NEW w \in Workers, Accept(w) PROVE Rests' /\ Redoing'
  <2>1. \A u \in Workers \ {w} : request'[u] = request[u]
    BY <1>6, OthersUntouched DEF Accept, STypeOK
  <2>2. phase' = phase /\ phase[w] = "serving"
    BY <1>6 DEF Accept, replica
  <2> QED
    BY <2>1, <2>2 DEF Rests, Redoing, Redoes, Ends
<1>7. ASSUME NEW w \in Workers, Statement(w) \/ StatementFails(w)
      PROVE  Rests' /\ Redoing'
  BY <1>7, StatementRedoes
<1> QED
  BY <1>1, <1>2, <1>3, <1>4, <1>5, <1>6, <1>7 DEF SNext

\* Nothing runs and nothing is stored before the first start.
LEMMA SInitSInv == SInit => SInv
<1> SUFFICES ASSUME SInit PROVE SInv
  OBVIOUS
<1>1. Inv
  BY InitInv DEF SInit
<1>2. request = [w \in Workers |-> Idle]
  BY DEF SInit, Init
<1>3. STypeOK
  BY <1>1 DEF Inv, STypeOK, SInit, Phases, Processors
<1>4. Rests /\ Redoing
  BY <1>2 DEF Rests, Redoing, Idle
<1> QED
  BY <1>1, <1>3, <1>4 DEF SInv

\* The invariant of the replicas holds at all times.
THEOREM SInvariance == SSpec => []SInv
<1> QED
  BY SInitSInv, SNextSInv, PTL DEF SSpec

-----------------------------------------------------------------------------
(* What follows *)

\* Variables of replicas, handlers and tables keep their types.
THEOREM STypeCorrect == SSpec => []STypeOK
<1>1. SInv => STypeOK
  BY DEF SInv
<1> QED
  BY <1>1, SInvariance, PTL

\* MigrateDB reprocesses whatever earlier uploads and starts left behind: no
\* row, of an abandoned request or of another release, makes a start fail, save
\* a signature summary that was refused after its first entries were stored.
THEOREM StartIsNotBlocked == SSpec => []NothingBlocksStart
<1>1. SInv => NothingBlocksStart
  <2> SUFFICES ASSUME SInv, NEW w \in Workers, phase[w] = "migrating",
                      request[w].stage = "done",
                      request[w].status \notin {201, 500}
               PROVE  /\ request[w].type = "signature"
                      /\ request[w].status = 400
                      /\ \E k \in DOMAIN Doc[request[w].content].sigs :
                           ~ Doc[request[w].content].sigs[k]
    BY DEF NothingBlocksStart
  <2> QED
    BY DEF SInv, Redoing, Redoes, Ends
<1> QED
  BY <1>1, SInvariance, PTL

\* Releases that migrate, crash and serve side by side leave no row with a
\* reference to an object that is not there.
THEOREM ReferencesSurviveUpgrades == SSpec => []ReferencesHold
<1>1. SInv => ReferencesHold
  BY DEF SInv, Inv
<1> QED
  BY <1>1, SInvariance, PTL

\* A step of the replicas is a step of an upload handler or changes no table.
LEMMA SNextCases ==
  [SNext]_svars =>
    \/ \E w \in Workers : Receive(w) \/ Step(w) \/ Fail(w)
    \/ UNCHANGED <<data, digests, table>>
BY DEF SNext, Start, Take, Reprocessed, NextTable, Accept, Statement,
       StatementFails, Crash, Goes, svars, vars

\* No release redirects the references of a row that another one wrote, nor
\* one that is cut off in the middle of its migration.
THEOREM ReferencesSurviveReprocessing == SSpec => ReferencesFixed
<1>1. SInv /\ [SNext]_svars => Grows
  <2> SUFFICES ASSUME SInv, [SNext]_svars PROVE Grows
    OBVIOUS
  <2>1. CASE UNCHANGED <<data, digests, table>>
    BY <2>1 DEF Grows
  <2> QED
    BY <2>1, SNextCases, StepGrows DEF SInv
<1>2. SInv /\ [SNext]_svars =>
        [\A t \in Types : \A i \in DOMAIN table[t] :
           /\ i \in DOMAIN table'[t]
           /\ \A f \in {"data", "manifest", "bottle", "artifacts"} :
                table'[t][i][f] = table[t][i][f]]_vars
  BY <1>1 DEF Grows
<1> QED
  BY <1>2, SInvariance, PTL DEF SSpec, ReferencesFixed

\* Any number of releases side by side, started and killed at any point, are
\* one catalogue: MigrateDB is invisible.
THEOREM ReplicasRefine == SSpec => ImplementsCatalog
<1>1. SInit => Catalogue!Init
  BY DEF SInit, Init, Catalogue!Init, RecordedObjects, HasRow
<1>2. SInv /\ [SNext]_svars => [Catalogue!Next]_(Catalogue!cvars)
  <2> SUFFICES ASSUME SInv, [SNext]_svars
               PROVE  [Catalogue!Next]_(Catalogue!cvars)
    OBVIOUS
  <2>1. CASE UNCHANGED <<data, digests, table>>
    BY <2>1 DEF RecordedObjects, HasRow, Catalogue!cvars
  <2> QED
    BY <2>1, SNextCases, StepImplements DEF SInv
<1> QED
  BY <1>1, <1>2, SInvariance, PTL DEF SSpec, ImplementsCatalog, Catalogue!Spec


-----------------------------------------------------------------------------
(* One replica *)

\* A handler runs with the version of its replica's release.
Alike ==
  \A w \in Workers :
    request[w].stage # "idle" => request[w].version = version[w]

\* What is processed as new has no row yet.
Unrecorded ==
  \A w \in Workers :
    LET r == request[w] IN
    r.stage \in Processing /\ r.base = 0 /\ r.type # "signature" =>
      ~ HasRow(r.type, r.content)

\* The tables that MigrateDB is done with have no row of an older version.
Migrated ==
  \A w \in Workers :
    /\ phase[w] # "down" =>
         \A k \in 1 .. progress[w] : Outdated(Processors[k], version[w]) = {}
    /\ phase[w] = "serving" => progress[w] = Len(Processors)

OInv == SInv /\ Alike /\ Unrecorded /\ Migrated /\ NoDuplicateObjects

\* Processors is a list of all tables.
LEMMA ProcessorsAreTypes ==
  /\ Len(Processors) = 5
  /\ \A k \in 1 .. 5 : Processors[k] \in Types
  /\ \A t \in Types : \E k \in 1 .. 5 : Processors[k] = t
<1>1. Len(Processors) = 5 /\ \A k \in 1 .. 5 : Processors[k] \in Types
  BY DEF Processors, Types
<1>2. /\ Processors[1] = "blob" /\ Processors[2] = "bottle"
      /\ Processors[3] = "manifest" /\ Processors[4] = "event"
      /\ Processors[5] = "signature"
  BY DEF Processors
<1> QED
  BY <1>1, <1>2 DEF Types

\* A step of the replicas, seen from the handlers and the tables: a handler's
\* own step, or one after which the tables are the same and at most one worker
\* is freed or takes a row.
LEMMA ReplicaSteps ==
  ASSUME SInv, [SNext]_svars
  PROVE  \/ \E w \in Workers : /\ Step(w) \/ Fail(w)
                               /\ UNCHANGED replica
         \/ \E w \in Workers : Accept(w)
         \/ \E w \in Workers : Take(w)
         \/ \E w \in Workers : Start(w) \/ NextTable(w)
         \/ \E w \in Workers : /\ Goes(w, Idle)
                               /\ phase' \in {phase, [phase EXCEPT ![w] = "down"]}
                               /\ UNCHANGED <<version, progress>>
         \/ UNCHANGED svars
<1>1. ASSUME NEW w \in Workers, Reprocessed(w) \/ Crash(w)
      PROVE  /\ Goes(w, Idle)
             /\ phase' \in {phase, [phase EXCEPT ![w] = "down"]}
             /\ UNCHANGED <<version, progress>>
  BY <1>1 DEF Reprocessed, Crash, SInv, STypeOK
<1> QED
  BY <1>1 DEF SNext, Statement, StatementFails

\* What a row that is taken becomes.
LEMMA Taken ==
  ASSUME SInv, NEW w \in Workers, Take(w)
  PROVE  /\ request[w].stage = "idle"
         /\ request'[w].version = version[w]
         /\ request'[w].base # 0
         /\ \A u \in Workers \ {w} : request'[u] = request[u]
         /\ UNCHANGED <<data, digests, table, phase, version, progress>>
<1>1. PICK i \in Outdated(Current(w), version[w]) :
        Goes(w, Reprocessing(w, i, version[w]))
  BY DEF Take
<1>2. PICK r : r = Reprocessing(w, i, version[w])
  OBVIOUS
<1>3. r.version = version[w] /\ r.base = i /\ r.type = Current(w)
  BY <1>2 DEF Reprocessing
<1>4. r \in Request
  BY <1>2, TakeLearns DEF Take, SInv
<1>5. i # 0
  <2>1. PICK t : t = Current(w)
    OBVIOUS
  <2>2. i \in DOMAIN table[t] /\ table[t] \in Seq(Row)
    BY <1>1, <1>3, <1>4, <2>1 DEF Outdated, SInv, STypeOK, TypeOK, Request
  <2> QED
    BY <2>2
<1>6. /\ request'[w] = r
      /\ \A u \in Workers \ {w} : request'[u] = request[u]
      /\ UNCHANGED <<data, digests, table>>
  BY <1>1, <1>2 DEF Goes, SInv, STypeOK, TypeOK
<1> QED
  BY <1>3, <1>5, <1>6 DEF Take, replica

\* What a freed worker leaves.
LEMMA Freed ==
  ASSUME SInv, NEW w \in Workers, Goes(w, Idle)
  PROVE  /\ request'[w].stage = "idle"
         /\ \A u \in Workers \ {w} : request'[u] = request[u]
         /\ UNCHANGED <<data, digests, table>>
  BY DEF Goes, SInv, STypeOK, TypeOK, Idle

\* The version is the replica's, with any number of replicas.
LEMMA SNextAlike == SInv /\ Alike /\ [SNext]_svars => Alike'
<1> SUFFICES ASSUME SInv, Alike, [SNext]_svars,
                    NEW u \in Workers, request'[u].stage # "idle"
             PROVE  request'[u].version = version'[u]
  BY DEF Alike
<1>0. TypeOK
  BY DEF SInv, STypeOK
<1>1. CASE request'[u] = request[u] /\ version'[u] = version[u]
  BY <1>1 DEF Alike
<1>2. ASSUME NEW w \in Workers, Step(w) \/ Fail(w), UNCHANGED replica
      PROVE  request'[u].version = version'[u]
  <2>1. version' = version
    BY <1>2 DEF replica
  <2>2. CASE u # w
    BY <1>0, <1>1, <1>2, <2>1, <2>2, OthersUntouched
  <2>3. CASE u = w
    <3>1. PICK r, q : r = request[w] /\ q = request'[w]
      OBVIOUS
    <3>2. r.stage # "idle" /\ q.version = r.version
      BY <1>0, <1>2, <2>3, <3>1, StepFollows DEF Follows
    <3> QED
      BY <2>1, <2>3, <3>1, <3>2 DEF Alike
  <2> QED
    BY <2>2, <2>3
<1>3. ASSUME NEW w \in Workers, Accept(w)
      PROVE  request'[u].version = version'[u]
  <2>1. version' = version /\ request'[w].version = version[w]
    BY <1>3 DEF Accept, replica
  <2>2. CASE u # w
    BY <1>0, <1>1, <1>3, <2>1, <2>2, OthersUntouched DEF Accept
  <2> QED
    BY <2>1, <2>2
<1>4. ASSUME NEW w \in Workers, Take(w)
      PROVE  request'[u].version = version'[u]
  BY <1>1, <1>4, Taken
<1>5. ASSUME NEW w \in Workers, Start(w) \/ NextTable(w)
      PROVE  request'[u].version = version'[u]
  <2>1. request' = request
    BY <1>5 DEF Start, NextTable, vars
  <2>2. CASE u # w
    BY <1>1, <1>5, <2>1, <2>2 DEF Start, NextTable, SInv, STypeOK
  <2>3. CASE Start(w) /\ u = w
    BY <2>1, <2>3 DEF Start, SInv, Rests
  <2>4. CASE NextTable(w)
    BY <1>1, <2>1, <2>4 DEF NextTable
  <2> QED
    BY <1>5, <2>2, <2>3, <2>4
<1>6. ASSUME NEW w \in Workers, Goes(w, Idle), version' = version
      PROVE  request'[u].version = version'[u]
  BY <1>1, <1>6, Freed
<1>7. CASE UNCHANGED svars
  BY <1>1, <1>7 DEF svars
<1> QED
  BY <1>2, <1>3, <1>4, <1>5, <1>6, <1>7, ReplicaSteps

\* A step of the only handler saves a row of its replica's version, at the
\* place of the row it was told to process again or, when there is no such row
\* yet, behind the others.
LEMMA RowSaved ==
  ASSUME OInv, \A u, v \in Workers : u = v,
         NEW w \in Workers, Step(w) \/ Fail(w) \/ Accept(w)
  PROVE  \/ UNCHANGED table
         \/ \E t \in Types, k \in Nat, row \in Row :
              /\ phase[w] # "down"
              /\ \A u \in Types \ {t} : table'[u] = table[u]
              /\ DOMAIN table'[t] = DOMAIN table[t] \cup {k}
              /\ table'[t][k] = row
              /\ row.version = version[w]
              /\ \A i \in DOMAIN table[t] :
                   i # k => table'[t][i] = table[t][i]
              /\ k \in DOMAIN table[t] => table[t][k].data = row.data
              /\ k \notin DOMAIN table[t] /\ t # "signature" =>
                   ~ HasRow(t, row.data)
<1>1. Inv
  BY DEF OInv, SInv
<1>2. Receive(w) \/ Step(w) \/ Fail(w)
  BY DEF Accept
<1>3. ASSUME NEW r \in Request, NEW k \in Nat,
             r = request[w], r.stage = "save",
             \A t \in Types \ {r.type} : table'[t] = table[t],
             DOMAIN table'[r.type] = DOMAIN table[r.type] \cup {k},
             table'[r.type][k] = NewRow(r),
             \A i \in DOMAIN table[r.type] :
               i # k => table'[r.type][i] = table[r.type][i],
             k = IF r.base = 0 THEN Len(table[r.type]) + 1 ELSE r.base
      PROVE  \E t \in Types, n \in Nat, row \in Row :
              /\ phase[w] # "down"
              /\ \A u \in Types \ {t} : table'[u] = table[u]
              /\ DOMAIN table'[t] = DOMAIN table[t] \cup {n}
              /\ table'[t][n] = row
              /\ row.version = version[w]
              /\ \A i \in DOMAIN table[t] :
                   i # n => table'[t][i] = table[t][i]
              /\ n \in DOMAIN table[t] => table[t][n].data = row.data
              /\ n \notin DOMAIN table[t] /\ t # "signature" =>
                   ~ HasRow(t, row.data)
  <2>1. PICK t, row : t = r.type /\ row = NewRow(r)
    OBVIOUS
  <2>2. t \in Types /\ row \in Row
    BY <2>1, NewRowType DEF Request
  <2>3. row.version = r.version /\ row.data = r.content
    BY <2>1 DEF NewRow
  <2>4. phase[w] # "down" /\ r.version = version[w]
    BY <1>3 DEF OInv, SInv, Rests, Alike
  <2>5. r.base # 0 => r.base \in DOMAIN table[t] /\ table[t][r.base].data = r.content
    BY <1>1, <1>3, <2>1, BaseIsRow DEF Inv
  <2>6. r.base = 0 => k \notin DOMAIN table[t]
    BY <1>1, <1>3, <2>1, <2>2 DEF Inv, TypeOK
  <2>7. r.base = 0 /\ t # "signature" => ~ HasRow(t, r.content)
    BY <1>3, <2>1 DEF OInv, Unrecorded, Processing
  <2>8. /\ phase[w] # "down"
        /\ \A u \in Types \ {t} : table'[u] = table[u]
        /\ DOMAIN table'[t] = DOMAIN table[t] \cup {k}
        /\ table'[t][k] = row
        /\ row.version = version[w]
        /\ \A i \in DOMAIN table[t] : i # k => table'[t][i] = table[t][i]
    BY <1>3, <2>1, <2>3, <2>4
  <2>9. /\ k \in DOMAIN table[t] => table[t][k].data = row.data
        /\ k \notin DOMAIN table[t] /\ t # "signature" => ~ HasRow(t, row.data)
    BY <1>3, <2>3, <2>5, <2>6, <2>7
  <2> QED
    BY <2>2, <2>8, <2>9
<1>4. CASE table' # table
  <2>1. PICK r \in Request, k \in Nat :
              /\ r = request[w] /\ r.stage = "save"
              /\ \A t \in Types \ {r.type} : table'[t] = table[t]
              /\ DOMAIN table'[r.type] = DOMAIN table[r.type] \cup {k}
              /\ table'[r.type][k] = NewRow(r)
              /\ \A i \in DOMAIN table[r.type] :
                   i # k => table'[r.type][i] = table[r.type][i]
              /\ k = IF r.base = 0 THEN Len(table[r.type]) + 1 ELSE r.base
    BY <1>1, <1>2, <1>4, StepRows
  <2> QED
    BY <2>1, <1>3
<1> QED
  BY <1>4

\* A handler that finds no row is the only one that could store one.
LEMMA ONextUnrecorded ==
  ASSUME OInv, \A u, v \in Workers : u = v, [SNext]_svars
  PROVE  Unrecorded'
<1> SUFFICES ASSUME NEW w \in Workers,
                    request'[w].stage \in Processing, request'[w].base = 0,
                    request'[w].type # "signature"
             PROVE  \E q : q = request'[w] /\ ~ HasRow(q.type, q.content)'
  BY DEF Unrecorded
<1>0. TypeOK /\ SInv
  BY DEF OInv, SInv, STypeOK
<1>1. ASSUME UNCHANGED table, NEW q, q = request'[w],
             ~ HasRow(q.type, q.content)
      PROVE  ~ HasRow(q.type, q.content)'
  BY <1>1 DEF HasRow
<1>2. CASE request' = request /\ UNCHANGED table
  <2>1. PICK q : q = request'[w]
    OBVIOUS
  <2>2. ~ HasRow(q.type, q.content)
    BY <1>2, <2>1 DEF OInv, Unrecorded
  <2> QED
    BY <1>1, <1>2, <2>1, <2>2
<1>3. CASE Step(w) \/ Fail(w)
  <2>1. PICK r, q : r = request[w] /\ q = request'[w]
    OBVIOUS
  <2>2. request'[w].stage # "idle"
    BY DEF Processing
  <2>3. r.stage # "idle" /\ Follows(r, q)
    BY <1>0, <1>3, <2>1, <2>2, StepFollows
  <2>4. r \in Request
    BY <1>0, <2>1, <2>3, AtWork
  <2>5. q.base = r.base
    <3>1. table[r.type] \in Seq(Row)
      BY <1>0, <2>4 DEF TypeOK, Request
    <3>2. 0 \notin DOMAIN table[r.type]
      BY <3>1
    <3> QED
      BY <2>1, <2>3, <3>2 DEF Follows
  <2>6. q.type = r.type /\ q.content = r.content
    BY <2>3 DEF Follows
  <2>7. ~ HasRow(r.type, r.content)
    BY <2>1, <2>3, <2>5, <2>6 DEF Follows, OInv, Unrecorded
  <2>8. UNCHANGED table
    <3>1. request' # [request EXCEPT ![w] = Answered(request[w], 201)]
      <4>1. Answered(r, 201).stage = "done"
        BY <2>4, AnsweredIsDone
      <4> QED
        BY <1>0, <2>1, <4>1 DEF TypeOK, Processing
    <3>2. request' # [request EXCEPT ![w].sig = @ + 1]
      <4>1. q.sig = r.sig /\ r.sig \in Nat
        BY <2>1, <2>3, <2>4, <2>6 DEF Follows, Request
      <4>2. PICK p : p = [r EXCEPT !.sig = @ + 1]
        OBVIOUS
      <4>3. p.sig = r.sig + 1
        BY <2>4, <4>2 DEF Request
      <4>4. q # p
        BY <4>1, <4>3
      <4> QED
        BY <1>0, <2>1, <4>2, <4>4 DEF TypeOK
    <3> QED
      BY <1>3, <3>1, <3>2, StepEffect
  <2> QED
    BY <1>1, <2>1, <2>6, <2>7, <2>8
<1>4. CASE Accept(w)
  BY <1>0, <1>4, ReceiveStarts DEF Accept, Processing
<1>5. CASE Take(w)
  BY <1>0, <1>5, Taken
<1>6. CASE Start(w) \/ NextTable(w)
  BY <1>2, <1>6 DEF Start, NextTable, vars
<1>7. CASE Goes(w, Idle)
  BY <1>0, <1>7, Freed DEF Processing
<1>8. CASE UNCHANGED svars
  BY <1>2, <1>8 DEF svars
<1> QED
  BY <1>0, <1>3, <1>4, <1>5, <1>6, <1>7, <1>8, ReplicaSteps

\* No table that has been gone through gets an older row again.
LEMMA ONextMigrated ==
  ASSUME OInv, \A u, v \in Workers : u = v, [SNext]_svars
  PROVE  Migrated'
<1> SUFFICES ASSUME NEW w \in Workers
             PROVE  /\ phase'[w] # "down" =>
                         \A k \in 1 .. progress'[w] :
                           {i \in DOMAIN table'[Processors[k]] :
                              table'[Processors[k]][i].version < version'[w]} = {}
                    /\ phase'[w] = "serving" => progress'[w] = Len(Processors)
  BY DEF Migrated, Outdated
<1>0. SInv /\ Migrated
  BY DEF OInv
<1>1. progress[w] \in 0 .. 5 /\ version[w] \in Nat
  BY <1>0, ProcessorsAreTypes, IngestAssumption DEF SInv, STypeOK
<1>2. CASE UNCHANGED table /\ UNCHANGED <<phase, version, progress>>
  BY <1>0, <1>2 DEF Migrated, Outdated
<1>3. CASE UNCHANGED replica /\ (Step(w) \/ Fail(w) \/ Accept(w))
  <2>1. UNCHANGED <<phase, version, progress>>
    BY <1>3 DEF replica
  <2>2. ASSUME NEW t \in Types, NEW n \in Nat, NEW row \in Row,
               phase[w] # "down",
               \A u \in Types \ {t} : table'[u] = table[u],
               DOMAIN table'[t] = DOMAIN table[t] \cup {n},
               table'[t][n] = row, row.version = version[w],
               \A i \in DOMAIN table[t] : i # n => table'[t][i] = table[t][i],
               NEW k \in 1 .. progress[w], NEW p, p = Processors[k],
               NEW i \in DOMAIN table'[p]
        PROVE  ~ (table'[p][i].version < version[w])
    <3>1. p \in Types
      BY <1>1, <2>2, ProcessorsAreTypes
    <3>2. \A j \in DOMAIN table[p] : ~ (table[p][j].version < version[w])
      BY <1>0, <2>2 DEF Migrated, Outdated
    <3>3. CASE p # t
      BY <2>2, <3>1, <3>2, <3>3
    <3>4. CASE p = t /\ i = n
      BY <1>1, <2>2, <3>4
    <3>5. CASE p = t /\ i # n
      BY <2>2, <3>2, <3>5
    <3> QED
      BY <3>3, <3>4, <3>5
  <2>3. CASE table' = table
    BY <1>2, <2>1, <2>3
  <2>4. CASE table' # table
    <3>1. PICK t \in Types, n \in Nat, row \in Row :
            /\ phase[w] # "down"
            /\ \A u \in Types \ {t} : table'[u] = table[u]
            /\ DOMAIN table'[t] = DOMAIN table[t] \cup {n}
            /\ table'[t][n] = row
            /\ row.version = version[w]
            /\ \A i \in DOMAIN table[t] : i # n => table'[t][i] = table[t][i]
      BY <1>3, <2>4, RowSaved
    <3>2. ASSUME NEW k \in 1 .. progress[w], NEW i \in DOMAIN table'[Processors[k]]
          PROVE  ~ (table'[Processors[k]][i].version < version[w])
      <4>1. PICK p : p = Processors[k]
        OBVIOUS
      <4> QED
        BY <2>2, <3>1, <4>1
    <3> QED
      BY <1>0, <2>1, <3>2 DEF Migrated
  <2> QED
    BY <2>3, <2>4
<1>4. CASE Start(w)
  <2>1. progress'[w] = 0 /\ phase'[w] = "migrating"
    BY <1>0, <1>4 DEF Start, SInv, STypeOK
  <2> QED
    BY <2>1
<1>5. CASE NextTable(w)
  <2>1. /\ table' = table /\ version' = version
        /\ phase[w] = "migrating" /\ progress[w] < 5
        /\ progress'[w] = progress[w] + 1
        /\ phase'[w] = "serving" => progress'[w] = Len(Processors)
        /\ Outdated(Current(w), version[w]) = {}
    BY <1>0, <1>5, ProcessorsAreTypes DEF NextTable, vars, SInv, STypeOK
  <2>2. \A k \in 1 .. progress'[w] :
          k \in 1 .. progress[w] \/ Processors[k] = Current(w)
    BY <1>1, <2>1 DEF Current
  <2> QED
    BY <1>0, <2>1, <2>2 DEF Migrated, Outdated
<1>6. CASE /\ Goes(w, Idle)
           /\ phase' \in {phase, [phase EXCEPT ![w] = "down"]}
           /\ UNCHANGED <<version, progress>>
  <2>1. phase'[w] \in {phase[w], "down"} /\ table' = table
    BY <1>0, <1>6 DEF Goes, SInv, STypeOK
  <2> QED
    BY <1>0, <1>6, <2>1 DEF Migrated, Outdated
<1>7. CASE Take(w)
  BY <1>0, <1>2, <1>7, Taken
<1>8. CASE UNCHANGED svars
  BY <1>2, <1>8 DEF svars
<1>9. Accept(w) => UNCHANGED replica
  BY DEF Accept
<1> QED
  BY <1>0, <1>3, <1>4, <1>5, <1>6, <1>7, <1>8, <1>9, ReplicaSteps

\* No object gets a second row.
LEMMA ONextDuplicates ==
  ASSUME OInv, \A u, v \in Workers : u = v, [SNext]_svars
  PROVE  NoDuplicateObjects'
<1>0. SInv /\ NoDuplicateObjects
  BY DEF OInv
<1>1. CASE table' = table
  BY <1>0, <1>1 DEF NoDuplicateObjects
<1>2. ASSUME NEW w \in Workers, Step(w) \/ Fail(w) \/ Accept(w), table' # table
      PROVE  NoDuplicateObjects'
  <2>1. PICK t \in Types, k \in Nat, row \in Row :
              /\ \A u \in Types \ {t} : table'[u] = table[u]
              /\ DOMAIN table'[t] = DOMAIN table[t] \cup {k}
              /\ table'[t][k] = row
              /\ \A i \in DOMAIN table[t] :
                   i # k => table'[t][i] = table[t][i]
              /\ k \in DOMAIN table[t] => table[t][k].data = row.data
              /\ k \notin DOMAIN table[t] /\ t # "signature" =>
                   ~ HasRow(t, row.data)
    BY <1>2, RowSaved
  <2>2. ASSUME NEW u \in Types \ {"signature"},
               NEW i \in DOMAIN table'[u], NEW j \in DOMAIN table'[u],
               table'[u][i].data = table'[u][j].data
        PROVE  i = j
    <3>1. CASE u # t
      BY <1>0, <2>1, <2>2, <3>1 DEF NoDuplicateObjects
    <3>2. CASE u = t /\ k \in DOMAIN table[t]
      <4>1. \A n \in DOMAIN table[t] : table'[t][n].data = table[t][n].data
        BY <2>1, <3>2
      <4> QED
        BY <1>0, <2>1, <2>2, <3>2, <4>1 DEF NoDuplicateObjects
    <3>3. CASE u = t /\ k \notin DOMAIN table[t]
      <4>1. \A n \in DOMAIN table[t] : table[t][n].data # row.data
        BY <2>1, <2>2, <3>3 DEF HasRow
      <4>2. \A n \in DOMAIN table[t] : table'[t][n] = table[t][n]
        BY <2>1, <3>3
      <4> QED
        BY <1>0, <2>1, <2>2, <3>3, <4>1, <4>2 DEF NoDuplicateObjects
    <3> QED
      BY <3>1, <3>2, <3>3
  <2> QED
    BY <2>2 DEF NoDuplicateObjects
<1>3. ASSUME NEW w \in Workers,
             \/ Take(w) \/ Start(w) \/ NextTable(w) \/ Goes(w, Idle)
      PROVE  table' = table
  BY <1>0, <1>3, Taken, Freed DEF Start, NextTable, vars
<1>4. UNCHANGED svars => table' = table
  BY DEF svars
<1> QED
  BY <1>0, <1>1, <1>2, <1>3, <1>4, ReplicaSteps

\* The invariant of a replica that has the database to itself.
THEOREM AloneInvariance ==
  ASSUME \A u, v \in Workers : u = v
  PROVE  SSpec => []OInv
<1>1. SInit => OInv
  <2> SUFFICES ASSUME SInit PROVE Alike /\ Unrecorded /\ Migrated
                                  /\ NoDuplicateObjects
    BY SInitSInv DEF OInv
  <2>1. \A t \in Types : DOMAIN table[t] = {}
    BY DEF SInit, Init
  <2>2. \A w \in Workers : request[w].stage = "idle" /\ phase[w] = "down"
    BY DEF SInit, Init, Idle
  <2>3. NoDuplicateObjects
    BY <2>1 DEF NoDuplicateObjects
  <2> QED
    BY <2>2, <2>3 DEF Alike, Unrecorded, Migrated, Processing
<1>2. OInv /\ [SNext]_svars => OInv'
  BY SNextSInv, SNextAlike, ONextUnrecorded, ONextMigrated, ONextDuplicates
     DEF OInv
<1> QED
  BY <1>1, <1>2, PTL DEF SSpec

\* A replica that has the database to itself opens its port only when no row of
\* an older release is left, wherever its earlier starts were interrupted and
\* whatever releases ran before it.
THEOREM ServesCurrentRows ==
  ASSUME \A u, v \in Workers : u = v
  PROVE  SSpec => []CurrentWhenServing
<1>1. OInv => CurrentWhenServing
  <2> SUFFICES ASSUME OInv, NEW w \in Workers, phase[w] = "serving",
                      NEW t \in Types
               PROVE  Outdated(t, version[w]) = {}
    BY DEF CurrentWhenServing
  <2>1. progress[w] = 5 /\ \A k \in 1 .. progress[w] :
                             Outdated(Processors[k], version[w]) = {}
    BY ProcessorsAreTypes DEF OInv, Migrated
  <2>2. PICK k \in 1 .. 5 : Processors[k] = t
    BY ProcessorsAreTypes
  <2> QED
    BY <2>1, <2>2
<1> QED
  BY <1>1, AloneInvariance, PTL

\* A replica that handles one request at a time stores every object once: an
\* upload that was cut off, repeated, or processed again by a later release
\* finds the row. (Two requests for the same bytes that run at once may both
\* find none.)
THEOREM ObjectsAreStoredOnce ==
  ASSUME \A u, v \in Workers : u = v
  PROVE  SSpec => []NoDuplicateObjects
<1>1. OInv => NoDuplicateObjects
  BY DEF OInv
<1> QED
  BY <1>1, AloneInvariance, PTL

=============================================================================
