---------------------------- MODULE ClientProofs -----------------------------
(***************************************************************************)
(* Theorems about the sending client, for any documents, any number of     *)
(* clients that send at the same time, and any versions of the server; and *)
(* about the client of several servers, for any lists of servers.          *)
(*                                                                         *)
(* All that a client does to the server are requests, so what is proved of *)
(* the upload path holds (ClientsAreUsers).  A call that returned without  *)
(* an error is traced back to the answer it heard: the answer is true      *)
(* (AnswersTrue), it answers the document the call is about (Link), and    *)
(* what it claims stays (Grows).  A call whose documents fit together is   *)
(* never refused, because what it prepared covers what the server lacks    *)
(* (FitInv).                                                               *)
(***************************************************************************)
EXTENDS ClientSend, MultiClient, IngestProofs, FiniteSetTheorems

\* The steps of a client are requests to the server, or invisible to it.
LEMMA ClientStep ==
  ASSUME NEW w \in Workers,
         \/ Begin(w) \/ Ask(w) \/ Handle(w) \/ Break(w)
         \/ Hear(w)  \/ GiveUp(w) \/ Discard(w)
  PROVE  UNCHANGED vars \/ Receive(w) \/ Step(w) \/ Fail(w)
<1>1. CASE Begin(w) \/ GiveUp(w)
  BY <1>1 DEF Begin, GiveUp
<1>2. CASE Ask(w) \/ Handle(w) \/ Break(w)
  BY <1>2, Zenon DEF Ask, Handle, Break
<1>3. CASE Hear(w) \/ Discard(w)
  BY <1>3 DEF Hear, Accepted, SendMissing, Missing, Rejected, Hears, Discard, Step
<1> QED
  BY <1>1, <1>2, <1>3

LEMMA ClientNext == [CNext]_allvars => [Next]_vars
  BY ClientStep DEF CNext, Next, allvars

\* Whatever clients do is an upload path in use: every theorem about Spec is one
\* about clients.
THEOREM ClientsAreUsers == CSpec => Spec
<1>1. CInit => Init
  BY DEF CInit
<1> QED
  BY <1>1, ClientNext, PTL DEF CSpec, Spec

-----------------------------------------------------------------------------
(* The call and its request *)

\* The documents a call may come to put.
Reach(t) ==
  CASE t = "event"    -> {"event", "manifest", "bottle", "blob"}
    [] t = "manifest" -> {"manifest", "bottle", "blob"}
    [] t = "bottle"   -> {"bottle", "blob"}
    [] OTHER          -> {t}

\* A call stays at or below the document it is about, and puts that one with
\* the algorithm it was given.
OnCourse(k) ==
  /\ k.put \in Reach(k.call.type)
  /\ k.alg[k.call.type] = k.call.alg

\* While a call waits, the request that is handled is the put it waits for.
Waits(k, r) ==
  k.state = "calling" /\ r.stage # "idle" =>
    /\ r.type = k.put
    /\ k.put # "blob" => r.digest = DigestOf(k.call[k.put], k.alg[k.put])

\* A call that succeeded has its document on record.
Succeeded(k) ==
  k.state = "sent" =>
    LET t == k.call.type IN
    t # "signature" => OnRecord(t, DigestOf(k.call[t], k.call.alg))

Link ==
  \A w \in Workers : /\ OnCourse(client[w])
                     /\ Waits(client[w], request[w])
                     /\ Succeeded(client[w])

\* The inductive invariant.
ClientInv ==
  /\ Inv
  /\ AnswersTrue
  /\ CTypeOK
  /\ Link

\* The same route and digest.
SameTarget(q, r) == q.type = r.type /\ q.digest = r.digest

\* A handler at work keeps the route and the digest it was asked for.
LEMMA KeepsTarget ==
  ASSUME Inv, NEW w \in Workers,
         Step(w) \/ Fail(w), request[w].stage # "done"
  PROVE  /\ request[w].stage # "idle"
         /\ SameTarget(request'[w], request[w])
<1>1. PICK r : r = request[w]
  BY Zenon
<1>2. r.stage # "idle"
  BY <1>1, Zenon DEF Fail, Step, FindData, CreateData, FindDigest, CreateDigest,
         FindBase, Decode, LookupArtifact, ArtifactsDone, LookupSubject,
         LookupSigBottle, Save, SaveSignature, Deliver
<1>3. r \in Request /\ TypeOK
  BY <1>1, <1>2, AtWork DEF Inv
<1> DEFINE Same(q) == SameTarget(q, r)
<1> SUFFICES Same(request'[w])
  BY <1>1, <1>2
<1> HIDE DEF Same
<1>4. ASSUME NEW q, Goes(w, q), Same(q)
      PROVE  Same(request'[w])
  BY <1>3, <1>4, GoesTo
<1>5. \A s : Same(Answered(r, s))
  BY <1>3 DEF Answered, Request, SameTarget, Same
<1>6. \A s : Same([r EXCEPT !.stage = s])
  BY <1>3 DEF Request, SameTarget, Same
<1>7. CASE FindData(w) \/ FindDigest(w)
  BY <1>1, <1>4, <1>6, <1>7 DEF FindData, FindDigest
<1>8. CASE CreateData(w) \/ CreateDigest(w)
  <2>1. CASE \E s : request' = [request EXCEPT ![w].stage = s]
    BY <1>1, <1>3, <2>1 DEF TypeOK, Request, SameTarget, Same
  <2> QED
    BY <1>1, <1>4, <1>5, <1>8, <2>1 DEF CreateData, CreateDigest
<1>9. CASE FindBase(w)
  <2>1. \A i : Same([r EXCEPT !.stage = "decode", !.base = i])
    BY <1>3 DEF Request, SameTarget, Same
  <2>2. CASE \/ Goes(w, [r EXCEPT !.stage = "decode"])
             \/ \E i : \/ Goes(w, Answered(r, 204))
                     \/ Goes(w, [r EXCEPT !.stage = "decode", !.base = i])
    BY <1>4, <1>5, <1>6, <2>1, <2>2
  <2> QED
    BY <1>1, <1>9, <2>2 DEF FindBase
<1>10. CASE Decode(w)
  <2>1. Same([r EXCEPT !.stage = "artifacts", !.todo = Doc[r.content].artifacts])
    BY <1>3 DEF Request, SameTarget, Same
  <2>2. CASE \/ \E s : Goes(w, Answered(r, s))
             \/ \E s : Goes(w, [r EXCEPT !.stage = s])
             \/ Goes(w, [r EXCEPT !.stage = "artifacts",
                                  !.todo = Doc[r.content].artifacts])
    BY <1>4, <1>5, <1>6, <2>1, <2>2
  <2>3. CASE r.type = "blob"
    BY <1>1, <1>10, <2>2, <2>3 DEF Decode
  <2>4. CASE r.type = "bottle"
    BY <1>1, <1>10, <2>2, <2>4 DEF Decode
  <2>5. CASE r.type \notin {"blob", "bottle"}
    BY <1>1, <1>10, <2>2, <2>5 DEF Decode
  <2> QED
    BY <2>3, <2>4, <2>5
<1>11. CASE LookupArtifact(w)
  <2>1. PICK d \in r.todo :
     Goes(w, IF digests[d] = NoContent
             THEN [r EXCEPT !.todo = @ \ {d}, !.missing = @ \cup {d}]
             ELSE [r EXCEPT !.todo = @ \ {d},
                            !.artifacts = @ \cup {digests[d]}])
    BY <1>1, <1>11 DEF LookupArtifact
  <2>2. /\ Same([r EXCEPT !.todo = @ \ {d}, !.missing = @ \cup {d}])
        /\ Same([r EXCEPT !.todo = @ \ {d}, !.artifacts = @ \cup {digests[d]}])
    BY <1>3 DEF Request, SameTarget, Same
  <2> QED
    BY <1>4, <2>1, <2>2
<1>12. CASE ArtifactsDone(w)
  BY <1>1, <1>4, <1>5, <1>6, <1>12 DEF ArtifactsDone
<1>13. CASE LookupSubject(w)
  <2>1. CASE \/ Goes(w, Answered([r EXCEPT !.missing = {Doc[r.content].subject}],
                                 412))
             \/ Goes(w, Answered(r, 400))
    <3>1. Same(Answered([r EXCEPT !.missing = {Doc[r.content].subject}], 412))
      BY <1>3, Zenon DEF Answered, Request, SameTarget, Same
    <3> QED
      BY <1>4, <1>5, <2>1, <3>1
  <2>2. CASE \E i, b : \/ Goes(w, [r EXCEPT !.stage = "save", !.bottle = i])
                     \/ Goes(w, [r EXCEPT !.stage = "save", !.manifest = i,
                                          !.bottle = b])
                     \/ Goes(w, [r EXCEPT !.stage = "sigBottle",
                                          !.manifest = i])
    <3>1. \A i, b : /\ Same([r EXCEPT !.stage = "save", !.bottle = i])
                    /\ Same([r EXCEPT !.stage = "save", !.manifest = i,
                                      !.bottle = b])
                    /\ Same([r EXCEPT !.stage = "sigBottle", !.manifest = i])
      BY <1>3, Zenon DEF Request, SameTarget, Same
    <3> QED
      BY <1>4, <2>2, <3>1, Zenon
  <2>3. CASE r.type = "manifest"
    BY <1>1, <1>13, <2>1, <2>2, <2>3, ZenonT(40) DEF LookupSubject
  <2>4. CASE r.type = "event"
    BY <1>1, <1>13, <2>1, <2>2, <2>4, ZenonT(40) DEF LookupSubject
  <2>5. CASE r.type \notin {"manifest", "event"}
    BY <1>1, <1>13, <2>1, <2>2, <2>5, Zenon DEF LookupSubject
  <2> QED
    BY <2>3, <2>4, <2>5
<1>14. CASE LookupSigBottle(w)
  <2>1. \A i : Same([r EXCEPT !.stage = "save", !.bottle = i])
    BY <1>3 DEF Request, SameTarget, Same
  <2>2. CASE \/ Goes(w, Answered(r, 400))
             \/ \E i : Goes(w, [r EXCEPT !.stage = "save", !.bottle = i])
    BY <1>4, <1>5, <2>1, <2>2
  <2> QED
    BY <1>1, <1>14, <2>2 DEF LookupSigBottle
<1>15. CASE Save(w) \/ SaveSignature(w)
  <2>1. CASE \E s : request' = [request EXCEPT ![w] = Answered(r, s)]
    BY <1>3, <1>5, <2>1 DEF TypeOK
  <2>2. CASE request' = [request EXCEPT ![w].sig = @ + 1]
    BY <1>1, <1>3, <2>2 DEF TypeOK, Request, SameTarget, Same
  <2>3. CASE \E s : Goes(w, Answered(r, s))
    BY <1>4, <1>5, <2>3
  <2> QED
    BY <1>1, <1>15, <2>1, <2>2, <2>3 DEF Save, SaveSignature
<1>16. CASE Fail(w)
  BY <1>1, <1>4, <1>5, <1>16 DEF Fail
<1>17. ~Deliver(w)
  BY DEF Deliver
<1> QED
  BY <1>1, <1>2, <1>7, <1>8, <1>9, <1>10, <1>11, <1>12, <1>13, <1>14, <1>15,
     <1>16, <1>17 DEF Step

-----------------------------------------------------------------------------
(* Invariance *)

\* What is on record stays there, so a call that succeeded remains a success.
LEMMA SucceededStays ==
  ASSUME Grows, NEW k \in CallState, Succeeded(k)
  PROVE  Succeeded(k)'
<1> SUFFICES ASSUME k.state = "sent", k.call.type # "signature"
             PROVE  OnRecord(k.call.type,
                             DigestOf(k.call[k.call.type], k.call.alg))'
  BY DEF Succeeded
<1>1. PICK t, d : /\ t = k.call.type
                  /\ d = DigestOf(k.call[t], k.call.alg)
  OBVIOUS
<1>2. k.call \in [type : Types \ {"blob"}, event : Contents,
                  manifest : Contents, bottle : Contents,
                  signature : Contents, alg : Algs]
  BY ClientAssumption DEF CallState
<1>3. t \in {"event", "manifest", "bottle"}
  BY <1>1, <1>2 DEF Types
<1>4. k.call[t] \in Contents /\ k.call.alg \in Algs
  BY <1>2, <1>3
<1>5. d \in Digest /\ t \in Types
  BY <1>1, <1>3, <1>4 DEF DigestOf, Digest, Types
<1>6. OnRecord(t, d)
  BY <1>1 DEF Succeeded
<1>7. OnRecord(t, d)'
  BY <1>5, <1>6, RowsStay DEF OnRecord, Grows
<1> QED
  BY <1>1, <1>7

\* A step of client w that leaves its call as k is in order when k is.
LEMMA LinkStep ==
  ASSUME ClientInv, NEW w \in Workers,
         UNCHANGED vars \/ Receive(w) \/ Step(w) \/ Fail(w),
         NEW k \in CallState, client' = [client EXCEPT ![w] = k],
         k.put = "blob" <=> k.todo # {},
         OnCourse(k), Waits(k, request'[w]), Succeeded(k)'
  PROVE  CTypeOK' /\ Link'
<1>1. client \in [Workers -> CallState] /\ client'[w] = k
  BY DEF ClientInv, CTypeOK
<1>2. \A u \in Workers \ {w} : client'[u] = client[u]
  BY <1>1
<1>3. CTypeOK'
  BY <1>1, <1>2 DEF ClientInv, CTypeOK
<1>4. Grows
  BY StepGrows DEF ClientInv, vars, Grows
<1>5. ASSUME NEW u \in Workers, u # w
      PROVE  /\ OnCourse(client'[u])
             /\ Waits(client'[u], request'[u])
             /\ \E l : l = client'[u] /\ Succeeded(l)'
  <2>1. request'[u] = request[u]
    BY <1>5, OthersUntouched DEF ClientInv, Inv, vars
  <2>2. PICK l : l = client[u]
    OBVIOUS
  <2>3. /\ l \in CallState /\ OnCourse(l) /\ Waits(l, request[u])
        /\ Succeeded(l) /\ client'[u] = l
    BY <1>1, <1>2, <1>5, <2>2 DEF ClientInv, Link
  <2> QED
    BY <1>4, <2>1, <2>3, SucceededStays
<1>6. \A u \in Workers : /\ OnCourse(client'[u])
                         /\ Waits(client'[u], request'[u])
                         /\ \E l : l = client'[u] /\ Succeeded(l)'
  BY <1>1, <1>5
<1> QED
  BY <1>3, <1>6 DEF Link

\* The same for a step that leaves the calls alone.
LEMMA LinkKept ==
  ASSUME ClientInv, NEW w \in Workers,
         UNCHANGED vars \/ Receive(w) \/ Step(w) \/ Fail(w),
         UNCHANGED client, Waits(client[w], request'[w])
  PROVE  CTypeOK' /\ Link'
<1>1. Grows
  BY StepGrows DEF ClientInv, vars, Grows
<1>2. PICK k : k = client[w]
  OBVIOUS
<1>3. /\ k \in CallState /\ OnCourse(k) /\ Succeeded(k)
      /\ (k.put = "blob" <=> k.todo # {})
      /\ client' = [client EXCEPT ![w] = k]
  BY <1>2 DEF ClientInv, CTypeOK, Link
<1>4. Succeeded(k)'
  BY <1>1, <1>3, SucceededStays
<1> QED
  BY <1>2, <1>3, <1>4, LinkStep

\* A call that is over waits for nothing.
LEMMA OverIsQuiet ==
  ASSUME NEW k \in CallState, NEW s \in Ended, NEW r
  PROVE  /\ Over(k, s) \in CallState
         /\ (Over(k, s).put = "blob" <=> Over(k, s).todo # {})
         /\ OnCourse(Over(k, s))
         /\ Waits(Over(k, s), r)
         /\ s # "sent" => Succeeded(Over(k, s)) /\ Succeeded(Over(k, s))'
<1>1. k.call.type \in Types \ {"blob"} /\ k.call.alg \in Algs
  BY ClientAssumption DEF CallState
<1>2. PICK q : q = Over(k, s)
  OBVIOUS
<1>3. /\ q \in CallState /\ q.state = s /\ q.call = k.call
      /\ q.put = k.call.type /\ q.todo = {}
      /\ q.alg = [t \in Types |-> k.call.alg]
  BY <1>1, <1>2 DEF Over, CallState, Ended
<1>4. s # "calling"
  BY DEF Ended
<1>5. OnCourse(q)
  BY <1>1, <1>3 DEF OnCourse, Reach, Types
<1> QED
  BY <1>1, <1>2, <1>3, <1>4, <1>5 DEF Waits, Succeeded

\* An answer that reports success is about a document on record.
LEMMA AnswerIsTrue ==
  ASSUME ClientInv, NEW w \in Workers, request[w].stage = "done",
         Header(request[w]) \in {201, 204}, request[w].type # "signature"
  PROVE  OnRecord(request[w].type, request[w].digest)
<1>1. PICK r : r = request[w]
  OBVIOUS
<1>2. r \in Request /\ True(r)
  BY <1>1, AtWork DEF ClientInv, Inv, AnswersTrue
<1>3. digests[r.digest] = r.content /\ HasRow(r.type, r.content)
  BY <1>1, <1>2 DEF True, Header
<1>4. r.content # NoContent /\ r.digest \in Digest
  BY <1>2, IngestAssumption DEF Request
<1>5. r.content = r.digest[1]
  BY <1>3, <1>4 DEF ClientInv, Inv, ContentAddressed
<1> QED
  BY <1>1, <1>3, <1>4, <1>5 DEF OnRecord

\* A delivered answer leaves the server alone and the worker free.
LEMMA DeliveredIsIdle ==
  ASSUME ClientInv, NEW w \in Workers, Deliver(w)
  PROVE  /\ request'[w].stage = "idle"
         /\ UNCHANGED <<data, digests, table>>
         /\ request[w] \in Request
  BY ZenonT(60), GoesTo, AtWork DEF ClientInv, Inv, Deliver, Goes, Idle

LEMMA AcceptedStep ==
  ASSUME ClientInv, NEW w \in Workers, Accepted(w)
  PROVE  CTypeOK' /\ Link'
<1>1. PICK k, r : k = client[w] /\ r = request[w]
  OBVIOUS
<1>2. /\ k \in CallState /\ (k.put = "blob" <=> k.todo # {})
      /\ OnCourse(k) /\ Waits(k, r)
  BY <1>1 DEF ClientInv, CTypeOK, Link
<1> DEFINE rest == k.todo \ {r.digest}
<1>3. /\ k.state = "calling"
      /\ Deliver(w)
      /\ Header(r) \in {201, 204}
      /\ \/ /\ k.put = k.call.type
            /\ Client(w, Over(k, "sent"))
         \/ /\ k.put = "blob"
            /\ rest # {}
            /\ Client(w, [k EXCEPT !.todo = rest])
         \/ /\ k.put = "blob"
            /\ rest = {}
            /\ Client(w, [k EXCEPT !.put = "bottle", !.again = TRUE, !.todo = {}])
         \/ /\ k.put \notin {k.call.type, "blob"}
            /\ Client(w, [k EXCEPT !.put = Above(@), !.again = TRUE])
  BY <1>1 DEF Accepted, Hears
<1>4. /\ request'[w].stage = "idle" /\ r.stage = "done"
      /\ UNCHANGED <<data, digests, table>>
  BY <1>1, <1>3, DeliveredIsIdle DEF Deliver
<1>5. k.call.type \in Types \ {"blob"}
  BY <1>2, ClientAssumption DEF CallState
<1>6. ASSUME NEW q \in CallState, Client(w, q), q.put = "blob" <=> q.todo # {},
             OnCourse(q), Succeeded(q)'
      PROVE  CTypeOK' /\ Link'
  <2>1. Waits(q, request'[w])
    BY <1>4 DEF Waits
  <2> QED
    BY <1>3, <1>6, <2>1, LinkStep DEF Client, Step
<1>7. CASE k.put = k.call.type /\ Client(w, Over(k, "sent"))
  <2>1. PICK q : q = Over(k, "sent")
    OBVIOUS
  <2>2. /\ q \in CallState /\ (q.put = "blob" <=> q.todo # {}) /\ OnCourse(q)
    BY <1>2, <2>1, OverIsQuiet DEF Ended
  <2>3. q.call = k.call
    BY <1>2, <2>1 DEF Over, CallState
  <2>4. k.call.type # "signature" =>
          OnRecord(k.call.type, DigestOf(k.call[k.call.type], k.call.alg))
    BY <1>1, <1>2, <1>3, <1>4, <1>5, <1>7, AnswerIsTrue DEF Waits, OnCourse
  <2>5. k.call.type # "signature" =>
          OnRecord(k.call.type, DigestOf(k.call[k.call.type], k.call.alg))'
    BY <1>4, <2>4 DEF OnRecord, HasRow
  <2>6. Succeeded(q)'
    BY <2>3, <2>5 DEF Succeeded
  <2> QED
    BY <1>6, <1>7, <2>1, <2>2, <2>6
<1>8. CASE /\ k.put = "blob"
           /\ rest # {}
           /\ Client(w, [k EXCEPT !.todo = rest])
  <2>1. PICK q : q = [k EXCEPT !.todo = rest]
    OBVIOUS
  <2>2. /\ q \in CallState /\ q.put = k.put /\ q.todo = rest /\ q.call = k.call
        /\ q.alg = k.alg /\ q.state = k.state
    BY <1>2, <2>1 DEF CallState
  <2> QED
    BY ZenonT(60), <1>2, <1>3, <1>6, <1>8, <2>1, <2>2 DEF OnCourse, Succeeded
<1>9. CASE /\ k.put = "blob"
           /\ Client(w, [k EXCEPT !.put = "bottle", !.again = TRUE, !.todo = {}])
  <2>1. PICK q : q = [k EXCEPT !.put = "bottle", !.again = TRUE, !.todo = {}]
    OBVIOUS
  <2>2. /\ q \in CallState /\ q.put = "bottle" /\ q.todo = {} /\ q.call = k.call
        /\ q.alg = k.alg /\ q.state = k.state
    BY <1>2, <2>1 DEF CallState, Types
  <2>3. OnCourse(q)
    BY <1>2, <1>5, <1>9, <2>2 DEF OnCourse, Reach, Types
  <2> QED
    BY <1>3, <1>6, <1>9, <2>1, <2>2, <2>3 DEF Succeeded
<1>10. CASE /\ k.put \notin {k.call.type, "blob"}
            /\ Client(w, [k EXCEPT !.put = Above(@), !.again = TRUE])
  <2>1. PICK q : q = [k EXCEPT !.put = Above(@), !.again = TRUE]
    OBVIOUS
  <2>2. /\ q \in CallState /\ q.put = Above(k.put) /\ q.todo = k.todo
        /\ q.call = k.call /\ q.alg = k.alg /\ q.state = k.state
    BY <1>2, <2>1 DEF CallState, Types, Above
  <2>3. OnCourse(q) /\ q.put # "blob"
    BY <1>2, <1>5, <1>10, <2>2 DEF OnCourse, Reach, Types, Above
  <2> QED
    BY <1>2, <1>3, <1>6, <1>10, <2>1, <2>2, <2>3 DEF Succeeded
<1> QED
  BY <1>3, <1>7, <1>8, <1>9, <1>10

LEMMA SendMissingStep ==
  ASSUME ClientInv, NEW w \in Workers, SendMissing(w)
  PROVE  CTypeOK' /\ Link'
<1>1. PICK k, r : k = client[w] /\ r = request[w]
  OBVIOUS
<1>2. /\ k \in CallState /\ (k.put = "blob" <=> k.todo # {})
      /\ OnCourse(k) /\ Waits(k, r)
  BY <1>1 DEF ClientInv, CTypeOK, Link
<1>3. /\ k.state = "calling"
      /\ Deliver(w)
      /\ Header(r) = 412
      /\ \/ /\ k.put \in {"event", "manifest"}
            /\ \E d \in r.missing :
                 Client(w, [k EXCEPT !.put = Below(@),
                                     !.alg[Below(k.put)] = d[2]])
         \/ /\ k.put = "bottle"
            /\ Client(w, [k EXCEPT !.put = "blob", !.todo = r.missing])
         \/ /\ k.put = "signature"
            /\ Client(w, [k EXCEPT !.again = TRUE])
  BY <1>1 DEF SendMissing, Missing, Hears
<1>4. request'[w].stage = "idle" /\ r.stage = "done" /\ r \in Request
  BY ZenonT(60), <1>1, <1>3, DeliveredIsIdle DEF Deliver
<1>5. r.missing \subseteq Digest /\ r.missing # {}
  <2>1. True(r)
    BY <1>1, <1>4 DEF ClientInv, AnswersTrue
  <2>2. r.status = 412
    <3>1. Header(r) = 412
      BY <1>3
    <3>2. r.status \in Statuses
      BY <1>4 DEF Request
    <3> QED
      BY <3>1, <3>2 DEF Header, Statuses
  <2>3. r.missing \subseteq Digest
    BY <1>4 DEF Request
  <2>4. r.missing # {}
    BY <1>4, <2>1, <2>2 DEF True
  <2> QED
    BY <2>3, <2>4
<1>6. k.call.type \in Types \ {"blob"}
  BY <1>2, ClientAssumption DEF CallState
<1>7. ASSUME NEW q \in CallState, Client(w, q), q.put = "blob" <=> q.todo # {},
             OnCourse(q), q.state = "calling"
      PROVE  CTypeOK' /\ Link'
  <2>1. Waits(q, request'[w]) /\ Succeeded(q)'
    BY <1>4, <1>7 DEF Waits, Succeeded
  <2> QED
    BY <1>3, <1>7, <2>1, LinkStep DEF Client, Step
<1>8. ASSUME k.put \in {"event", "manifest"}, NEW d \in r.missing,
             Client(w, [k EXCEPT !.put = Below(@), !.alg[Below(k.put)] = d[2]])
      PROVE  CTypeOK' /\ Link'
  <2>1. PICK q : q = [k EXCEPT !.put = Below(@), !.alg[Below(k.put)] = d[2]]
    OBVIOUS
  <2>2. d[2] \in Algs /\ Below(k.put) \in {"manifest", "bottle"}
    BY <1>5, <1>8 DEF Digest, Below
  <2>3. /\ q \in CallState /\ q.put = Below(k.put) /\ q.todo = k.todo
        /\ q.call = k.call /\ q.state = k.state
        /\ q.alg = [k.alg EXCEPT ![Below(k.put)] = d[2]]
    BY <1>2, <2>1, <2>2 DEF CallState, Types
  <2>4. Below(k.put) # k.call.type /\ Below(k.put) \in Reach(k.call.type)
    BY <1>2, <1>6, <1>8 DEF OnCourse, Reach, Types, Below
  <2>5. OnCourse(q)
    BY <1>2, <1>6, <2>3, <2>4 DEF OnCourse, CallState
  <2>6. q.put # "blob" /\ q.todo = {} /\ q.state = "calling"
    BY <1>2, <1>3, <1>8, <2>2, <2>3
  <2> QED
    BY <1>3, <1>7, <1>8, <2>1, <2>3, <2>5, <2>6
<1>9. CASE /\ k.put = "bottle"
           /\ Client(w, [k EXCEPT !.put = "blob", !.todo = r.missing])
  <2>1. PICK q : q = [k EXCEPT !.put = "blob", !.todo = r.missing]
    OBVIOUS
  <2>2. /\ q \in CallState /\ q.put = "blob" /\ q.todo = r.missing
        /\ q.call = k.call /\ q.alg = k.alg /\ q.state = k.state
    BY <1>2, <1>5, <2>1 DEF CallState, Types
  <2>3. OnCourse(q)
    BY <1>2, <1>6, <1>9, <2>2 DEF OnCourse, Reach, Types
  <2>4. q.put = "blob" /\ q.todo # {} /\ q.state = "calling"
    BY ZenonT(60), <1>3, <1>5, <2>2
  <2> QED
    BY <1>7, <1>9, <2>1, <2>2, <2>3, <2>4
<1>10. CASE /\ k.put = "signature"
            /\ Client(w, [k EXCEPT !.again = TRUE])
  <2>1. PICK q : q = [k EXCEPT !.again = TRUE]
    OBVIOUS
  <2>2. /\ q \in CallState /\ q.put = k.put /\ q.todo = k.todo
        /\ q.call = k.call /\ q.alg = k.alg /\ q.state = k.state
    BY <1>2, <2>1 DEF CallState
  <2>3. OnCourse(q)
    BY <1>2, <2>2 DEF OnCourse
  <2>4. /\ (q.put = "blob" <=> q.todo # {})
        /\ q.state = "calling"
    BY <1>2, <1>3, <2>2
  <2> QED
    BY <1>7, <1>10, <2>1, <2>2, <2>3, <2>4
<1> QED
  BY <1>3, <1>8, <1>9, <1>10

\* Every step of a client keeps its call in order.
LEMMA ClientStepLink ==
  ASSUME ClientInv, NEW w \in Workers,
         \/ Begin(w) \/ Ask(w) \/ Handle(w) \/ Break(w)
         \/ Hear(w)  \/ GiveUp(w) \/ Discard(w)
  PROVE  CTypeOK' /\ Link'
<1>1. PICK k : k = client[w]
  OBVIOUS
<1>2. /\ k \in CallState /\ (k.put = "blob" <=> k.todo # {})
      /\ OnCourse(k) /\ Waits(k, request[w])
  BY <1>1 DEF ClientInv, CTypeOK, Link
<1>3. CASE Begin(w)
  <2>1. PICK q : q = [k EXCEPT !.state = "calling"]
    OBVIOUS
  <2>2. /\ q \in CallState /\ q.put = k.put /\ q.todo = k.todo
        /\ q.call = k.call /\ q.alg = k.alg /\ q.state = "calling"
    BY <1>2, <2>1 DEF CallState
  <2>3. OnCourse(q) /\ Succeeded(q)' /\ Waits(q, request'[w])
    BY <1>2, <1>3, <2>2 DEF OnCourse, Succeeded, Waits, Begin, vars
  <2> QED
    BY <1>1, <1>2, <1>3, <2>1, <2>2, <2>3, LinkStep DEF Begin, Client
<1>4. CASE Ask(w)
  <2>1. /\ Receive(w) /\ UNCHANGED client
        /\ request'[w].type = k.put
        /\ k.put # "blob" =>
             request'[w].digest = DigestOf(k.call[k.put], k.alg[k.put])
    BY <1>1, <1>4 DEF Ask
  <2> QED
    BY <1>1, <2>1, LinkKept DEF Waits
<1>5. CASE Handle(w) \/ Break(w)
  <2>1. (Step(w) \/ Fail(w)) /\ request[w].stage # "done" /\ UNCHANGED client
    BY <1>5 DEF Handle, Break, Fail
  <2>2. request[w].stage # "idle" /\ SameTarget(request'[w], request[w])
    BY <2>1, KeepsTarget DEF ClientInv
  <2> QED
    BY <1>1, <1>2, <2>1, <2>2, LinkKept DEF Waits, SameTarget
<1>6. CASE Accepted(w) \/ SendMissing(w)
  BY <1>6, AcceptedStep, SendMissingStep
<1>7. CASE Rejected(w)
  <2>1. PICK s \in {"unavailable", "refused"} : Client(w, Over(k, s))
    BY <1>1, <1>7 DEF Rejected
  <2>2. Step(w)
    BY <1>7 DEF Rejected, Hears, Step
  <2> QED
    BY <1>2, <2>1, <2>2, OverIsQuiet, LinkStep DEF Client, Ended
<1>8. CASE GiveUp(w)
  BY <1>1, <1>2, <1>8, OverIsQuiet, LinkStep DEF GiveUp, Client, Ended
<1>9. CASE Discard(w)
  <2>1. Deliver(w) /\ Step(w) /\ UNCHANGED client
    BY <1>9 DEF Discard, Step
  <2>2. Waits(k, request'[w])
    BY <2>1, DeliveredIsIdle DEF Waits
  <2> QED
    BY <1>1, <2>1, <2>2, LinkKept
<1> QED
  BY <1>3, <1>4, <1>5, <1>6, <1>7, <1>8, <1>9 DEF Hear

LEMMA ClientInit == CInit => ClientInv
<1> SUFFICES ASSUME CInit PROVE ClientInv
  OBVIOUS
<1>1. PICK made \in [Workers -> Calls] :
        client = [w \in Workers |-> Fresh(made[w])]
  BY DEF CInit
<1>2. Inv /\ AnswersTrue
  BY InitInv DEF CInit, Init, AnswersTrue, Idle
<1>3. ASSUME NEW w \in Workers
      PROVE  /\ client[w] \in CallState
             /\ client[w].put = "blob" <=> client[w].todo # {}
             /\ OnCourse(client[w])
             /\ Waits(client[w], request[w])
             /\ Succeeded(client[w])
  <2>1. PICK q : q = client[w]
    OBVIOUS
  <2>2. PICK c \in Calls : q = Fresh(c)
    BY <1>1, <2>1
  <2>3. c.type \in Types \ {"blob"} /\ c.alg \in Algs
    BY ClientAssumption
  <2>4. /\ q \in CallState /\ q.state = "idle" /\ q.call = c
        /\ q.put = c.type /\ q.todo = {} /\ q.alg = [t \in Types |-> c.alg]
    BY <2>2, <2>3 DEF Fresh, CallState, Ended
  <2>5. OnCourse(q)
    BY <2>3, <2>4 DEF OnCourse, Reach, Types
  <2> QED
    BY <2>1, <2>3, <2>4, <2>5 DEF Waits, Succeeded
<1>4. client \in [Workers -> CallState]
  BY <1>1, <1>3
<1> QED
  BY <1>2, <1>3, <1>4 DEF ClientInv, CTypeOK, Link

LEMMA ClientNextInv == ClientInv /\ [CNext]_allvars => ClientInv'
<1> SUFFICES ASSUME ClientInv, [CNext]_allvars PROVE ClientInv'
  OBVIOUS
<1>1. Inv' /\ AnswersTrue'
  BY ClientNext, NextInv, NextTrue DEF ClientInv
<1>2. CASE UNCHANGED allvars
  <2>1. CTypeOK'
    BY <1>2 DEF ClientInv, CTypeOK, allvars
  <2>2. Link'
    BY <1>2 DEF ClientInv, Link, Succeeded, OnRecord, HasRow, allvars, vars
  <2> QED
    BY <1>1, <2>1, <2>2 DEF ClientInv
<1> QED
  BY <1>1, <1>2, ClientStepLink DEF CNext, ClientInv

-----------------------------------------------------------------------------

\* The recovery from 412 keeps its place: what is put, again or not, with which
\* algorithm and which artifacts are left, always has its type.
THEOREM ClientTypes == CSpec => []CTypeOK
<1>1. ClientInv => CTypeOK
  BY DEF ClientInv
<1> QED
  BY <1>1, ClientInit, ClientNextInv, PTL DEF CSpec

-----------------------------------------------------------------------------
(* What is on record is complete *)

\* The subject of an object on record is on record.
LEMMA SubjectOnRecord ==
  ASSUME Inv, NEW t \in {"manifest", "event"}, NEW c \in Contents, HasRow(t, c)
  PROVE  Doc[c].subject \in Digest /\ OnRecord(SubjectType(t), Doc[c].subject)
<1>1. PICK i \in DOMAIN table[t] : table[t][i].data = c
  BY DEF HasRow
<1>2. Decodes(t, c) /\ References(t, c, table[t][i])
  BY <1>1 DEF Inv, ReferencesHold, Types
<1>3. Doc[c].subject \in Digest
  BY <1>2, DocumentsAssumption DEF Decodes, HasSubject
<1>4. PICK j : Finds(SubjectType(t), Doc[c].subject, j)
  BY <1>2 DEF References, SubjectType
<1>5. digests[Doc[c].subject] # NoContent
  BY <1>4 DEF Finds
<1>6. HasRow(SubjectType(t), digests[Doc[c].subject])
  BY <1>4 DEF Finds, IsFirst, HasRow
<1>7. digests[Doc[c].subject] = Doc[c].subject[1]
  BY <1>3, <1>5 DEF Inv, ContentAddressed
<1> QED
  BY <1>3, <1>5, <1>6, <1>7 DEF OnRecord

LEMMA BottleIsComplete ==
  ASSUME Inv, NEW d \in Digest, OnRecord("bottle", d)
  PROVE  CompleteBottle(d)
<1>1. PICK i \in DOMAIN table["bottle"] : table["bottle"][i].data = d[1]
  BY DEF OnRecord, HasRow
<1>2. References("bottle", d[1], table["bottle"][i])
  BY <1>1 DEF Inv, ReferencesHold, Types
<1> QED
  BY <1>2 DEF References, CompleteBottle

LEMMA ManifestIsComplete ==
  ASSUME Inv, NEW d \in Digest, OnRecord("manifest", d)
  PROVE  CompleteManifest(d)
<1>1. d[1] \in Contents /\ HasRow("manifest", d[1])
  BY DEF Digest, OnRecord
<1>2. PICK e : e = Doc[d[1]].subject
  OBVIOUS
<1>3. e \in Digest /\ OnRecord("bottle", e)
  BY <1>1, <1>2, SubjectOnRecord DEF SubjectType
<1> QED
  BY <1>2, <1>3, BottleIsComplete DEF CompleteManifest

LEMMA EventIsComplete ==
  ASSUME Inv, NEW d \in Digest, OnRecord("event", d)
  PROVE  CompleteEvent(d)
<1>1. d[1] \in Contents /\ HasRow("event", d[1])
  BY DEF Digest, OnRecord
<1>2. PICK e : e = Doc[d[1]].subject
  OBVIOUS
<1>3. e \in Digest /\ OnRecord("manifest", e)
  BY <1>1, <1>2, SubjectOnRecord DEF SubjectType
<1> QED
  BY <1>2, <1>3, ManifestIsComplete DEF CompleteEvent

\* A Send function that returns no error has done its work: the document, its
\* manifest, bottle and artifacts are on record, each under the digest by which
\* the other names it.
THEOREM SentIsComplete == CSpec => []SentMeansComplete
<1>1. ClientInv => SentMeansComplete
  <2> SUFFICES ASSUME ClientInv, NEW w \in Workers,
                      NEW k \in CallState, k = client[w], k.state = "sent"
               PROVE  LET t == k.call.type
                          d == DigestOf(k.call[t], k.call.alg)
                      IN
                      /\ t = "bottle" => CompleteBottle(d)
                      /\ t = "manifest" => CompleteManifest(d)
                      /\ t = "event" => CompleteEvent(d)
    BY DEF ClientInv, CTypeOK, SentMeansComplete
  <2>1. PICK t, d : /\ t = k.call.type
                    /\ d = DigestOf(k.call[t], k.call.alg)
    OBVIOUS
  <2>2. k.call \in [type : Types \ {"blob"}, event : Contents,
                    manifest : Contents, bottle : Contents,
                    signature : Contents, alg : Algs]
    BY ClientAssumption DEF CallState
  <2>3. t # "signature" => OnRecord(t, d)
    BY <2>1 DEF ClientInv, Link, Succeeded
  <2>4. t \in {"bottle", "manifest", "event"} => d \in Digest
    BY <2>1, <2>2 DEF DigestOf, Digest
  <2>5. t = "bottle" => CompleteBottle(d)
    BY <2>3, <2>4, BottleIsComplete DEF ClientInv
  <2>6. t = "manifest" => CompleteManifest(d)
    BY <2>3, <2>4, ManifestIsComplete DEF ClientInv
  <2>7. t = "event" => CompleteEvent(d)
    BY <2>3, <2>4, EventIsComplete DEF ClientInv
  <2> QED
    BY <2>1, <2>5, <2>6, <2>7
<1> QED
  BY <1>1, ClientInit, ClientNextInv, PTL DEF CSpec

-----------------------------------------------------------------------------
(* Documents that fit together *)

\* Does the document of r suit its route, and its subject, and is it one of
\* those of which the server records nothing but the reference?
Suits(r) ==
  /\ Decodes(r.type, r.content)
  /\ r.type # "signature"
  /\ r.type = "manifest" =>
       Doc[Doc[r.content].subject[1]].parts = Doc[r.content].parts

\* All that the document c refers to is on record.
Supplied(t, c) ==
  /\ t = "bottle" => \A a \in Doc[c].artifacts : digests[a] # NoContent
  /\ t \in HasSubject => /\ Doc[c].subject \in Digest
                         /\ OnRecord(SubjectType(t), Doc[c].subject)

\* A refusal has its reason in the document, and a 412 names all that misses.
Reason(r) ==
  /\ r.digest[1] = r.content
  /\ r.stage = "done" =>
       /\ r.status # 0
       /\ r.status \in {400, 409} => ~ Suits(r)
       /\ r.status = 412 =>
            IF r.type = "bottle"
            THEN \A a \in Doc[r.content].artifacts \ r.missing :
                   digests[a] # NoContent
            ELSE r.type \in HasSubject /\ r.missing = {Doc[r.content].subject}

Reasons == \A w \in Workers : request[w].stage # "idle" => Reason(request[w])

\* The same of a step from r to q: in addition, nothing misses that is there.
Explained(r, q) ==
  /\ q.stage = "done" =>
       /\ q.status # 0
       /\ q.status \in {400, 409} => ~ Suits(r)
       /\ q.status = 412 =>
            IF r.type = "bottle"
            THEN \A a \in Doc[r.content].artifacts \ q.missing :
                   digests[a] # NoContent
            ELSE r.type \in HasSubject /\ q.missing = {Doc[r.content].subject}
  /\ Supplied(r.type, r.content) /\ r.missing = {} => q.missing = {}

LEMMA StepExplained ==
  ASSUME Inv, NEW w \in Workers, Step(w) \/ Fail(w),
         request[w].stage # "done"
  PROVE  Explained(request[w], request'[w])
<1> USE DocumentsAssumption, IngestAssumption
<1>1. PICK r : r = request[w]
  OBVIOUS
<1>2. /\ TypeOK /\ r \in Request /\ Learned(r)
      /\ r.stage \notin {"idle", "done"}
  BY <1>1, KeepsTarget, AtWork DEF Inv, InFlight
<1>3. \A q : Goes(w, q) => request'[w] = q
  BY <1>2, GoesTo
<1> SUFFICES Explained(r, request'[w])
  BY <1>1
\* The handler goes on or ends, with nothing found to miss.
<1>4. ASSUME NEW q, q = request'[w], q.missing = r.missing,
             q.stage # "done" \/ q.status \in {201, 204, 500}
      PROVE  Explained(r, request'[w])
  BY <1>4 DEF Explained
<1>5. ASSUME NEW s \in Statuses, Goes(w, Answered(r, s))
      PROVE  \E q : /\ q = request'[w] /\ q.missing = r.missing
                    /\ q.stage = "done" /\ q.status = s
  <2>1. PICK q : q = Answered(r, s)
    OBVIOUS
  <2>2. q.missing = r.missing /\ q.stage = "done" /\ q.status = s
    BY <1>2, <2>1 DEF Answered, Request
  <2> QED
    BY <1>3, <1>5, <2>1, <2>2
<1>6. ASSUME NEW s \in {201, 204, 500}, Goes(w, Answered(r, s))
      PROVE  Explained(r, request'[w])
  BY <1>4, <1>5, <1>6 DEF Statuses
<1>7. ASSUME ~ Suits(r), NEW s \in {400, 409}, Goes(w, Answered(r, s))
      PROVE  Explained(r, request'[w])
  BY <1>5, <1>7 DEF Explained, Statuses
<1>8. CASE FindData(w) \/ FindDigest(w)
  <2>1. PICK s \in {"findDigest", "createData", "findBase", "createDigest"} :
          Goes(w, [r EXCEPT !.stage = s])
    BY <1>1, <1>8 DEF FindData, FindDigest
  <2>2. PICK q : q = [r EXCEPT !.stage = s]
    OBVIOUS
  <2>3. q.missing = r.missing /\ q.stage = s /\ q = request'[w]
    BY <1>2, <1>3, <2>1, <2>2 DEF Request
  <2> QED
    BY <1>4, <2>3
<1>9. CASE CreateData(w) \/ CreateDigest(w)
  <2>1. CASE Goes(w, Answered(r, 500))
    BY <1>6, <2>1
  <2>2. CASE \E s \in {"findDigest", "findBase"} :
               request' = [request EXCEPT ![w].stage = s]
    <3>1. PICK s \in {"findDigest", "findBase"} :
            request' = [request EXCEPT ![w].stage = s]
      BY <2>2
    <3>2. PICK q : q = [r EXCEPT !.stage = s]
      OBVIOUS
    <3>3. q.missing = r.missing /\ q.stage = s /\ q = request'[w]
      BY <1>1, <1>2, <3>1, <3>2 DEF Request, TypeOK
    <3> QED
      BY <1>4, <3>3
  <2> QED
    BY <1>1, <1>9, <2>1, <2>2 DEF CreateData, CreateDigest
<1>10. CASE FindBase(w)
  <2>1. CASE Goes(w, Answered(r, 204))
    BY <1>6, <2>1
  <2>2. CASE Goes(w, [r EXCEPT !.stage = "decode"])
    <3>1. PICK q : q = [r EXCEPT !.stage = "decode"]
      OBVIOUS
    <3>2. q.missing = r.missing /\ q.stage = "decode" /\ q = request'[w]
      BY <1>2, <1>3, <2>2, <3>1 DEF Request
    <3> QED
      BY <1>4, <3>2
  <2>3. ASSUME NEW i, Goes(w, [r EXCEPT !.stage = "decode", !.base = i])
        PROVE  Explained(r, request'[w])
    <3>1. PICK q : q = [r EXCEPT !.stage = "decode", !.base = i]
      OBVIOUS
    <3>2. q.missing = r.missing /\ q.stage = "decode" /\ q = request'[w]
      BY <1>2, <1>3, <2>3, <3>1 DEF Request
    <3> QED
      BY <1>4, <3>2
  <2> QED
    BY <1>1, <1>10, <2>1, <2>2, <2>3 DEF FindBase
<1>11. CASE Decode(w)
  <2>1. CASE /\ ~ Decodes(r.type, r.content)
             /\ \E s \in {400, 409} : Goes(w, Answered(r, s))
    BY <1>7, <2>1 DEF Suits
  <2>2. CASE Goes(w,
             IF r.type = "blob" THEN [r EXCEPT !.stage = "save"]
             ELSE IF r.type = "bottle"
             THEN [r EXCEPT !.stage = "artifacts",
                            !.todo = Doc[r.content].artifacts]
             ELSE [r EXCEPT !.stage = "subject"])
    <3>1. PICK q : q = IF r.type = "blob" THEN [r EXCEPT !.stage = "save"]
             ELSE IF r.type = "bottle"
             THEN [r EXCEPT !.stage = "artifacts",
                            !.todo = Doc[r.content].artifacts]
             ELSE [r EXCEPT !.stage = "subject"]
      OBVIOUS
    <3>2. request'[w] = q
      BY <1>3, <2>2, <3>1
    <3>3. q.missing = r.missing /\ q.stage # "done"
      BY <1>2, <3>1 DEF Request
    <3> QED
      BY <1>4, <3>2, <3>3
  <2> QED
    BY <1>1, <1>11, <2>1, <2>2 DEF Decode
<1>12. CASE LookupArtifact(w)
  <2>0. r.stage = "artifacts"
    BY <1>1, <1>12, Zenon DEF LookupArtifact
  <2>1. PICK d \in r.todo :
          Goes(w, IF digests[d] = NoContent
                  THEN [r EXCEPT !.todo = @ \ {d}, !.missing = @ \cup {d}]
                  ELSE [r EXCEPT !.todo = @ \ {d},
                                 !.artifacts = @ \cup {digests[d]}])
    BY <1>1, <1>12 DEF LookupArtifact
  <2>2. r.type = "bottle" /\ d \in Doc[r.content].artifacts
    BY <1>2, <2>0, <2>1 DEF Learned
  <2>3. CASE digests[d] = NoContent
    <3>1. PICK q : q = [r EXCEPT !.todo = @ \ {d}, !.missing = @ \cup {d}]
      OBVIOUS
    <3>2. q.stage # "done" /\ q = request'[w]
      BY <1>2, <1>3, <2>0, <2>1, <2>3, <3>1 DEF Request
    <3>3. ~ Supplied(r.type, r.content)
      BY <2>2, <2>3 DEF Supplied
    <3> QED
      BY <3>2, <3>3 DEF Explained
  <2>4. CASE digests[d] # NoContent
    <3>1. PICK q : q = [r EXCEPT !.todo = @ \ {d},
                                 !.artifacts = @ \cup {digests[d]}]
      OBVIOUS
    <3>2. q.stage # "done" /\ q.missing = r.missing /\ q = request'[w]
      BY <1>2, <1>3, <2>0, <2>1, <2>4, <3>1 DEF Request
    <3> QED
      BY <1>4, <3>2
  <2> QED
    BY <2>3, <2>4
<1>13. CASE ArtifactsDone(w)
  <2>0. r.stage = "artifacts" /\ r.todo = {}
    BY <1>1, <1>13 DEF ArtifactsDone
  <2>1. CASE Goes(w, [r EXCEPT !.stage = "save"])
    <3>1. PICK q : q = [r EXCEPT !.stage = "save"]
      OBVIOUS
    <3>2. q.missing = r.missing /\ q.stage = "save" /\ q = request'[w]
      BY <1>2, <1>3, <2>1, <3>1 DEF Request
    <3> QED
      BY <1>4, <3>2
  <2>2. CASE r.missing # {} /\ Goes(w, Answered(r, 412))
    <3>1. /\ r.type = "bottle"
          /\ \A a \in Doc[r.content].artifacts \ r.missing :
               digests[a] # NoContent
      BY <1>2, <2>0 DEF Learned
    <3>2. PICK q : /\ q = request'[w] /\ q.missing = r.missing
                   /\ q.stage = "done" /\ q.status = 412
      BY <1>5, <2>2 DEF Statuses
    <3> QED
      BY <2>2, <3>1, <3>2 DEF Explained
  <2> QED
    BY <1>1, <1>13, <2>1, <2>2 DEF ArtifactsDone
<1>14. CASE LookupSubject(w)
  <2> DEFINE d == Doc[r.content].subject
             t == SubjectType(r.type)
  <2>0. r.stage = "subject" /\ r.type \in HasSubject /\ Decodes(r.type, r.content)
    BY <1>1, <1>2, <1>14, Zenon DEF LookupSubject, Learned
  <2>1. d \in Digest /\ r.type # "bottle"
    BY <1>2, <2>0 DEF Decodes, HasSubject, Request
  <2>2. CASE /\ FindsNone(t, d)
             /\ Goes(w, Answered([r EXCEPT !.missing = {d}], 412))
    <3>1. PICK q : q = Answered([r EXCEPT !.missing = {d}], 412)
      OBVIOUS
    <3>2. q.stage = "done" /\ q.status = 412 /\ q.missing = {d} /\ q = request'[w]
      BY <1>2, <1>3, <2>2, <3>1 DEF Answered, Request
    <3>3. ~ Supplied(r.type, r.content)
      <4>1. digests[d] # NoContent => digests[d] = d[1]
        BY <2>1 DEF Inv, ContentAddressed
      <4>2. ~ OnRecord(t, d)
        BY <2>2, <4>1 DEF FindsNone, OnRecord
      <4> QED
        BY <2>0, <4>2 DEF Supplied
    <3> QED
      BY <2>0, <2>1, <3>2, <3>3 DEF Explained
  <2>3. ASSUME NEW i \in DOMAIN table[t], Finds(t, d, i),
               r.type = "manifest",
               Doc[table[t][i].data].parts # Doc[r.content].parts,
               Goes(w, Answered(r, 400))
        PROVE  Explained(r, request'[w])
    <3>1. table[t][i].data = d[1]
      BY <2>1, <2>3 DEF Finds, IsFirst, Inv, ContentAddressed
    <3>2. ~ Suits(r)
      BY <2>3, <3>1 DEF Suits
    <3> QED
      BY <1>7, <2>3, <3>2
  <2>4. CASE \E i, b : \/ Goes(w, [r EXCEPT !.stage = "save", !.bottle = i])
                     \/ Goes(w, [r EXCEPT !.stage = "save", !.manifest = i,
                                          !.bottle = b])
                     \/ Goes(w, [r EXCEPT !.stage = "sigBottle",
                                          !.manifest = i])
    <3>1. PICK i, b : \/ Goes(w, [r EXCEPT !.stage = "save", !.bottle = i])
                      \/ Goes(w, [r EXCEPT !.stage = "save", !.manifest = i,
                                           !.bottle = b])
                      \/ Goes(w, [r EXCEPT !.stage = "sigBottle",
                                           !.manifest = i])
      BY <2>4, Zenon
    <3>2. PICK q : /\ Goes(w, q)
                   /\ \/ q = [r EXCEPT !.stage = "save", !.bottle = i]
                      \/ q = [r EXCEPT !.stage = "save", !.manifest = i,
                                       !.bottle = b]
                      \/ q = [r EXCEPT !.stage = "sigBottle", !.manifest = i]
      BY <3>1
    <3>3. q.missing = r.missing /\ q.stage # "done"
      BY <1>2, <3>2, ZenonT(40) DEF Request
    <3> QED
      BY <1>3, <1>4, <3>2, <3>3, Zenon
  <2>5. CASE r.type = "manifest"
    BY <1>1, <1>14, <2>2, <2>3, <2>4, <2>5, Zenon DEF LookupSubject
  <2>6. CASE r.type = "event"
    BY <1>1, <1>14, <2>2, <2>4, <2>6, ZenonT(40) DEF LookupSubject
  <2>7. CASE r.type \notin {"manifest", "event"}
    BY <1>1, <1>14, <2>2, <2>4, <2>7, Zenon DEF LookupSubject
  <2> QED
    BY <2>5, <2>6, <2>7, Zenon
<1>15. CASE LookupSigBottle(w)
  <2>1. r.type = "signature"
    BY <1>1, <1>2, <1>15 DEF LookupSigBottle, Learned
  <2>2. CASE Goes(w, Answered(r, 400))
    BY <1>7, <2>1, <2>2 DEF Suits
  <2>3. ASSUME NEW i, Goes(w, [r EXCEPT !.stage = "save", !.bottle = i])
        PROVE  Explained(r, request'[w])
    <3>1. PICK q : q = [r EXCEPT !.stage = "save", !.bottle = i]
      OBVIOUS
    <3>2. q.missing = r.missing /\ q.stage = "save" /\ q = request'[w]
      BY <1>2, <1>3, <2>3, <3>1 DEF Request
    <3> QED
      BY <1>4, <3>2
  <2> QED
    BY <1>1, <1>15, <2>2, <2>3 DEF LookupSigBottle
<1>16. CASE Save(w)
  <2>1. PICK q : q = Answered(r, 201)
    OBVIOUS
  <2>2. q = request'[w] /\ q.missing = r.missing /\ q.stage = "done" /\ q.status = 201
    BY <1>1, <1>2, <1>16, <2>1 DEF Save, TypeOK, Answered, Request
  <2> QED
    BY <1>4, <2>2
<1>17. CASE SaveSignature(w)
  <2>0. r.stage = "save" /\ r.type = "signature"
    BY <1>1, <1>17 DEF SaveSignature
  <2>1. CASE Goes(w, Answered(r, 201))
    BY <1>6, <2>1
  <2>2. CASE Goes(w, Answered(r, 400))
    BY <1>7, <2>0, <2>2 DEF Suits
  <2>3. CASE request' = [request EXCEPT ![w].sig = @ + 1]
    <3>1. PICK q : q = [r EXCEPT !.sig = @ + 1]
      OBVIOUS
    <3>2. q = request'[w] /\ q.missing = r.missing /\ q.stage = "save"
      BY <1>1, <1>2, <2>0, <2>3, <3>1 DEF TypeOK, Request
    <3> QED
      BY <1>4, <3>2
  <2> QED
    BY <1>1, <1>17, <2>1, <2>2, <2>3 DEF SaveSignature
<1>18. CASE Fail(w)
  BY <1>1, <1>6, <1>18 DEF Fail
<1>19. ~ Deliver(w)
  BY DEF Deliver
<1> QED
  BY <1>8, <1>9, <1>10, <1>11, <1>12, <1>13, <1>14, <1>15, <1>16, <1>17, <1>18,
     <1>19 DEF Step

\* What is received is what was claimed, so no upload of a client is refused
\* for its digest.
LEMMA ReceiveReason ==
  ASSUME Inv, NEW w \in Workers, Receive(w)
  PROVE  /\ request'[w].stage = "findData"
         /\ request'[w].digest[1] = request'[w].content
         /\ request'[w].missing = {}
<1>1. PICK s \in Submissions, v \in Versions :
        LET dgst == DigestOf(s.content, s.claim[2])
            q == [stage |-> "findData", type |-> s.type, content |-> s.content,
                  digest |-> dgst, version |-> v, base |-> 0, todo |-> {},
                  missing |-> {}, artifacts |-> {}, manifest |-> 0,
                  bottle |-> 0, sig |-> 1, status |-> 0]
        IN Goes(w, IF dgst = s.claim THEN q ELSE Answered(q, 409))
  BY DEF Receive
<1>2. PICK d, q :
        /\ d = DigestOf(s.content, s.claim[2])
        /\ q = [stage |-> "findData", type |-> s.type, content |-> s.content,
                digest |-> d, version |-> v, base |-> 0, todo |-> {},
                missing |-> {}, artifacts |-> {}, manifest |-> 0,
                bottle |-> 0, sig |-> 1, status |-> 0]
  OBVIOUS
<1>3. Goes(w, IF d = s.claim THEN q ELSE Answered(q, 409))
  BY <1>1, <1>2
<1>4. s.claim \in Digest /\ s.claim[1] = s.content
  BY ClientAssumption
<1>5. d = s.claim /\ d[1] = s.content
  BY <1>2, <1>4 DEF DigestOf, Digest
<1>6. Goes(w, q)
  BY <1>3, <1>5
<1>7. request'[w] = q
  <2>1. TypeOK
    BY DEF Inv
  <2> QED
    BY <1>6, <2>1, GoesTo
<1>8. /\ q.stage = "findData" /\ q.digest = d /\ q.content = s.content
      /\ q.missing = {}
  BY <1>2
<1> QED
  BY <1>5, <1>7, <1>8

\* The tables only grow: what is supplied remains so, and reasons remain.
LEMMA SuppliedStays ==
  ASSUME Grows, NEW t \in Types, NEW c \in Contents, Supplied(t, c)
  PROVE  Supplied(t, c)'
<1> USE DocumentsAssumption
<1>1. ASSUME t = "bottle", NEW a \in Doc[c].artifacts
      PROVE  digests'[a] # NoContent
  BY <1>1 DEF Supplied, Grows
<1>2. ASSUME t \in HasSubject
      PROVE  OnRecord(SubjectType(t), Doc[c].subject)'
  <2>1. PICK u, d : u = SubjectType(t) /\ d = Doc[c].subject
    OBVIOUS
  <2>2. u \in Types /\ d \in Digest /\ OnRecord(u, d)
    BY <1>2, <2>1 DEF Supplied, SubjectType, Types
  <2>3. OnRecord(u, d)'
    BY <2>2, RowsStay DEF OnRecord, Grows
  <2> QED
    BY <2>1, <2>3
<1> QED
  BY <1>1, <1>2 DEF Supplied

LEMMA ReasonStays ==
  ASSUME Grows, NEW r \in Request, Reason(r)
  PROVE  Reason(r)'
<1>1. Doc[r.content].artifacts \subseteq Digest
  BY DocumentsAssumption DEF Request
<1> QED
  BY <1>1 DEF Reason, Suits, Grows

LEMMA NextReasons ==
  ASSUME Inv, Reasons, NEW w \in Workers, Receive(w) \/ Step(w) \/ Fail(w)
  PROVE  Reasons'
<1>1. TypeOK /\ TypeOK' /\ Grows
  BY StepType, StepGrows DEF Inv
<1> SUFFICES ASSUME NEW u \in Workers, request'[u].stage # "idle"
             PROVE  \E q : q = request'[u] /\ Reason(q)'
  BY DEF Reasons
<1>2. PICK q : q = request'[u]
  OBVIOUS
<1>3. q \in Request
  BY <1>1, <1>2 DEF TypeOK, Idle
<1>4. CASE u # w
  <2>1. q = request[u]
    BY <1>1, <1>2, <1>4, OthersUntouched
  <2> QED
    BY <1>1, <1>2, <1>3, <2>1, ReasonStays DEF Reasons
<1>5. CASE u = w /\ Receive(w)
  <2>1. q.stage = "findData" /\ q.digest[1] = q.content
    BY <1>2, <1>5, ReceiveReason
  <2> QED
    BY <1>2, <2>1 DEF Reason
<1>6. CASE u = w /\ (Step(w) \/ Fail(w))
  <2>1. PICK r : r = request[w]
    OBVIOUS
  <2>2. r.stage # "idle" /\ Follows(r, q)
    BY <1>1, <1>2, <1>6, <2>1, StepFollows
  <2>3. r.stage # "done"
    <3>1. CASE Deliver(w)
      BY <1>1, <1>6, <3>1, GoesTo, SMTT(40) DEF Deliver, Idle
    <3>2. CASE ~ Deliver(w)
      BY <1>6, <2>1, <3>2, Zenon DEF Step, Fail, FindData, CreateData, FindDigest,
         CreateDigest, FindBase, Decode, LookupArtifact, ArtifactsDone,
         LookupSubject, LookupSigBottle, Save, SaveSignature
    <3> QED
      BY <3>1, <3>2
  <2>4. Explained(r, q) /\ q.digest = r.digest
    BY <1>2, <1>6, <2>1, <2>3, StepExplained, KeepsTarget DEF SameTarget
  <2>5. Reason(r)
    BY <2>1, <2>2 DEF Reasons
  <2>6. q.type = r.type /\ q.content = r.content
    BY <2>2 DEF Follows
  <2>7. Reason(q)
    BY <2>4, <2>5, <2>6 DEF Reason, Explained, Suits
  <2> QED
    BY <1>1, <1>2, <1>3, <2>7, ReasonStays
<1> QED
  BY <1>4, <1>5, <1>6

-----------------------------------------------------------------------------
(* What fits is not refused *)

\* A call whose documents fit knows what it has put below by the digest that
\* the document above uses; what it puts again has all it refers to.
Prepared(k) ==
  /\ k.state # "calling" => k.put = k.call.type /\ ~ k.again
  /\ k.state = "calling" /\ Fits(k.call) =>
       /\ k.call.type = "event" /\ k.put # "event" =>
            DigestOf(k.call.manifest, k.alg["manifest"])
              = Doc[k.call.event].subject
       /\ k.call.type # "bottle" /\ k.put \in {"bottle", "blob"} =>
            DigestOf(k.call.bottle, k.alg["bottle"])
              = Doc[k.call.manifest].subject
       /\ k.again => k.put # "blob" /\ Supplied(k.put, k.call[k.put])
       /\ k.put = "blob" =>
            \A a \in Doc[k.call.bottle].artifacts \ k.todo :
              digests[a] # NoContent

\* So nothing is found to miss then.
Lacking(k, r) ==
  k.state = "calling" /\ Fits(k.call) /\ r.stage # "idle" /\ k.again =>
    r.missing = {}

Fitting ==
  \A w \in Workers : /\ Prepared(client[w])
                     /\ Lacking(client[w], request[w])
                     /\ client[w].state = "refused" => ~ Fits(client[w].call)

FitInv == ClientInv /\ Reasons /\ Fitting

\* The fields of a call.
LEMMA CallType ==
  ASSUME NEW k \in CallState
  PROVE  /\ k.call \in [type : Types \ {"blob"}, event : Contents,
                        manifest : Contents, bottle : Contents,
                        signature : Contents, alg : Algs]
         /\ k.call.type \in Types \ {"blob"}
         /\ \A t \in Types \ {"blob"} : k.call[t] \in Contents
<1>1. k.call \in [type : Types \ {"blob"}, event : Contents,
                  manifest : Contents, bottle : Contents,
                  signature : Contents, alg : Algs]
  BY ClientAssumption DEF CallState
<1> QED
  BY <1>1 DEF Types

\* What fits is what its place in the call asks for.
LEMMA FittingDocuments ==
  ASSUME NEW k \in CallState, Fits(k.call), OnCourse(k), k.put # "blob"
  PROVE  /\ k.put \in {"event", "manifest", "bottle"}
         /\ Doc[k.call[k.put]].type = k.put
         /\ k.put # "bottle" => Doc[k.call[k.put]].subject \in Digest
         /\ k.put = "event" => Doc[k.call.event].subject[1] = k.call.manifest
         /\ k.put = "manifest" =>
              /\ Doc[k.call.manifest].subject[1] = k.call.bottle
              /\ Doc[k.call.manifest].parts = Doc[k.call.bottle].parts
<1>1. k.call.type \in {"event", "manifest", "bottle"}
  BY CallType DEF Fits, Types
<1>2. k.put \in {"event", "manifest", "bottle"} /\ k.put \in Reach(k.call.type)
  BY <1>1 DEF OnCourse, Reach
<1>3. /\ k.put = "event" => k.call.type = "event"
      /\ k.put = "manifest" => k.call.type \in {"event", "manifest"}
  BY <1>1, <1>2 DEF Reach
<1>4. Doc[k.call[k.put]].type = k.put
  BY <1>2, <1>3 DEF Fits
<1>5. k.call[k.put] \in Contents
  BY <1>2, CallType DEF Types
<1>6. k.put # "bottle" => Doc[k.call[k.put]].subject \in Digest
  BY <1>2, <1>4, <1>5, DocumentsAssumption DEF HasSubject
<1> QED
  BY <1>2, <1>3, <1>4, <1>6 DEF Fits

\* What is there stays there.
LEMMA PreparedStays ==
  ASSUME Grows, NEW k \in CallState, OnCourse(k), Prepared(k)
  PROVE  Prepared(k)'
<1>1. ASSUME k.put # "blob", Supplied(k.put, k.call[k.put])
      PROVE  Supplied(k.put, k.call[k.put])'
  <2>1. PICK t, c : t = k.put /\ c = k.call[t]
    OBVIOUS
  <2>2. t \in Types /\ c \in Contents
    BY <1>1, <2>1, CallType DEF CallState
  <2> QED
    BY <1>1, <2>1, <2>2, SuppliedStays
<1>2. ASSUME NEW a \in Doc[k.call.bottle].artifacts, digests[a] # NoContent
      PROVE  digests'[a] # NoContent
  <2>1. k.call.bottle \in Contents
    BY CallType DEF Types
  <2> QED
    BY <1>2, <2>1, DocumentsAssumption DEF Grows
<1> QED
  BY <1>1, <1>2 DEF Prepared, Fits

\* A step of client w that leaves its call as k is in order when k is.
LEMMA FitStep ==
  ASSUME FitInv, NEW w \in Workers,
         UNCHANGED vars \/ Receive(w) \/ Step(w) \/ Fail(w),
         NEW k, client' = [client EXCEPT ![w] = k],
         Prepared(k)', Lacking(k, request'[w]),
         k.state = "refused" => ~ Fits(k.call)
  PROVE  Fitting'
<1>1. /\ client \in [Workers -> CallState] /\ client'[w] = k
      /\ \A u \in Workers \ {w} : client'[u] = client[u]
  BY DEF FitInv, ClientInv, CTypeOK
<1>2. Grows
  BY StepGrows DEF FitInv, ClientInv, vars, Grows
<1>3. ASSUME NEW u \in Workers
      PROVE  \E q : /\ q = client'[u] /\ Prepared(q)'
                    /\ Lacking(q, request'[u])
                    /\ q.state = "refused" => ~ Fits(q.call)
  <2>1. CASE u = w
    BY <1>1, <2>1
  <2>2. CASE u # w
    <3>1. request'[u] = request[u]
      BY <2>2, OthersUntouched DEF FitInv, ClientInv, Inv, vars
    <3>2. PICK q : q = client[u]
      OBVIOUS
    <3>3. /\ q \in CallState /\ q = client'[u] /\ OnCourse(q) /\ Prepared(q)
          /\ Lacking(q, request'[u]) /\ (q.state = "refused" => ~ Fits(q.call))
      BY <1>1, <2>2, <3>1, <3>2 DEF FitInv, ClientInv, Link, Fitting
    <3> QED
      BY <1>2, <3>3, PreparedStays
  <2> QED
    BY <2>1, <2>2
<1>4. \A q : (q.state = "refused" => ~ Fits(q.call))
             => (q.state = "refused" => ~ Fits(q.call))'
  BY DEF Fits
<1> QED
  BY <1>3 DEF Fitting

\* A call that is over is prepared for the next.
LEMMA OverIsPrepared ==
  ASSUME NEW k \in CallState, NEW s \in Ended, NEW r
  PROVE  /\ Prepared(Over(k, s))' /\ Lacking(Over(k, s), r)
         /\ Over(k, s).state = s /\ Over(k, s).call = k.call
<1>1. PICK q : q = Over(k, s)
  OBVIOUS
<1>2. /\ q.state = s /\ q.call = k.call /\ q.put = k.call.type /\ q.again = FALSE
      /\ s # "calling"
  BY <1>1 DEF Over, CallState, Ended
<1> QED
  BY <1>1, <1>2 DEF Prepared, Lacking

\* The call and the answer it hears.
LEMMA Heard ==
  ASSUME FitInv, NEW w \in Workers, client[w].state = "calling",
         request[w].stage = "done"
  PROVE  \E k, r :
           /\ k = client[w] /\ r = request[w]
           /\ k \in CallState /\ (k.put = "blob" <=> k.todo # {})
           /\ OnCourse(k) /\ Prepared(k) /\ Lacking(k, r)
           /\ r \in Request /\ Reason(r) /\ True(r) /\ r.type = k.put
           /\ k.put # "blob" =>
                /\ r.digest = DigestOf(k.call[k.put], k.alg[k.put])
                /\ r.content = k.call[k.put]
<1>1. PICK k, r : k = client[w] /\ r = request[w]
  OBVIOUS
<1>2. /\ k \in CallState /\ (k.put = "blob" <=> k.todo # {})
      /\ OnCourse(k) /\ Prepared(k) /\ Lacking(k, r) /\ Waits(k, r)
  BY <1>1 DEF FitInv, ClientInv, CTypeOK, Link, Fitting
<1>3. r \in Request /\ Reason(r) /\ True(r)
  BY <1>1, AtWork DEF FitInv, ClientInv, Inv, AnswersTrue, Reasons
<1>4. /\ r.type = k.put
      /\ k.put # "blob" => r.digest = DigestOf(k.call[k.put], k.alg[k.put])
  BY <1>1, <1>2 DEF Waits
<1>5. k.put # "blob" => r.content = k.call[k.put]
  BY <1>3, <1>4 DEF Reason, DigestOf
<1> QED
  BY <1>1, <1>2, <1>3, <1>4, <1>5

\* When an answer is delivered the server stays as it is.
LEMMA HeardStep ==
  ASSUME FitInv, NEW w \in Workers, Deliver(w), NEW q, Client(w, q),
         Prepared(q), q.state = "refused" => ~ Fits(q.call)
  PROVE  Fitting'
<1>1. /\ request'[w].stage = "idle"
      /\ UNCHANGED <<data, digests, table>>
  BY DeliveredIsIdle DEF FitInv
<1>2. Prepared(q)'
  BY <1>1 DEF Prepared, Supplied, OnRecord, HasRow, Fits
<1>3. Lacking(q, request'[w])
  BY <1>1 DEF Lacking
<1> QED
  BY <1>2, <1>3, FitStep DEF Client, Step

LEMMA AcceptedFits ==
  ASSUME FitInv, NEW w \in Workers, Accepted(w)
  PROVE  Fitting'
<1>1. client[w].state = "calling" /\ request[w].stage = "done" /\ Deliver(w)
  BY DEF Accepted, Hears, Deliver
<1>2. PICK k, r :
        /\ k = client[w] /\ r = request[w]
        /\ k \in CallState /\ (k.put = "blob" <=> k.todo # {})
        /\ OnCourse(k) /\ Prepared(k) /\ Lacking(k, r)
        /\ r \in Request /\ Reason(r) /\ True(r) /\ r.type = k.put
        /\ k.put # "blob" =>
             /\ r.digest = DigestOf(k.call[k.put], k.alg[k.put])
             /\ r.content = k.call[k.put]
  BY <1>1, Heard
<1> DEFINE rest == k.todo \ {r.digest}
<1>3. /\ Header(r) \in {201, 204}
      /\ \/ Client(w, Over(k, "sent"))
         \/ /\ k.put = "blob"
            /\ Client(w, [k EXCEPT !.todo = rest])
         \/ /\ k.put = "blob"
            /\ rest = {}
            /\ Client(w, [k EXCEPT !.put = "bottle", !.again = TRUE, !.todo = {}])
         \/ /\ k.put \notin {k.call.type, "blob"}
            /\ Client(w, [k EXCEPT !.put = Above(@), !.again = TRUE])
  BY <1>2 DEF Accepted
<1>4. r.type # "signature" => OnRecord(r.type, r.digest)
  BY <1>1, <1>2, <1>3, AnswerIsTrue DEF FitInv
<1>5. k.state = "calling" /\ k.call.type # "blob"
  BY <1>1, <1>2, CallType
\* What is known of the artifacts after one more is there.
<1>6. ASSUME k.put = "blob", Fits(k.call)
      PROVE  /\ ~ k.again
             /\ \A a \in Doc[k.call.bottle].artifacts \ rest : digests[a] # NoContent
  BY <1>2, <1>4, <1>5, <1>6 DEF Prepared, OnRecord
<1>7. CASE Client(w, Over(k, "sent"))
  <2>1. PICK q : q = Over(k, "sent")
    OBVIOUS
  <2>2. q.state = "sent" /\ q.put = q.call.type /\ q.again = FALSE
    BY <1>2, <2>1 DEF Over, CallState
  <2>3. Prepared(q)
    BY <2>2 DEF Prepared
  <2> QED
    BY <1>1, <1>7, <2>1, <2>2, <2>3, HeardStep
<1>8. CASE k.put = "blob" /\ Client(w, [k EXCEPT !.todo = rest])
  <2>1. PICK q : q = [k EXCEPT !.todo = rest]
    OBVIOUS
  <2>2. /\ q.state = k.state /\ q.put = k.put /\ q.todo = rest
        /\ q.call = k.call /\ q.alg = k.alg /\ q.again = k.again
    BY <1>2, <2>1 DEF CallState
  <2>3. Prepared(q)
    BY <1>2, <1>5, <1>6, <1>8, <2>2 DEF Prepared
  <2> QED
    BY <1>1, <1>5, <1>8, <2>1, <2>2, <2>3, HeardStep
<1>9. CASE /\ k.put = "blob" /\ rest = {}
           /\ Client(w, [k EXCEPT !.put = "bottle", !.again = TRUE, !.todo = {}])
  <2>1. PICK q : q = [k EXCEPT !.put = "bottle", !.again = TRUE, !.todo = {}]
    OBVIOUS
  <2>2. /\ q.state = k.state /\ q.put = "bottle" /\ q.todo = {}
        /\ q.call = k.call /\ q.alg = k.alg /\ q.again = TRUE
    BY <1>2, <2>1 DEF CallState
  <2>3. Fits(k.call) => Supplied("bottle", k.call.bottle)
    BY <1>6, <1>9 DEF Supplied, HasSubject
  <2>4. Prepared(q)
    BY <1>2, <1>5, <1>9, <2>2, <2>3 DEF Prepared
  <2> QED
    BY <1>1, <1>5, <1>9, <2>1, <2>2, <2>4, HeardStep
<1>10. CASE /\ k.put \notin {k.call.type, "blob"}
            /\ Client(w, [k EXCEPT !.put = Above(@), !.again = TRUE])
  <2>1. PICK q : q = [k EXCEPT !.put = Above(@), !.again = TRUE]
    OBVIOUS
  <2>2. /\ q.state = k.state /\ q.put = Above(k.put) /\ q.todo = k.todo
        /\ q.call = k.call /\ q.alg = k.alg /\ q.again = TRUE
    BY <1>2, <2>1 DEF CallState
  <2>3. q.put \in {"manifest", "event"}
    BY <2>2 DEF Above
  <2>4. ASSUME Fits(k.call)
        PROVE  Prepared(q)
    <3>1. CASE k.put = "bottle"
      <4>1. /\ q.put = "manifest"
            /\ k.call.type \in {"event", "manifest"}
        BY <1>2, <1>10, <2>2, <3>1, CallType DEF Above, OnCourse, Reach, Types
      <4>2. /\ OnRecord("bottle", Doc[k.call.manifest].subject)
            /\ Doc[k.call.manifest].subject \in Digest
        <5>1. DigestOf(k.call.bottle, k.alg["bottle"])
                = Doc[k.call.manifest].subject
          BY <1>2, <1>5, <2>4, <3>1, <4>1 DEF Prepared
        <5>2. r.digest = Doc[k.call.manifest].subject /\ r.digest \in Digest
          BY <1>2, <3>1, <5>1 DEF Request
        <5> QED
          BY <1>2, <1>4, <3>1, <5>2
      <4>3. Supplied("manifest", k.call.manifest)
        BY <4>2 DEF Supplied, SubjectType
      <4> QED
        BY <1>2, <1>5, <2>2, <2>4, <3>1, <4>1, <4>3 DEF Prepared
    <3>2. CASE k.put = "manifest"
      <4>1. q.put = "event" /\ k.call.type = "event"
        BY <1>2, <1>10, <2>2, <3>2, CallType DEF Above, OnCourse, Reach, Types
      <4>2. /\ OnRecord("manifest", Doc[k.call.event].subject)
            /\ Doc[k.call.event].subject \in Digest
        <5>1. DigestOf(k.call.manifest, k.alg["manifest"])
                = Doc[k.call.event].subject
          BY <1>2, <1>5, <2>4, <3>2, <4>1 DEF Prepared
        <5>2. r.digest = Doc[k.call.event].subject /\ r.digest \in Digest
          BY <1>2, <3>2, <5>1 DEF Request
        <5> QED
          BY <1>2, <1>4, <3>2, <5>2
      <4>3. Supplied("event", k.call.event)
        BY <4>2 DEF Supplied, SubjectType
      <4> QED
        BY <1>2, <1>5, <2>2, <2>4, <3>2, <4>1, <4>3 DEF Prepared
    <3>3. k.put \in {"bottle", "manifest"}
      <4>1. k.put \in {"event", "manifest", "bottle"}
        BY <1>2, <1>10, <2>4, FittingDocuments
      <4>2. k.put # "event"
        BY <1>2, <1>10, CallType DEF OnCourse, Reach, Types
      <4> QED
        BY <4>1, <4>2
    <3> QED
      BY <3>1, <3>2, <3>3
  <2>5. Prepared(q)
    BY <1>5, <2>2, <2>4 DEF Prepared
  <2> QED
    BY <1>1, <1>5, <1>10, <2>1, <2>2, <2>5, HeardStep
<1> QED
  BY <1>3, <1>7, <1>8, <1>9, <1>10

LEMMA SendMissingFits ==
  ASSUME FitInv, NEW w \in Workers, SendMissing(w)
  PROVE  Fitting'
<1>1. client[w].state = "calling" /\ request[w].stage = "done" /\ Deliver(w)
  BY DEF SendMissing, Missing, Hears, Deliver
<1>2. PICK k, r :
        /\ k = client[w] /\ r = request[w]
        /\ k \in CallState /\ (k.put = "blob" <=> k.todo # {})
        /\ OnCourse(k) /\ Prepared(k) /\ Lacking(k, r)
        /\ r \in Request /\ Reason(r) /\ True(r) /\ r.type = k.put
        /\ k.put # "blob" =>
             /\ r.digest = DigestOf(k.call[k.put], k.alg[k.put])
             /\ r.content = k.call[k.put]
  BY <1>1, Heard
<1>3. /\ Header(r) = 412 /\ ~ k.again
      /\ \/ /\ k.put \in {"event", "manifest"}
            /\ \E d \in r.missing :
                 Client(w, [k EXCEPT !.put = Below(@),
                                     !.alg[Below(k.put)] = d[2]])
         \/ /\ k.put = "bottle"
            /\ Client(w, [k EXCEPT !.put = "blob", !.todo = r.missing])
         \/ /\ k.put = "signature"
            /\ Client(w, [k EXCEPT !.again = TRUE])
  BY <1>2 DEF SendMissing, Missing
<1>4. r.status = 412
  <2>1. Header(r) = 412
    BY <1>3
  <2>2. r.status \in Statuses
    BY <1>2 DEF Request
  <2> QED
    BY <2>1, <2>2 DEF Header, Statuses
<1>5. k.state = "calling"
  BY <1>1, <1>2
<1>6. ASSUME k.put \in {"event", "manifest"}, NEW d \in r.missing,
             Client(w, [k EXCEPT !.put = Below(@), !.alg[Below(k.put)] = d[2]])
      PROVE  Fitting'
  <2>1. PICK q : q = [k EXCEPT !.put = Below(@), !.alg[Below(k.put)] = d[2]]
    OBVIOUS
  <2>2. d \in Digest /\ d = Doc[r.content].subject
    BY <1>1, <1>2, <1>4, <1>6 DEF Reason, Request
  <2>3. d[2] \in Algs /\ Below(k.put) \in {"manifest", "bottle"}
    BY <1>6, <2>2 DEF Digest, Below
  <2>4. /\ q.put = Below(k.put) /\ q.todo = k.todo /\ q.again = k.again
        /\ q.call = k.call /\ q.state = k.state
        /\ q.alg = [k.alg EXCEPT ![Below(k.put)] = d[2]]
    BY <1>2, <2>1, <2>3 DEF CallState, Types
  <2>5. k.alg \in [Types -> Algs]
    BY <1>2 DEF CallState
  <2>6. ASSUME Fits(k.call), k.put = "event"
        PROVE  Prepared(q)
    <3>1. q.put = "manifest" /\ q.alg["manifest"] = d[2]
      BY <2>4, <2>5, <2>6 DEF Below, Types
    <3>2. d[1] = k.call.manifest /\ d = Doc[k.call.event].subject
      BY <1>2, <2>2, <2>6, FittingDocuments
    <3>3. DigestOf(k.call.manifest, d[2]) = d
      BY <2>2, <3>2 DEF Digest, DigestOf
    <3> QED
      BY <1>3, <1>5, <2>4, <3>1, <3>2, <3>3 DEF Prepared
  <2>7. ASSUME Fits(k.call), k.put = "manifest"
        PROVE  Prepared(q)
    <3>1. q.put = "bottle" /\ q.alg["bottle"] = d[2]
          /\ q.alg["manifest"] = k.alg["manifest"]
      BY <2>4, <2>5, <2>7 DEF Below, Types
    <3>2. d[1] = k.call.bottle /\ d = Doc[k.call.manifest].subject
      BY <1>2, <2>2, <2>7, FittingDocuments
    <3>3. DigestOf(k.call.bottle, d[2]) = d
      BY <2>2, <3>2 DEF Digest, DigestOf
    <3>4. k.call.type = "event" =>
            DigestOf(k.call.manifest, k.alg["manifest"])
              = Doc[k.call.event].subject
      BY <1>2, <1>5, <2>7 DEF Prepared
    <3> QED
      BY <1>3, <1>5, <2>4, <3>1, <3>2, <3>3, <3>4, ZenonT(40) DEF Prepared
  <2>8. Prepared(q)
    BY <1>5, <1>6, <2>4, <2>6, <2>7 DEF Prepared
  <2> QED
    BY <1>1, <1>5, <1>6, <2>1, <2>4, <2>8, HeardStep
<1>7. CASE /\ k.put = "bottle"
           /\ Client(w, [k EXCEPT !.put = "blob", !.todo = r.missing])
  <2>1. PICK q : q = [k EXCEPT !.put = "blob", !.todo = r.missing]
    OBVIOUS
  <2>2. /\ q.put = "blob" /\ q.todo = r.missing /\ q.again = k.again
        /\ q.call = k.call /\ q.alg = k.alg /\ q.state = k.state
    BY <1>2, <2>1 DEF CallState
  <2>3. \A a \in Doc[k.call.bottle].artifacts \ r.missing : digests[a] # NoContent
    BY <1>1, <1>2, <1>4, <1>7 DEF Reason
  <2>4. Prepared(q)
    BY <1>2, <1>3, <1>5, <1>7, <2>2, <2>3 DEF Prepared
  <2> QED
    BY <1>1, <1>5, <1>7, <2>1, <2>2, <2>4, HeardStep
<1>8. CASE /\ k.put = "signature"
           /\ Client(w, [k EXCEPT !.again = TRUE])
  <2>1. PICK q : q = [k EXCEPT !.again = TRUE]
    OBVIOUS
  <2>2. q.call = k.call /\ q.state = k.state
    BY <1>2, <2>1 DEF CallState
  <2>3. ~ Fits(k.call)
    BY <1>2, <1>8, FittingDocuments
  <2>4. Prepared(q)
    BY <1>5, <2>2, <2>3 DEF Prepared
  <2> QED
    BY <1>1, <1>5, <1>8, <2>1, <2>2, <2>4, HeardStep
<1> QED
  BY <1>3, <1>6, <1>7, <1>8

LEMMA RejectedFits ==
  ASSUME FitInv, NEW w \in Workers, Rejected(w)
  PROVE  Fitting'
<1>1. client[w].state = "calling" /\ request[w].stage = "done" /\ Deliver(w)
  BY DEF Rejected, Hears, Deliver
<1>2. PICK k, r :
        /\ k = client[w] /\ r = request[w]
        /\ k \in CallState /\ (k.put = "blob" <=> k.todo # {})
        /\ OnCourse(k) /\ Prepared(k) /\ Lacking(k, r)
        /\ r \in Request /\ Reason(r) /\ True(r) /\ r.type = k.put
        /\ k.put # "blob" =>
             /\ r.digest = DigestOf(k.call[k.put], k.alg[k.put])
             /\ r.content = k.call[k.put]
  BY <1>1, Heard
<1>3. /\ Header(r) \notin {201, 204}
      /\ ~ (Header(r) = 412 /\ ~ k.again
            /\ (k.put = "bottle" \/ Cardinality(r.missing) = 1))
      /\ Client(w, Over(k, IF Header(r) = 500 THEN "unavailable" ELSE "refused"))
  BY <1>2 DEF Rejected
<1>4. k.state = "calling"
  BY <1>1, <1>2
<1>5. ASSUME Fits(k.call)
      PROVE  Header(r) = 500
  <2>1. SUFFICES ASSUME Header(r) # 500 PROVE FALSE
    OBVIOUS
  <2>2. Header(r) = r.status /\ r.status \in {400, 409, 412}
    <3>1. r.status \in Statuses /\ r.status # 0
      BY <1>1, <1>2 DEF Request, Reason
    <3>2. Header(r) \in {204, r.status}
      BY DEF Header
    <3> QED
      BY <1>3, <2>1, <3>1, <3>2 DEF Statuses
  <2>3. Suits(r)
    <3>1. CASE k.put = "blob"
      BY <1>2, <3>1 DEF Suits, Decodes
    <3>2. CASE k.put # "blob"
      <4>1. /\ k.put \in {"event", "manifest", "bottle"}
            /\ r.type = k.put /\ r.content = k.call[k.put]
            /\ Doc[r.content].type = k.put
        BY <1>2, <1>5, <3>2, FittingDocuments
      <4>2. k.put = "manifest" =>
              /\ r.content = k.call.manifest
              /\ Doc[k.call.manifest].subject[1] = k.call.bottle
              /\ Doc[k.call.manifest].parts = Doc[k.call.bottle].parts
        BY <1>2, <1>5, <4>1, FittingDocuments
      <4> QED
        BY <4>1, <4>2 DEF Suits, Decodes
    <3> QED
      BY <3>1, <3>2
  <2>4. r.status = 412
    BY <1>1, <1>2, <2>2, <2>3 DEF Reason
  <2>5. ~ k.again
    <3>1. r.missing # {}
      BY <1>1, <1>2, <2>4 DEF True
    <3> QED
      BY <1>1, <1>2, <1>4, <1>5, <3>1 DEF Lacking
  <2>6. k.put # "bottle" /\ Cardinality(r.missing) # 1
    BY <1>3, <2>2, <2>4, <2>5
  <2>7. PICK d : r.missing = {d}
    BY <1>1, <1>2, <2>4, <2>6, ZenonT(40) DEF Reason
  <2> QED
    BY <2>6, <2>7, FS_Singleton
<1>6. PICK s \in {"unavailable", "refused"} :
        Client(w, Over(k, s)) /\ (s = "refused" => ~ Fits(k.call))
  BY <1>3, <1>5
<1>7. PICK q : q = Over(k, s)
  OBVIOUS
<1>8. q.state = s /\ q.call = k.call /\ q.put = k.call.type /\ q.again = FALSE
  BY <1>2, <1>7 DEF Over, CallState
<1>9. Prepared(q)
  BY <1>6, <1>8 DEF Prepared
<1> QED
  BY <1>1, <1>6, <1>7, <1>8, <1>9, HeardStep

\* Every step of a client keeps it so.
LEMMA ClientStepFits ==
  ASSUME FitInv, NEW w \in Workers,
         \/ Begin(w) \/ Ask(w) \/ Handle(w) \/ Break(w)
         \/ Hear(w)  \/ GiveUp(w) \/ Discard(w)
  PROVE  Fitting'
<1>1. PICK k, r : k = client[w] /\ r = request[w]
  OBVIOUS
<1>2. /\ k \in CallState /\ OnCourse(k) /\ Waits(k, r)
      /\ Prepared(k) /\ Lacking(k, r) /\ (k.state = "refused" => ~ Fits(k.call))
      /\ client \in [Workers -> CallState]
  BY <1>1 DEF FitInv, ClientInv, CTypeOK, Link, Fitting
\* A step that leaves the call alone.
<1>3. ASSUME Receive(w) \/ Step(w) \/ Fail(w), UNCHANGED client,
             Lacking(k, request'[w])
      PROVE  Fitting'
  <2>1. Grows
    BY <1>3, StepGrows DEF FitInv, ClientInv
  <2>2. Prepared(k)'
    BY <1>2, <2>1, PreparedStays
  <2>3. client' = [client EXCEPT ![w] = k]
    BY <1>1, <1>2, <1>3
  <2> QED
    BY <1>2, <1>3, <2>2, <2>3, FitStep
<1>4. CASE Begin(w)
  <2>1. PICK q : q = [k EXCEPT !.state = "calling"]
    OBVIOUS
  <2>2. /\ q.state = "calling" /\ q.put = k.put /\ q.call = k.call
        /\ q.again = k.again
    BY <1>2, <2>1 DEF CallState
  <2>3. k.put = k.call.type /\ ~ k.again /\ k.put # "blob"
    BY <1>1, <1>2, <1>4, CallType DEF Prepared, Begin, Ended
  <2>4. Prepared(q)
    BY <2>2, <2>3 DEF Prepared, Fits
  <2>5. Prepared(q)'
    BY <1>4, <2>4 DEF Begin, vars, Prepared, Supplied, OnRecord, HasRow, Fits
  <2>6. Lacking(q, request'[w])
    BY <2>2, <2>3 DEF Lacking
  <2> QED
    BY <1>1, <1>4, <2>1, <2>2, <2>5, <2>6, FitStep DEF Begin, Client
<1>5. CASE Ask(w)
  <2>1. Receive(w) /\ UNCHANGED client
    BY <1>5 DEF Ask
  <2>2. request'[w].missing = {}
    BY <2>1, ReceiveReason DEF FitInv, ClientInv
  <2> QED
    BY <1>3, <2>1, <2>2 DEF Lacking
<1>6. CASE Handle(w) \/ Break(w)
  <2>1. (Step(w) \/ Fail(w)) /\ r.stage # "done" /\ UNCHANGED client
    BY <1>1, <1>6 DEF Handle, Break, Fail
  <2>2. Explained(r, request'[w]) /\ r.stage # "idle"
    BY <1>1, <2>1, StepExplained, KeepsTarget DEF FitInv, ClientInv
  <2>3. ASSUME k.state = "calling", Fits(k.call), k.again
        PROVE  request'[w].missing = {}
    <3>1. k.put # "blob" /\ Supplied(k.put, k.call[k.put])
      BY <1>2, <2>3 DEF Prepared
    <3>2. r.type = k.put /\ r.digest = DigestOf(k.call[k.put], k.alg[k.put])
      BY <1>2, <2>2, <2>3, <3>1 DEF Waits
    <3>3. r.digest[1] = r.content
      BY <1>1, <2>2 DEF FitInv, Reasons, Reason
    <3>4. r.content = k.call[k.put]
      BY <3>2, <3>3 DEF DigestOf
    <3>5. r.missing = {}
      BY <1>2, <2>2, <2>3 DEF Lacking
    <3>6. Supplied(r.type, r.content)
      BY <3>1, <3>2, <3>4
    <3> QED
      BY <2>2, <3>5, <3>6 DEF Explained
  <2>4. Lacking(k, request'[w])
    BY <2>3 DEF Lacking
  <2> QED
    BY <1>3, <2>1, <2>4
<1>7. CASE Hear(w)
  BY <1>7, AcceptedFits, SendMissingFits, RejectedFits DEF Hear
<1>8. CASE GiveUp(w)
  <2>1. PICK q : q = Over(k, "unavailable")
    OBVIOUS
  <2>2. /\ Prepared(q)' /\ Lacking(q, request'[w])
        /\ q.state = "unavailable" /\ UNCHANGED vars
        /\ client' = [client EXCEPT ![w] = q]
    BY <1>1, <1>2, <1>8, <2>1, OverIsPrepared DEF GiveUp, Client, Ended
  <2> QED
    BY <2>2, FitStep
<1>9. CASE Discard(w)
  <2>1. Deliver(w) /\ Step(w) /\ UNCHANGED client
    BY <1>9 DEF Discard, Step
  <2>2. Lacking(k, request'[w])
    BY <2>1, DeliveredIsIdle DEF FitInv, Lacking
  <2> QED
    BY <1>3, <2>1, <2>2
<1> QED
  BY <1>4, <1>5, <1>6, <1>7, <1>8, <1>9

LEMMA FitInit == CInit => FitInv
<1> SUFFICES ASSUME CInit PROVE FitInv
  OBVIOUS
<1>1. PICK made \in [Workers -> Calls] :
        client = [w \in Workers |-> Fresh(made[w])]
  BY DEF CInit
<1>2. Reasons
  BY DEF CInit, Init, Reasons, Idle
<1>3. ASSUME NEW w \in Workers
      PROVE  /\ Prepared(client[w])
             /\ Lacking(client[w], request[w])
             /\ client[w].state # "refused"
  <2>1. PICK q : q = client[w]
    OBVIOUS
  <2>2. q.state = "idle" /\ q.put = q.call.type /\ q.again = FALSE
    BY <1>1, <2>1 DEF Fresh
  <2> QED
    BY <2>1, <2>2 DEF Prepared, Lacking
<1> QED
  BY <1>2, <1>3, ClientInit DEF FitInv, Fitting

LEMMA FitNext == FitInv /\ [CNext]_allvars => FitInv'
<1> SUFFICES ASSUME FitInv, [CNext]_allvars PROVE FitInv'
  OBVIOUS
<1>1. ClientInv'
  BY ClientNextInv DEF FitInv
<1>2. CASE UNCHANGED allvars
  <2>1. Reasons'
    BY <1>2 DEF FitInv, Reasons, Reason, Suits, allvars, vars
  <2>2. UNCHANGED <<client, request, digests, table>>
    BY <1>2 DEF allvars, vars
  <2>3. Fitting'
    <3> SUFFICES ASSUME NEW w \in Workers
                 PROVE  /\ Prepared(client[w])' /\ Lacking(client[w], request[w])'
                        /\ client'[w].state = "refused" => ~ Fits(client[w].call)'
      BY DEF Fitting
    <3>1. Prepared(client[w]) /\ Lacking(client[w], request[w])
      BY DEF FitInv, Fitting
    <3>2. client[w].state = "refused" => ~ Fits(client[w].call)
      BY Zenon DEF FitInv, Fitting
    <3>3. Prepared(client[w])'
      BY <2>2, <3>1 DEF Prepared, Supplied, OnRecord, HasRow, Fits
    <3>4. Lacking(client[w], request[w])'
      BY <2>2, <3>1 DEF Lacking, Fits
    <3> QED
      BY <2>2, <3>2, <3>3, <3>4 DEF Fits
  <2> QED
    BY <1>1, <2>1, <2>3 DEF FitInv
<1>3. ASSUME NEW w \in Workers,
             \/ Begin(w) \/ Ask(w) \/ Handle(w) \/ Break(w)
             \/ Hear(w)  \/ GiveUp(w) \/ Discard(w)
      PROVE  FitInv'
  <2>1. Fitting'
    BY <1>3, ClientStepFits
  <2>2. CASE UNCHANGED vars
    <3>1. Reasons'
      BY <2>2 DEF FitInv, Reasons, Reason, Suits, vars
    <3> QED
      BY <1>1, <2>1, <3>1 DEF FitInv
  <2>3. CASE Receive(w) \/ Step(w) \/ Fail(w)
    <3>1. Reasons'
      BY <2>3, NextReasons DEF FitInv, ClientInv
    <3> QED
      BY <1>1, <2>1, <3>1 DEF FitInv
  <2> QED
    BY <1>3, <2>2, <2>3, ClientStep
<1> QED
  BY <1>2, <1>3 DEF CNext

\* A call whose documents fit together is never refused: whatever part of them
\* earlier attempts and other clients left on the server, and by whichever
\* digests, the recovery from 412 finds what misses and sends it, and what it
\* then puts again misses nothing.
THEOREM FittingIsServed == CSpec => []FittingIsNotRefused
<1>1. FitInv => FittingIsNotRefused
  BY DEF FitInv, Fitting, FittingIsNotRefused
<1> QED
  BY <1>1, FitInit, FitNext, PTL DEF CSpec

-----------------------------------------------------------------------------
(***************************************************************************)
(* The client of several servers.  It is a system apart from the one above *)
(* and shares nothing with it.                                             *)
(***************************************************************************)

Outcome == {"none", "ok", "failed", "missing"}

CallTypes ==
  call \in [Callers -> [op : {"none", "send", "get"}, object : Objects \cup {Nothing},
                        answers : {call[c].answers : c \in Callers},
                        at : {0, 1}, result : Outcome]]

\* The servers, the calls and the observers keep their types.
ManyTypes ==
  /\ has \in [Hosts -> SUBSET Objects]
  /\ CallTypes
  /\ sent \subseteq Callers \X Objects

\* What a call that sends has been answered, and that the servers which said
\* they have the object have it.
Delivered ==
  \A c \in Callers : call[c].op = "send" =>
    /\ call[c].object \in Objects
    /\ call[c].answers \in [DOMAIN Servers[c] -> {"none", "ok", "failed"}]
    /\ \A i \in DOMAIN Servers[c] :
         call[c].answers[i] = "ok" => call[c].object \in has[Servers[c][i]]

\* Only the first server is ever asked.
FirstOnly == \A c \in Callers : call[c].op = "get" => call[c].at = 1

ManyInv == ManyTypes /\ Delivered /\ FirstOnly /\ SentEverywhere

\* What has become of a call is found in its record.
LEMMA CallFields ==
  ASSUME ManyTypes, NEW c \in Callers
  PROVE  /\ call[c] = [op |-> call[c].op, object |-> call[c].object,
                       answers |-> call[c].answers, at |-> call[c].at,
                       result |-> call[c].result]
         /\ call[c].op \in {"none", "send", "get"}
         /\ call[c].result \in Outcome
         /\ call[c].object \in Objects \cup {Nothing}
         /\ call[c].at \in {0, 1}
BY DEF ManyTypes, CallTypes

\* The servers of a caller are hosts.
LEMMA ServerIsHost ==
  ASSUME NEW c \in Callers, NEW i \in DOMAIN Servers[c]
  PROVE  Servers[c][i] \in Hosts
BY DEF Hosts, ToSet

\* A call returns; nothing else of it changes.
LEMMA Returns ==
  ASSUME ManyTypes, NEW c \in Callers, NEW result \in Outcome,
         call' = [call EXCEPT ![c].result = result]
  PROVE  /\ \A x \in Callers : /\ call'[x].op = call[x].op
                               /\ call'[x].object = call[x].object
                               /\ call'[x].answers = call[x].answers
                               /\ call'[x].at = call[x].at
         /\ \A x \in Callers \ {c} : call'[x] = call[x]
         /\ call'[c].result = result
         /\ CallTypes'
<1>1. /\ call'[c] = [call[c] EXCEPT !.result = result]
      /\ \A x \in Callers \ {c} : call'[x] = call[x]
  BY DEF ManyTypes, CallTypes
<1>2. /\ call'[c].op = call[c].op /\ call'[c].object = call[c].object
      /\ call'[c].answers = call[c].answers /\ call'[c].at = call[c].at
      /\ call'[c].result = result
  <2>1. call[c] \in [op : {"none", "send", "get"}, object : Objects \cup {Nothing},
                     answers : {call[x].answers : x \in Callers},
                     at : {0, 1}, result : Outcome]
    BY DEF ManyTypes, CallTypes
  <2> QED
    BY <1>1, <2>1
<1>3. CallTypes'
  BY <1>1, <1>2, ZenonT(40) DEF ManyTypes, CallTypes
<1> QED
  BY <1>1, <1>2, <1>3

\* In the beginning nothing is sent and nobody asked.
LEMMA ManyInit == MInit => ManyInv
<1> SUFFICES ASSUME MInit PROVE ManyInv
  OBVIOUS
<1>1. ManyTypes
  BY DEF MInit, NoCall, ManyTypes, CallTypes, Outcome
<1> QED
  BY <1>1 DEF MInit, NoCall, ManyInv, Delivered, FirstOnly, SentEverywhere

\* A caller begins.
LEMMA BeginsCall ==
  ASSUME ManyInv, NEW c \in Callers, NEW o \in Objects,
         Send(c, o) \/ Get(c, o)
  PROVE  ManyInv'
<1> DEFINE Asks == [op |-> "get", object |-> o, answers |-> <<>>, at |-> 1,
                    result |-> "none"]
           Sends == [op |-> "send", object |-> o,
                     answers |-> [i \in DOMAIN Servers[c] |-> "none"], at |-> 0,
                     result |-> "none"]
<1>1. PICK k \in {Asks, Sends} : call' = [call EXCEPT ![c] = k]
  BY DEF Send, Get, NoCall
<1>2. UNCHANGED <<has, sent>>
  BY DEF Send, Get
<1>3. call'[c] = k /\ \A x \in Callers \ {c} : call'[x] = call[x]
  BY <1>1, <1>2 DEF ManyInv, ManyTypes, CallTypes
<1>4. ManyTypes'
  BY <1>1, <1>2, <1>3 DEF ManyInv, ManyTypes, CallTypes, Outcome
<1>5. Delivered' /\ FirstOnly'
  BY <1>1, <1>2, <1>3 DEF ManyInv, Delivered, FirstOnly
<1>6. SentEverywhere'
  BY <1>2 DEF ManyInv, SentEverywhere
<1> QED
  BY <1>4, <1>5, <1>6 DEF ManyInv

\* An answer arrives: if it is that of a success, the object is there.
LEMMA AnswerInv ==
  ASSUME ManyInv, NEW c \in Callers, NEW i \in DOMAIN Servers[c], ServerAnswered(c, i)
  PROVE  ManyInv'
<1> DEFINE s == Servers[c][i]
           o == call[c].object
<1>1. PICK kept \in BOOLEAN, answer \in {"ok", "failed"} :
        /\ answer = "ok" => kept
        /\ has' = IF kept THEN [has EXCEPT ![s] = @ \cup {o}] ELSE has
        /\ call' = [call EXCEPT ![c].answers[i] = answer]
  BY DEF ServerAnswered
<1>2. UNCHANGED sent /\ call[c].op = "send"
  BY DEF ServerAnswered
<1>3. s \in Hosts /\ o \in Objects
  BY <1>2, ServerIsHost DEF ManyInv, Delivered
<1>4. /\ has' \in [Hosts -> SUBSET Objects]
      /\ \A h \in Hosts : has[h] \subseteq has'[h]
      /\ answer = "ok" => o \in has'[s]
  BY <1>1, <1>3 DEF ManyInv, ManyTypes, CallTypes
<1>5. /\ call'[c] = [call[c] EXCEPT !.answers[i] = answer]
      /\ \A x \in Callers \ {c} : call'[x] = call[x]
  BY <1>1 DEF ManyInv, ManyTypes, CallTypes
<1>6. /\ call'[c].op = "send" /\ call'[c].object = o
      /\ call'[c].answers = [call[c].answers EXCEPT ![i] = answer]
      /\ call'[c].at = call[c].at /\ call'[c].result = call[c].result
  BY <1>2, <1>5, CallFields DEF ManyInv
<1>7. ManyTypes'
  BY <1>1, <1>2, <1>4, <1>5, <1>6 DEF ManyInv, ManyTypes, CallTypes
<1>8. Delivered'
  <2> SUFFICES ASSUME NEW x \in Callers, call'[x].op = "send"
               PROVE  /\ call'[x].object \in Objects
                      /\ call'[x].answers \in [DOMAIN Servers[x] -> {"none", "ok", "failed"}]
                      /\ \A j \in DOMAIN Servers[x] :
                           call'[x].answers[j] = "ok" =>
                             call'[x].object \in has'[Servers[x][j]]
    BY DEF Delivered
  <2>1. CASE x # c
    BY <1>4, <1>5, <2>1, ServerIsHost DEF ManyInv, Delivered
  <2>2. CASE x = c
    <3>1. call[c].answers \in [DOMAIN Servers[c] -> {"none", "ok", "failed"}]
      BY <1>2 DEF ManyInv, Delivered
    <3>2. ASSUME NEW j \in DOMAIN Servers[c], call'[c].answers[j] = "ok"
          PROVE  o \in has'[Servers[c][j]]
      <4>1. CASE j = i
        BY <1>4, <1>6, <3>1, <3>2, <4>1
      <4>2. CASE j # i
        <5>1. call[c].answers[j] = "ok"
          BY <1>6, <3>1, <3>2, <4>2
        <5>2. o \in has[Servers[c][j]]
          BY <1>2, <5>1 DEF ManyInv, Delivered
        <5> QED
          BY <1>4, <5>2, ServerIsHost
      <4> QED
        BY <4>1, <4>2
    <3> QED
      BY <1>3, <1>6, <2>2, <3>1, <3>2
  <2> QED
    BY <2>1, <2>2
<1>9. FirstOnly'
  BY <1>2, <1>5, <1>6 DEF ManyInv, FirstOnly
<1>10. SentEverywhere'
  BY <1>2, <1>4 DEF ManyInv, ManyTypes, SentEverywhere, Hosts
<1> QED
  BY <1>7, <1>8, <1>9, <1>10 DEF ManyInv

\* All answers are there: without a failure among them, all servers have the
\* object.
LEMMA JoinInv ==
  ASSUME ManyInv, NEW c \in Callers, Join(c)
  PROVE  ManyInv'
<1> DEFINE o == call[c].object
<1>0. PICK result : result = Joined(call[c].answers)
  OBVIOUS
<1>1. /\ call' = [call EXCEPT ![c].result = result]
      /\ sent' = IF result = "ok" THEN sent \cup {<<c, o>>} ELSE sent
      /\ UNCHANGED has
      /\ call[c].op = "send"
      /\ \A i \in DOMAIN call[c].answers : call[c].answers[i] # "none"
  BY <1>0 DEF Join
<1>2. result \in {"ok", "failed"} /\ result \in Outcome
  BY <1>0 DEF Joined, Outcome
<1>3. o \in Objects /\ call[c].answers \in [DOMAIN Servers[c] -> {"none", "ok", "failed"}]
  BY <1>1 DEF ManyInv, Delivered
<1>4. /\ \A x \in Callers : /\ call'[x].op = call[x].op
                            /\ call'[x].object = call[x].object
                            /\ call'[x].answers = call[x].answers
                            /\ call'[x].at = call[x].at
      /\ \A x \in Callers \ {c} : call'[x] = call[x]
      /\ CallTypes'
  BY <1>1, <1>2, Returns DEF ManyInv
<1>5. sent \subseteq sent' /\ sent' \subseteq Callers \X Objects
  BY <1>1, <1>3 DEF ManyInv, ManyTypes, CallTypes
<1>6. ManyTypes'
  BY <1>1, <1>4, <1>5 DEF ManyInv, ManyTypes
<1>7. Delivered' /\ FirstOnly'
  BY <1>1, <1>4 DEF ManyInv, Delivered, FirstOnly
<1>8. result = "ok" => \A s \in ToSet(Servers[c]) : o \in has[s]
  <2> SUFFICES ASSUME result = "ok", NEW i \in DOMAIN Servers[c]
               PROVE  o \in has[Servers[c][i]]
    BY DEF ToSet
  <2>1. call[c].answers[i] = "ok"
    BY <1>0, <1>1, <1>3 DEF Joined
  <2> QED
    BY <1>1, <2>1 DEF ManyInv, Delivered
<1>9. SentEverywhere'
  BY <1>1, <1>8 DEF ManyInv, SentEverywhere
<1> QED
  BY <1>6, <1>7, <1>9 DEF ManyInv

\* The first server answers, and the call returns.
LEMMA ReplyInv ==
  ASSUME ManyInv, NEW c \in Callers, Reply(c)
  PROVE  ManyInv'
<1>1. UNCHANGED <<has, sent>> /\ call[c].op = "get" /\ call[c].at = 1
  BY DEF Reply, ManyInv, FirstOnly
<1>2. Servers[c] \in Seq(ToSet(Servers[c]))
  BY MultiClientAssumption
<1>3. PICK result \in Outcome : call' = [call EXCEPT ![c].result = result]
  <2>1. CASE Servers[c] = <<>>
    BY <1>1, <2>1 DEF Reply, Outcome
  <2>2. CASE Servers[c] # <<>>
    <3>1. ~ call[c].at > Len(Servers[c])
      BY <1>1, <1>2, <2>2
    <3>2. PICK outcome \in Outcomes(Servers[c][1], call[c].object) :
            call' = IF IsNotFound(outcome)
                      THEN [call EXCEPT ![c].at = @ + 1]
                      ELSE [call EXCEPT ![c].result = outcome]
      BY <1>1, <3>1 DEF Reply
    <3>3. outcome \in {"ok", "missing", "failed"}
      BY <3>2 DEF Outcomes, Answer
    <3> QED
      BY <3>2, <3>3 DEF IsNotFound, Outcome
  <2> QED
    BY <2>1, <2>2
<1>4. /\ \A x \in Callers : /\ call'[x].op = call[x].op
                            /\ call'[x].object = call[x].object
                            /\ call'[x].answers = call[x].answers
                            /\ call'[x].at = call[x].at
      /\ \A x \in Callers \ {c} : call'[x] = call[x]
      /\ call'[c].result = result
      /\ CallTypes'
  BY <1>3, Returns DEF ManyInv
<1>5. ManyTypes'
  BY <1>1, <1>3, <1>4 DEF ManyInv, ManyTypes, CallTypes
<1>6. Delivered' /\ FirstOnly' /\ SentEverywhere'
  BY <1>1, <1>4 DEF ManyInv, Delivered, FirstOnly, SentEverywhere
<1> QED
  BY <1>5, <1>6 DEF ManyInv

\* Whatever callers and servers do, in whatever order.
LEMMA ManyNext ==
  ASSUME ManyInv, [MNext]_(mvars)
  PROVE  ManyInv'
<1>1. CASE UNCHANGED mvars
  BY <1>1 DEF mvars, ManyInv, ManyTypes, CallTypes, Delivered, FirstOnly,
              SentEverywhere
<1>2. CASE MNext
  <2>1. PICK c \in Callers :
          \/ \E o \in Objects : Send(c, o) \/ Get(c, o)
          \/ \E i \in DOMAIN Servers[c] : ServerAnswered(c, i)
          \/ Join(c)
          \/ Reply(c)
    BY <1>2 DEF MNext, Progress
  <2> QED
    BY <2>1, BeginsCall, AnswerInv, JoinInv, ReplyInv
<1> QED
  BY <1>1, <1>2

\* What a caller was told is sent, all its servers have, whatever failed before
\* and whoever else sends meanwhile.
THEOREM SentToAll == MSpec => []SentEverywhere
<1>1. ManyInv => SentEverywhere
  BY DEF ManyInv
<1> QED
  BY <1>1, ManyInit, ManyNext, PTL DEF MSpec

=============================================================================
