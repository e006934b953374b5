----------------------------- MODULE ClientSend ------------------------------
(***************************************************************************)
(* The sending client (pkg/client/single.go) against the upload path of    *)
(* the server: SendEvent, SendManifest, SendBottle and SendSignature.      *)
(*                                                                         *)
(* A client sends the dependent document first.  When the server answers   *)
(* 412 with the digest that misses, it sends that document in the same way *)
(* and then its own once more.  Client w has one request at a time, and it *)
(* is the request that worker w of Ingest handles; the requests of several *)
(* clients interleave statement by statement.                              *)
(***************************************************************************)
EXTENDS Ingest, FiniteSets

CONSTANT Calls
  \* What callers hand to a client: the function to call, named by the type of
  \* the document to be sent, the documents, and the digest algorithm for the
  \* first.  Fields a function does not take hold any content.

ASSUME ClientAssumption ==
  /\ Calls \subseteq [type : Types \ {"blob"}, event : Contents,
                      manifest : Contents, bottle : Contents,
                      signature : Contents, alg : Algs]
  /\ Submissions = {s \in [type : Types, content : Contents, claim : Digest] :
                      s.claim[1] = s.content}

VARIABLE client
  \* state of the call: "calling", or how the last one ended; the call; the
  \* type of the document that is being put, whether it is put again after
  \* what it misses was sent, the algorithm each document is put with, and the
  \* artifacts that are still to be sent

allvars == <<vars, client>>

Ended == {"idle", "sent", "refused", "unavailable"}

\* The call of k is over, or has not begun.
Over(k, how) ==
  [k EXCEPT !.state = how, !.put = k.call.type, !.again = FALSE,
            !.alg = [t \in Types |-> k.call.alg], !.todo = {}]

Fresh(call) ==
  [state |-> "idle", call |-> call, put |-> call.type, again |-> FALSE,
   alg |-> [t \in Types |-> call.alg], todo |-> {}]

\* Faulty Below: what misses its reference is itself sent once more.
BelowItself(t) == t

\* The document that is sent when one of type t misses its reference, and the
\* one that is put again when it is there.
Below(t) == IF t = "event" THEN "manifest" ELSE "bottle"
Above(t) == IF t = "bottle" THEN "manifest" ELSE "event"

Client(w, k) == client' = [client EXCEPT ![w] = k]

-----------------------------------------------------------------------------

\* A caller calls one of the functions, be it for the first time or again.
Begin(w) ==
  /\ client[w].state \in Ended
  /\ request[w].stage = "idle"
  /\ Client(w, [client[w] EXCEPT !.state = "calling"])
  /\ UNCHANGED vars

\* doPutRequest: the document, or an artifact that misses, goes to the server
\* with its digest.
Ask(w) ==
  LET k == client[w] IN
  /\ k.state = "calling"
  /\ Receive(w)
  /\ request'[w].type = k.put
  /\ IF k.put = "blob" THEN request'[w].digest \in k.todo
     ELSE request'[w].digest = DigestOf(k.call[k.put], k.alg[k.put])
  /\ UNCHANGED client

\* The server's handler goes on.
Handle(w) ==
  /\ request[w].stage # "done"
  /\ Step(w)
  /\ UNCHANGED client

\* The server fails.
Break(w) == Fail(w) /\ UNCHANGED client

\* The answer to the running put is r.
Hears(w, r) ==
  /\ client[w].state = "calling"
  /\ r = request[w]
  /\ Deliver(w)

\* Faulty Accepted: the document is not put again.
AcceptedOnce(w) ==
  \E r \in {request[w]} :
    /\ Hears(w, r)
    /\ Header(r) \in {201, 204}
    /\ Client(w, Over(client[w], "sent"))

\* The document is on record.  The call is done, or the next artifact follows,
\* or what needed it is put again.
Accepted(w) ==
  \E r \in {request[w]} :
    LET k == client[w]
        rest == k.todo \ {r.digest}
    IN
    /\ Hears(w, r)
    /\ Header(r) \in {201, 204}
    /\ \/ /\ k.put = k.call.type
          /\ Client(w, Over(k, "sent"))
       \/ /\ k.put = "blob"
          /\ rest # {}
          /\ Client(w, [k EXCEPT !.todo = rest])
       \/ /\ k.put = "blob"
          /\ rest = {}
          /\ Client(w, [k EXCEPT !.put = "bottle", !.again = TRUE, !.todo = {}])
       \/ /\ k.put \notin {k.call.type, "blob"}
          /\ Client(w, [k EXCEPT !.put = Above(@), !.again = TRUE])

\* Something misses, and the put that says so is the first one.
Missing(w, r) ==
  /\ Hears(w, r)
  /\ Header(r) = 412
  /\ ~client[w].again
  /\ client[w].put = "bottle" \/ Cardinality(r.missing) = 1

\* Faulty SendMissing: everything is sent with the algorithm of the call.
SendMissingSameAlg(w) ==
  \E r \in {request[w]} :
    LET k == client[w] IN
    /\ Missing(w, r)
    /\ \/ /\ k.put \in {"event", "manifest"}
          /\ Client(w, [k EXCEPT !.put = Below(@)])
       \/ /\ k.put = "bottle"
          /\ Client(w, [k EXCEPT !.put = "blob", !.todo = r.missing])
       \/ /\ k.put = "signature"
          /\ Client(w, [k EXCEPT !.again = TRUE])

\* What misses is sent, with the algorithm of the digest by which it misses.
\* SendSignature sends nothing and just puts the summary again.
SendMissing(w) ==
  \E r \in {request[w]} :
    LET k == client[w] IN
    /\ Missing(w, r)
    /\ \/ /\ k.put \in {"event", "manifest"}
          /\ \E d \in r.missing :
               Client(w, [k EXCEPT !.put = Below(@),
                                   !.alg[Below(k.put)] = d[2]])
       \/ /\ k.put = "bottle"
          /\ Client(w, [k EXCEPT !.put = "blob", !.todo = r.missing])
       \/ /\ k.put = "signature"
          /\ Client(w, [k EXCEPT !.again = TRUE])

\* Any other answer ends the call with an error.
Rejected(w) ==
  \E r \in {request[w]} :
    /\ Hears(w, r)
    /\ Header(r) \notin {201, 204}
    /\ ~(Header(r) = 412 /\ ~client[w].again
         /\ (client[w].put = "bottle" \/ Cardinality(r.missing) = 1))
    /\ Client(w, Over(client[w],
                      IF Header(r) = 500 THEN "unavailable" ELSE "refused"))

\* The call ends with an error before the answer is there: the connection
\* breaks, the caller cancels, or it cannot come up with an artifact.  The
\* handler goes its way.
GiveUp(w) ==
  /\ client[w].state = "calling"
  /\ Client(w, Over(client[w], "unavailable"))
  /\ UNCHANGED vars

\* Nobody waits for the answer any more.
Discard(w) ==
  /\ client[w].state \in Ended
  /\ Deliver(w)
  /\ UNCHANGED client

Hear(w) == Accepted(w) \/ SendMissing(w) \/ Rejected(w)

CInit ==
  /\ Init
  /\ \E call \in [Workers -> Calls] :
       client = [w \in Workers |-> Fresh(call[w])]

CNext ==
  \E w \in Workers :
    \/ Begin(w) \/ Ask(w) \/ Handle(w) \/ Break(w)
    \/ Hear(w)  \/ GiveUp(w) \/ Discard(w)

CSpec == CInit /\ [][CNext]_allvars

\* A call and its handler take their own steps, and the caller repeats a call
\* that ended because the server, or the way to it, was not available.  No
\* caller has to begin.
FairCSpec ==
  /\ CSpec
  /\ \A w \in Workers :
       /\ WF_allvars(Ask(w) \/ Handle(w) \/ Hear(w) \/ Discard(w))
       /\ WF_allvars(client[w].state = "unavailable" /\ Begin(w))

-----------------------------------------------------------------------------
(* Properties *)

CallState ==
  [state : Ended \cup {"calling"}, call : Calls, put : Types, again : BOOLEAN,
   alg : [Types -> Algs], todo : SUBSET Digest]

\* The calls keep their types; artifacts are put while there are some to send.
CTypeOK ==
  /\ client \in [Workers -> CallState]
  /\ \A w \in Workers : client[w].put = "blob" <=> client[w].todo # {}

\* Is the object of type t known by the digest d on record?
OnRecord(t, d) ==
  /\ digests[d] # NoContent
  /\ HasRow(t, d[1])

\* The object known by d is on record with all it refers to, and with all that
\* these refer to.
CompleteBottle(d) ==
  /\ OnRecord("bottle", d)
  /\ \A a \in Doc[d[1]].artifacts : digests[a] # NoContent

CompleteManifest(d) ==
  OnRecord("manifest", d) /\ CompleteBottle(Doc[d[1]].subject)

CompleteEvent(d) ==
  OnRecord("event", d) /\ CompleteManifest(Doc[d[1]].subject)

\* A call that returned without an error has recorded its document with all
\* it refers to, whatever answers were lost before and whoever else sent.
SentMeansComplete ==
  \A w \in Workers :
    LET k == client[w]
        t == k.call.type
        d == DigestOf(k.call[t], k.call.alg)
    IN
    k.state = "sent" =>
      /\ t = "bottle" => CompleteBottle(d)
      /\ t = "manifest" => CompleteManifest(d)
      /\ t = "event" => CompleteEvent(d)

\* Do the documents of a call fit together?
Fits(call) ==
  LET t == call.type IN
  /\ t # "signature"
  /\ Doc[call.bottle].type = "bottle"
  /\ t # "bottle" => /\ Doc[call.manifest].type = "manifest"
                     /\ Doc[call.manifest].subject[1] = call.bottle
                     /\ Doc[call.manifest].parts = Doc[call.bottle].parts
  /\ t = "event" => /\ Doc[call.event].type = "event"
                    /\ Doc[call.event].subject[1] = call.manifest

\* Documents that fit are never refused: whatever part of them earlier
\* attempts and other clients left on the server, and under which digests, the
\* recovery from 412 finds and sends what misses.
FittingIsNotRefused ==
  \A w \in Workers : client[w].state = "refused" => ~Fits(client[w].call)

\* From now and then on no server fails and nobody gives up.
FaultsStop == <>[][\A w \in Workers : ~Break(w) /\ ~GiveUp(w)]_allvars

\* A caller that keeps trying gets through when faults stop: two clients that
\* send the same documents make each other fail (the loser of an INSERT is
\* told 500), but not for ever.
TryingSucceeds ==
  FaultsStop =>
    \A w \in Workers :
      client[w].state = "calling" /\ Fits(client[w].call)
        ~> client[w].state = "sent"

=============================================================================
