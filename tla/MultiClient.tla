------------------------------ MODULE MultiClient ------------------------------
(***************************************************************************)
(* The client of several servers (pkg/client MultiClient): what is sent    *)
(* goes to all of them at once, what is asked for is asked of one after    *)
(* the other.  Servers are down for a while and answers get lost; nothing  *)
(* keeps the servers alike but the clients themselves.                     *)
(***************************************************************************)
EXTENDS Integers, Sequences, FiniteSets, SequencesExt

CONSTANTS
  Callers,   \* programs that have such a client
  Servers,   \* the servers of each of them, in the order of its list
  Objects,   \* what is sent and asked for
  Nothing    \* no object

ASSUME MultiClientAssumption ==
  /\ DOMAIN Servers = Callers
  /\ \A c \in Callers : Servers[c] \in Seq(ToSet(Servers[c]))
  /\ Nothing \notin Objects

Hosts == UNION {ToSet(Servers[c]) : c \in Callers}

VARIABLES
  has,     \* the objects that each server has
  call,    \* the call of each caller
  sent     \* observed: pairs of a caller and what it was told is sent

mvars == <<has, call, sent>>

NoCall == [op |-> "none", object |-> Nothing, answers |-> <<>>, at |-> 0,
           result |-> "none"]

MInit ==
  /\ has = [s \in Hosts |-> {}]
  /\ call = [c \in Callers |-> NoCall]
  /\ sent = {}

Returned(c) == call[c].result # "none" \/ call[c].op = "none"

\* Send and Put: one goroutine for each server.
Send(c, o) ==
  /\ Returned(c)
  /\ call' = [call EXCEPT ![c] =
       [NoCall EXCEPT !.op = "send", !.object = o,
                      !.answers = [i \in DOMAIN Servers[c] |-> "none"]]]
  /\ UNCHANGED <<has, sent>>

\* The call on server i returns: the object is there, or there is an error, with
\* the object there or not.
ServerAnswered(c, i) ==
  /\ call[c].op = "send" /\ ~Returned(c)
  /\ call[c].answers[i] = "none"
  /\ \E kept \in BOOLEAN, answer \in {"ok", "failed"} :
       /\ answer = "ok" => kept
       /\ has' = IF kept THEN [has EXCEPT ![Servers[c][i]] = @ \cup {call[c].object}]
                         ELSE has
       /\ call' = [call EXCEPT ![c].answers[i] = answer]
  /\ UNCHANGED sent

\* Faulty Joined: the last answer counts.
JoinedLast(answers) == IF answers = <<>> THEN "ok" ELSE Last(answers)

\* errors.Join: no error when no server gave one.
Joined(answers) == IF \E i \in DOMAIN answers : answers[i] = "failed"
                     THEN "failed" ELSE "ok"

\* All goroutines are done.
Join(c) ==
  /\ call[c].op = "send" /\ ~Returned(c)
  /\ \A i \in DOMAIN call[c].answers : call[c].answers[i] # "none"
  /\ LET result == Joined(call[c].answers)
     IN  /\ call' = [call EXCEPT ![c].result = result]
         /\ sent' = IF result = "ok" THEN sent \cup {<<c, call[c].object>>} ELSE sent
  /\ UNCHANGED has

\* Get, List and the searches.
Get(c, o) ==
  /\ Returned(c)
  /\ call' = [call EXCEPT ![c] = [NoCall EXCEPT !.op = "get", !.object = o, !.at = 1]]
  /\ UNCHANGED <<has, sent>>

\* What a server answers that is asked for an object.
Answer(s, o) == IF o \in has[s] THEN "ok" ELSE "missing"

\* What the client of one server makes of it: the request or its answer may be
\* lost.
Outcomes(s, o) == {Answer(s, o), "failed"}

\* Every answer but a success is an error of the same kind: no client of one
\* server ever returns ErrNotFound, a status of 404 is as any other.  So the
\* second server is never asked, and an object that it alone has is not found.
IsNotFound(outcome) == outcome = "ErrNotFound"

\* The next server is asked, or there is none left.
Reply(c) ==
  /\ call[c].op = "get" /\ ~Returned(c)
  /\ IF call[c].at > Len(Servers[c])
       THEN call' = [call EXCEPT ![c].result = "missing"]
       ELSE LET s == Servers[c][call[c].at]
            IN  \E outcome \in Outcomes(s, call[c].object) :
                  call' = IF IsNotFound(outcome)
                            THEN [call EXCEPT ![c].at = @ + 1]
                            ELSE [call EXCEPT ![c].result = outcome]
  /\ UNCHANGED <<has, sent>>

Progress(c) == (\E i \in DOMAIN Servers[c] : ServerAnswered(c, i)) \/ Join(c) \/ Reply(c)

MNext ==
  \E c \in Callers :
    \/ \E o \in Objects : Send(c, o) \/ Get(c, o)
    \/ Progress(c)

MSpec == MInit /\ [][MNext]_mvars

-----------------------------------------------------------------------------
(* Properties *)

\* What a caller was told is sent, every one of its servers has, whichever of them
\* failed; a caller that has no server is told so of everything.
SentEverywhere ==
  \A x \in sent : \A s \in ToSet(Servers[x[1]]) : x[2] \in has[s]

=============================================================================
