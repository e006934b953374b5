----------------------------- MODULE LoginProofs -----------------------------
(***************************************************************************)
(* Proofs about Login: for any number of commands side by side and however *)
(* many tokens are issued.                                                 *)
(***************************************************************************)
EXTENDS Login, TLAPS

-----------------------------------------------------------------------------
(* The inductive invariant *)

\* An issuer that does not rotate takes every token again.
TakenAgain == ~ rotates => spent = {}

\* A command without a Docker configuration reads no token.
MemoryEmpty == \A c \in Commands : run[c].memory => run[c].cred = None

\* A token that is about to be stored is nowhere else yet.
Fresh ==
  \A c \in Commands : run[c].stage = "put" /\ run[c].token # None =>
    /\ run[c].token \notin spent
    /\ run[c].token # stored
    /\ \A d \in Commands : /\ run[d].cred # run[c].token
                           /\ d # c => run[d].token # run[c].token

\* A command that is about to store got a token; or it keeps the one it read,
\* which the issuer takes again.
PutHolds ==
  \A c \in Commands :
    run[c].stage = "put" /\ run[c].token = None /\ "bare" \notin faults
    => ~ rotates /\ run[c].cred # None

\* For a stored token that is spent another one is about to be stored.
Replaced ==
  stored \in spent /\ faults \cap {"lost", "bare"} = {} =>
    \E c \in Commands : run[c].stage = "put" /\ ~ run[c].memory

\* Beside a command that has run by itself nothing is under way.
AloneOnly ==
  \A c \in Commands : alone[c] /\ run[c].stage # "idle" =>
    \A d \in Commands \ {c} : run[d].stage = "idle"

\* Such a command trades the very token that is stored, and asks the user only
\* when there is none.
AloneReads ==
  \A c \in Commands : alone[c] /\ faults = {} =>
    /\ run[c].stage = "refresh" => run[c].cred = stored
    /\ run[c].stage \in {"authorize", "poll"} /\ ~ run[c].memory => stored = None

Inv == /\ TypeOK /\ TakenAgain /\ MemoryEmpty /\ Fresh /\ PutHolds /\ Replaced
       /\ AloneOnly /\ AloneReads

-----------------------------------------------------------------------------
(* Steps of one command *)

Runs == [stage : Stages, cred : Tokens \cup {None}, token : Tokens \cup {None},
         memory : BOOLEAN]

\* The command c gets the state r.
Becomes(c, r) == run' = [run EXCEPT ![c] = r]

LEMMA Became ==
  ASSUME TypeOK, NEW c \in Commands, NEW r \in Runs, Becomes(c, r)
  PROVE  /\ run' \in [Commands -> Runs]
         /\ run'[c] = r
         /\ \A d \in Commands \ {c} : run'[d] = run[d]
         /\ \A d \in Commands : run[d] \in Runs
BY DEF TypeOK, Becomes, Runs

\* A step to another stage.
LEMMA Gone ==
  ASSUME TypeOK, NEW c \in Commands, NEW s \in Stages, Goes(c, s)
  PROVE  \E r \in Runs : /\ Becomes(c, r)
                         /\ r.stage = s /\ r.cred = run[c].cred
                         /\ r.token = run[c].token /\ r.memory = run[c].memory
<1> DEFINE r == [run[c] EXCEPT !.stage = s]
<1>1. run[c] \in Runs
  BY DEF TypeOK, Runs
<1>2. /\ r \in Runs /\ r.stage = s /\ r.cred = run[c].cred
      /\ r.token = run[c].token /\ r.memory = run[c].memory
  BY <1>1 DEF Runs
<1>3. Becomes(c, r)
  BY DEF Goes, Becomes
<1> QED
  BY <1>2, <1>3

\* The types, when one command takes a step.
LEMMA StepTypes ==
  ASSUME TypeOK, NEW c \in Commands, NEW r \in Runs, Becomes(c, r),
         issued' \in issued..MaxTokens, r.cred <= issued', r.token <= issued',
         stored' \in Tokens \cup {None}, stored' <= issued',
         spent' \subseteq 1..issued', rotates' = rotates,
         alone' \in [Commands -> BOOLEAN], faults' \subseteq {"lost", "refused", "bare"}
  PROVE  TypeOK'
<1>1. /\ run' \in [Commands -> Runs] /\ run'[c] = r
      /\ \A d \in Commands \ {c} : run'[d] = run[d]
      /\ \A d \in Commands : run[d] \in Runs
  BY Became
<1>2. issued \in 0..MaxTokens /\ issued' \in 0..MaxTokens /\ issued <= issued'
  BY LoginAssumption DEF TypeOK
<1>3. \A d \in Commands \ {c} : run[d].cred \in Nat /\ run[d].token \in Nat
        /\ run[d].cred <= issued /\ run[d].token <= issued
  BY <1>1 DEF TypeOK, Runs, Tokens, None
<1>4. \A d \in Commands : run'[d].cred <= issued' /\ run'[d].token <= issued'
  <2> SUFFICES ASSUME NEW d \in Commands
               PROVE  run'[d].cred <= issued' /\ run'[d].token <= issued'
    OBVIOUS
  <2>1. CASE d = c
    BY <1>1, <2>1
  <2>2. CASE d # c
    BY <1>1, <1>2, <1>3, <2>2
  <2> QED
    BY <2>1, <2>2
<1>5. rotates' \in BOOLEAN
  BY DEF TypeOK
<1> QED
  BY <1>1, <1>2, <1>4, <1>5 DEF TypeOK, Runs

\* A step that neither trades a token nor stores one.
LEMMA QuietStep ==
  ASSUME Inv, NEW c \in Commands, NEW r \in Runs, Becomes(c, r),
         UNCHANGED <<rotates, stored, issued, spent>>,
         alone' \in [Commands -> BOOLEAN],
         faults \subseteq faults', faults' \subseteq {"lost", "refused", "bare"},
         r.stage # "put", run[c].stage = "put" => "lost" \in faults',
         r.cred \in {None, stored, run[c].cred}, r.token \in {None, run[c].token},
         r.memory => r.cred = None
  PROVE  (TypeOK /\ TakenAgain /\ MemoryEmpty /\ Fresh /\ PutHolds /\ Replaced)'
<1>1. /\ run'[c] = r
      /\ \A d \in Commands \ {c} : run'[d] = run[d]
      /\ \A d \in Commands : run[d] \in Runs
  BY Became DEF Inv
<1>2. issued \in 0..MaxTokens /\ stored \in Tokens \cup {None} /\ stored <= issued
      /\ spent \subseteq 1..issued /\ run[c].cred <= issued /\ run[c].token <= issued
      /\ None <= issued
  BY LoginAssumption DEF Inv, TypeOK, None
<1>3. TypeOK'
  <2>1. r.cred <= issued' /\ r.token <= issued' /\ issued' \in issued..MaxTokens
    BY <1>2, LoginAssumption
  <2> QED
    BY <1>2, <2>1, StepTypes DEF Inv
<1>4. TakenAgain'
  BY DEF Inv, TakenAgain
<1>5. MemoryEmpty'
  BY <1>1 DEF Inv, MemoryEmpty
<1>6. Fresh'
  <2> SUFFICES ASSUME NEW b \in Commands, run'[b].stage = "put", run'[b].token # None
               PROVE  /\ run'[b].token \notin spent /\ run'[b].token # stored
                      /\ \A d \in Commands : /\ run'[d].cred # run'[b].token
                                             /\ d # b => run'[d].token # run'[b].token
    BY DEF Fresh
  <2>1. b # c /\ run'[b] = run[b]
    BY <1>1
  <2>2. /\ run[b].token \notin spent /\ run[b].token # stored
        /\ \A d \in Commands : /\ run[d].cred # run[b].token
                               /\ d # b => run[d].token # run[b].token
    BY <2>1 DEF Inv, Fresh
  <2> QED
    BY <1>1, <2>1, <2>2
<1>7. PutHolds'
  BY <1>1 DEF Inv, PutHolds
<1>8. Replaced'
  BY <1>1 DEF Inv, Replaced
<1> QED
  BY <1>3, <1>4, <1>5, <1>6, <1>7, <1>8

\* A command that is under way takes a step: those that run by themselves still
\* do.
LEMMA AloneStep ==
  ASSUME Inv, NEW c \in Commands, NEW r \in Runs, Becomes(c, r),
         run[c].stage # "idle", UNCHANGED alone, faults \subseteq faults',
         alone[c] /\ faults' = {} =>
           /\ r.stage = "refresh" => r.cred = stored'
           /\ r.stage \in {"authorize", "poll"} /\ ~ r.memory => stored' = None
  PROVE  AloneOnly' /\ AloneReads'
<1>1. /\ run'[c] = r
      /\ \A d \in Commands \ {c} : run'[d] = run[d]
  BY Became DEF Inv
<1>2. \A d \in Commands \ {c} : alone[d] => run[d].stage = "idle"
  BY DEF Inv, AloneOnly
<1>3. AloneOnly'
  BY <1>1, <1>2 DEF Inv, AloneOnly
<1>4. AloneReads'
  BY <1>1, <1>2 DEF AloneReads
<1> QED
  BY <1>3, <1>4

\* No other command interferes with one that runs by itself: what it reads is
\* not spent.
LEMMA AloneUnspent ==
  ASSUME Inv, NEW c \in Commands, alone[c], run[c].stage = "refresh", faults = {}
  PROVE  run[c].cred \notin spent
<1>1. run[c].cred = stored
  BY DEF Inv, AloneReads
<1>2. \A d \in Commands : run[d].stage # "put"
  BY DEF Inv, AloneOnly
<1> QED
  BY <1>1, <1>2 DEF Inv, Replaced

-----------------------------------------------------------------------------
(* Each action *)

LEMMA BeginInv ==
  ASSUME Inv, NEW c \in Commands, NEW configured \in BOOLEAN, NEW memory \in BOOLEAN,
         Begin(c, configured, memory)
  PROVE  Inv'
<1> DEFINE r == [stage |-> IF configured THEN "discover" ELSE "default",
                 cred |-> None, token |-> None, memory |-> memory]
<1>1. r \in Runs /\ r.stage \in {"discover", "default"}
      /\ r.cred = None /\ r.token = None
  BY DEF Runs, Stages
<1>2. Becomes(c, r) /\ run[c].stage = "idle"
  BY DEF Begin, Becomes
<1> HIDE DEF r
<1>3. UNCHANGED <<rotates, stored, issued, spent, faults>>
      /\ alone' \in [Commands -> BOOLEAN]
  BY DEF Begin
<1>4. (TypeOK /\ TakenAgain /\ MemoryEmpty /\ Fresh /\ PutHolds /\ Replaced)'
  BY <1>1, <1>2, <1>3, QuietStep DEF Inv, TypeOK
<1>5. /\ run'[c] = r
      /\ \A d \in Commands \ {c} : run'[d] = run[d]
  BY <1>1, <1>2, Became DEF Inv
<1>6. /\ alone'[c] => \A d \in Commands : run[d].stage = "idle"
      /\ \A d \in Commands \ {c} : ~ alone'[d]
  BY DEF Begin
<1>7. AloneOnly' /\ AloneReads'
  BY <1>1, <1>5, <1>6 DEF AloneOnly, AloneReads
<1> QED
  BY <1>4, <1>7 DEF Inv

LEMMA DiscoverInv ==
  ASSUME Inv, NEW c \in Commands, Discover(c)
  PROVE  Inv'
<1>1. PICK s \in {"get", "default"} : Goes(c, s)
  BY DEF Discover
<1>2. PICK r \in Runs : /\ Becomes(c, r) /\ r.stage = s
                        /\ r.cred = run[c].cred /\ r.token = run[c].token
                        /\ r.memory = run[c].memory
  BY <1>1, Gone DEF Inv, Stages
<1>3. UNCHANGED <<rotates, stored, issued, spent, faults, alone>>
      /\ run[c].stage = "discover"
  BY DEF Discover
<1>4. (TypeOK /\ TakenAgain /\ MemoryEmpty /\ Fresh /\ PutHolds /\ Replaced)'
  BY <1>1, <1>2, <1>3, QuietStep DEF Inv, TypeOK, MemoryEmpty
<1>5. AloneOnly' /\ AloneReads'
  BY <1>1, <1>2, <1>3, AloneStep DEF Inv
<1> QED
  BY <1>4, <1>5 DEF Inv

LEMMA GetInv ==
  ASSUME Inv, NEW c \in Commands, Get(c)
  PROVE  Inv'
<1>1. PICK t \in {stored, None} :
        /\ run[c].memory => t = None
        /\ run' = [run EXCEPT ![c].cred = t,
                     ![c].stage = IF t = None THEN "authorize" ELSE "refresh"]
        /\ faults' = IF t = stored \/ run[c].memory THEN faults
                                                     ELSE faults \cup {"refused"}
  BY DEF Get
<1>2. UNCHANGED <<rotates, stored, issued, spent, alone>> /\ run[c].stage = "get"
  BY DEF Get
<1> DEFINE r == [run[c] EXCEPT !.cred = t,
                   !.stage = IF t = None THEN "authorize" ELSE "refresh"]
<1>3. run[c] \in Runs /\ t \in Tokens \cup {None}
  BY DEF Inv, TypeOK, Runs
<1>4. /\ r \in Runs /\ r.cred = t /\ r.token = run[c].token /\ r.memory = run[c].memory
      /\ r.stage = IF t = None THEN "authorize" ELSE "refresh"
  BY <1>3 DEF Runs, Stages
<1>5. Becomes(c, r)
  BY <1>1 DEF Becomes
<1> HIDE DEF r
<1>6. faults \subseteq faults' /\ faults' \subseteq {"lost", "refused", "bare"}
  BY <1>1 DEF Inv, TypeOK
<1>7. (TypeOK /\ TakenAgain /\ MemoryEmpty /\ Fresh /\ PutHolds /\ Replaced)'
  BY <1>1, <1>2, <1>4, <1>5, <1>6, QuietStep DEF Inv, TypeOK
<1>8. AloneOnly' /\ AloneReads'
  BY <1>1, <1>2, <1>4, <1>5, <1>6, AloneStep
<1> QED
  BY <1>7, <1>8 DEF Inv

LEMMA AuthorizeInv ==
  ASSUME Inv, NEW c \in Commands, Authorize(c)
  PROVE  Inv'
<1>1. PICK s \in {"poll", "default"} : Goes(c, s)
  BY DEF Authorize
<1>2. PICK r \in Runs : /\ Becomes(c, r) /\ r.stage = s
                        /\ r.cred = run[c].cred /\ r.token = run[c].token
                        /\ r.memory = run[c].memory
  BY <1>1, Gone DEF Inv, Stages
<1>3. UNCHANGED <<rotates, stored, issued, spent, faults, alone>>
      /\ run[c].stage = "authorize"
  BY DEF Authorize
<1>4. (TypeOK /\ TakenAgain /\ MemoryEmpty /\ Fresh /\ PutHolds /\ Replaced)'
  BY <1>1, <1>2, <1>3, QuietStep DEF Inv, TypeOK, MemoryEmpty
<1>5. AloneOnly' /\ AloneReads'
  BY <1>1, <1>2, <1>3, AloneStep DEF Inv, AloneReads
<1> QED
  BY <1>4, <1>5 DEF Inv

\* A command ends, or is interrupted.
LEMMA EndInv ==
  ASSUME Inv, NEW c \in Commands, Finish(c) \/ Kill(c)
  PROVE  Inv'
<1> DEFINE r == [stage |-> "idle", cred |-> None, token |-> None, memory |-> FALSE]
<1>1. r \in Runs /\ r.stage = "idle" /\ r.cred = None /\ r.token = None /\ ~ r.memory
  BY DEF Runs, Stages
<1>2. Becomes(c, r) /\ run[c].stage # "idle"
  BY DEF Finish, Kill, Becomes
<1> HIDE DEF r
<1>3. /\ UNCHANGED <<rotates, stored, issued, spent, alone>>
      /\ faults' \in {faults, faults \cup {"lost"}}
      /\ run[c].stage = "put" => "lost" \in faults'
  BY DEF Finish, Kill, Fault
<1>4. (TypeOK /\ TakenAgain /\ MemoryEmpty /\ Fresh /\ PutHolds /\ Replaced)'
  BY <1>1, <1>2, <1>3, QuietStep DEF Inv, TypeOK
<1>5. AloneOnly' /\ AloneReads'
  BY <1>1, <1>2, <1>3, AloneStep
<1> QED
  BY <1>4, <1>5 DEF Inv

\* What trading a token does to the invariant.
LEMMA TradeStep ==
  ASSUME Inv, NEW c \in Commands, NEW r \in Runs, Becomes(c, r),
         NEW t \in {run[c].cred, run[c].token}, NEW new \in Tokens \cup {None},
         Trade(t, new), run[c].stage # "put",
         r.cred = run[c].cred, r.memory = run[c].memory,
         r.token \in {new, run[c].token}, r.stage = "put" => r.token = new /\ t = run[c].cred,
         UNCHANGED <<rotates, stored, alone>>,
         faults \subseteq faults', faults' \subseteq {"lost", "refused", "bare"},
         r.stage # "put" => "lost" \in faults'
  PROVE  (TypeOK /\ TakenAgain /\ MemoryEmpty /\ Fresh /\ PutHolds /\ Replaced)'
<1>1. /\ run'[c] = r
      /\ \A d \in Commands \ {c} : run'[d] = run[d]
      /\ \A d \in Commands : run[d] \in Runs
  BY Became DEF Inv
<1>2. issued \in 0..MaxTokens /\ stored \in Tokens \cup {None} /\ stored <= issued
      /\ spent \subseteq 1..issued /\ run[c].cred <= issued /\ run[c].token <= issued
      /\ MaxTokens \in Nat
  BY LoginAssumption DEF Inv, TypeOK
<1>3. /\ t \in Tokens \ spent
      /\ new = None \/ (new = issued + 1 /\ new \in Tokens)
      /\ rotates <=> new # None
      /\ issued' = IF new = None THEN issued ELSE new
      /\ spent' = IF rotates THEN spent \cup {t} ELSE spent
  BY DEF Trade, Given
<1>4. issued' \in issued..MaxTokens /\ new <= issued' /\ run[c].token <= issued'
      /\ run[c].cred <= issued' /\ stored <= issued'
  <2>1. run[c].cred \in Int /\ run[c].token \in Int /\ stored \in Int
    BY <1>1, <1>2 DEF Runs, Tokens, None
  <2>2. CASE new = None
    BY <1>2, <1>3, <2>2 DEF None
  <2>3. CASE new # None
    BY <1>2, <1>3, <2>1, <2>3 DEF Tokens
  <2> QED
    BY <2>2, <2>3
<1>5. spent' \subseteq 1..issued'
  <2>1. t \in 1..issued'
    BY <1>2, <1>3, <1>4 DEF Tokens
  <2>2. spent \subseteq 1..issued'
    BY <1>2, <1>4
  <2> QED
    BY <1>3, <2>1, <2>2
<1>6. TypeOK'
  <2>1. r.token <= issued' /\ r.cred <= issued'
    BY <1>4
  <2>2. stored' \in Tokens \cup {None} /\ stored' <= issued' /\ alone' \in [Commands -> BOOLEAN]
    BY <1>2, <1>4 DEF Inv, TypeOK
  <2> QED
    BY <1>4, <1>5, <2>1, <2>2, StepTypes DEF Inv
<1>7. TakenAgain'
  BY <1>3 DEF Inv, TakenAgain
<1>8. MemoryEmpty'
  BY <1>1 DEF Inv, MemoryEmpty
<1>9. \A d \in Commands : /\ run[d].cred <= issued /\ run[d].token <= issued
                          /\ run[d].cred \in Int /\ run[d].token \in Int
  BY <1>1 DEF Inv, TypeOK, Runs, Tokens, None
<1>10. ASSUME new # None
       PROVE  /\ new \notin spent /\ new # stored /\ new # t
              /\ \A d \in Commands : run[d].cred # new /\ run[d].token # new
  <2>1. new = issued + 1 /\ issued \in Int
    BY <1>2, <1>3, <1>10
  <2>2. new \notin spent
    BY <1>2, <2>1
  <2>3. new # stored
    BY <1>2, <2>1 DEF Tokens, None
  <2>4. \A d \in Commands : run[d].cred # new /\ run[d].token # new
    BY <1>9, <2>1
  <2> QED
    BY <2>2, <2>3, <2>4
<1>11. Fresh'
  <2> SUFFICES ASSUME NEW b \in Commands, run'[b].stage = "put", run'[b].token # None
               PROVE  /\ run'[b].token \notin spent' /\ run'[b].token # stored
                      /\ \A d \in Commands : /\ run'[d].cred # run'[b].token
                                             /\ d # b => run'[d].token # run'[b].token
    BY DEF Fresh
  <2>1. CASE b = c
    <3>1. run'[b].token = new /\ new # None
      BY <1>1, <2>1
    <3>2. new \notin spent'
      BY <1>3, <1>10, <3>1
    <3>3. \A d \in Commands : /\ run'[d].cred # new
                              /\ d # b => run'[d].token # new
      BY <1>1, <1>10, <2>1, <3>1
    <3> QED
      BY <1>10, <3>1, <3>2, <3>3
  <2>2. CASE b # c
    <3>1. run'[b] = run[b]
      BY <1>1, <2>2
    <3>2. /\ run[b].token \notin spent /\ run[b].token # stored
          /\ \A d \in Commands : /\ run[d].cred # run[b].token
                                 /\ d # b => run[d].token # run[b].token
      BY <3>1 DEF Inv, Fresh
    <3>3. run[b].token # t
      BY <2>2, <3>2
    <3>4. run[b].token # new
      BY <1>10, <3>1
    <3>5. run[b].token \notin spent'
      BY <1>3, <3>2, <3>3
    <3> QED
      BY <1>1, <2>2, <3>1, <3>2, <3>4, <3>5
  <2> QED
    BY <2>1, <2>2
<1>12. PutHolds'
  <2> SUFFICES ASSUME NEW b \in Commands, run'[b].stage = "put", run'[b].token = None,
                      "bare" \notin faults'
               PROVE  ~ rotates' /\ run'[b].cred # None
    BY DEF PutHolds
  <2>1. CASE b = c
    BY <1>1, <1>3, <2>1 DEF Tokens, None
  <2>2. CASE b # c
    BY <1>1, <2>2 DEF Inv, PutHolds
  <2> QED
    BY <2>1, <2>2
<1>13. Replaced'
  <2>1. CASE r.stage # "put"
    BY <2>1 DEF Replaced
  <2>2. CASE r.stage = "put"
    <3>1. t = run[c].cred /\ t # None
      BY <1>3, <2>2 DEF Tokens, None
    <3>2. ~ run[c].memory
      BY <3>1 DEF Inv, MemoryEmpty
    <3> QED
      BY <1>1, <2>2, <3>2 DEF Replaced
  <2> QED
    BY <2>1, <2>2
<1> QED
  BY <1>6, <1>7, <1>8, <1>11, <1>12, <1>13

LEMMA RefreshInv ==
  ASSUME Inv, NEW c \in Commands, Refresh(c)
  PROVE  Inv'
<1>1. run[c] \in Runs /\ run[c].stage = "refresh"
  BY DEF Inv, TypeOK, Runs, Refresh
<1>2. UNCHANGED <<rotates, stored, alone>>
  BY DEF Refresh
<1>3. ASSUME NEW new \in Tokens \cup {None}, Trade(run[c].cred, new),
             run' = [run EXCEPT ![c].stage = "put", ![c].token = new], UNCHANGED faults
      PROVE  Inv'
  <2> DEFINE r == [run[c] EXCEPT !.stage = "put", !.token = new]
  <2>1. /\ r \in Runs /\ r.stage = "put" /\ r.cred = run[c].cred
        /\ r.token = new /\ r.memory = run[c].memory
    BY <1>1 DEF Runs, Stages
  <2>2. Becomes(c, r)
    BY <1>3 DEF Becomes
  <2> HIDE DEF r
  <2>3. (TypeOK /\ TakenAgain /\ MemoryEmpty /\ Fresh /\ PutHolds /\ Replaced)'
    BY <1>1, <1>2, <1>3, <2>1, <2>2, TradeStep DEF Inv, TypeOK
  <2>4. AloneOnly' /\ AloneReads'
    BY <1>1, <1>2, <1>3, <2>1, <2>2, AloneStep
  <2> QED
    BY <2>3, <2>4 DEF Inv
<1>4. ASSUME NEW new \in Tokens \cup {None}, Trade(run[c].cred, new),
             Goes(c, "authorize"), Fault("lost")
      PROVE  Inv'
  <2>1. PICK r \in Runs : /\ Becomes(c, r) /\ r.stage = "authorize"
                          /\ r.cred = run[c].cred /\ r.token = run[c].token
                          /\ r.memory = run[c].memory
    BY <1>4, Gone DEF Inv, Stages
  <2>2. faults' = faults \cup {"lost"} /\ faults' \subseteq {"lost", "refused", "bare"}
    BY <1>4 DEF Fault, Inv, TypeOK
  <2>3. (TypeOK /\ TakenAgain /\ MemoryEmpty /\ Fresh /\ PutHolds /\ Replaced)'
    BY <1>1, <1>2, <1>4, <2>1, <2>2, TradeStep
  <2>4. AloneOnly' /\ AloneReads'
    BY <1>1, <1>2, <2>1, <2>2, AloneStep
  <2> QED
    BY <2>3, <2>4 DEF Inv
<1>5. ASSUME Goes(c, "authorize"), UNCHANGED <<issued, spent>>,
             faults' = IF run[c].cred \in spent THEN faults ELSE faults \cup {"refused"}
      PROVE  Inv'
  <2>1. PICK r \in Runs : /\ Becomes(c, r) /\ r.stage = "authorize"
                          /\ r.cred = run[c].cred /\ r.token = run[c].token
                          /\ r.memory = run[c].memory
    BY <1>5, Gone DEF Inv, Stages
  <2>2. faults \subseteq faults' /\ faults' \subseteq {"lost", "refused", "bare"}
    BY <1>5 DEF Inv, TypeOK
  <2>3. (TypeOK /\ TakenAgain /\ MemoryEmpty /\ Fresh /\ PutHolds /\ Replaced)'
    BY <1>1, <1>2, <1>5, <2>1, <2>2, QuietStep DEF Inv, TypeOK, MemoryEmpty
  <2>4. ~ (alone[c] /\ faults' = {})
    BY <1>1, <1>5, <2>2, AloneUnspent
  <2>5. AloneOnly' /\ AloneReads'
    BY <1>1, <1>2, <2>1, <2>2, <2>4, AloneStep
  <2> QED
    BY <2>3, <2>5 DEF Inv
<1> QED
  BY <1>3, <1>4, <1>5 DEF Refresh

LEMMA RenewInv ==
  ASSUME Inv, NEW c \in Commands, Renew(c)
  PROVE  Inv'
<1>1. run[c] \in Runs /\ run[c].stage = "authorized"
  BY DEF Inv, TypeOK, Runs, Renew
<1>2. UNCHANGED <<rotates, stored, alone>> /\ faults' = faults \cup {"lost"}
  BY DEF Renew, Fault
<1>3. PICK new \in Tokens : /\ Trade(run[c].token, new)
                            /\ run' = [run EXCEPT ![c].token = new]
  BY DEF Renew
<1> DEFINE r == [run[c] EXCEPT !.token = new]
<1>4. /\ r \in Runs /\ r.stage = "authorized" /\ r.cred = run[c].cred
      /\ r.token = new /\ r.memory = run[c].memory
  BY <1>1 DEF Runs
<1>5. Becomes(c, r)
  BY <1>3 DEF Becomes
<1> HIDE DEF r
<1>6. faults' \subseteq {"lost", "refused", "bare"}
  BY <1>2 DEF Inv, TypeOK
<1>7. (TypeOK /\ TakenAgain /\ MemoryEmpty /\ Fresh /\ PutHolds /\ Replaced)'
  BY <1>1, <1>2, <1>3, <1>4, <1>5, <1>6, TradeStep
<1>8. AloneOnly' /\ AloneReads'
  BY <1>1, <1>2, <1>4, <1>5, AloneStep
<1> QED
  BY <1>7, <1>8 DEF Inv

\* The issuer gives a first token: it is new, so nobody else has it.
LEMMA PollInv ==
  ASSUME Inv, NEW c \in Commands, Poll(c)
  PROVE  Inv'
<1>1. run[c] \in Runs /\ run[c].stage = "poll"
  BY DEF Inv, TypeOK, Runs, Poll
<1>2. UNCHANGED <<rotates, stored, spent, alone>>
  BY DEF Poll
<1>3. ASSUME NEW new \in Tokens \cup {None}, Given(new),
             run' = [run EXCEPT ![c].stage = "put", ![c].token = new],
             issued' = IF new = None THEN issued ELSE new,
             faults' = IF new = None THEN faults \cup {"bare"} ELSE faults
      PROVE  Inv'
  <2> DEFINE r == [run[c] EXCEPT !.stage = "put", !.token = new]
  <2>1. /\ r \in Runs /\ r.stage = "put" /\ r.cred = run[c].cred
        /\ r.token = new /\ r.memory = run[c].memory
    BY <1>1 DEF Runs, Stages
  <2>2. Becomes(c, r)
    BY <1>3 DEF Becomes
  <2> HIDE DEF r
  <2>3. /\ run'[c] = r
        /\ \A d \in Commands \ {c} : run'[d] = run[d]
        /\ \A d \in Commands : run[d] \in Runs
    BY <2>1, <2>2, Became DEF Inv
  <2>4. issued \in 0..MaxTokens /\ stored \in Tokens \cup {None} /\ stored <= issued
        /\ spent \subseteq 1..issued /\ MaxTokens \in Nat
    BY LoginAssumption DEF Inv, TypeOK
  <2>5. \A d \in Commands : /\ run[d].cred <= issued /\ run[d].token <= issued
                            /\ run[d].cred \in Int /\ run[d].token \in Int
    BY <2>3 DEF Inv, TypeOK, Runs, Tokens, None
  <2>6. faults \subseteq faults' /\ faults' \subseteq {"lost", "refused", "bare"}
    BY <1>3 DEF Inv, TypeOK
  <2>7. new = None \/ new = issued + 1
    BY <1>3 DEF Given
  <2>8. issued' \in issued..MaxTokens /\ new <= issued' /\ run[c].cred <= issued'
        /\ stored <= issued' /\ spent \subseteq 1..issued'
    <3>1. CASE new = None
      BY <1>3, <2>4, <2>5, <3>1 DEF None
    <3>2. CASE new # None
      <4>1. issued' = issued + 1 /\ issued + 1 \in 1..MaxTokens
        BY <1>3, <2>7, <3>2 DEF Tokens
      <4>2. stored \in Int
        BY <2>4 DEF Tokens, None
      <4> QED
        BY <1>3, <2>4, <2>5, <3>2, <4>1, <4>2
    <3> QED
      BY <3>1, <3>2
  <2>9. TypeOK'
    <3>1. r.token <= issued' /\ r.cred <= issued'
      BY <2>1, <2>8
    <3>2. stored' \in Tokens \cup {None} /\ stored' <= issued'
          /\ spent' \subseteq 1..issued' /\ alone' \in [Commands -> BOOLEAN]
      BY <1>2, <2>4, <2>8 DEF Inv, TypeOK
    <3> QED
      BY <1>2, <2>1, <2>2, <2>6, <2>8, <3>1, <3>2, StepTypes DEF Inv
  <2>10. TakenAgain'
    BY <1>2 DEF Inv, TakenAgain
  <2>11. MemoryEmpty'
    BY <2>1, <2>3 DEF Inv, MemoryEmpty
  <2>12. ASSUME new # None
         PROVE  /\ new \notin spent /\ new # stored
                /\ \A d \in Commands : run[d].cred # new /\ run[d].token # new
    <3>1. new = issued + 1
      BY <2>7, <2>12
    <3>2. new \notin spent
      BY <2>4, <3>1
    <3>3. new # stored
      BY <2>4, <3>1 DEF Tokens, None
    <3>4. \A d \in Commands : run[d].cred # new /\ run[d].token # new
      BY <2>4, <2>5, <3>1
    <3> QED
      BY <3>2, <3>3, <3>4
  <2>13. Fresh'
    <3> SUFFICES ASSUME NEW b \in Commands, run'[b].stage = "put", run'[b].token # None
                 PROVE  /\ run'[b].token \notin spent /\ run'[b].token # stored
                        /\ \A d \in Commands : /\ run'[d].cred # run'[b].token
                                               /\ d # b => run'[d].token # run'[b].token
      BY <1>2 DEF Fresh
    <3>1. CASE b = c
      BY <2>1, <2>3, <2>12, <3>1
    <3>2. CASE b # c
      <4>1. run'[b] = run[b]
        BY <2>3, <3>2
      <4>2. /\ run[b].token \notin spent /\ run[b].token # stored
            /\ \A d \in Commands : /\ run[d].cred # run[b].token
                                   /\ d # b => run[d].token # run[b].token
        BY <4>1 DEF Inv, Fresh
      <4>3. run[b].token # new
        BY <2>12, <4>1
      <4> QED
        BY <2>1, <2>3, <4>1, <4>2, <4>3
    <3> QED
      BY <3>1, <3>2
  <2>14. PutHolds'
    <3> SUFFICES ASSUME NEW b \in Commands, run'[b].stage = "put", run'[b].token = None,
                        "bare" \notin faults'
                 PROVE  ~ rotates /\ run'[b].cred # None
      BY <1>2 DEF PutHolds
    <3>1. b # c
      BY <1>3, <2>1, <2>3
    <3> QED
      BY <2>3, <2>6, <3>1 DEF Inv, PutHolds
  <2>15. Replaced'
    <3> SUFFICES ASSUME stored \in spent, faults \cap {"lost", "bare"} = {}
                 PROVE  \E b \in Commands : run'[b].stage = "put" /\ ~ run'[b].memory
      BY <1>2, <2>6 DEF Replaced
    <3>1. PICK b \in Commands : run[b].stage = "put" /\ ~ run[b].memory
      BY DEF Inv, Replaced
    <3> QED
      BY <1>1, <2>3, <3>1
  <2>16. AloneOnly' /\ AloneReads'
    BY <1>1, <1>2, <2>1, <2>2, <2>6, AloneStep
  <2> QED
    BY <2>9, <2>10, <2>11, <2>13, <2>14, <2>15, <2>16 DEF Inv
<1>4. ASSUME Goes(c, "default"), UNCHANGED <<issued, faults>>
      PROVE  Inv'
  <2>1. PICK r \in Runs : /\ Becomes(c, r) /\ r.stage = "default"
                          /\ r.cred = run[c].cred /\ r.token = run[c].token
                          /\ r.memory = run[c].memory
    BY <1>4, Gone DEF Inv, Stages
  <2>2. (TypeOK /\ TakenAgain /\ MemoryEmpty /\ Fresh /\ PutHolds /\ Replaced)'
    BY <1>1, <1>2, <1>4, <2>1, QuietStep DEF Inv, TypeOK, MemoryEmpty
  <2>3. AloneOnly' /\ AloneReads'
    BY <1>1, <1>2, <1>4, <2>1, AloneStep
  <2> QED
    BY <2>2, <2>3 DEF Inv
<1> QED
  BY <1>3, <1>4 DEF Poll

\* Storing a token: what a command got is spent by nobody, and what it kept the
\* issuer takes again.
LEMMA PutInv ==
  ASSUME Inv, NEW c \in Commands, Put(c)
  PROVE  /\ Inv'
         /\ stored # None /\ "bare" \notin faults => stored' # None
<1>1. PICK r \in Runs : /\ Becomes(c, r) /\ r.stage = "authorized"
                        /\ r.cred = run[c].cred /\ r.token = run[c].token
                        /\ r.memory = run[c].memory
  BY Gone DEF Inv, Stages, Put
<1>2. UNCHANGED <<rotates, issued, spent, alone>> /\ run[c].stage = "put"
  BY DEF Put
<1>3. CASE Fault("lost") /\ UNCHANGED stored
  <2>1. faults' = faults \cup {"lost"} /\ faults' \subseteq {"lost", "refused", "bare"}
    BY <1>3 DEF Fault, Inv, TypeOK
  <2>2. (TypeOK /\ TakenAgain /\ MemoryEmpty /\ Fresh /\ PutHolds /\ Replaced)'
    BY <1>1, <1>2, <1>3, <2>1, QuietStep DEF Inv, TypeOK, MemoryEmpty
  <2>3. AloneOnly' /\ AloneReads'
    BY <1>1, <1>2, <2>1, AloneStep
  <2> QED
    BY <1>3, <2>2, <2>3 DEF Inv
<1>4. CASE /\ stored' = IF run[c].memory THEN stored
                        ELSE Kept(run[c].cred, run[c].token)
           /\ UNCHANGED faults
  <2>1. /\ run'[c] = r
        /\ \A d \in Commands \ {c} : run'[d] = run[d]
        /\ \A d \in Commands : run[d] \in Runs
    BY <1>1, Became DEF Inv
  <2>2. Kept(run[c].cred, run[c].token) \in {run[c].cred, run[c].token}
    BY DEF Kept
  <2>3. stored' \in {stored, run[c].cred, run[c].token}
    BY <1>4, <2>2
  <2>4. stored' \in Tokens \cup {None} /\ stored' <= issued
    BY <2>1, <2>3 DEF Inv, TypeOK, Runs
  <2>5. TypeOK'
    <3>1. issued' \in issued..MaxTokens /\ issued' = issued
      BY <1>2, LoginAssumption DEF Inv, TypeOK
    <3>2. r.cred <= issued' /\ r.token <= issued' /\ spent' \subseteq 1..issued'
          /\ alone' \in [Commands -> BOOLEAN] /\ faults' \subseteq {"lost", "refused", "bare"}
      BY <1>1, <1>2, <1>4 DEF Inv, TypeOK
    <3> QED
      BY <1>1, <1>2, <2>4, <3>1, <3>2, StepTypes DEF Inv
  <2>6. TakenAgain'
    BY <1>2 DEF Inv, TakenAgain
  <2>7. MemoryEmpty'
    BY <1>1, <2>1 DEF Inv, MemoryEmpty
  <2>8. Fresh'
    <3> SUFFICES ASSUME NEW b \in Commands, run'[b].stage = "put", run'[b].token # None
                 PROVE  /\ run'[b].token \notin spent /\ run'[b].token # stored'
                        /\ \A d \in Commands : /\ run'[d].cred # run'[b].token
                                               /\ d # b => run'[d].token # run'[b].token
      BY <1>2 DEF Fresh
    <3>1. b # c /\ run'[b] = run[b]
      BY <1>1, <2>1
    <3>2. /\ run[b].token \notin spent /\ run[b].token # stored
          /\ \A d \in Commands : /\ run[d].cred # run[b].token
                                 /\ d # b => run[d].token # run[b].token
      BY <3>1 DEF Inv, Fresh
    <3> QED
      BY <1>1, <2>1, <2>3, <3>1, <3>2
  <2>9. PutHolds'
    <3> SUFFICES ASSUME NEW b \in Commands, run'[b].stage = "put", run'[b].token = None,
                        "bare" \notin faults
                 PROVE  ~ rotates /\ run'[b].cred # None
      BY <1>2, <1>4 DEF PutHolds
    <3>1. b # c /\ run'[b] = run[b]
      BY <1>1, <2>1
    <3> QED
      BY <3>1 DEF Inv, PutHolds
  <2>10. ASSUME ~ run[c].memory, "bare" \notin faults
         PROVE  stored' # None /\ stored' \notin spent
    <3>1. stored' = Kept(run[c].cred, run[c].token)
      BY <1>4, <2>10
    <3>2. CASE run[c].token = None
      <4>1. ~ rotates /\ run[c].cred # None /\ stored' = run[c].cred
        BY <1>2, <2>10, <3>1, <3>2 DEF Inv, PutHolds, Kept
      <4> QED
        BY <4>1 DEF Inv, TakenAgain
    <3>3. CASE run[c].token # None
      BY <1>2, <3>1, <3>3 DEF Inv, Fresh, Kept
    <3> QED
      BY <3>2, <3>3
  <2>11. Replaced'
    <3> SUFFICES ASSUME stored' \in spent, faults \cap {"lost", "bare"} = {}
                 PROVE  \E b \in Commands : run'[b].stage = "put" /\ ~ run'[b].memory
      BY <1>2, <1>4 DEF Replaced
    <3>1. run[c].memory /\ stored' = stored
      BY <1>4, <2>10
    <3>2. PICK b \in Commands : run[b].stage = "put" /\ ~ run[b].memory
      BY <3>1 DEF Inv, Replaced
    <3>3. b # c
      BY <3>1, <3>2
    <3> QED
      BY <2>1, <3>2, <3>3
  <2>12. AloneOnly' /\ AloneReads'
    BY <1>1, <1>2, <1>4, AloneStep
  <2>13. stored # None /\ "bare" \notin faults => stored' # None
    BY <1>4, <2>10
  <2> QED
    BY <2>5, <2>6, <2>7, <2>8, <2>9, <2>11, <2>12, <2>13 DEF Inv
<1> QED
  BY <1>3, <1>4 DEF Put

LEMMA InitInv == Init => Inv
<1> SUFFICES ASSUME Init PROVE Inv
  OBVIOUS
<1>1. /\ run \in [Commands -> Runs]
      /\ \A c \in Commands : /\ run[c].stage = "idle" /\ run[c].cred = 0
                             /\ run[c].token = 0 /\ ~ run[c].memory
      /\ stored = 0 /\ rotates \in BOOLEAN /\ issued = 0 /\ spent = {} /\ faults = {}
      /\ alone \in [Commands -> BOOLEAN]
  BY DEF Init, Runs, Stages, None
<1>2. TypeOK
  BY <1>1, LoginAssumption DEF TypeOK, Runs, None
<1> QED
  BY <1>1, <1>2 DEF Inv, TakenAgain, MemoryEmpty, Fresh, PutHolds, Replaced,
                    AloneOnly, AloneReads

LEMMA NextInv == Inv /\ [Next]_vars => Inv'
<1> SUFFICES ASSUME Inv, [Next]_vars PROVE Inv'
  OBVIOUS
<1>1. ASSUME NEW c \in Commands, NEW configured \in BOOLEAN, NEW memory \in BOOLEAN,
             Begin(c, configured, memory)
      PROVE  Inv'
  BY <1>1, BeginInv
<1>2. ASSUME NEW c \in Commands, Proceed(c) PROVE Inv'
  BY <1>2, DiscoverInv, GetInv, RefreshInv, AuthorizeInv, PollInv, PutInv DEF Proceed
<1>3. ASSUME NEW c \in Commands, Renew(c) \/ Finish(c) \/ Kill(c) PROVE Inv'
  BY <1>3, RenewInv, EndInv
<1>4. CASE UNCHANGED vars
  BY <1>4 DEF vars, Inv, TypeOK, TakenAgain, MemoryEmpty, Fresh, PutHolds, Replaced,
              AloneOnly, AloneReads
<1> QED
  BY <1>1, <1>2, <1>3, <1>4 DEF Next

LEMMA InvHolds == Spec => []Inv
BY InitInv, NextInv, PTL DEF Spec

-----------------------------------------------------------------------------
(* Theorems *)

\* The states of the commands, the store and the issuer keep their types.
THEOREM TypeCorrect == Spec => []TypeOK
<1>1. Inv => TypeOK
  BY DEF Inv
<1> QED
  BY <1>1, InvHolds, PTL

\* When no command is under way the token in the store is not one that was traded
\* in, for any number of commands that overlapped: whoever trades the stored token
\* is about to store the next one (Replaced), which nobody else can have (Fresh).
THEOREM StoreUsable == Spec => []StoredUnspent
<1>1. Inv => StoredUnspent
  BY DEF Inv, StoredUnspent, Replaced
<1> QED
  BY <1>1, InvHolds, PTL

\* A command that runs by itself does not ask the user to authorize the device
\* once a token is stored.
THEOREM NotAskedAgain == Spec => []AskedOnce
<1>1. Inv => AskedOnce
  BY DEF Inv, AskedOnce, AloneReads
<1> QED
  BY <1>1, InvHolds, PTL

\* No command empties the store: it writes the token it got, or the one it had.
THEOREM TokenKept == Spec => NeverForgotten
<1>1. Inv /\ [Next]_vars =>
        [stored # None /\ "bare" \notin faults => stored' # None]_stored
  <2> SUFFICES ASSUME Inv, [Next]_vars, stored' # stored,
                      stored # None, "bare" \notin faults
               PROVE  stored' # None
    OBVIOUS
  <2>1. PICK c \in Commands : Put(c)
    BY DEF Next, vars, Begin, Proceed, Discover, Get, Refresh, Authorize, Poll,
           Renew, Finish, Kill
  <2> QED
    BY <2>1, PutInv
<1> QED
  BY <1>1, InvHolds, PTL DEF Spec, NeverForgotten

=============================================================================
