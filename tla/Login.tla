--------------------------------- MODULE Login ---------------------------------
(***************************************************************************)
(* How the upload and download commands get an authorized HTTP client      *)
(* (authClientOrDefault, pkg/oauth2/device).  A command reads the refresh  *)
(* token that an earlier one left in Docker's credential store, trades it  *)
(* for new tokens, or has the user authorize the device, and stores what   *)
(* it got.  Commands run side by side over one store, and the issuer may   *)
(* rotate: a token that was traded in is spent.                            *)
(***************************************************************************)
EXTENDS Integers, FiniteSets

CONSTANTS
  Commands,    \* invocations of the program
  MaxTokens    \* bound: the refresh tokens issued

ASSUME LoginAssumption == MaxTokens \in Nat

Tokens == 1..MaxTokens
None == 0

VARIABLES
  run,      \* of each command its stage, the token it read, the token it got
  stored,   \* the refresh token in the credential store, or None
  rotates,  \* does the issuer give a new refresh token for each it takes?
  issued,   \* how many refresh tokens there are
  spent,    \* those the issuer does not take any more
  faults,   \* observed: what went wrong so far, "lost" a token that is not stored,
            \* "refused" one that could not be read or traded, "bare" a device
            \* authorized without one
  alone     \* observed: has a command run by itself since it began?

vars == <<run, stored, rotates, issued, spent, faults, alone>>

Stages == {"idle", "discover", "get", "refresh", "authorize", "poll", "put",
           "authorized", "default"}

\* A refresh token that the issuer gives with an answer: a new one, or none
\* when it says nothing of it.
Given(t) == t = None \/ (t = issued + 1 /\ t \in Tokens)

Goes(c, s) == run' = [run EXCEPT ![c].stage = s]

Fault(f) == faults' = faults \cup {f}

Init ==
  /\ run = [c \in Commands |-> [stage |-> "idle", cred |-> None, token |-> None,
                                memory |-> FALSE]]
  /\ stored = None
  /\ rotates \in BOOLEAN
  /\ issued = 0
  /\ spent = {}
  /\ faults = {}
  /\ alone = [c \in Commands |-> TRUE]

\* A command for a location without an issuer, or with one that is no URL, uses
\* the default client.  When there is no Docker configuration, the credentials
\* are kept in memory.
Begin(c, configured, memory) ==
  /\ run[c].stage = "idle"
  /\ run' = [run EXCEPT ![c] = [stage |-> IF configured THEN "discover" ELSE "default",
                                cred |-> None, token |-> None, memory |-> memory]]
  /\ alone' = [o \in Commands |->
                 IF o = c THEN \A x \in Commands : run[x].stage = "idle" ELSE FALSE]
  /\ UNCHANGED <<rotates, stored, issued, spent, faults>>

\* The issuer's configuration is fetched, or the login fails.
Discover(c) ==
  /\ run[c].stage = "discover"
  /\ Goes(c, "get") \/ Goes(c, "default")
  /\ UNCHANGED <<rotates, stored, issued, spent, faults, alone>>

\* Faulty Get: the credentials are taken from the issuer's, not the given, store.
GetNothing(c) ==
  /\ run[c].stage = "get"
  /\ Goes(c, "authorize")
  /\ UNCHANGED <<rotates, stored, issued, spent, faults, alone>>

\* The store is read; one that cannot be read counts as empty.
Get(c) ==
  /\ run[c].stage = "get"
  /\ \E t \in {stored, None} :
       /\ run[c].memory => t = None
       /\ run' = [run EXCEPT ![c].cred = t,
                    ![c].stage = IF t = None THEN "authorize" ELSE "refresh"]
       /\ faults' = IF t = stored \/ run[c].memory THEN faults
                                                    ELSE faults \cup {"refused"}
  /\ UNCHANGED <<rotates, stored, issued, spent, alone>>

\* The issuer takes the token t, and when it rotates it gives another for it.
Trade(t, new) ==
  /\ t \in Tokens \ spent
  /\ Given(new)
  /\ rotates <=> new # None
  /\ issued' = IF new = None THEN issued ELSE new
  /\ spent' = IF rotates THEN spent \cup {t} ELSE spent

\* The refresh succeeds; or fails, or its answer is lost, and the device is to be
\* authorized.
Refresh(c) ==
  /\ run[c].stage = "refresh"
  /\ \/ \E new \in Tokens \cup {None} :
          /\ Trade(run[c].cred, new)
          /\ \/ /\ run' = [run EXCEPT ![c].stage = "put", ![c].token = new]
                /\ UNCHANGED faults
             \/ Goes(c, "authorize") /\ Fault("lost")
     \/ /\ Goes(c, "authorize")
        /\ faults' = IF run[c].cred \in spent THEN faults ELSE faults \cup {"refused"}
        /\ UNCHANGED <<issued, spent>>
  /\ UNCHANGED <<rotates, stored, alone>>

\* The user is shown where to authorize the device.
Authorize(c) ==
  /\ run[c].stage = "authorize"
  /\ Goes(c, "poll") \/ Goes(c, "default")
  /\ UNCHANGED <<rotates, stored, issued, spent, faults, alone>>

\* The issuer is polled until the user has authorized the device, or the code
\* expires.
Poll(c) ==
  /\ run[c].stage = "poll"
  /\ \/ \E new \in Tokens \cup {None} :
          /\ Given(new)
          /\ run' = [run EXCEPT ![c].stage = "put", ![c].token = new]
          /\ issued' = IF new = None THEN issued ELSE new
          /\ faults' = IF new = None THEN faults \cup {"bare"} ELSE faults
     \/ Goes(c, "default") /\ UNCHANGED <<issued, faults>>
  /\ UNCHANGED <<rotates, stored, spent, alone>>

\* Faulty Kept: what the issuer said, or did not say.
KeptAsGiven(cred, token) == token

\* The refresh token to store: the one read when the issuer gave no other.
Kept(cred, token) == IF token = None THEN cred ELSE token

\* Faulty Put: only a token from the device flow is stored.
PutFirst(c) ==
  /\ run[c].stage = "put"
  /\ Goes(c, "authorized")
  /\ stored' = IF run[c].cred = None THEN Kept(run[c].cred, run[c].token) ELSE stored
  /\ UNCHANGED <<rotates, issued, spent, faults, alone>>

\* The tokens are stored.  A failure is logged, and the client used all the same.
Put(c) ==
  /\ run[c].stage = "put"
  /\ Goes(c, "authorized")
  /\ \/ /\ stored' = IF run[c].memory THEN stored
                     ELSE Kept(run[c].cred, run[c].token)
        /\ UNCHANGED faults
     \/ Fault("lost") /\ UNCHANGED stored
  /\ UNCHANGED <<rotates, issued, spent, alone>>

\* While requests are sent the access token expires: the token source trades the
\* refresh token that it holds, and stores nothing.
Renew(c) ==
  /\ run[c].stage = "authorized"
  /\ \E new \in Tokens : 
       /\ Trade(run[c].token, new)
       /\ run' = [run EXCEPT ![c].token = new]
  /\ Fault("lost")
  /\ UNCHANGED <<rotates, stored, alone>>

\* The command ends.
Finish(c) ==
  /\ run[c].stage \in {"authorized", "default"}
  /\ run' = [run EXCEPT ![c] = [stage |-> "idle", cred |-> None, token |-> None,
                                memory |-> FALSE]]
  /\ UNCHANGED <<rotates, stored, issued, spent, faults, alone>>

\* It is interrupted.
Kill(c) ==
  /\ run[c].stage \notin {"idle", "authorized", "default"}
  /\ run' = [run EXCEPT ![c] = [stage |-> "idle", cred |-> None, token |-> None,
                                memory |-> FALSE]]
  /\ Fault("lost")
  /\ UNCHANGED <<rotates, stored, issued, spent, alone>>

Proceed(c) ==
  Discover(c) \/ Get(c) \/ Refresh(c) \/ Authorize(c) \/ Poll(c) \/ Put(c)

Next ==
  \E c \in Commands :
    \/ \E configured, memory \in BOOLEAN : Begin(c, configured, memory)
    \/ Proceed(c) \/ Renew(c) \/ Finish(c) \/ Kill(c)

Spec == Init /\ [][Next]_vars

-----------------------------------------------------------------------------
(* Properties *)

TypeOK ==
  /\ run \in [Commands -> [stage : Stages, cred : Tokens \cup {None},
                           token : Tokens \cup {None}, memory : BOOLEAN]]
  /\ stored \in Tokens \cup {None}
  /\ rotates \in BOOLEAN
  /\ issued \in 0..MaxTokens
  /\ spent \subseteq 1..issued
  /\ \A c \in Commands : run[c].cred <= issued /\ run[c].token <= issued
  /\ stored <= issued
  /\ alone \in [Commands -> BOOLEAN]
  /\ faults \subseteq {"lost", "refused", "bare"}

\* Commands never lose the refresh token that is stored, though each writes what
\* it got over what the others left: unless a device was authorized without one.
NeverForgotten ==
  [][stored # None /\ "bare" \notin faults => stored' # None]_stored

\* When no command is under way, the store does not hold a token that was traded
\* in, however the commands overlapped: unless one was killed, an answer was
\* lost, a store failed, a token was renewed behind the store's back, or a device
\* was authorized without a refresh token.
StoredUnspent ==
  /\ \A c \in Commands : run[c].stage \in {"idle", "authorized", "default"}
  /\ faults \cap {"lost", "bare"} = {}
  => stored \notin spent

\* Once a token is stored, a command that runs by itself does not trouble the user
\* again, unless something went wrong before.
AskedOnce ==
  \A c \in Commands :
    run[c].stage = "poll" /\ ~ run[c].memory /\ alone[c] /\ faults = {}
    => stored = None

=============================================================================
