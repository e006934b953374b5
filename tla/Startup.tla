------------------------------- MODULE Startup -------------------------------
(***************************************************************************)
(* Starting, stopping and upgrading the server: MigrateDB brings the rows  *)
(* of older processor versions up to date before the replica serves.       *)
(*                                                                         *)
(* A worker is now a replica that handles one request at a time.  Until it *)
(* serves, its goroutine runs Reprocess, which calls the very processors   *)
(* that handle uploads, so Ingest's actions are used for both.  A replica  *)
(* may be killed between any two statements and be started again as        *)
(* another release; releases run side by side during a rolling update.     *)
(* A release raises the version of all processors at once.                 *)
(***************************************************************************)
EXTENDS Ingest

VARIABLES
  phase,     \* what each replica is doing
  version,   \* the release it runs
  progress   \* how many processors MigrateDB is done with

replica == <<phase, version, progress>>

svars == <<data, digests, table, request, phase, version, progress>>

Phases == {"down", "migrating", "serving"}

\* The order in which MigrateDB goes through the processors.
Processors == <<"blob", "bottle", "manifest", "event", "signature">>

\* The table that replica w is working on.
Current(w) == Processors[progress[w] + 1]

\* The rows that Reprocess has still to do.
Outdated(t, v) == {i \in DOMAIN table[t] : table[t][i].version < v}

\* A release is started.
Start(w) ==
  /\ phase[w] = "down"
  /\ \E v \in Versions : version' = [version EXCEPT ![w] = v]
  /\ phase' = [phase EXCEPT ![w] = "migrating"]
  /\ progress' = [progress EXCEPT ![w] = 0]
  /\ UNCHANGED vars

\* The processor's version is put into the object before it is processed.
Reprocessing(w, i, v) ==
  LET t == Current(w)
      c == table[t][i].data
  IN [stage |-> "decode", type |-> t, content |-> c,
      digest |-> DigestOf(c, CanonicalAlg), version |-> v, base |-> i,
      todo |-> {}, missing |-> {}, artifacts |-> {}, manifest |-> 0,
      bottle |-> 0, sig |-> 1, status |-> 0]

\* Faulty Take: the object keeps the version it has.
TakeKeepingVersion(w) ==
  /\ phase[w] = "migrating"
  /\ request[w].stage = "idle"
  /\ progress[w] < Len(Processors)
  /\ \E i \in Outdated(Current(w), version[w]) :
       Goes(w, Reprocessing(w, i, table[Current(w)][i].version))
  /\ UNCHANGED replica

\* Reprocess takes any row that is out of date.
Take(w) ==
  /\ phase[w] = "migrating"
  /\ request[w].stage = "idle"
  /\ progress[w] < Len(Processors)
  /\ \E i \in Outdated(Current(w), version[w]) :
       Goes(w, Reprocessing(w, i, version[w]))
  /\ UNCHANGED replica

\* The next row, or a start that fails because a row does not go through.
Reprocessed(w) ==
  /\ phase[w] = "migrating"
  /\ request[w].stage = "done"
  /\ phase' = [phase EXCEPT ![w] =
                 IF request[w].status = 201 THEN @ ELSE "down"]
  /\ Goes(w, Idle)
  /\ UNCHANGED <<version, progress>>

\* Faulty NextTable: one processor is forgotten.
NextTableShort(w) ==
  /\ phase[w] = "migrating"
  /\ request[w].stage = "idle"
  /\ progress[w] < Len(Processors)
  /\ Outdated(Current(w), version[w]) = {}
  /\ progress' = [progress EXCEPT ![w] = @ + 1]
  /\ phase' = [phase EXCEPT ![w] =
                 IF progress'[w] = Len(Processors) - 1 THEN "serving" ELSE @]
  /\ UNCHANGED <<vars, version>>

\* Reprocess finds no row any more; after the last processor the replica opens
\* its port.
NextTable(w) ==
  /\ phase[w] = "migrating"
  /\ request[w].stage = "idle"
  /\ progress[w] < Len(Processors)
  /\ Outdated(Current(w), version[w]) = {}
  /\ progress' = [progress EXCEPT ![w] = @ + 1]
  /\ phase' = [phase EXCEPT ![w] =
                 IF progress'[w] = Len(Processors) THEN "serving" ELSE @]
  /\ UNCHANGED <<vars, version>>

\* An upload reaches a replica that serves.
Accept(w) ==
  /\ phase[w] = "serving"
  /\ Receive(w)
  /\ request'[w].version = version[w]
  /\ UNCHANGED replica

\* A statement of the processor that runs, for an upload or for a row.
Statement(w) ==
  /\ phase[w] = "migrating" => request[w].stage # "done"
  /\ Step(w)
  /\ UNCHANGED replica

\* A statement fails.
StatementFails(w) ==
  /\ Fail(w)
  /\ UNCHANGED replica

\* The replica is killed; what it wrote stays.
Crash(w) ==
  /\ phase[w] # "down"
  /\ phase' = [phase EXCEPT ![w] = "down"]
  /\ Goes(w, Idle)
  /\ UNCHANGED <<version, progress>>

\* What MigrateDB does by itself.
Migrates(w) ==
  /\ phase[w] = "migrating"
  /\ Take(w) \/ Reprocessed(w) \/ NextTable(w) \/ Statement(w)

SInit ==
  /\ Init
  /\ phase = [w \in Workers |-> "down"]
  /\ version \in [Workers -> Versions]
  /\ progress = [w \in Workers |-> 0]

SNext ==
  \E w \in Workers :
    \/ Start(w)     \/ Take(w)      \/ Reprocessed(w)
    \/ NextTable(w) \/ Accept(w)    \/ Statement(w)
    \/ StatementFails(w)            \/ Crash(w)

SSpec == SInit /\ [][SNext]_svars

\* MigrateDB and the handlers are run; nothing makes a replica start, stop or
\* be asked.
FairSSpec ==
  SSpec /\ \A w \in Workers : WF_svars(Migrates(w)) /\ WF_svars(Statement(w))

-----------------------------------------------------------------------------
(* Properties *)

\* Replicas, and the handlers and tables they work on, have their types.
STypeOK ==
  /\ TypeOK
  /\ phase \in [Workers -> Phases]
  /\ version \in [Workers -> Versions]
  /\ progress \in [Workers -> 0 .. Len(Processors)]

\* A start never fails because of what the uploads before it left behind,
\* abandoned ones included: the references of every row still resolve, so the
\* processor that accepted it accepts it again.  The exception is a signature
\* summary of which an entry was saved before one that does not verify.
NothingBlocksStart ==
  \A w \in Workers :
    LET r == request[w] IN
    phase[w] = "migrating" /\ r.stage = "done" /\ r.status \notin {201, 500} =>
      /\ r.type = "signature" /\ r.status = 400
      /\ \E k \in DOMAIN Doc[r.content].sigs : ~ Doc[r.content].sigs[k]

\* A replica that has the database to itself serves no row that an older
\* processor wrote, wherever earlier starts were interrupted.
CurrentWhenServing ==
  \A w \in Workers :
    phase[w] = "serving" =>
      \A t \in Types : Outdated(t, version[w]) = {}

\* The port is opened, or the start fails, in the end.
StartFinishes ==
  \A w \in Workers : phase[w] = "migrating" ~> phase[w] # "migrating"

=============================================================================
