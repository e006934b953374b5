-------------------------------- MODULE Mirror --------------------------------
(***************************************************************************)
(* Copying a catalogue: "telemetry client download --all" fetches every    *)
(* object of a source server into a directory, page by page and type by    *)
(* type, while clients keep uploading to the source; "telemetry client     *)
(* upload --all" then puts the files on a target server.                   *)
(*                                                                         *)
(* The directory keeps for each type index.csv, to which downloads append  *)
(* one record per object (its file and the algorithms of its digests), and *)
(* index.latest, the creation time up to which the type has been fetched.  *)
(* A download that stops halfway leaves both as they are, index.csv with   *)
(* half a line perhaps: it is written through a buffer.  The buffer is     *)
(* flushed once a page, and nobody asks whether that failed.               *)
(*                                                                         *)
(* Both servers behave as Catalog says.  An object is entered in the table *)
(* of its own type, and its creation time is the clock of whichever        *)
(* replica enters it, read before the row is committed: entries need not   *)
(* become visible in the order of their times, and times may be equal.     *)
(***************************************************************************)
EXTENDS Documents, FiniteSets

CONSTANTS
  Stock,     \* what the source holds to begin with: contents to their times
  StockNames,\* the digests on record then, some of them of nothing yet
  Offered,   \* the digests under which clients upload to the source
  Batch,     \* --batch-size
  MaxTime,   \* bound: creation times are 1..MaxTime
  Stamps,    \* bound: of them, those at which each content may be entered
  MaxRuns,   \* bound: downloads into the directory before it is uploaded
  MaxFaults  \* bound: flushes that fail and lines that are cut off

\* A summary of signatures is on record as soon as its first entry is saved.
Begins(c) ==
  Doc[c].type = "signature" => Doc[c].sigs # <<>> /\ Doc[c].sigs[1]

\* An entry that does not verify ends the request with a 400.
Verifies(c) == \A k \in DOMAIN Doc[c].sigs : Doc[c].sigs[k]

\* Does the digest d lead to an object of type t in the stock?
Stocked(t, d) == d \in StockNames /\ d[1] \in DOMAIN Stock /\ Doc[d[1]].type = t

\* The stock is closed under references.
StockClosed ==
  \A c \in DOMAIN Stock :
    /\ \E a \in Algs : DigestOf(c, a) \in StockNames
    /\ Doc[c].type = "bottle" => Doc[c].artifacts \subseteq StockNames
    /\ Doc[c].type \in HasSubject =>
         Stocked(SubjectType(Doc[c].type), Doc[c].subject)
    /\ Doc[c].type = "manifest" => Doc[c].parts = Doc[Doc[c].subject[1]].parts
    /\ Doc[c].type = "signature" => Stocked("bottle", Doc[c].bottle)
    /\ Begins(c)

ASSUME MirrorAssumption ==
  /\ DOMAIN Stock \subseteq Contents
  /\ \A c \in DOMAIN Stock : Stock[c] \in 1..MaxTime
  /\ StockNames \subseteq Digest
  /\ StockClosed
  /\ Offered \subseteq Digest
  /\ Batch \in Nat \ {0}
  /\ MaxTime \in Nat
  /\ Stamps \in [Contents -> SUBSET (1..MaxTime)]
  /\ MaxRuns \in Nat
  /\ MaxFaults \in Nat

VARIABLES
  created,   \* source: when each content was entered, 0 when it was not
  names,     \* source: the digests on record
  csv,       \* directory: records of index.csv, contents with algorithms
  torn,      \* directory: types whose index.csv holds a part of a line
  opened,    \* directory: types whose index.csv exists
  latest,    \* directory: index.latest of each type, 0 when there is none
  download,  \* the download that runs
  upload,    \* the upload that runs
  target,    \* the target server: its digests and its objects
  history    \* observed, never read by the programs

source == <<created, names>>
directory == <<csv, torn, opened, latest>>
vars == <<source, directory, download, upload, target, history>>

Order == <<"blob", "bottle", "manifest", "event", "signature">>

Visible == {c \in Contents : created[c] > 0}
OfType(t) == {c \in Contents : Doc[c].type = t}

Source == INSTANCE Catalog
            WITH known <- {d[1] : d \in names}, names <- names,
                 recorded <- {<<Doc[c].type, c>> : c \in Visible}

\* What the target would answer once the digest d is on record there.
Target(d) == INSTANCE Catalog
            WITH known <- Contents, names <- target.names \cup {d},
                 recorded <- target.recorded

Idle == [stage |-> "idle", at |-> 0, incremental |-> FALSE, cursor |-> 0,
         page |-> {}, short |-> FALSE, broken |-> FALSE]
NoUpload == [active |-> FALSE, todo |-> {}, skip |-> FALSE]

\* Are the bytes of every artifact of the bottle c stored as a blob?  The
\* processor of bottles asks for their digests only, which an upload that came
\* to nothing and objects of any type leave as well.
ArtifactsEntered(c) ==
  Doc[c].type = "bottle" =>
    \A d \in Doc[c].artifacts : d[1] \in Visible /\ Doc[d[1]].type = "blob"

\* The source has its stock, directory and target are empty.
\* history.result says how the last download ended; history.watched are the
\* digests under which the source had an object when it began; history.lost are
\* the objects whose records it lost; history.missed those that were lost by any
\* download, or became visible with a time the downloads had passed already;
\* history.loose the bottles one of whose artifacts was not there as a blob but
\* only as a digest, of nothing yet or of an object of another type;
\* history.refused and history.uploaded tell what the last upload met.
Init ==
  /\ created = [c \in Contents |-> IF c \in DOMAIN Stock THEN Stock[c] ELSE 0]
  /\ names = StockNames
  /\ csv = {}
  /\ torn = {}
  /\ opened = {}
  /\ latest = [t \in Types |-> 0]
  /\ download = Idle
  /\ upload = NoUpload
  /\ target = [names |-> {}, recorded |-> {}]
  /\ history = [runs |-> 0, faults |-> 0, result |-> "none", watched |-> {},
                lost |-> {}, missed |-> {},
                loose |-> {c \in DOMAIN Stock : ~ArtifactsEntered(c)},
                refused |-> {}, uploaded |-> FALSE]

-----------------------------------------------------------------------------
(* The source *)

\* An upload leaves a digest of some bytes.
Name(d) ==
  /\ d \notin names
  /\ names' = names \cup {d}
  /\ UNCHANGED <<created, directory, download, upload, target, history>>

\* Have the downloads asked already for what was created up to the time now?
Passed(t, now) ==
  \/ now <= latest[t]
  \/ /\ download.stage = "save"
     /\ Order[download.at] = t
     /\ \/ now <= download.cursor
        \/ \E r \in download.page : now <= created[r[1]]
  \/ /\ download.stage = "list"
     /\ Order[download.at] = t
     /\ now <= download.cursor

\* An object becomes visible, its references being there.
Enter(c, now) ==
  /\ created[c] = 0
  /\ now \in Stamps[c]
  /\ \E a \in Algs : DigestOf(c, a) \in names
  /\ Source!Satisfied(Doc[c].type, c)
  /\ Begins(c)
  /\ created' = [created EXCEPT ![c] = now]
  /\ history' = [history EXCEPT
       !.missed = IF Passed(Doc[c].type, now) THEN @ \cup {c} ELSE @,
       !.loose = IF ArtifactsEntered(c) THEN @ ELSE @ \cup {c}]
  /\ UNCHANGED <<names, directory, download, upload, target>>

-----------------------------------------------------------------------------
(* DownloadAll *)

\* Open index.csv of the type at place n for appending and choose where to
\* start.  Nothing else sees the steps from here to the list request.
Open(n, incremental) ==
  /\ opened' = opened \cup {Order[n]}
  /\ download' = [Idle EXCEPT
       !.stage = "list", !.at = n, !.incremental = incremental,
       !.cursor = IF incremental THEN latest[Order[n]] ELSE 0]

\* The command starts, from the times in index.latest or from the beginning.
BeginDownload(incremental) ==
  /\ download.stage = "idle"
  /\ ~upload.active
  /\ history.runs < MaxRuns
  /\ Open(Len(Order), incremental)
  /\ history' = [history EXCEPT
       !.runs = @ + 1, !.result = "none", !.lost = {},
       !.watched = {d \in names : d[1] \in Visible},
       !.uploaded = FALSE, !.refused = {}]
  /\ UNCHANGED <<source, csv, torn, latest, upload, target>>

\* The possible answers to a list request: the oldest Batch objects that were
\* created after the time since.  Objects of the same time come in any order.
Pages(t, since) ==
  LET Rows == {c \in OfType(t) : created[c] > since}
  IN {P \in SUBSET Rows :
        /\ IF Cardinality(Rows) < Batch THEN P = Rows
                                        ELSE Cardinality(P) = Batch
        /\ \A c \in P, e \in Rows \ P : created[c] <= created[e]}

\* Faulty AlgsOf: the canonical digest is always there.
AlgsOfCanonical(c) == {CanonicalAlg}

\* The algorithms of the digests an object has.
AlgsOf(c) == {a \in Algs : DigestOf(c, a) \in names}

\* Faulty List: index.latest is written before the records of the page.
ListEager ==
  /\ download.stage = "list"
  /\ \E P \in Pages(Order[download.at], download.cursor) :
       /\ download' = [download EXCEPT !.stage = "save",
                                       !.page = {<<c, AlgsOf(c)>> : c \in P},
                                       !.short = Cardinality(P) < Batch]
       /\ latest' = [latest EXCEPT ![Order[download.at]] =
            CHOOSE n \in {@} \cup {created[c] : c \in P} :
              \A c \in P : created[c] <= n]
  /\ UNCHANGED <<source, csv, torn, opened, upload, target, history>>

\* The next page is requested.
List ==
  /\ download.stage = "list"
  /\ \E P \in Pages(Order[download.at], download.cursor) :
       download' = [download EXCEPT !.stage = "save",
                                    !.page = {<<c, AlgsOf(c)>> : c \in P},
                                    !.short = Cardinality(P) < Batch]
  /\ UNCHANGED <<source, directory, upload, target, history>>

\* The records of the page that are not written yet and whose turn it is.
Oldest == {r \in download.page :
             \A s \in download.page : created[r[1]] <= created[s[1]]}
Newest == {r \in download.page :
             \A s \in download.page : created[s[1]] <= created[r[1]]}

\* Faulty WriteRecord: the next page starts where this one did.
WriteRecordStill ==
  /\ download.stage = "save"
  /\ ~download.broken
  /\ \E r \in Oldest :
       /\ csv' = csv \cup {r}
       /\ download' = [download EXCEPT !.page = @ \ {r}]
  /\ UNCHANGED <<source, torn, opened, latest, upload, target, history>>

\* One record of the page, the oldest first.
WriteRecord ==
  /\ download.stage = "save"
  /\ ~download.broken
  /\ \E r \in Oldest :
       /\ csv' = csv \cup {r}
       /\ download' = [download EXCEPT !.page = @ \ {r},
                                       !.cursor = created[r[1]]]
  /\ UNCHANGED <<source, torn, opened, latest, upload, target, history>>

\* w.Flush() fails at the end of a page, which nobody asks it: what was not
\* written yet is lost, up to a part of a line perhaps, but the cursor has passed
\* it.  Nothing more can be written through the buffer.
LoseRecords ==
  /\ download.stage = "save"
  /\ ~download.broken
  /\ torn' \in {torn, torn \cup {Order[download.at]}}
  /\ \E r \in Newest :
       download' = [download EXCEPT !.page = {}, !.cursor = created[r[1]],
                                    !.broken = TRUE]
  /\ history.faults < MaxFaults
  /\ LET Lost == {r[1] : r \in download.page} IN
       history' = [history EXCEPT !.faults = @ + 1, !.lost = @ \cup Lost,
                                  !.missed = @ \cup Lost]
  /\ UNCHANGED <<source, csv, opened, latest, upload, target>>

\* The buffer returns the error of the flush to the next record that is written.
NoticeLoss ==
  /\ download.broken
  /\ download.page # {}
  /\ download' = Idle
  /\ history' = [history EXCEPT !.watched = {}]
  /\ UNCHANGED <<source, directory, upload, target>>

\* After the page, flushed or not: index.latest is written; a full page is
\* followed by the next one, a short page by the next type.
WriteLatest ==
  /\ download.stage = "save"
  /\ download.page = {}
  /\ latest' = [latest EXCEPT ![Order[download.at]] = download.cursor]
  /\ \/ /\ ~download.short
        /\ download' = [download EXCEPT !.stage = "list"]
        /\ UNCHANGED <<opened, history>>
     \/ /\ download.short
        /\ download.at > 1
        /\ Open(download.at - 1, download.incremental)
        /\ UNCHANGED history
     \/ /\ download.short
        /\ download.at = 1
        /\ download' = Idle
        /\ history' = [history EXCEPT !.result =
             IF download.incremental THEN "incremental" ELSE "full"]
        /\ UNCHANGED opened
  /\ UNCHANGED <<source, csv, torn, upload, target>>

\* A request fails, an object's file cannot be written, or the command is
\* interrupted.  What has reached index.csv of the page may end anywhere.
StopDownload ==
  /\ download.stage # "idle"
  /\ download' = Idle
  /\ \/ /\ history' = [history EXCEPT !.watched = {}]
        /\ UNCHANGED torn
     \/ /\ download.page # {}
        /\ ~download.broken
        /\ history.faults < MaxFaults
        /\ torn' = torn \cup {Order[download.at]}
        /\ history' = [history EXCEPT !.watched = {}, !.faults = @ + 1]
  /\ UNCHANGED <<source, csv, opened, latest, upload, target>>

-----------------------------------------------------------------------------
(* UploadAll *)

\* The digests of the records of type t.
Listed(t) == {d \in Digest : \E r \in csv :
                /\ Doc[r[1]].type = t
                /\ d[1] = r[1]
                /\ d[2] \in r[2]}

\* Faulty Before: dependents are uploaded first.
BeforeReversed(t, u) == \E m, n \in 1..Len(Order) :
                          m > n /\ Order[m] = t /\ Order[n] = u

\* Does the type t come before the type u?
Before(t, u) == \E m, n \in 1..Len(Order) :
                  m < n /\ Order[m] = t /\ Order[n] = u

\* The types that are uploaded before a file is missing or a part of a line is
\* read, with the record that was appended to it: there is no such file or no
\* such algorithm.
Readable == {t \in opened : \A u \in Types : Before(u, t) => u \in opened \ torn}

\* The command starts; with --skip-invalid it goes on after a 412.
BeginUpload(skip) ==
  /\ download.stage = "idle"
  /\ ~upload.active
  /\ upload' = [active |-> TRUE, skip |-> skip,
                todo |-> UNION {Listed(t) : t \in Readable}]
  /\ history' = [history EXCEPT !.runs = MaxRuns + 1, !.uploaded = FALSE,
                                !.refused = {}]
  /\ UNCHANGED <<source, directory, download, target>>

\* Does the target answer 412?  It does for artifacts and subjects it does not
\* have; all else it refuses with a 400, the bottle of a signature included.
Missing(d) ==
  LET c == d[1] IN
  \/ Doc[c].type = "bottle" /\ ~(Doc[c].artifacts \subseteq target.names \cup {d})
  \/ /\ Doc[c].type \in HasSubject
     /\ ~Target(d)!Resolves(SubjectType(Doc[c].type), Doc[c].subject)

\* One PUT, of any record of the type at hand (the code takes them in the order
\* of index.csv).  The server notes the digest; it refuses bytes whose references
\* it does not have, unless it has the object itself.  A summary that it refuses
\* for a later entry is on record by the first.
Put(d) ==
  LET c == d[1]
      known == <<Doc[c].type, c>> \in target.recorded
      satisfied == Target(d)!Satisfied(Doc[c].type, c)
      accepted == known \/ (satisfied /\ Verifies(c))
  IN
  /\ upload.active
  /\ d \in upload.todo
  /\ \A e \in upload.todo : ~Before(Doc[e[1]].type, Doc[c].type)
  /\ target' = [names    |-> target.names \cup {d},
                recorded |-> IF satisfied /\ Begins(c)
                             THEN target.recorded \cup {<<Doc[c].type, c>>}
                             ELSE target.recorded]
  /\ upload' = IF accepted \/ (upload.skip /\ Missing(d))
               THEN [upload EXCEPT !.todo = @ \ {d}] ELSE NoUpload
  /\ history' = IF accepted THEN history
                ELSE [history EXCEPT !.refused = @ \cup {c}]
  /\ UNCHANGED <<source, directory, download>>

\* The last index is read; or there is none of some type or it has a part of a
\* line, which is an error.
FinishUpload ==
  /\ upload.active
  /\ upload.todo = {}
  /\ upload' = NoUpload
  /\ history' = [history EXCEPT !.uploaded = Types = Readable /\ torn = {}]
  /\ UNCHANGED <<source, directory, download, target>>

\* A request fails or the command is interrupted.
StopUpload ==
  /\ upload.active
  /\ upload' = NoUpload
  /\ UNCHANGED <<source, directory, download, target, history>>

-----------------------------------------------------------------------------

Grow == \/ \E d \in Offered : Name(d)
        \/ \E c \in Contents, now \in 1..MaxTime : Enter(c, now)

DownloadStep == List \/ WriteRecord \/ WriteLatest \/ NoticeLoss
UploadStep == (\E d \in Digest : Put(d)) \/ FinishUpload

Next ==
  \/ Grow
  \/ \E incremental \in BOOLEAN : BeginDownload(incremental)
  \/ DownloadStep
  \/ LoseRecords
  \/ StopDownload
  \/ \E skip \in BOOLEAN : BeginUpload(skip)
  \/ UploadStep
  \/ StopUpload

Spec == Init /\ [][Next]_vars

\* A download takes its own steps; nobody has to upload to the source, and no
\* failure has to happen.
FairSpec == Spec /\ WF_vars(DownloadStep)

-----------------------------------------------------------------------------
(* Properties *)

\* Source, directory and the two commands keep their types.
TypeOK ==
  /\ created \in [Contents -> 0..MaxTime]
  /\ names \subseteq Digest
  /\ csv \subseteq Contents \X SUBSET Algs
  /\ torn \subseteq Types
  /\ opened \subseteq Types
  /\ latest \in [Types -> 0..MaxTime]
  /\ download \in [stage : {"idle", "list", "save"}, at : 0..Len(Order),
                   incremental : BOOLEAN, cursor : 0..MaxTime,
                   page : SUBSET (Contents \X SUBSET Algs), short : BOOLEAN,
                   broken : BOOLEAN]
  /\ download.stage # "idle" => download.at > 0
  /\ upload \in [active : BOOLEAN, todo : SUBSET Digest, skip : BOOLEAN]
  /\ target \in [names : SUBSET Digest, recorded : SUBSET (Types \X Contents)]
  /\ history \in [runs : 0..(MaxRuns + 1), faults : 0..MaxFaults,
                  result : {"none", "full", "incremental"},
                  watched : SUBSET Digest,
                  lost : SUBSET Contents, missed : SUBSET Contents,
                  loose : SUBSET Contents,
                  refused : SUBSET Contents, uploaded : BOOLEAN]

Downloaded == {r[1] : r \in csv}

\* Is there another object of the same table and time?  A page may end between
\* the two, and the next one asks for later objects only.
Tied(c) == \E e \in Visible \ {c} :
             Doc[e].type = Doc[c].type /\ created[e] = created[c]

\* A finished download has everything that was visible when it began, however
\* earlier ones were cut off between appending to index.csv and writing
\* index.latest.  The exceptions are objects of the same time as another one of
\* their type; records that it lost in a flush it did not check; in an
\* incremental download also those that earlier ones lost, or that became
\* visible with a time already passed; and an index with a part of a line, which
\* cannot be read to its end.
NothingSkipped ==
  history.result # "none" =>
    \A d \in history.watched :
      LET c == d[1]
      IN \/ c \in Downloaded
         \/ Tied(c)
         \/ c \in history.lost
         \/ history.result = "incremental" /\ c \in history.missed
         \/ Doc[c].type \in torn

\* No page can end between objects of one time; no bottle was accepted for a mere
\* digest of an artifact: what is no blob is downloaded before bottles and
\* uploaded after them, or among them; and the download lost no record.
Sound == /\ \A c \in Visible : ~Tied(c)
         /\ history.loose = {}
         /\ history.lost = {}

\* What a full download leaves in the directory can be uploaded: types are
\* fetched dependents first and put references first, so nothing is refused
\* although the source grew meanwhile and earlier downloads stopped anywhere,
\* but for summaries of signatures with an entry that does not verify: the
\* source has them on record all the same.  (At a part of a line the upload gives
\* up, and what is left is not put at all.)
UploadsAccepted ==
  history.result = "full" /\ Sound =>
    \A c \in history.refused : ~Verifies(c)

\* The target has every object that the source had when the download began,
\* under the digests it had then.
Mirrored ==
  \A d \in history.watched :
    /\ <<Doc[d[1]].type, d[1]>> \in target.recorded
    /\ d \in target.names

\* A full download and an upload that finishes without an error make a perfect
\* mirror, a second upload if the first was refused a summary of signatures.
PerfectMirror ==
  history.uploaded /\ history.result = "full" /\ Sound => Mirrored

\* A download ends, whatever the size of its pages, however the source grows and
\* whichever flush fails.
DownloadEnds == download.stage # "idle" ~> download.stage = "idle"

=============================================================================
