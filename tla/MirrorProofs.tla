----------------------------- MODULE MirrorProofs -----------------------------
(***************************************************************************)
(* Theorems about Mirror, for any documents, page size and number of runs: *)
(* what a download may skip, that what it leaves in the directory can be   *)
(* uploaded and makes a perfect mirror, and that source and target stay    *)
(* closed under references.                                                *)
(*                                                                         *)
(* DownloadInv says of each object where it is while downloads run and are *)
(* cut off; MirrorInv adds the references of what is downloaded, which must *)
(* be in the directory when their type is done, and what an upload has left *)
(* to put.                                                                 *)
(***************************************************************************)
EXTENDS Mirror, TLAPS

-----------------------------------------------------------------------------
(* Types *)

LEMMA OrderType == /\ Len(Order) = 5
                   /\ \A n \in 1..5 : Order[n] \in Types
                   /\ \A t \in Types : \E n \in 1..5 : Order[n] = t
                   /\ \A m, n \in 1..5 : Order[m] = Order[n] => m = n
<1>1. /\ Len(Order) = 5
      /\ Order[1] = "blob" /\ Order[2] = "bottle" /\ Order[3] = "manifest"
      /\ Order[4] = "event" /\ Order[5] = "signature"
  BY DEF Order
<1>2. \A n \in 1..5 : n = 1 \/ n = 2 \/ n = 3 \/ n = 4 \/ n = 5
  OBVIOUS
<1> QED
  BY <1>1, <1>2 DEF Types

\* The parts of the type invariant, to be proved one by one.
DownloadType ==
  /\ download \in [stage : {"idle", "list", "save"}, at : 0..Len(Order),
                   incremental : BOOLEAN, cursor : 0..MaxTime,
                   page : SUBSET (Contents \X SUBSET Algs), short : BOOLEAN,
                   broken : BOOLEAN]
  /\ download.stage # "idle" => download.at > 0
UploadType == upload \in [active : BOOLEAN, todo : SUBSET Digest, skip : BOOLEAN]
TargetType ==
  target \in [names : SUBSET Digest, recorded : SUBSET (Types \X Contents)]
HistoryType ==
  history \in [runs : 0..(MaxRuns + 1), faults : 0..MaxFaults,
               result : {"none", "full", "incremental"},
               watched : SUBSET Digest,
               lost : SUBSET Contents, missed : SUBSET Contents,
               loose : SUBSET Contents,
               refused : SUBSET Contents, uploaded : BOOLEAN]

LEMMA OpenType ==
  ASSUME TypeOK, NEW n \in 1..5, NEW incremental \in BOOLEAN,
         Open(n, incremental)
  PROVE  /\ opened' \subseteq Types
         /\ download' = [stage |-> "list", at |-> n, incremental |-> incremental,
                         cursor |-> IF incremental THEN latest[Order[n]] ELSE 0,
                         page |-> {}, short |-> FALSE, broken |-> FALSE]
         /\ DownloadType'
<1>1. Order[n] \in Types
  BY OrderType
<1>2. opened' \subseteq Types
  BY <1>1 DEF Open, TypeOK
<1>3. download' = [stage |-> "list", at |-> n, incremental |-> incremental,
                   cursor |-> IF incremental THEN latest[Order[n]] ELSE 0,
                   page |-> {}, short |-> FALSE, broken |-> FALSE]
  BY DEF Open, Idle
<1>4. latest[Order[n]] \in 0..MaxTime /\ 0 \in 0..MaxTime
  BY <1>1, MirrorAssumption DEF TypeOK
<1>5. DownloadType'
  BY <1>3, <1>4, OrderType DEF DownloadType
<1> QED
  BY <1>2, <1>3, <1>5

LEMMA TypeInit == Init => TypeOK
<1> SUFFICES ASSUME Init PROVE TypeOK
  OBVIOUS
<1> USE MirrorAssumption, DocumentsAssumption, OrderType
<1>1. /\ created \in [Contents -> 0..MaxTime] /\ latest \in [Types -> 0..MaxTime]
      /\ names \subseteq Digest
  BY DEF Init
<1>2. DownloadType
  BY DEF Init, DownloadType, Idle
<1>3. UploadType /\ TargetType
  BY DEF Init, UploadType, TargetType, NoUpload
<1>4. HistoryType
  <2>1. {c \in DOMAIN Stock : ~ArtifactsEntered(c)} \in SUBSET Contents
    OBVIOUS
  <2>2. 0 \in 0..(MaxRuns + 1) /\ 0 \in 0..MaxFaults
    OBVIOUS
  <2> QED
    BY <2>1, <2>2 DEF Init, HistoryType
<1> QED
  BY <1>1, <1>2, <1>3, <1>4
  DEF Init, TypeOK, DownloadType, UploadType, TargetType, HistoryType

\* Every step keeps the types.
LEMMA TypeNext == TypeOK /\ [Next]_vars => TypeOK'
<1> SUFFICES ASSUME TypeOK, [Next]_vars PROVE TypeOK'
  OBVIOUS
<1> USE MirrorAssumption, DocumentsAssumption, OrderType
<1>0. /\ created \in [Contents -> 0..MaxTime] /\ names \subseteq Digest
      /\ csv \subseteq Contents \X SUBSET Algs /\ torn \subseteq Types
      /\ opened \subseteq Types /\ latest \in [Types -> 0..MaxTime]
      /\ DownloadType /\ UploadType /\ TargetType /\ HistoryType
  BY DEF TypeOK, DownloadType, UploadType, TargetType, HistoryType
<1>a. ASSUME /\ created' \in [Contents -> 0..MaxTime] /\ names' \subseteq Digest
             /\ csv' \subseteq Contents \X SUBSET Algs /\ torn' \subseteq Types
             /\ opened' \subseteq Types /\ latest' \in [Types -> 0..MaxTime]
             /\ DownloadType' /\ UploadType' /\ TargetType' /\ HistoryType'
      PROVE  TypeOK'
  BY <1>a DEF TypeOK, DownloadType, UploadType, TargetType, HistoryType
<1>1. CASE UNCHANGED vars
  BY <1>0, <1>1, <1>a DEF vars, source, directory, DownloadType, UploadType,
                         TargetType, HistoryType
<1>2. ASSUME NEW d \in Offered, Name(d) PROVE TypeOK'
  BY SMTT(30), <1>0, <1>2, <1>a DEF Name, directory, DownloadType, UploadType, TargetType,
                         HistoryType
<1>3. ASSUME NEW c \in Contents, NEW now \in 1..MaxTime, Enter(c, now)
      PROVE  TypeOK'
  <2>1. HistoryType'
    BY ZenonT(60), <1>0, <1>3 DEF Enter, HistoryType
  <2>2. created' \in [Contents -> 0..MaxTime]
    BY <1>0, <1>3 DEF Enter
  <2> QED
    BY <1>0, <1>3, <1>a, <2>1, <2>2 DEF Enter, directory, DownloadType,
                                        UploadType, TargetType
<1>4. ASSUME NEW incremental \in BOOLEAN, BeginDownload(incremental)
      PROVE  TypeOK'
  <2>1. HistoryType'
    <3>1. PICK W \in SUBSET Digest :
            history' = [history EXCEPT !.runs = @ + 1, !.result = "none",
                                       !.lost = {}, !.watched = W,
                                       !.uploaded = FALSE, !.refused = {}]
      BY <1>0, <1>4 DEF BeginDownload
    <3>2. history.runs + 1 \in 0..(MaxRuns + 1)
      BY <1>0, <1>4 DEF BeginDownload, HistoryType
    <3> QED
      BY <1>0, <3>1, <3>2 DEF HistoryType
  <2>2. DownloadType' /\ opened' \subseteq Types
    <3>1. Open(5, incremental) /\ 5 \in 1..5
      BY <1>4 DEF BeginDownload
    <3> QED
      BY <3>1, OpenType
  <2> QED
    BY <1>0, <1>4, <1>a, <2>1, <2>2 DEF BeginDownload, source, UploadType,
                                        TargetType
<1>5. CASE List
  <2>1. PICK P \in Pages(Order[download.at], download.cursor) :
          download' = [download EXCEPT !.stage = "save",
                                       !.page = {<<c, AlgsOf(c)>> : c \in P},
                                       !.short = Cardinality(P) < Batch]
    BY <1>5 DEF List
  <2>2. P \subseteq Contents
    BY <2>1 DEF Pages, OfType
  <2>3. {<<c, AlgsOf(c)>> : c \in P} \in SUBSET (Contents \X SUBSET Algs)
    BY <2>2 DEF AlgsOf
  <2>4. (Cardinality(P) < Batch) \in BOOLEAN
    OBVIOUS
  <2>5. DownloadType'
    BY <1>0, <1>5, <2>1, <2>3, <2>4 DEF DownloadType, List
  <2> QED
    BY <1>0, <1>5, <1>a, <2>5 DEF List, source, directory, UploadType,
                                  TargetType, HistoryType
<1>6. CASE WriteRecord
  <2>1. PICK r \in download.page :
          /\ csv' = csv \cup {r}
          /\ download' = [download EXCEPT !.page = @ \ {r},
                                          !.cursor = created[r[1]]]
    BY <1>6 DEF WriteRecord, Oldest
  <2>2. r \in Contents \X SUBSET Algs
    BY <1>0, <2>1 DEF DownloadType
  <2>3. created[r[1]] \in 0..MaxTime
    BY <1>0, <2>2
  <2>4. DownloadType'
    BY <1>0, <2>1, <2>3 DEF DownloadType
  <2> QED
    BY <1>0, <1>6, <1>a, <2>1, <2>2, <2>4 DEF WriteRecord, source, UploadType,
                                             TargetType, HistoryType
<1>7. CASE WriteLatest
  <2>1. download.cursor \in 0..MaxTime /\ download.at \in 1..5
    BY <1>0, <1>7 DEF WriteLatest, DownloadType
  <2>2. latest' \in [Types -> 0..MaxTime]
    BY <1>0, <1>7, <2>1 DEF WriteLatest
  <2>3. DownloadType' /\ HistoryType' /\ opened' \subseteq Types
    <3>1. CASE /\ download' = [download EXCEPT !.stage = "list"]
               /\ opened' = opened /\ history' = history
      <4>1. download.at > 0
        BY <2>1
      <4>2. DownloadType'
        BY <1>0, <3>1, <4>1 DEF DownloadType
      <4> QED
        BY <1>0, <3>1, <4>2 DEF HistoryType
    <3>2. CASE /\ download.at > 1
               /\ Open(download.at - 1, download.incremental)
               /\ history' = history
      <4>1. PICK n \in 1..5, i \in BOOLEAN :
              n = download.at - 1 /\ i = download.incremental
        BY <1>0, <2>1, <3>2 DEF DownloadType
      <4>2. Open(n, i)
        BY <3>2, <4>1
      <4>3. DownloadType' /\ opened' \subseteq Types
        BY <4>2, OpenType
      <4> QED
        BY <1>0, <3>2, <4>3 DEF HistoryType
    <3>3. CASE /\ download' = Idle
               /\ history' = [history EXCEPT !.result =
                    IF download.incremental THEN "incremental" ELSE "full"]
               /\ opened' = opened
      <4>1. DownloadType'
        BY <3>3 DEF DownloadType, Idle
      <4> QED
        BY <1>0, <3>3, <4>1 DEF HistoryType
    <3> QED
      BY <1>7, <3>1, <3>2, <3>3 DEF WriteLatest
  <2> QED
    BY <1>0, <1>7, <1>a, <2>2, <2>3 DEF WriteLatest, source, UploadType,
                                       TargetType
<1>8. CASE NoticeLoss \/ StopDownload
  <2>1. DownloadType'
    <3>1. download' = Idle
      BY <1>8 DEF NoticeLoss, StopDownload
    <3> QED
      BY <3>1 DEF DownloadType, Idle
  <2>2. \/ history' = [history EXCEPT !.watched = {}]
        \/ /\ history.faults < MaxFaults
           /\ history' = [history EXCEPT !.watched = {}, !.faults = @ + 1]
    <3>1. CASE NoticeLoss
      BY <3>1 DEF NoticeLoss
    <3>2. CASE StopDownload
      BY <3>2 DEF StopDownload
    <3> QED
      BY <1>8, <3>1, <3>2
  <2>3. HistoryType'
    <3>1. CASE history' = [history EXCEPT !.watched = {}]
      BY <1>0, <3>1 DEF HistoryType
    <3>2. CASE /\ history.faults < MaxFaults
               /\ history' = [history EXCEPT !.watched = {}, !.faults = @ + 1]
      <4>1. history.faults + 1 \in 0..MaxFaults
        BY <1>0, <3>2 DEF HistoryType
      <4> QED
        BY <1>0, <3>2, <4>1 DEF HistoryType
    <3> QED
      BY <2>2, <3>1, <3>2
  <2>4. torn' \subseteq Types
    <3>1. torn' = torn \/ (torn' = torn \cup {Order[download.at]} /\ download.at \in 1..5)
      BY <1>0, <1>8 DEF NoticeLoss, StopDownload, directory, DownloadType
    <3> QED
      BY <1>0, <3>1
  <2> QED
    BY <1>0, <1>8, <1>a, <2>1, <2>3, <2>4 DEF NoticeLoss, StopDownload, source,
       directory, UploadType, TargetType
<1>13. CASE LoseRecords
  <2>1. PICK r \in download.page :
          download' = [download EXCEPT !.page = {}, !.cursor = created[r[1]],
                                       !.broken = TRUE]
    BY <1>13 DEF LoseRecords, Newest
  <2>2. r \in Contents \X SUBSET Algs
    BY <1>0, <2>1 DEF DownloadType
  <2>3. created[r[1]] \in 0..MaxTime
    BY <1>0, <2>2
  <2>4. DownloadType'
    BY <1>0, <2>1, <2>3 DEF DownloadType
  <2>5. HistoryType'
    <3> DEFINE Lost == {s[1] : s \in download.page}
    <3>1. history' = [history EXCEPT !.faults = @ + 1, !.lost = @ \cup Lost,
                                     !.missed = @ \cup Lost]
      BY <1>13 DEF LoseRecords
    <3>3. Lost \subseteq Contents
      BY <1>0 DEF DownloadType
    <3>2. /\ history.faults + 1 \in 0..MaxFaults
          /\ history.lost \cup Lost \in SUBSET Contents
          /\ history.missed \cup Lost \in SUBSET Contents
      BY <1>0, <1>13, <3>3 DEF LoseRecords, HistoryType
    <3> HIDE DEF Lost
    <3> QED
      BY <1>0, <3>1, <3>2 DEF HistoryType
  <2>6. torn' \subseteq Types
    <3>1. download.at \in 1..5
      BY <1>0, <1>13 DEF LoseRecords, DownloadType
    <3> QED
      BY <1>0, <1>13, <3>1 DEF LoseRecords
  <2> QED
    BY <1>0, <1>13, <1>a, <2>4, <2>5, <2>6 DEF LoseRecords, source, UploadType,
                                              TargetType
<1>9. ASSUME NEW skip \in BOOLEAN, BeginUpload(skip) PROVE TypeOK'
  <2>1. UNION {Listed(t) : t \in Readable} \in SUBSET Digest
    BY DEF Listed
  <2>2. UploadType'
    BY <1>9, <2>1 DEF BeginUpload, UploadType
  <2>3. HistoryType'
    <3>1. MaxRuns + 1 \in 0..(MaxRuns + 1)
      OBVIOUS
    <3>2. history' = [history EXCEPT !.runs = MaxRuns + 1, !.uploaded = FALSE,
                                     !.refused = {}]
      BY <1>9 DEF BeginUpload
    <3> QED
      BY <1>0, <3>1, <3>2 DEF HistoryType
  <2> QED
    BY <1>0, <1>9, <1>a, <2>2, <2>3 DEF BeginUpload, source, directory,
                                        DownloadType, TargetType
<1>10. ASSUME NEW d \in Digest, Put(d) PROVE TypeOK'
  <2>1. d[1] \in Contents /\ Doc[d[1]].type \in Types
    BY DEF Digest
  <2>2. TargetType'
    <3>1. PICK accepted \in BOOLEAN :
            target' = [names    |-> target.names \cup {d},
                       recorded |-> IF accepted
                                    THEN target.recorded \cup {<<Doc[d[1]].type, d[1]>>}
                                    ELSE target.recorded]
      BY <1>10 DEF Put
    <3>2. <<Doc[d[1]].type, d[1]>> \in Types \X Contents
      BY <2>1
    <3> QED
      BY <1>0, <3>1, <3>2 DEF TargetType
  <2>3. UploadType'
    BY <1>0, <1>10 DEF Put, UploadType, NoUpload
  <2>4. HistoryType'
    <3>1. \/ history' = history
          \/ history' = [history EXCEPT !.refused = @ \cup {d[1]}]
      BY <1>10 DEF Put
    <3>2. history.refused \cup {d[1]} \in SUBSET Contents
      BY <1>0, <2>1 DEF HistoryType
    <3> QED
      BY ZenonT(60), <1>0, <3>1, <3>2 DEF HistoryType
  <2> QED
    BY <1>0, <1>10, <1>a, <2>2, <2>3, <2>4 DEF Put, source, directory,
                                              DownloadType
<1>11. CASE FinishUpload
  <2>1. UploadType'
    BY <1>11 DEF FinishUpload, UploadType, NoUpload
  <2>2. HistoryType'
    BY <1>0, <1>11 DEF FinishUpload, HistoryType
  <2> QED
    BY <1>0, <1>11, <1>a, <2>1, <2>2 DEF FinishUpload, source, directory,
                                         DownloadType, TargetType
<1>12. CASE StopUpload
  <2>1. UploadType'
    BY <1>12 DEF StopUpload, UploadType, NoUpload
  <2> QED
    BY <1>0, <1>12, <1>a, <2>1 DEF StopUpload, source, directory,
                                   DownloadType, TargetType, HistoryType
<1> QED
  BY <1>1, <1>2, <1>3, <1>4, <1>5, <1>6, <1>7, <1>8, <1>9, <1>10, <1>11, <1>12,
     <1>13 DEF Next, Grow, DownloadStep, UploadStep

\* Source, directory, commands and target keep their types.
THEOREM MirrorTypes == Spec => []TypeOK
BY TypeInit, TypeNext, PTL DEF Spec

-----------------------------------------------------------------------------
(* The invariant *)

\* Has the download asked for objects of the current type created at time n?
Reached(n) == \/ n <= download.cursor
              \/ \E r \in download.page : n <= created[r[1]]

\* Is c in the directory, or in the page that is being written to it?
Held(c) == c \in Downloaded \/ \E r \in download.page : r[1] = c

\* The reasons for which the current download may leave c out.
Excused(c) == \/ Tied(c)
              \/ c \in history.lost
              \/ download.incremental /\ c \in history.missed

Watched == {d[1] : d \in history.watched}

\* A page has objects of the current type.
PageOK ==
  /\ download.stage # "save" => download.page = {}
  /\ \A r \in download.page :
       /\ created[r[1]] > 0
       /\ Doc[r[1]].type = Order[download.at]

\* index.latest promises no more than index.csv holds.
LatestCovered ==
  \A c \in Visible :
    created[c] <= latest[Doc[c].type] =>
      c \in Downloaded \/ Tied(c) \/ c \in history.missed

\* The same of the current type, whose cursor is ahead of index.latest.
CursorCovered ==
  download.stage # "idle" =>
    \A c \in Visible :
      Doc[c].type = Order[download.at] /\ Reached(created[c]) =>
        Held(c) \/ Tied(c) \/ c \in history.missed

\* What was there when the download began is held up to the cursor, whole when
\* the last page of the type is there, and written when the type is done.
WatchCovered ==
  download.stage # "idle" =>
    \A c \in Watched :
      /\ /\ Doc[c].type = Order[download.at]
         /\ Reached(created[c]) \/ (download.stage = "save" /\ download.short)
         => Held(c) \/ Excused(c)
      /\ \A n \in 1..5 : n > download.at /\ Order[n] = Doc[c].type =>
           c \in Downloaded \/ Excused(c)

DownloadInv ==
  /\ TypeOK
  /\ PageOK
  /\ LatestCovered
  /\ CursorCovered
  /\ Watched \subseteq Visible
  /\ WatchCovered
  /\ download.stage # "idle" => history.result = "none"
  /\ NothingSkipped

\* Objects once entered keep their time, records and what was missed stay.
Keeps == /\ \A c \in Visible : c \in Visible' /\ created'[c] = created[c]
         /\ Downloaded \subseteq Downloaded'
         /\ history.missed \subseteq history'.missed

LEMMA TiedStays ==
  ASSUME Keeps, NEW c \in Visible, Tied(c)
  PROVE  Tied(c)'
BY DEF Keeps, Tied

\* A step that leaves created, csv, torn, latest, the download and what the
\* history says of it alone.
LEMMA SameDownload ==
  ASSUME DownloadInv, TypeOK', UNCHANGED <<created, csv, torn, latest, download>>,
         history'.missed = history.missed, history'.lost = history.lost,
         history'.watched = history.watched, history'.result = history.result
  PROVE  DownloadInv'
<1>1. Visible' = Visible /\ Downloaded' = Downloaded /\ Watched' = Watched
  BY DEF Visible, Downloaded, Watched
<1>2. \A c : Tied(c)' = Tied(c)
  BY <1>1 DEF Tied
<1>3. \A c : Held(c)' = Held(c)
  BY <1>1 DEF Held
<1>4. \A c : Excused(c)' = Excused(c)
  BY <1>2 DEF Excused
<1>5. \A n : Reached(n)' = Reached(n)
  BY DEF Reached
<1>6. PageOK' /\ LatestCovered' /\ CursorCovered'
  BY <1>1, <1>2, <1>3, <1>5 DEF DownloadInv, PageOK, LatestCovered, CursorCovered
<1>7. WatchCovered'
  BY <1>1, <1>3, <1>4, <1>5 DEF DownloadInv, WatchCovered
<1>8. NothingSkipped'
  BY <1>1, <1>2 DEF DownloadInv, NothingSkipped
<1> QED
  BY <1>1, <1>6, <1>7, <1>8 DEF DownloadInv

\* An object becomes visible.
LEMMA EnterInv ==
  ASSUME DownloadInv, TypeOK', NEW c \in Contents, NEW now \in 1..MaxTime,
         Enter(c, now)
  PROVE  DownloadInv'
<1> DEFINE t == Doc[c].type
<1>1. /\ created[c] = 0 /\ created' = [created EXCEPT ![c] = now]
      /\ UNCHANGED <<csv, torn, latest, download>>
  BY DEF Enter, directory
<1>2. /\ history'.watched = history.watched /\ history'.result = history.result
      /\ history'.lost = history.lost
      /\ history.missed \subseteq history'.missed
      /\ Passed(t, now) => c \in history'.missed
  <2>1. history' = [history EXCEPT
          !.missed = IF Passed(t, now) THEN @ \cup {c} ELSE @,
          !.loose = IF ArtifactsEntered(c) THEN @ ELSE @ \cup {c}]
    BY DEF Enter
  <2>2. "missed" \in DOMAIN history /\ "loose" \in DOMAIN history
    BY DEF DownloadInv, TypeOK
  <2>3. history'.missed = IF Passed(t, now) THEN history.missed \cup {c}
                                          ELSE history.missed
    BY <2>1, <2>2
  <2>4. /\ history'.watched = history.watched /\ history'.result = history.result
        /\ history'.lost = history.lost
    BY <2>1
  <2> QED
    BY <2>3, <2>4
<1> HIDE DEF t
<1>3. created \in [Contents -> 0..MaxTime] /\ now \in Nat /\ now > 0
  BY MirrorAssumption DEF DownloadInv, TypeOK
<1>4. /\ Visible' = Visible \cup {c} /\ c \notin Visible
      /\ \A e \in Visible : created'[e] = created[e]
      /\ created'[c] = now
  BY <1>1, <1>3 DEF Visible
<1>5. Downloaded' = Downloaded /\ Watched' = Watched
  BY <1>1, <1>2 DEF Downloaded, Watched
<1>6. Keeps
  BY <1>2, <1>4, <1>5 DEF Keeps
<1>7. \A e \in Visible : Tied(e) => Tied(e)'
  BY <1>6, TiedStays
<1>8. \A e : Held(e)' = Held(e)
  BY <1>1, <1>5 DEF Held
<1>9. \A r \in download.page : r[1] \in Visible
  BY DEF DownloadInv, PageOK, TypeOK, Visible
<1>10. \A n : Reached(n)' = Reached(n)
  BY <1>1, <1>4, <1>9 DEF Reached
<1>11. PageOK'
  BY <1>1, <1>4, <1>9 DEF DownloadInv, PageOK
<1>12. LatestCovered'
  <2> SUFFICES ASSUME NEW e \in Visible', created'[e] <= latest[Doc[e].type]
               PROVE  e \in Downloaded \/ Tied(e)' \/ e \in history'.missed
    BY <1>1, <1>5 DEF LatestCovered
  <2>1. CASE e = c
    BY <1>2, <1>4, <2>1 DEF Passed, t
  <2>2. CASE e \in Visible
    BY <1>2, <1>4, <1>7, <2>2 DEF DownloadInv, LatestCovered
  <2> QED
    BY <1>4, <2>1, <2>2
<1>13. CursorCovered'
  <2> SUFFICES ASSUME download.stage # "idle", NEW e \in Visible',
                      Doc[e].type = Order[download.at], Reached(created'[e])
               PROVE  Held(e) \/ Tied(e)' \/ e \in history'.missed
    BY <1>1, <1>8, <1>10 DEF CursorCovered
  <2>1. CASE e = c
    <3>1. download.stage = "list" \/ download.stage = "save"
      BY DEF DownloadInv, TypeOK
    <3>2. download.stage = "list" => now <= download.cursor
      BY <1>4, <2>1 DEF DownloadInv, PageOK, Reached
    <3>3. \/ now <= download.cursor
          \/ \E r \in download.page : now <= created[r[1]]
      BY <1>4, <2>1 DEF Reached
    <3>4. Passed(t, now)
      BY <2>1, <3>1, <3>2, <3>3 DEF Passed, t
    <3> QED
      BY <1>2, <2>1, <3>4
  <2>2. CASE e \in Visible
    BY <1>2, <1>4, <1>7, <2>2 DEF DownloadInv, CursorCovered
  <2> QED
    BY <1>4, <2>1, <2>2
<1>14. Watched' \subseteq Visible'
  BY <1>4, <1>5 DEF DownloadInv
<1>15. \A e \in Watched : Excused(e) => Excused(e)'
  BY <1>1, <1>2, <1>7 DEF DownloadInv, Excused
<1>16. WatchCovered'
  <2>1. \A e \in Watched : created'[e] = created[e]
    BY <1>4 DEF DownloadInv
  <2> QED
    BY <1>1, <1>5, <1>8, <1>10, <1>15, <2>1 DEF DownloadInv, WatchCovered
<1>17. NothingSkipped'
  <2> SUFFICES ASSUME history.result # "none", NEW d \in history.watched
               PROVE  \/ d[1] \in Downloaded
                      \/ Tied(d[1])'
                      \/ d[1] \in history.lost
                      \/ /\ history.result = "incremental"
                         /\ d[1] \in history'.missed
                      \/ Doc[d[1]].type \in torn
    BY <1>1, <1>2, <1>5 DEF NothingSkipped
  <2>1. d[1] \in Visible
    BY DEF Watched, DownloadInv
  <2> QED
    BY <1>2, <1>7, <2>1 DEF DownloadInv, NothingSkipped
<1> QED
  BY <1>1, <1>2, <1>11, <1>12, <1>13, <1>14, <1>16, <1>17 DEF DownloadInv

\* What index.latest covers is covered when a type is opened.
LEMMA OpenCovered ==
  ASSUME DownloadInv, LatestCovered', created' = created, csv' = csv,
         NEW n \in 1..5, NEW incremental \in BOOLEAN, Open(n, incremental),
         latest'[Order[n]] = latest[Order[n]], history'.missed = history.missed
  PROVE  /\ download'.stage = "list" /\ download'.at = n
         /\ download'.page = {} /\ download'.incremental = incremental
         /\ CursorCovered'
         /\ \A c \in Visible : Doc[c].type = Order[n] /\ Reached(created[c])' =>
              /\ incremental
              /\ c \in Downloaded \/ Tied(c) \/ c \in history.missed
<1>1. download' = [stage |-> "list", at |-> n, incremental |-> incremental,
                   cursor |-> IF incremental THEN latest[Order[n]] ELSE 0,
                   page |-> {}, short |-> FALSE, broken |-> FALSE]
  BY OpenType DEF DownloadInv
<1>2. Visible' = Visible /\ Downloaded' = Downloaded
  BY DEF Visible, Downloaded
<1>3. \A c : Tied(c)' = Tied(c)
  BY <1>2 DEF Tied
<1>4. ASSUME NEW c \in Visible, Doc[c].type = Order[n], Reached(created[c])'
      PROVE  /\ incremental
             /\ c \in Downloaded \/ Tied(c) \/ c \in history.missed
  <2>1. created[c] <= download'.cursor
    BY <1>1, <1>4 DEF Reached
  <2>2. created[c] \in Nat /\ created[c] > 0
    BY DEF Visible, DownloadInv, TypeOK
  <2>3. incremental /\ created[c] <= latest[Order[n]]
    BY <1>1, <2>1, <2>2
  <2>4. created[c] <= latest[Doc[c].type]
    BY <1>4, <2>3
  <2> QED
    BY <2>3, <2>4 DEF DownloadInv, LatestCovered
<1>5. CursorCovered'
  BY <1>1, <1>2, <1>3, <1>4 DEF CursorCovered, Held
<1> QED
  BY <1>1, <1>4, <1>5

LEMMA BeginDownloadInv ==
  ASSUME DownloadInv, TypeOK', NEW incremental \in BOOLEAN,
         BeginDownload(incremental)
  PROVE  DownloadInv'
<1>1. /\ UNCHANGED <<created, csv, latest>> /\ Open(5, incremental) /\ 5 \in 1..5
  BY OrderType DEF BeginDownload, source
<1>2. history' = [history EXCEPT
        !.runs = @ + 1, !.result = "none", !.lost = {},
        !.watched = {d \in names : d[1] \in Visible},
        !.uploaded = FALSE, !.refused = {}]
  BY DEF BeginDownload
<1>3. /\ history'.missed = history.missed /\ history'.result = "none"
      /\ history'.watched = {d \in names : d[1] \in Visible}
  BY <1>2 DEF DownloadInv, TypeOK
<1>4. Visible' = Visible /\ Downloaded' = Downloaded
  BY <1>1 DEF Visible, Downloaded
<1>5. \A c : Tied(c)' = Tied(c)
  BY <1>1, <1>4 DEF Tied
<1>6. LatestCovered'
  BY <1>1, <1>3, <1>4, <1>5 DEF DownloadInv, LatestCovered
<1>7. /\ download'.stage = "list" /\ download'.at = 5
      /\ download'.page = {} /\ download'.incremental = incremental
      /\ CursorCovered'
      /\ \A c \in Visible : Doc[c].type = Order[5] /\ Reached(created[c])' =>
           /\ incremental
           /\ c \in Downloaded \/ Tied(c) \/ c \in history.missed
  BY <1>1, <1>3, <1>6, OpenCovered
<1>8. PageOK'
  BY <1>7 DEF PageOK
<1>9. Watched' \subseteq Visible'
  BY <1>3, <1>4 DEF Watched
<1>10. WatchCovered'
  <2> SUFFICES ASSUME NEW c \in Watched'
      PROVE  /\ Doc[c].type = Order[5] /\ Reached(created[c])' =>
                  Held(c)' \/ Excused(c)'
             /\ \A n \in 1..5 : n > 5 /\ Order[n] = Doc[c].type =>
                  c \in Downloaded' \/ Excused(c)'
    BY <1>1, <1>7 DEF WatchCovered
  <2>1. c \in Visible
    BY <1>4, <1>9
  <2> QED
    BY <1>3, <1>4, <1>5, <1>7, <2>1 DEF Held, Excused
<1>11. NothingSkipped'
  BY <1>3 DEF NothingSkipped
<1> QED
  BY <1>3, <1>6, <1>7, <1>8, <1>9, <1>10, <1>11 DEF DownloadInv

\* A page that is short has all that is left.
LEMMA ShortPage ==
  ASSUME DownloadInv, NEW t \in Types, NEW since \in Nat, NEW P \in Pages(t, since)
  PROVE  /\ \A c \in P : c \in Visible /\ Doc[c].type = t /\ created[c] > since
         /\ \A c \in Visible, e \in P :
              /\ Doc[c].type = t
              /\ created[c] <= created[e]
              => c \in P \/ created[c] <= since \/ Tied(c)
         /\ Cardinality(P) < Batch =>
              \A c \in Visible : Doc[c].type = t => c \in P \/ created[c] <= since
<1> DEFINE Rows == {c \in OfType(t) : created[c] > since}
<1>1. /\ P \subseteq Rows
      /\ IF Cardinality(Rows) < Batch THEN P = Rows ELSE Cardinality(P) = Batch
      /\ \A c \in P, e \in Rows \ P : created[c] <= created[e]
  BY DEF Pages
<1>2. \A c \in Contents : created[c] \in Nat
  BY DEF DownloadInv, TypeOK
<1>3. \A c \in Visible : Doc[c].type = t => c \in Rows \/ created[c] <= since
  BY <1>2 DEF Visible, OfType
<1>4. ASSUME NEW c \in Rows
      PROVE  c \in Visible /\ Doc[c].type = t /\ created[c] > since
  <2>1. c \in Contents /\ Doc[c].type = t /\ created[c] > since
    BY DEF OfType
  <2>2. created[c] > 0
    BY <1>2, <2>1
  <2> QED
    BY <2>1, <2>2 DEF Visible
<1>5. Batch \in Nat
  BY MirrorAssumption
<1>6. Cardinality(P) < Batch => P = Rows
  BY <1>1, <1>5
<1>7. ASSUME NEW c \in Visible, NEW e \in P, Doc[c].type = t,
             created[c] <= created[e]
      PROVE  c \in P \/ created[c] <= since \/ Tied(c)
  <2>1. SUFFICES ASSUME c \in Rows \ P PROVE Tied(c)
    BY <1>3, <1>7
  <2>2. created[e] <= created[c]
    BY <1>1, <2>1
  <2>3. e \in Visible /\ Doc[e].type = t /\ e # c
    BY <1>1, <1>4, <2>1
  <2>4. created[e] = created[c]
    BY <1>2, <1>7, <2>2, <2>3 DEF Visible
  <2> QED
    BY <1>7, <2>3, <2>4 DEF Tied
<1> QED
  BY <1>1, <1>3, <1>4, <1>6, <1>7

LEMMA ListInv ==
  ASSUME DownloadInv, TypeOK', List
  PROVE  DownloadInv'
<1> DEFINE t == Order[download.at]
           since == download.cursor
<1>1. PICK P \in Pages(t, since) :
        download' = [download EXCEPT !.stage = "save",
                                     !.page = {<<c, AlgsOf(c)>> : c \in P},
                                     !.short = Cardinality(P) < Batch]
  BY DEF List
<1>2. UNCHANGED <<created, csv, latest, history>> /\ download.stage = "list"
  BY DEF List, source, directory
<1>3. download.at \in 1..5 /\ t \in Types /\ since \in Nat
  BY <1>2, OrderType, MirrorAssumption DEF DownloadInv, TypeOK
<1>4. /\ \A c \in P : c \in Visible /\ Doc[c].type = t /\ created[c] > since
      /\ \A c \in Visible, e \in P :
           /\ Doc[c].type = t
           /\ created[c] <= created[e]
           => c \in P \/ created[c] <= since \/ Tied(c)
      /\ Cardinality(P) < Batch =>
           \A c \in Visible : Doc[c].type = t => c \in P \/ created[c] <= since
  BY <1>3, ShortPage
<1>5. /\ download'.stage = "save" /\ download'.at = download.at
      /\ download'.page = {<<c, AlgsOf(c)>> : c \in P}
      /\ download'.cursor = since /\ download'.incremental = download.incremental
      /\ download'.short = (Cardinality(P) < Batch)
  BY <1>1 DEF DownloadInv, TypeOK
<1> HIDE DEF t, since
<1>6. Visible' = Visible /\ Downloaded' = Downloaded /\ Watched' = Watched
  BY <1>2 DEF Visible, Downloaded, Watched
<1>7. \A c : Tied(c)' = Tied(c)
  BY <1>2, <1>6 DEF Tied
<1>8. \A c : Excused(c)' = Excused(c)
  BY <1>2, <1>5, <1>7 DEF Excused
<1>9. ASSUME NEW c \in P PROVE Held(c)'
  <2>1. <<c, AlgsOf(c)>> \in download'.page /\ <<c, AlgsOf(c)>>[1] = c
    BY <1>5
  <2> QED
    BY <2>1 DEF Held
<1>10. \A c : Held(c) => c \in Downloaded'
  BY <1>2, <1>6 DEF Held, DownloadInv, PageOK
<1>11. \A c \in Visible : Reached(created[c])' =>
         created[c] <= since \/ \E e \in P : created[c] <= created[e]
  BY <1>2, <1>5 DEF Reached
<1>12. \A c \in Visible : created[c] <= since => Reached(created[c])
  BY DEF Reached, since
<1>13. PageOK'
  BY <1>2, <1>4, <1>5 DEF PageOK, t, Visible
<1>14. LatestCovered'
  BY <1>2, <1>6, <1>7 DEF DownloadInv, LatestCovered
<1>15. ASSUME NEW c \in Visible, Doc[c].type = t, Reached(created[c])'
       PROVE  c \in P \/ Tied(c) \/ created[c] <= since
  BY <1>4, <1>11, <1>15
<1>16. CursorCovered'
  <2> SUFFICES ASSUME NEW c \in Visible, Doc[c].type = t, Reached(created[c])'
               PROVE  Held(c)' \/ Tied(c) \/ c \in history.missed
    BY <1>2, <1>5, <1>6, <1>7 DEF CursorCovered, t
  <2>1. CASE c \in P \/ Tied(c)
    BY <1>9, <2>1
  <2>2. CASE created[c] <= since
    <3>1. Held(c) \/ Tied(c) \/ c \in history.missed
      BY <1>2, <1>12, <2>2 DEF DownloadInv, CursorCovered, t
    <3> QED
      BY <1>10, <3>1 DEF Held
  <2> QED
    BY <1>15, <2>1, <2>2
<1>17. WatchCovered'
  <2> SUFFICES ASSUME NEW c \in Watched
      PROVE  /\ /\ Doc[c].type = t
                /\ Reached(created[c])' \/ Cardinality(P) < Batch
                => Held(c)' \/ Excused(c)
             /\ \A n \in 1..5 : n > download.at /\ Order[n] = Doc[c].type =>
                  c \in Downloaded \/ Excused(c)
    BY <1>2, <1>5, <1>6, <1>8 DEF WatchCovered, t
  <2>1. c \in Visible
    BY DEF DownloadInv
  <2>2. ASSUME Doc[c].type = t, Reached(created[c])' \/ Cardinality(P) < Batch
        PROVE  Held(c)' \/ Excused(c)
    <3>1. c \in P \/ Tied(c) \/ created[c] <= since
      BY <1>4, <1>15, <2>1, <2>2
    <3>2. CASE c \in P
      BY <1>9, <3>2
    <3>3. CASE Tied(c)
      BY <3>3 DEF Excused
    <3>4. CASE created[c] <= since
      <4>1. Held(c) \/ Excused(c)
        BY <1>2, <1>12, <2>1, <2>2, <3>4 DEF DownloadInv, WatchCovered, t
      <4> QED
        BY <1>10, <4>1 DEF Held
    <3> QED
      BY <3>1, <3>2, <3>3, <3>4
  <2>3. \A n \in 1..5 : n > download.at /\ Order[n] = Doc[c].type =>
          c \in Downloaded \/ Excused(c)
    BY <1>2 DEF DownloadInv, WatchCovered
  <2> QED
    BY <2>2, <2>3
<1>18. NothingSkipped'
  BY <1>2, <1>6, <1>7 DEF DownloadInv, NothingSkipped
<1> QED
  BY <1>2, <1>6, <1>13, <1>14, <1>16, <1>17, <1>18 DEF DownloadInv

LEMMA WriteRecordInv ==
  ASSUME DownloadInv, TypeOK', WriteRecord
  PROVE  DownloadInv'
<1>1. PICK r \in download.page :
        /\ \A s \in download.page : created[r[1]] <= created[s[1]]
        /\ csv' = csv \cup {r}
        /\ download' = [download EXCEPT !.page = @ \ {r},
                                        !.cursor = created[r[1]]]
  BY DEF WriteRecord, Oldest
<1>2. UNCHANGED <<created, latest, history>> /\ download.stage = "save"
  BY DEF WriteRecord, source
<1>3. /\ download'.stage = "save" /\ download'.at = download.at
      /\ download'.page = download.page \ {r} /\ download'.cursor = created[r[1]]
      /\ download'.incremental = download.incremental
      /\ download'.short = download.short
  BY <1>1, <1>2 DEF DownloadInv, TypeOK
<1>4. Visible' = Visible /\ Downloaded' = Downloaded \cup {r[1]} /\ Watched' = Watched
  BY <1>1, <1>2 DEF Visible, Downloaded, Watched
<1>5. \A c : Tied(c)' = Tied(c)
  BY <1>2, <1>4 DEF Tied
<1>6. \A c : Excused(c)' = Excused(c)
  BY <1>2, <1>3, <1>5 DEF Excused
<1>7. \A c : Held(c) => Held(c)'
  BY <1>3, <1>4 DEF Held
<1>8. \A n : Reached(n)' => Reached(n)
  BY <1>2, <1>3 DEF Reached
<1>9. PageOK'
  BY <1>2, <1>3 DEF DownloadInv, PageOK
<1>10. LatestCovered'
  BY <1>2, <1>4, <1>5 DEF DownloadInv, LatestCovered
<1>11. CursorCovered'
  BY <1>2, <1>3, <1>4, <1>5, <1>7, <1>8 DEF DownloadInv, CursorCovered
<1>12. WatchCovered'
  BY <1>2, <1>3, <1>4, <1>6, <1>7, <1>8 DEF DownloadInv, WatchCovered
<1>13. NothingSkipped'
  BY <1>2, <1>4, <1>5 DEF DownloadInv, NothingSkipped
<1> QED
  BY <1>2, <1>3, <1>4, <1>9, <1>10, <1>11, <1>12, <1>13 DEF DownloadInv

LEMMA WriteLatestInv ==
  ASSUME DownloadInv, TypeOK', WriteLatest
  PROVE  DownloadInv'
<1> DEFINE t == Order[download.at]
<1>1. /\ download.stage = "save" /\ download.page = {}
      /\ latest' = [latest EXCEPT ![t] = download.cursor]
      /\ UNCHANGED <<created, csv, torn>>
  BY DEF WriteLatest, source
<1>2. /\ download.at \in 1..5 /\ t \in Types /\ download.incremental \in BOOLEAN
      /\ latest \in [Types -> 0..MaxTime]
  BY <1>1, OrderType DEF DownloadInv, TypeOK
<1>3. /\ latest'[t] = download.cursor
      /\ \A u \in Types \ {t} : latest'[u] = latest[u]
  BY <1>1, <1>2
<1>4. /\ history'.missed = history.missed /\ history'.watched = history.watched
      /\ history'.lost = history.lost
  BY DEF WriteLatest, DownloadInv, TypeOK
<1> HIDE DEF t
<1>5. Visible' = Visible /\ Downloaded' = Downloaded /\ Watched' = Watched
  BY <1>1, <1>4 DEF Visible, Downloaded, Watched
<1>6. \A c : Tied(c)' = Tied(c)
  BY <1>1, <1>5 DEF Tied
<1>7. \A c : Held(c) => c \in Downloaded
  BY <1>1 DEF Held
<1>8. LatestCovered'
  <2> SUFFICES ASSUME NEW c \in Visible, created[c] <= latest'[Doc[c].type]
               PROVE  c \in Downloaded \/ Tied(c) \/ c \in history.missed
    BY <1>1, <1>4, <1>5, <1>6 DEF LatestCovered
  <2>1. CASE Doc[c].type = t
    <3>1. Reached(created[c])
      BY <1>3, <2>1 DEF Reached
    <3> QED
      BY <1>1, <1>7, <2>1, <3>1 DEF DownloadInv, CursorCovered, t
  <2>2. CASE Doc[c].type # t
    <3>1. Doc[c].type \in Types
      BY DocumentsAssumption DEF Visible
    <3> QED
      BY <1>3, <2>2, <3>1 DEF DownloadInv, LatestCovered
  <2> QED
    BY <2>1, <2>2
<1>9. ASSUME download.short, NEW c \in Watched, NEW n \in 1..5,
             n >= download.at, Order[n] = Doc[c].type
      PROVE  c \in Downloaded \/ Excused(c)
  <2>1. CASE n = download.at
    BY <1>1, <1>7, <1>9, <2>1 DEF DownloadInv, WatchCovered
  <2>2. CASE n > download.at
    BY <1>1, <1>9, <2>2 DEF DownloadInv, WatchCovered
  <2> QED
    BY <1>2, <1>9, <2>1, <2>2
<1>10. CASE download' = [download EXCEPT !.stage = "list"] /\ history' = history
  <2>1. /\ download'.stage = "list" /\ download'.at = download.at
        /\ download'.page = {} /\ download'.cursor = download.cursor
        /\ download'.incremental = download.incremental
    BY <1>1, <1>10 DEF DownloadInv, TypeOK
  <2>2. \A c : Excused(c)' = Excused(c)
    BY <1>4, <1>6, <2>1 DEF Excused
  <2>3. \A n : Reached(n)' => Reached(n)
    BY <1>1, <2>1 DEF Reached
  <2>4. \A c : c \in Downloaded => Held(c)'
    BY <1>5 DEF Held
  <2>5. PageOK'
    BY <2>1 DEF PageOK
  <2>6. CursorCovered'
    BY <1>1, <1>4, <1>5, <1>6, <1>7, <2>1, <2>3, <2>4 DEF DownloadInv, CursorCovered
  <2>7. WatchCovered'
    BY <1>1, <1>5, <1>7, <2>1, <2>2, <2>3, <2>4 DEF DownloadInv, WatchCovered
  <2>8. NothingSkipped'
    BY <1>1, <1>5, <1>6, <1>10 DEF DownloadInv, NothingSkipped
  <2> QED
    BY <1>1, <1>5, <1>8, <1>10, <2>1, <2>5, <2>6, <2>7, <2>8 DEF DownloadInv
<1>11. CASE /\ download.short /\ download.at > 1 /\ history' = history
            /\ Open(download.at - 1, download.incremental)
  <2>1. PICK n \in 1..5, i \in BOOLEAN :
          n = download.at - 1 /\ i = download.incremental
    BY <1>2, <1>11
  <2>2. Open(n, i)
    BY <1>11, <2>1
  <2>3. Order[n] \in Types \ {t}
    BY <1>2, <2>1, OrderType DEF t
  <2>4. latest'[Order[n]] = latest[Order[n]]
    BY <1>3, <2>3
  <2>5. /\ download'.stage = "list" /\ download'.at = n
        /\ download'.page = {} /\ download'.incremental = i
        /\ CursorCovered'
        /\ \A c \in Visible : Doc[c].type = Order[n] /\ Reached(created[c])' =>
             /\ i
             /\ c \in Downloaded \/ Tied(c) \/ c \in history.missed
    BY <1>1, <1>4, <1>8, <2>2, <2>4, OpenCovered
  <2>6. \A c : Excused(c)' = Excused(c)
    BY <1>4, <1>6, <2>1, <2>5 DEF Excused
  <2>7. PageOK'
    BY <2>5 DEF PageOK
  <2>8. WatchCovered'
    <3> SUFFICES ASSUME NEW c \in Watched
        PROVE  /\ Doc[c].type = Order[n] /\ Reached(created[c])' =>
                    Held(c)' \/ Excused(c)
               /\ \A m \in 1..5 : m > n /\ Order[m] = Doc[c].type =>
                    c \in Downloaded \/ Excused(c)
      BY <1>1, <1>5, <2>5, <2>6 DEF WatchCovered
    <3>1. c \in Visible
      BY DEF DownloadInv
    <3>2. ASSUME Doc[c].type = Order[n], Reached(created[c])'
          PROVE  Held(c)' \/ Excused(c)
      BY <1>5, <2>1, <2>5, <3>1, <3>2 DEF Held, Excused
    <3>3. ASSUME NEW m \in 1..5, m > n, Order[m] = Doc[c].type
          PROVE  c \in Downloaded \/ Excused(c)
      <4>1. m >= download.at
        BY <1>2, <2>1, <3>3
      <4> QED
        BY <1>9, <1>11, <3>3, <4>1
    <3> QED
      BY <3>2, <3>3
  <2>9. NothingSkipped'
    BY <1>1, <1>5, <1>6, <1>11 DEF DownloadInv, NothingSkipped
  <2> QED
    BY <1>1, <1>5, <1>8, <1>11, <2>5, <2>7, <2>8, <2>9 DEF DownloadInv
<1>12. CASE /\ download.short /\ download.at = 1 /\ download' = Idle
            /\ history' = [history EXCEPT !.result =
                 IF download.incremental THEN "incremental" ELSE "full"]
  <2>1. download'.stage = "idle" /\ download'.page = {}
    BY <1>12 DEF Idle
  <2>2. history'.result = IF download.incremental THEN "incremental" ELSE "full"
    BY <1>12 DEF DownloadInv, TypeOK
  <2>3. PageOK' /\ CursorCovered' /\ WatchCovered'
    BY <2>1 DEF PageOK, CursorCovered, WatchCovered
  <2>4. ASSUME NEW c \in Watched PROVE c \in Downloaded \/ Excused(c)
    <3>1. Doc[c].type \in Types
      BY DocumentsAssumption DEF DownloadInv, Visible
    <3>2. PICK n \in 1..5 : Order[n] = Doc[c].type
      BY <3>1, OrderType
    <3>3. n >= download.at
      BY <1>12
    <3> QED
      BY <1>9, <1>12, <3>2, <3>3
  <2>5. NothingSkipped'
    <3> SUFFICES ASSUME NEW d \in history.watched
                 PROVE  \/ d[1] \in Downloaded
                        \/ Tied(d[1])
                        \/ d[1] \in history.lost
                        \/ /\ history'.result = "incremental"
                           /\ d[1] \in history.missed
      BY <1>4, <1>5, <1>6 DEF NothingSkipped
    <3>1. d[1] \in Watched
      BY DEF Watched
    <3> QED
      BY <2>2, <2>4, <3>1 DEF Excused
  <2> QED
    BY <1>5, <1>8, <2>1, <2>3, <2>5 DEF DownloadInv
<1> QED
  BY <1>10, <1>11, <1>12 DEF WriteLatest

\* The records of a page are lost, but the cursor passes them.
LEMMA LoseRecordsInv ==
  ASSUME DownloadInv, TypeOK', LoseRecords
  PROVE  DownloadInv'
<1> DEFINE Lost == {s[1] : s \in download.page}
<1>1. PICK r \in download.page :
        /\ \A s \in download.page : created[s[1]] <= created[r[1]]
        /\ download' = [download EXCEPT !.page = {}, !.cursor = created[r[1]],
                                        !.broken = TRUE]
  BY DEF LoseRecords, Newest
<1>2. /\ UNCHANGED <<created, csv, latest>> /\ download.stage = "save"
      /\ history' = [history EXCEPT !.faults = @ + 1, !.lost = @ \cup Lost,
                                    !.missed = @ \cup Lost]
  BY DEF LoseRecords, source
<1>3. /\ download'.stage = "save" /\ download'.at = download.at
      /\ download'.page = {} /\ download'.cursor = created[r[1]]
      /\ download'.incremental = download.incremental
      /\ download'.short = download.short
  BY <1>1, <1>2 DEF DownloadInv, TypeOK
<1>4. /\ history'.lost = history.lost \cup Lost
      /\ history'.missed = history.missed \cup Lost
      /\ history'.watched = history.watched /\ history'.result = history.result
  BY <1>2 DEF DownloadInv, TypeOK
<1>5. Visible' = Visible /\ Downloaded' = Downloaded /\ Watched' = Watched
  BY <1>2, <1>4 DEF Visible, Downloaded, Watched
<1>6. \A c : Tied(c)' = Tied(c)
  BY <1>2, <1>5 DEF Tied
<1>7. \A c : Held(c) => c \in Downloaded \/ (c \in history'.lost /\ c \in history'.missed)
  BY <1>4 DEF Held
<1>8. \A c : Excused(c) => Excused(c)'
  BY <1>3, <1>4, <1>6 DEF Excused
<1>9. \A n : Reached(n)' => Reached(n)
  BY <1>1, <1>2, <1>3 DEF Reached
<1>10. PageOK'
  BY <1>3 DEF PageOK
<1>11. LatestCovered'
  BY <1>2, <1>4, <1>5, <1>6 DEF DownloadInv, LatestCovered
<1>12. CursorCovered'
  <2> SUFFICES ASSUME NEW c \in Visible, Doc[c].type = Order[download.at],
                      Reached(created[c])
               PROVE  c \in Downloaded \/ Tied(c) \/ c \in history'.missed
    BY <1>2, <1>3, <1>5, <1>6, <1>9 DEF CursorCovered, Held
  <2>1. Held(c) \/ Tied(c) \/ c \in history.missed
    BY <1>2 DEF DownloadInv, CursorCovered
  <2> QED
    BY <1>4, <1>7, <2>1
<1>13. WatchCovered'
  <2> SUFFICES ASSUME NEW c \in Watched
      PROVE  /\ /\ Doc[c].type = Order[download.at]
                /\ Reached(created[c]) \/ download.short
                => c \in Downloaded \/ Excused(c)'
             /\ \A n \in 1..5 : n > download.at /\ Order[n] = Doc[c].type =>
                  c \in Downloaded \/ Excused(c)'
    BY <1>2, <1>3, <1>5, <1>9 DEF WatchCovered, Held
  <2>1. /\ Doc[c].type = Order[download.at]
        /\ Reached(created[c]) \/ download.short
        => Held(c) \/ Excused(c)
    BY <1>2 DEF DownloadInv, WatchCovered
  <2>2. Held(c) => c \in Downloaded \/ Excused(c)'
    BY <1>7 DEF Excused
  <2>3. \A n \in 1..5 : n > download.at /\ Order[n] = Doc[c].type =>
          c \in Downloaded \/ Excused(c)
    BY <1>2 DEF DownloadInv, WatchCovered
  <2> QED
    BY <1>8, <2>1, <2>2, <2>3
<1>14. history'.result = "none"
  BY <1>2, <1>4 DEF DownloadInv
<1>15. NothingSkipped'
  BY <1>14 DEF NothingSkipped
<1> QED
  BY <1>5, <1>10, <1>11, <1>12, <1>13, <1>14, <1>15 DEF DownloadInv

LEMMA StopDownloadInv ==
  ASSUME DownloadInv, TypeOK', NoticeLoss \/ StopDownload
  PROVE  DownloadInv'
<1>1. UNCHANGED <<created, csv, latest>> /\ download' = Idle
  BY DEF NoticeLoss, StopDownload, source, directory
<1>2. /\ history'.watched = {} /\ history'.missed = history.missed
  BY DEF NoticeLoss, StopDownload, DownloadInv, TypeOK
<1>3. Visible' = Visible /\ Downloaded' = Downloaded /\ Watched' = {}
  BY <1>1, <1>2 DEF Visible, Downloaded, Watched
<1>4. \A c : Tied(c)' = Tied(c)
  BY <1>1, <1>3 DEF Tied
<1>5. LatestCovered'
  BY <1>1, <1>2, <1>3, <1>4 DEF DownloadInv, LatestCovered
<1>6. download'.stage = "idle" /\ download'.page = {}
  BY <1>1 DEF Idle
<1>7. PageOK' /\ CursorCovered' /\ WatchCovered'
  BY <1>6 DEF PageOK, CursorCovered, WatchCovered
<1>8. NothingSkipped'
  BY <1>2 DEF NothingSkipped
<1> QED
  BY <1>3, <1>5, <1>6, <1>7, <1>8 DEF DownloadInv

LEMMA DownloadInvInit == Init => DownloadInv
<1> SUFFICES ASSUME Init PROVE DownloadInv
  OBVIOUS
<1>1. Watched = {}
  BY DEF Init, Watched
<1>2. download.stage = "idle" /\ download.page = {} /\ history.result = "none"
  BY DEF Init, Idle
<1>3. LatestCovered
  <2> SUFFICES ASSUME NEW c \in Visible PROVE ~(created[c] <= latest[Doc[c].type])
    BY DEF LatestCovered
  <2>1. c \in Contents /\ created[c] > 0 /\ created[c] \in Nat
    BY TypeInit DEF Visible, TypeOK
  <2>2. latest[Doc[c].type] = 0
    BY <2>1, DocumentsAssumption DEF Init
  <2> QED
    BY <2>1, <2>2
<1> QED
  BY <1>1, <1>2, <1>3, TypeInit DEF DownloadInv, PageOK, CursorCovered,
                                    WatchCovered, NothingSkipped

LEMMA DownloadInvNext == DownloadInv /\ [Next]_vars => DownloadInv'
<1> SUFFICES ASSUME DownloadInv, [Next]_vars PROVE DownloadInv'
  OBVIOUS
<1>1. TypeOK'
  BY TypeNext DEF DownloadInv
<1>2. ASSUME UNCHANGED <<created, csv, torn, latest, download>>,
             history'.missed = history.missed, history'.lost = history.lost,
             history'.watched = history.watched, history'.result = history.result
      PROVE  DownloadInv'
  BY <1>1, <1>2, SameDownload
<1>3. CASE UNCHANGED vars
  BY <1>2, <1>3 DEF vars, source, directory
<1>4. ASSUME NEW d \in Offered, Name(d) PROVE DownloadInv'
  BY <1>2, <1>4 DEF Name, directory
<1>5. ASSUME NEW c \in Contents, NEW now \in 1..MaxTime, Enter(c, now)
      PROVE  DownloadInv'
  BY <1>1, <1>5, EnterInv
<1>6. ASSUME NEW incremental \in BOOLEAN, BeginDownload(incremental)
      PROVE  DownloadInv'
  BY <1>1, <1>6, BeginDownloadInv
<1>7. CASE DownloadStep
  BY <1>1, <1>7, ListInv, WriteRecordInv, WriteLatestInv, StopDownloadInv
  DEF DownloadStep
<1>8. CASE LoseRecords \/ StopDownload
  BY <1>1, <1>8, LoseRecordsInv, StopDownloadInv
<1>9. ASSUME NEW skip \in BOOLEAN, BeginUpload(skip) PROVE DownloadInv'
  <2>1. /\ history'.missed = history.missed /\ history'.lost = history.lost
        /\ history'.watched = history.watched /\ history'.result = history.result
    BY <1>9 DEF BeginUpload, DownloadInv, TypeOK
  <2> QED
    BY <1>2, <1>9, <2>1 DEF BeginUpload, source, directory
<1>10. ASSUME NEW d \in Digest, Put(d) PROVE DownloadInv'
  <2>1. \/ history' = history
        \/ history' = [history EXCEPT !.refused = @ \cup {d[1]}]
    BY <1>10 DEF Put
  <2>2. /\ history'.missed = history.missed /\ history'.lost = history.lost
        /\ history'.watched = history.watched /\ history'.result = history.result
    BY <2>1 DEF DownloadInv, TypeOK
  <2> QED
    BY <1>2, <1>10, <2>2 DEF Put, source, directory
<1>11. CASE FinishUpload
  <2>1. /\ history'.missed = history.missed /\ history'.lost = history.lost
        /\ history'.watched = history.watched /\ history'.result = history.result
    BY <1>11 DEF FinishUpload, DownloadInv, TypeOK
  <2> QED
    BY <1>2, <1>11, <2>1 DEF FinishUpload, source, directory
<1>12. CASE StopUpload
  BY <1>2, <1>12 DEF StopUpload, source, directory
<1> QED
  BY <1>3, <1>4, <1>5, <1>6, <1>7, <1>8, <1>9, <1>10, <1>11, <1>12
  DEF Next, Grow, UploadStep

\* A finished download has all that was visible when it began, for any
\* documents, page size and number of runs, wherever they were cut off and
\* whichever flush failed; except for objects of one time, records it lost in a
\* flush, an index with a part of a line, and, if it is incremental, objects that
\* earlier ones lost or that came late.
THEOREM DownloadsSkipNothing == Spec => []NothingSkipped
<1>1. DownloadInv => NothingSkipped
  BY DEF DownloadInv
<1> QED
  BY <1>1, DownloadInvInit, DownloadInvNext, PTL DEF Spec

-----------------------------------------------------------------------------
(* What a full download leaves can be uploaded *)

\* Does the document c refer to the digest d?
Refers(c, d) ==
  \/ Doc[c].type = "bottle" /\ d \in Doc[c].artifacts
  \/ Doc[c].type \in HasSubject /\ d = Doc[c].subject
  \/ Doc[c].type = "signature" /\ d = Doc[c].bottle

\* Does index.csv have a record of d, or does it get one from the page?
Stored(d) == \E r \in csv : r[1] = d[1] /\ d[2] \in r[2]
HeldAs(d) ==
  Stored(d) \/ \E r \in download.page : r[1] = d[1] /\ d[2] \in r[2]

\* Is the download done with the type t?
Fetched(t) == \E n \in 1..5 : n > download.at /\ Order[n] = t

\* What has to be in the directory in the end: the digests that are watched, and
\* those to which records refer.  All were there before their type was asked for.
Wanted(d) ==
  \/ d \in history.watched
  \/ \E c \in Downloaded : Refers(c, d) /\ Fetched(Doc[c].type)

\* The source is closed under references, by the digests that are used, and
\* but for bottles that came too early has artifacts as blobs; the first entry of
\* its summaries of signatures verifies.
SourceClosed ==
  \A c \in Visible : /\ Source!Satisfied(Doc[c].type, c)
                     /\ Begins(c)
                     /\ c \notin history.loose => ArtifactsEntered(c)

\* Only what is on the source is recorded or watched.
Genuine ==
  /\ Downloaded \subseteq Visible
  /\ \A d \in history.watched : d \in names /\ d[1] \in Visible

\* A full download is running, or was the last.
FullRun == \/ download.stage # "idle" /\ ~ download.incremental
           \/ history.result = "full"

\* What is wanted is stored when its type is done, and held as far as its type
\* has been asked for.
FullCovered ==
  FullRun /\ Sound =>
    \A d \in Digest : Wanted(d) =>
      /\ Fetched(Doc[d[1]].type) => Stored(d)
      /\ /\ download.stage # "idle"
         /\ Doc[d[1]].type = Order[download.at]
         /\ \/ Reached(created[d[1]])
            \/ download.stage = "save" /\ download.short
         => HeldAs(d)

\* The index of every type that was reached is there.
OpenedSoFar ==
  /\ download.stage = "idle" => download.at = 0
  /\ download.stage # "idle" \/ history.result # "none" =>
       \A n \in 1..5 : n >= download.at => Order[n] \in opened

\* Nothing is uploaded while a download runs.
Quiet == download.stage # "idle" =>
           ~ upload.active /\ ~ history.uploaded /\ history.refused = {}

OnTarget(d) ==
  d \in target.names /\ <<Doc[d[1]].type, d[1]>> \in target.recorded

\* Is the record of d in an index that is read?
Read(d) == Stored(d) /\ Doc[d[1]].type \in Readable

\* After a full download the upload has put, or is going to put, exactly what
\* can be read, and what it has put is on the target, summaries that are refused
\* included.
UploadCovered ==
  history.result = "full" /\ Sound =>
    /\ \A c \in history.refused : ~Verifies(c)
    /\ upload.active =>
         /\ \A d \in upload.todo : Read(d)
         /\ \A d \in Digest : Read(d) => d \in upload.todo \/ OnTarget(d)
    /\ history.uploaded => \A d \in Digest : Stored(d) => OnTarget(d)

MirrorInv ==
  /\ DownloadInv
  /\ SourceClosed
  /\ Genuine
  /\ FullCovered
  /\ OpenedSoFar
  /\ Quiet
  /\ UploadCovered

\* What an object on a sound source refers to is there, and of a type that is
\* put before its own.
LEMMA References ==
  ASSUME TypeOK, SourceClosed, Sound, NEW c \in Visible, NEW d, Refers(c, d)
  PROVE  /\ d \in Digest /\ d \in names /\ d[1] \in Visible
         /\ \E m, n \in 1..5 : /\ m < n /\ Order[m] = Doc[d[1]].type
                               /\ Order[n] = Doc[c].type
<1> USE DocumentsAssumption
<1>1. /\ Order[1] = "blob" /\ Order[2] = "bottle" /\ Order[3] = "manifest"
      /\ Order[4] = "event" /\ Order[5] = "signature"
  BY DEF Order
<1>2. Source!Satisfied(Doc[c].type, c) /\ ArtifactsEntered(c)
  BY DEF SourceClosed, Sound
<1>3. c \in Contents /\ names \subseteq Digest
  BY DEF Visible, TypeOK
<1>4. CASE Doc[c].type = "bottle" /\ d \in Doc[c].artifacts
  <2>1. d \in names /\ d[1] \in Visible /\ Doc[d[1]].type = "blob"
    BY <1>2, <1>4 DEF Source!Satisfied, ArtifactsEntered
  <2> QED
    BY <1>1, <1>3, <1>4, <2>1
<1>5. CASE Doc[c].type \in HasSubject /\ d = Doc[c].subject
  <2>1. /\ d \in names /\ d[1] \in Visible
        /\ Doc[d[1]].type = SubjectType(Doc[c].type)
    BY <1>2, <1>5 DEF Source!Satisfied, Source!Resolves, Source!HasSubject,
       Source!SubjectType, HasSubject, SubjectType
  <2>2. Doc[c].type = "manifest" => Doc[d[1]].type = "bottle"
    BY <2>1 DEF SubjectType
  <2>3. Doc[c].type \in {"event", "signature"} => Doc[d[1]].type = "manifest"
    BY <2>1 DEF SubjectType
  <2> QED
    BY <1>1, <1>3, <1>5, <2>1, <2>2, <2>3 DEF HasSubject
<1>6. CASE Doc[c].type = "signature" /\ d = Doc[c].bottle
  <2>1. d \in names /\ d[1] \in Visible /\ Doc[d[1]].type = "bottle"
    BY <1>2, <1>6 DEF Source!Satisfied, Source!Resolves
  <2> QED
    BY <1>1, <1>3, <1>6, <2>1
<1> QED
  BY <1>4, <1>5, <1>6 DEF Refers

\* The target accepts what has all it refers to there.
LEMMA Accepts ==
  ASSUME TypeOK, SourceClosed, Sound, NEW d \in Digest, d[1] \in Visible,
         \A e \in Digest : Refers(d[1], e) => OnTarget(e)
  PROVE  Target(d)!Satisfied(Doc[d[1]].type, d[1])
<1> USE DocumentsAssumption
<1>1. PICK c : c = d[1]
  OBVIOUS
<1>2. /\ c \in Contents /\ Source!Satisfied(Doc[c].type, c)
      /\ \A e : Refers(c, e) => OnTarget(e)
  BY <1>1, References DEF SourceClosed, Visible
<1>3. Doc[c].type = "bottle" => Doc[c].artifacts \subseteq target.names
  BY <1>2 DEF Refers, OnTarget
<1>4. ASSUME Doc[c].type \in HasSubject
      PROVE  /\ Doc[c].subject \in target.names
             /\ <<SubjectType(Doc[c].type), Doc[c].subject[1]>> \in target.recorded
  <2>1. Doc[Doc[c].subject[1]].type = SubjectType(Doc[c].type)
    BY <1>2, <1>4 DEF Source!Satisfied, Source!Resolves, Source!HasSubject,
       Source!SubjectType, HasSubject, SubjectType
  <2> QED
    BY <1>2, <1>4, <2>1 DEF Refers, OnTarget
<1>5. ASSUME Doc[c].type = "signature"
      PROVE  /\ Doc[c].bottle \in target.names
             /\ <<"bottle", Doc[c].bottle[1]>> \in target.recorded
  <2>1. Doc[Doc[c].bottle[1]].type = "bottle"
    BY <1>2, <1>5 DEF Source!Satisfied, Source!Resolves
  <2> QED
    BY <1>2, <1>5, <2>1 DEF Refers, OnTarget
<1>6. Doc[c].type = "manifest" => Doc[c].parts = Doc[Doc[c].subject[1]].parts
  BY <1>2 DEF Source!Satisfied
<1> QED
  BY <1>1, <1>3, <1>4, <1>5, <1>6 DEF Target!Satisfied, Target!Resolves,
     Target!HasSubject, Target!SubjectType, HasSubject, SubjectType

\* What is wanted is there.
LEMMA WantedIsThere ==
  ASSUME TypeOK, SourceClosed, Genuine, Sound, NEW d \in Digest, Wanted(d)
  PROVE  d \in names /\ d[1] \in Visible
<1>1. CASE d \in history.watched
  BY <1>1 DEF Genuine
<1>2. CASE \E c \in Downloaded : Refers(c, d)
  BY <1>2, References DEF Genuine
<1> QED
  BY <1>1, <1>2 DEF Wanted

\* What happened to the source stays: it only grows.
SourceGrows ==
  /\ names \subseteq names'
  /\ \A c \in Visible : c \in Visible' /\ created'[c] = created[c]
  /\ history.loose \subseteq history'.loose

LEMMA SoundBefore ==
  ASSUME SourceGrows, history'.lost = history.lost, Sound'
  PROVE  Sound
<1>1. history.loose = {} /\ history.lost = {}
  BY DEF SourceGrows, Sound
<1>2. ASSUME NEW c \in Visible, Tied(c) PROVE FALSE
  <2>1. c \in Visible' /\ Tied(c)'
    BY <1>2 DEF SourceGrows, Tied
  <2> QED
    BY <2>1 DEF Sound
<1> QED
  BY <1>1, <1>2 DEF Sound

LEMMA SatisfiedStays ==
  ASSUME SourceGrows, NEW t, NEW c, Source!Satisfied(t, c)
  PROVE  Source!Satisfied(t, c)'
<1>1. ASSUME NEW u, NEW d, Source!Resolves(u, d)
      PROVE  Source!Resolves(u, d)'
  <2>1. d \in names /\ \E e \in Visible : <<u, d[1]>> = <<Doc[e].type, e>>
    BY <1>1 DEF Source!Resolves
  <2>2. d \in names' /\ \E e \in Visible' : <<u, d[1]>> = <<Doc[e].type, e>>
    BY <2>1 DEF SourceGrows
  <2> QED
    BY <2>2 DEF Source!Resolves
<1>2. PICK u, m, b : /\ u = Source!SubjectType(t)
                     /\ m = Doc[c].subject /\ b = Doc[c].bottle
  OBVIOUS
<1>3. /\ t = "bottle" => Doc[c].artifacts \subseteq names'
      /\ t \in Source!HasSubject => Source!Resolves(u, m)
      /\ t = "manifest" => Doc[c].parts = Doc[Doc[c].subject[1]].parts
      /\ t = "signature" => Source!Resolves("bottle", b)
  BY <1>2 DEF Source!Satisfied, SourceGrows
<1>4. /\ t \in Source!HasSubject => Source!Resolves(u, m)'
      /\ t = "signature" => Source!Resolves("bottle", b)'
  BY <1>1, <1>3
<1> QED
  BY <1>2, <1>3, <1>4 DEF Source!Satisfied, Source!HasSubject, Source!SubjectType

LEMMA EnterGrows ==
  ASSUME TypeOK, NEW c \in Contents, NEW now \in 1..MaxTime, Enter(c, now)
  PROVE  /\ SourceGrows /\ Visible' = Visible \cup {c}
         /\ history'.watched = history.watched
         /\ history'.result = history.result
         /\ history'.lost = history.lost
         /\ history'.refused = history.refused
         /\ history'.uploaded = history.uploaded
         /\ ~ ArtifactsEntered(c) => c \in history'.loose
<1>1. history' = [history EXCEPT
        !.missed = IF Passed(Doc[c].type, now) THEN @ \cup {c} ELSE @,
        !.loose = IF ArtifactsEntered(c) THEN @ ELSE @ \cup {c}]
  BY DEF Enter
<1>2. PICK L, B : /\ L = IF Passed(Doc[c].type, now) THEN history.missed \cup {c}
                         ELSE history.missed
                  /\ B = IF ArtifactsEntered(c) THEN history.loose
                         ELSE history.loose \cup {c}
  OBVIOUS
<1>3. history' = [history EXCEPT !.missed = L, !.loose = B]
  BY <1>1, <1>2
<1>4. /\ history'.watched = history.watched /\ history'.result = history.result
      /\ history'.lost = history.lost
      /\ history'.refused = history.refused
      /\ history'.uploaded = history.uploaded
      /\ history'.loose = B
  BY <1>3 DEF TypeOK
<1>5. created \in [Contents -> 0..MaxTime] /\ now \in Nat /\ now > 0
  BY MirrorAssumption DEF TypeOK
<1>6. created' = [created EXCEPT ![c] = now] /\ created[c] = 0 /\ names' = names
  BY DEF Enter
<1>7. /\ Visible' = Visible \cup {c}
      /\ \A e \in Visible : created'[e] = created[e]
  BY <1>5, <1>6 DEF Visible
<1> QED
  BY <1>2, <1>4, <1>6, <1>7 DEF SourceGrows

\* Every step lets the source grow and keeps it closed.
LEMMA SourceNext ==
  ASSUME TypeOK, SourceClosed, [Next]_vars
  PROVE  SourceGrows /\ SourceClosed'
<1>1. ASSUME created' = created, names \subseteq names',
             history'.loose = history.loose
      PROVE  SourceGrows /\ SourceClosed'
  <2>1. SourceGrows /\ Visible' = Visible
    BY <1>1 DEF SourceGrows, Visible
  <2>2. \A t, c : Source!Satisfied(t, c) => Source!Satisfied(t, c)'
    BY <2>1, SatisfiedStays
  <2>3. \A c : ArtifactsEntered(c) => ArtifactsEntered(c)'
    BY <2>1 DEF ArtifactsEntered
  <2>4. \A c \in Visible : Source!Satisfied(Doc[c].type, c)'
    BY <2>2 DEF SourceClosed
  <2> QED
    BY <1>1, <2>1, <2>3, <2>4 DEF SourceClosed
<1>2. ASSUME NEW c \in Contents, NEW now \in 1..MaxTime, Enter(c, now)
      PROVE  SourceGrows /\ SourceClosed'
  <2>1. /\ SourceGrows /\ Visible' = Visible \cup {c}
        /\ ~ ArtifactsEntered(c) => c \in history'.loose
    BY <1>2, EnterGrows
  <2>2. \A t, e : Source!Satisfied(t, e) => Source!Satisfied(t, e)'
    BY <2>1, SatisfiedStays
  <2>3. \A e : ArtifactsEntered(e) => ArtifactsEntered(e)'
    BY <2>1 DEF ArtifactsEntered
  <2>4. Source!Satisfied(Doc[c].type, c) /\ Begins(c)
    BY <1>2 DEF Enter
  <2>5. \A e \in Visible' : Source!Satisfied(Doc[e].type, e)' /\ Begins(e)
    BY <2>1, <2>2, <2>4 DEF SourceClosed
  <2>6. \A e \in Visible' : e \notin history'.loose => ArtifactsEntered(e)'
    BY <2>1, <2>3 DEF SourceClosed, SourceGrows
  <2> QED
    BY <2>1, <2>5, <2>6 DEF SourceClosed
<1>3. ASSUME UNCHANGED source, UNCHANGED history
      PROVE  SourceGrows /\ SourceClosed'
  BY <1>1, <1>3 DEF source
<1>4. CASE UNCHANGED vars \/ List \/ WriteRecord \/ StopUpload
  BY <1>3, <1>4 DEF vars, List, WriteRecord, StopUpload
<1>5. ASSUME NEW d \in Offered, Name(d)
      PROVE  SourceGrows /\ SourceClosed'
  BY <1>1, <1>5 DEF Name
<1>6. ASSUME NEW incremental \in BOOLEAN, BeginDownload(incremental)
      PROVE  SourceGrows /\ SourceClosed'
  <2>1. history'.loose = history.loose
    BY <1>6 DEF BeginDownload, TypeOK
  <2> QED
    BY <1>1, <1>6, <2>1 DEF BeginDownload, source
<1>7. CASE WriteLatest \/ NoticeLoss \/ StopDownload \/ FinishUpload
  <2>1. history'.loose = history.loose
    BY <1>7 DEF WriteLatest, NoticeLoss, StopDownload, FinishUpload, TypeOK
  <2> QED
    BY <1>1, <1>7, <2>1 DEF WriteLatest, NoticeLoss, StopDownload, FinishUpload,
                            source
<1>10. CASE LoseRecords
  <2>1. history'.loose = history.loose
    BY <1>10 DEF LoseRecords, TypeOK
  <2> QED
    BY <1>1, <1>10, <2>1 DEF LoseRecords, source
<1>8. ASSUME NEW skip \in BOOLEAN, BeginUpload(skip)
      PROVE  SourceGrows /\ SourceClosed'
  <2>1. history'.loose = history.loose
    BY <1>8 DEF BeginUpload, TypeOK
  <2> QED
    BY <1>1, <1>8, <2>1 DEF BeginUpload, source
<1>9. ASSUME NEW d \in Digest, Put(d)
      PROVE  SourceGrows /\ SourceClosed'
  <2>1. \/ history' = history
        \/ history' = [history EXCEPT !.refused = @ \cup {d[1]}]
    BY <1>9 DEF Put
  <2>2. history'.loose = history.loose
    BY <2>1 DEF TypeOK
  <2> QED
    BY <1>1, <1>9, <2>2 DEF Put, source
<1> QED
  BY <1>2, <1>4, <1>5, <1>6, <1>7, <1>8, <1>9, <1>10
  DEF Next, Grow, DownloadStep, UploadStep

-----------------------------------------------------------------------------

\* What the directory and the download have to do with the source.
DirectoryInv ==
  /\ DownloadInv
  /\ SourceClosed
  /\ Genuine
  /\ FullCovered
  /\ OpenedSoFar

\* A step that leaves the directory and the download alone.
LEMMA SameDirectory ==
  ASSUME DirectoryInv, SourceGrows, UNCHANGED <<csv, opened, download>>,
         history'.watched = history.watched, history'.result = history.result,
         history'.lost = history.lost
  PROVE  Genuine' /\ FullCovered' /\ OpenedSoFar'
<1>1. /\ Downloaded' = Downloaded
      /\ \A d : Stored(d)' = Stored(d)
      /\ \A t : Fetched(t)' = Fetched(t)
      /\ FullRun' = FullRun
  BY DEF Downloaded, Stored, Fetched, FullRun
<1>2. \A d : HeldAs(d)' = HeldAs(d)
  BY <1>1 DEF HeldAs
<1>3. \A d : Wanted(d)' = Wanted(d)
  BY <1>1 DEF Wanted, Refers
<1>4. Genuine'
  BY <1>1 DEF DirectoryInv, Genuine, SourceGrows
<1>5. OpenedSoFar'
  BY DEF DirectoryInv, OpenedSoFar
<1>6. \A r \in download.page : r[1] \in Visible
  BY DEF DirectoryInv, DownloadInv, PageOK, TypeOK, Visible
<1>7. \A n : Reached(n)' = Reached(n)
  BY <1>6 DEF Reached, SourceGrows
<1>8. FullCovered'
  <2> SUFFICES ASSUME FullRun, Sound', NEW d \in Digest, Wanted(d)
      PROVE  /\ Fetched(Doc[d[1]].type) => Stored(d)
             /\ /\ download.stage # "idle"
                /\ Doc[d[1]].type = Order[download.at]
                /\ \/ Reached(created'[d[1]])
                   \/ download.stage = "save" /\ download.short
                => HeldAs(d)
    BY <1>1, <1>2, <1>3, <1>7 DEF FullCovered
  <2>1. Sound
    BY SoundBefore
  <2>2. d[1] \in Visible
    BY <2>1, WantedIsThere DEF DirectoryInv, DownloadInv
  <2>3. created'[d[1]] = created[d[1]]
    BY <2>2 DEF SourceGrows
  <2> QED
    BY <2>1, <2>3 DEF DirectoryInv, FullCovered
<1> QED
  BY <1>4, <1>5, <1>8

\* A download that begins has asked for nothing yet.
LEMMA BeginDirectory ==
  ASSUME DirectoryInv, NEW incremental \in BOOLEAN, BeginDownload(incremental)
  PROVE  /\ Genuine' /\ FullCovered' /\ OpenedSoFar'
         /\ history'.result = "none" /\ history'.refused = {}
         /\ ~ history'.uploaded /\ ~ upload'.active
<1>1. /\ Open(5, incremental) /\ 5 \in 1..5
      /\ UNCHANGED <<created, names, csv, upload>> /\ ~ upload.active
  BY OrderType DEF BeginDownload, source
<1>2. history' = [history EXCEPT
        !.runs = @ + 1, !.result = "none", !.lost = {},
        !.watched = {d \in names : d[1] \in Visible},
        !.uploaded = FALSE, !.refused = {}]
  BY DEF BeginDownload
<1>3. /\ history'.result = "none"
      /\ history'.watched = {d \in names : d[1] \in Visible}
      /\ history'.uploaded = FALSE /\ history'.refused = {}
  BY <1>2 DEF DirectoryInv, DownloadInv, TypeOK
<1>4. /\ download' = [stage |-> "list", at |-> 5, incremental |-> incremental,
                      cursor |-> IF incremental THEN latest[Order[5]] ELSE 0,
                      page |-> {}, short |-> FALSE, broken |-> FALSE]
      /\ opened' = opened \cup {Order[5]}
  BY <1>1, OpenType DEF DirectoryInv, DownloadInv, Open
<1>5. Visible' = Visible /\ Downloaded' = Downloaded
  BY <1>1 DEF Visible, Downloaded
<1>6. Genuine'
  BY <1>1, <1>3, <1>5 DEF DirectoryInv, Genuine
<1>7. OpenedSoFar'
  <2>1. download'.stage = "list" /\ download'.at = 5
    BY <1>4
  <2>2. \A n \in 1..5 : n >= 5 => n = 5
    OBVIOUS
  <2> QED
    BY <1>4, <2>1, <2>2 DEF OpenedSoFar
<1>8. \A t : ~ Fetched(t)'
  <2>1. download'.at = 5
    BY <1>4
  <2> QED
    BY <2>1 DEF Fetched
<1>9. FullCovered'
  <2> SUFFICES ASSUME FullRun', NEW e \in Digest, Wanted(e)'
      PROVE  ~ Reached(created[e[1]])' /\ download'.stage # "save"
    BY <1>1, <1>8 DEF FullCovered
  <2>1. ~ incremental
    BY <1>3, <1>4 DEF FullRun
  <2>2. download'.cursor = 0 /\ download'.page = {} /\ download'.stage = "list"
    BY <1>4, <2>1
  <2>3. e[1] \in Visible
    BY <1>3, <1>8 DEF Wanted
  <2>4. created[e[1]] > 0 /\ created[e[1]] \in Nat
    BY <2>3 DEF Visible, DirectoryInv, DownloadInv, TypeOK
  <2> QED
    BY <1>1, <2>2, <2>4 DEF Reached
<1> QED
  BY <1>1, <1>3, <1>6, <1>7, <1>9

\* A page has every digest of its objects.
LEMMA ListDirectory ==
  ASSUME DirectoryInv, List
  PROVE  Genuine' /\ FullCovered' /\ OpenedSoFar'
<1> DEFINE t == Order[download.at]
           since == download.cursor
<1>1. PICK P \in Pages(t, since) :
        download' = [download EXCEPT !.stage = "save",
                                     !.page = {<<c, AlgsOf(c)>> : c \in P},
                                     !.short = Cardinality(P) < Batch]
  BY DEF List
<1>2. /\ UNCHANGED <<created, names, csv, opened, history>>
      /\ download.stage = "list"
  BY DEF List, source, directory
<1>3. download.at \in 1..5 /\ t \in Types /\ since \in Nat
  BY <1>2, OrderType, MirrorAssumption DEF DirectoryInv, DownloadInv, TypeOK
<1>4. /\ \A c \in Visible, e \in P :
           /\ Doc[c].type = t
           /\ created[c] <= created[e]
           => c \in P \/ created[c] <= since \/ Tied(c)
      /\ Cardinality(P) < Batch =>
           \A c \in Visible : Doc[c].type = t => c \in P \/ created[c] <= since
  BY <1>3, ShortPage DEF DirectoryInv
<1>5. /\ download'.stage = "save" /\ download'.at = download.at
      /\ download'.page = {<<c, AlgsOf(c)>> : c \in P}
      /\ download'.cursor = since /\ download'.incremental = download.incremental
      /\ download'.short = (Cardinality(P) < Batch)
  BY <1>1 DEF DirectoryInv, DownloadInv, TypeOK
<1>6. Visible' = Visible /\ Downloaded' = Downloaded
      /\ \A d : Stored(d)' = Stored(d)
  BY <1>2 DEF Visible, Downloaded, Stored
<1>7. /\ \A u : Fetched(u)' = Fetched(u)
      /\ FullRun' = FullRun
  BY <1>2, <1>5 DEF Fetched, FullRun
<1>8. \A d : Wanted(d)' = Wanted(d)
  BY <1>2, <1>6, <1>7 DEF Wanted, Refers
<1>9. Genuine'
  BY <1>2, <1>6 DEF DirectoryInv, Genuine
<1>10. OpenedSoFar'
  BY <1>2, <1>5 DEF DirectoryInv, OpenedSoFar
<1>11. Sound' = Sound
  BY <1>2, <1>6 DEF Sound, Tied
<1>12. FullCovered'
  <2> SUFFICES ASSUME FullRun, Sound, NEW d \in Digest, Wanted(d)
      PROVE  /\ Fetched(Doc[d[1]].type) => Stored(d)
             /\ /\ Doc[d[1]].type = t
                /\ Reached(created[d[1]])' \/ Cardinality(P) < Batch
                => HeldAs(d)'
    BY <1>2, <1>5, <1>6, <1>7, <1>8, <1>11 DEF FullCovered
  <2>1. d \in names /\ d[1] \in Visible /\ ~ Tied(d[1])
    BY WantedIsThere DEF DirectoryInv, DownloadInv, Sound
  <2>2. Fetched(Doc[d[1]].type) => Stored(d)
    BY DEF DirectoryInv, FullCovered
  <2>3. ASSUME Doc[d[1]].type = t,
               Reached(created[d[1]])' \/ Cardinality(P) < Batch
        PROVE  HeldAs(d)'
    <3>1. d[1] \in P \/ created[d[1]] <= since
      <4>1. Reached(created[d[1]])' =>
              \/ created[d[1]] <= since
              \/ \E e \in P : created[d[1]] <= created[e]
        BY <1>2, <1>5 DEF Reached
      <4> QED
        BY <1>4, <2>1, <2>3, <4>1
    <3>2. CASE d[1] \in P
      <4>1. <<d[1], AlgsOf(d[1])>> \in download'.page
        BY <1>5, <3>2
      <4>2. d = DigestOf(d[1], d[2]) /\ d[2] \in Algs
        BY DEF Digest, DigestOf
      <4>3. d[2] \in AlgsOf(d[1])
        BY <2>1, <4>2 DEF AlgsOf
      <4>4. <<d[1], AlgsOf(d[1])>>[1] = d[1] /\ d[2] \in <<d[1], AlgsOf(d[1])>>[2]
        BY <4>3
      <4> QED
        BY <4>1, <4>4 DEF HeldAs
    <3>3. CASE created[d[1]] <= since
      <4>1. Reached(created[d[1]])
        BY <3>3 DEF Reached
      <4>2. HeldAs(d)
        BY <1>2, <2>3, <4>1 DEF DirectoryInv, FullCovered
      <4>3. Stored(d)
        BY <1>2, <4>2 DEF HeldAs, DirectoryInv, DownloadInv, PageOK
      <4> QED
        BY <1>6, <4>3 DEF HeldAs
    <3> QED
      BY <3>1, <3>2, <3>3
  <2> QED
    BY <2>2, <2>3
<1> QED
  BY <1>9, <1>10, <1>12

LEMMA RecordDirectory ==
  ASSUME DirectoryInv, WriteRecord
  PROVE  Genuine' /\ FullCovered' /\ OpenedSoFar'
<1>1. PICK r \in download.page :
        /\ \A s \in download.page : created[r[1]] <= created[s[1]]
        /\ csv' = csv \cup {r}
        /\ download' = [download EXCEPT !.page = @ \ {r},
                                        !.cursor = created[r[1]]]
  BY DEF WriteRecord, Oldest
<1>2. /\ UNCHANGED <<created, names, opened, history>>
      /\ download.stage = "save"
  BY DEF WriteRecord, source
<1>3. /\ download'.stage = "save" /\ download'.at = download.at
      /\ download'.page = download.page \ {r}
      /\ download'.cursor = created[r[1]]
      /\ download'.incremental = download.incremental
      /\ download'.short = download.short
  BY <1>1, <1>2 DEF DirectoryInv, DownloadInv, TypeOK
<1>4. /\ download.at \in 1..5 /\ r[1] \in Visible
      /\ Doc[r[1]].type = Order[download.at]
  <2>1. created[r[1]] > 0 /\ Doc[r[1]].type = Order[download.at] /\ r[1] \in Contents
    BY <1>1 DEF DirectoryInv, DownloadInv, PageOK, TypeOK
  <2>2. download.at \in 1..5
    BY <1>2, OrderType DEF DirectoryInv, DownloadInv, TypeOK
  <2> QED
    BY <2>1, <2>2 DEF Visible
<1>5. /\ Visible' = Visible /\ Downloaded' = Downloaded \cup {r[1]}
      /\ \A d : Stored(d) => Stored(d)'
  BY <1>1, <1>2 DEF Visible, Downloaded, Stored
<1>6. \A d : HeldAs(d) => HeldAs(d)'
  <2> SUFFICES ASSUME NEW d, HeldAs(d) PROVE HeldAs(d)'
    OBVIOUS
  <2>1. CASE Stored(d)
    BY <1>5, <2>1 DEF HeldAs
  <2>2. ASSUME NEW s \in download.page, s[1] = d[1], d[2] \in s[2]
        PROVE  HeldAs(d)'
    <3>1. s \in csv' \/ s \in download'.page
      BY <1>1, <1>3
    <3> QED
      BY <2>2, <3>1 DEF HeldAs, Stored
  <2> QED
    BY <2>1, <2>2 DEF HeldAs
<1>7. /\ \A u : Fetched(u)' = Fetched(u)
      /\ FullRun' = FullRun
  BY <1>2, <1>3 DEF Fetched, FullRun
<1>8. ~ Fetched(Doc[r[1]].type)
  BY <1>4, OrderType DEF Fetched
<1>9. \A d : Wanted(d)' => Wanted(d)
  BY <1>2, <1>5, <1>7, <1>8 DEF Wanted, Refers
<1>10. \A n : Reached(n)' => Reached(n)
  BY <1>1, <1>2, <1>3 DEF Reached
<1>11. Genuine'
  BY <1>2, <1>4, <1>5 DEF DirectoryInv, Genuine
<1>12. OpenedSoFar'
  BY <1>2, <1>3 DEF DirectoryInv, OpenedSoFar
<1>13. Sound' = Sound
  BY <1>2, <1>5 DEF Sound, Tied
<1>14. FullCovered'
  <2> SUFFICES ASSUME FullRun, Sound, NEW d \in Digest, Wanted(d)
      PROVE  /\ Fetched(Doc[d[1]].type) => Stored(d)
             /\ /\ Doc[d[1]].type = Order[download.at]
                /\ Reached(created[d[1]]) \/ download.short
                => HeldAs(d)
    BY <1>2, <1>3, <1>5, <1>6, <1>7, <1>9, <1>10, <1>13 DEF FullCovered
  <2> QED
    BY <1>2 DEF DirectoryInv, FullCovered
<1> QED
  BY <1>11, <1>12, <1>14

\* When a type is done, what is wanted of it is stored; what its records refer
\* to is still to come.
LEMMA LatestDirectory ==
  ASSUME DirectoryInv, Quiet, WriteLatest
  PROVE  /\ Genuine' /\ FullCovered' /\ OpenedSoFar'
         /\ history'.refused = {} /\ ~ history'.uploaded /\ ~ upload'.active
<1>1. /\ download.stage = "save" /\ download.page = {}
      /\ UNCHANGED <<created, names, csv, upload, target>>
  BY DEF WriteLatest, source
<1>2. /\ download.at \in 1..5 /\ download.incremental \in BOOLEAN
      /\ history.result = "none" /\ history.refused = {} /\ ~ history.uploaded
      /\ ~ upload.active
  BY <1>1, OrderType DEF DirectoryInv, DownloadInv, TypeOK, Quiet
<1>3. /\ history'.watched = history.watched /\ history'.loose = history.loose
      /\ history'.lost = history.lost
      /\ history'.refused = {} /\ ~ history'.uploaded
  BY <1>2 DEF WriteLatest, DirectoryInv, DownloadInv, TypeOK
<1>4. /\ Visible' = Visible /\ Downloaded' = Downloaded
      /\ \A d : Stored(d)' = Stored(d)
  BY <1>1 DEF Visible, Downloaded, Stored
<1>5. Genuine'
  BY <1>1, <1>3, <1>4 DEF DirectoryInv, Genuine
<1>6. Sound' = Sound
  BY <1>1, <1>3, <1>4 DEF Sound, Tied
<1>7. \A d : HeldAs(d) => Stored(d)
  BY <1>1 DEF HeldAs
<1>8. CASE download' = [download EXCEPT !.stage = "list"]
           /\ opened' = opened /\ history' = history
  <2>1. /\ download'.stage = "list" /\ download'.at = download.at
        /\ download'.page = {} /\ download'.cursor = download.cursor
        /\ download'.incremental = download.incremental
    BY <1>1, <1>8 DEF DirectoryInv, DownloadInv, TypeOK
  <2>2. /\ \A u : Fetched(u)' = Fetched(u)
        /\ FullRun' = FullRun
    BY <1>1, <1>8, <2>1 DEF Fetched, FullRun
  <2>3. \A d : Wanted(d)' = Wanted(d)
    BY <1>3, <1>4, <2>2 DEF Wanted, Refers
  <2>4. \A n : Reached(n)' => Reached(n)
    BY <1>1, <2>1 DEF Reached
  <2>5. \A d : Stored(d) => HeldAs(d)'
    BY <1>4 DEF HeldAs
  <2>6. FullCovered'
    <3> SUFFICES ASSUME FullRun, Sound, NEW d \in Digest, Wanted(d)
        PROVE  /\ Fetched(Doc[d[1]].type) => Stored(d)
               /\ /\ Doc[d[1]].type = Order[download.at]
                  /\ Reached(created[d[1]])
                  => Stored(d)
      BY <1>1, <1>4, <1>6, <2>1, <2>2, <2>3, <2>4, <2>5 DEF FullCovered
    <3> QED
      BY <1>1, <1>7 DEF DirectoryInv, FullCovered
  <2>7. OpenedSoFar'
    BY <1>1, <1>8, <2>1 DEF DirectoryInv, OpenedSoFar
  <2> QED
    BY <1>1, <1>2, <1>3, <1>5, <2>6, <2>7
\* The type is done.
<1>9. ASSUME NEW k \in 0..4, k = download.at - 1, download.short,
             download'.at = k, FullRun' => ~ download.incremental
      PROVE  Sound' => \A d \in Digest : FullRun' /\ Wanted(d)' =>
               /\ d[1] \in Visible
               /\ Fetched(Doc[d[1]].type)' => Stored(d)
  <2> SUFFICES ASSUME Sound, FullRun', NEW d \in Digest, Wanted(d)'
      PROVE  d[1] \in Visible /\ (Fetched(Doc[d[1]].type)' => Stored(d))
    BY <1>6
  <2>1. FullRun
    BY <1>1, <1>9 DEF FullRun
  <2>2. \A n \in 1..5 : n > k => n > download.at \/ n = download.at
    BY <1>2, <1>9
  <2>3. \A t : Fetched(t)' => Fetched(t) \/ t = Order[download.at]
    BY <1>9, <2>2 DEF Fetched
  <2>4. CASE Wanted(d)
    <3>1. d[1] \in Visible
      BY <2>4, WantedIsThere DEF DirectoryInv, DownloadInv
    <3>2. Fetched(Doc[d[1]].type) => Stored(d)
      BY <2>1, <2>4 DEF DirectoryInv, FullCovered
    <3>3. Doc[d[1]].type = Order[download.at] => HeldAs(d)
      BY <1>1, <1>9, <2>1, <2>4 DEF DirectoryInv, FullCovered
    <3> QED
      BY <1>7, <2>3, <3>1, <3>2, <3>3
  <2>5. CASE ~ Wanted(d)
    <3>1. PICK c \in Downloaded : Refers(c, d) /\ Fetched(Doc[c].type)'
      BY <1>3, <1>4, <2>5 DEF Wanted, Refers
    <3>2. Doc[c].type = Order[download.at]
      BY <2>3, <2>5, <3>1 DEF Wanted
    <3>3. c \in Visible
      BY DEF DirectoryInv, Genuine
    <3>4. d[1] \in Visible
      BY <3>1, <3>3, References DEF DirectoryInv, DownloadInv
    <3>5. PICK m, n \in 1..5 : /\ m < n /\ Order[m] = Doc[d[1]].type
                               /\ Order[n] = Doc[c].type
      BY <3>1, <3>3, References DEF DirectoryInv, DownloadInv
    <3>6. n = download.at
      BY <1>2, <3>2, <3>5, OrderType
    <3>7. \A l \in 1..5 : l > k => Order[l] # Doc[d[1]].type
      BY <1>9, <3>5, <3>6, OrderType
    <3> QED
      BY <1>9, <3>4, <3>7 DEF Fetched
  <2> QED
    BY <2>4, <2>5
<1>10. CASE /\ download.short /\ download.at > 1 /\ history' = history
            /\ Open(download.at - 1, download.incremental)
  <2>1. PICK n \in 1..5, i \in BOOLEAN :
          n = download.at - 1 /\ i = download.incremental
    BY <1>2, <1>10
  <2>2. Open(n, i)
    BY <1>10, <2>1
  <2>3. n \in 0..4
    BY <1>2, <2>1
  <2>4. /\ download'.stage = "list" /\ download'.at = n
        /\ download'.incremental = i /\ download'.page = {}
        /\ opened' = opened \cup {Order[n]}
    <3>1. download' = [Idle EXCEPT
            !.stage = "list", !.at = n, !.incremental = i,
            !.cursor = IF i THEN latest[Order[n]] ELSE 0]
      BY <2>2 DEF Open
    <3> QED
      BY <2>2, <3>1 DEF Open, Idle
  <2>5. ~ i => download'.cursor = 0
    <3>1. download' = [Idle EXCEPT
            !.stage = "list", !.at = n, !.incremental = i,
            !.cursor = IF i THEN latest[Order[n]] ELSE 0]
      BY <2>2 DEF Open
    <3> QED
      BY <3>1 DEF Idle
  <2>6. FullRun' => ~ i
    BY <1>2, <1>10, <2>4 DEF FullRun
  <2>7. Sound' => \A d \in Digest : FullRun' /\ Wanted(d)' =>
               /\ d[1] \in Visible
               /\ Fetched(Doc[d[1]].type)' => Stored(d)
    BY <1>9, <1>10, <2>1, <2>3, <2>4, <2>6
  <2>8. FullCovered'
    <3> SUFFICES ASSUME FullRun', Sound', NEW d \in Digest, Wanted(d)'
        PROVE  /\ Fetched(Doc[d[1]].type)' => Stored(d)
               /\ ~ Reached(created[d[1]])'
      BY <1>1, <1>4, <2>4 DEF FullCovered
    <3>1. created[d[1]] > 0 /\ created[d[1]] \in Nat
      BY <2>7 DEF Visible, DirectoryInv, DownloadInv, TypeOK
    <3> QED
      BY <1>1, <2>4, <2>5, <2>6, <2>7, <3>1 DEF Reached
  <2>9. OpenedSoFar'
    <3>1. \A l \in 1..5 : l >= n => l = n \/ l >= download.at
      BY <1>2, <2>1
    <3> QED
      BY <1>1, <2>4, <3>1 DEF DirectoryInv, OpenedSoFar
  <2> QED
    BY <1>1, <1>2, <1>3, <1>5, <2>8, <2>9
<1>11. CASE /\ download.short /\ download.at = 1 /\ download' = Idle
            /\ opened' = opened
            /\ history' = [history EXCEPT !.result =
                 IF download.incremental THEN "incremental" ELSE "full"]
  <2>1. /\ download'.stage = "idle" /\ download'.at = 0
    BY <1>11 DEF Idle
  <2>2. history'.result = IF download.incremental THEN "incremental" ELSE "full"
    BY <1>11 DEF DirectoryInv, DownloadInv, TypeOK
  <2>3. FullRun' => ~ download.incremental
    BY <2>1, <2>2 DEF FullRun
  <2>4. Sound' => \A d \in Digest : FullRun' /\ Wanted(d)' =>
               /\ d[1] \in Visible
               /\ Fetched(Doc[d[1]].type)' => Stored(d)
    <3>1. 0 \in 0..4 /\ 0 = download.at - 1
      BY <1>11
    <3> QED
      BY <1>9, <1>11, <2>1, <2>3, <3>1
  <2>5. FullCovered'
    BY <1>4, <2>1, <2>4 DEF FullCovered
  <2>6. OpenedSoFar'
    BY <1>1, <1>11, <2>1 DEF DirectoryInv, OpenedSoFar
  <2> QED
    BY <1>1, <1>2, <1>3, <1>5, <2>5, <2>6
<1> QED
  BY <1>8, <1>10, <1>11 DEF WriteLatest

LEMMA StopDirectory ==
  ASSUME DirectoryInv, NoticeLoss \/ StopDownload
  PROVE  /\ Genuine' /\ FullCovered' /\ OpenedSoFar'
         /\ history'.result = "none"
<1>1. UNCHANGED <<created, csv, opened>> /\ download' = Idle
  BY DEF NoticeLoss, StopDownload, source, directory
<1>2. /\ download.stage # "idle"
      /\ history'.watched = {} /\ history'.result = history.result
  BY DEF NoticeLoss, StopDownload, DirectoryInv, DownloadInv, PageOK, TypeOK
<1>3. Visible' = Visible /\ Downloaded' = Downloaded
  BY <1>1 DEF Visible, Downloaded
<1>4. download'.stage = "idle" /\ download'.at = 0 /\ history'.result = "none"
  BY <1>1, <1>2 DEF Idle, DirectoryInv, DownloadInv
<1>5. Genuine'
  BY <1>2, <1>3 DEF DirectoryInv, Genuine
<1>6. FullCovered'
  BY <1>4 DEF FullCovered, FullRun
<1>7. OpenedSoFar'
  BY <1>4 DEF OpenedSoFar
<1> QED
  BY <1>4, <1>5, <1>6, <1>7

\* A download that loses records is not sound.
LEMMA LoseDirectory ==
  ASSUME DirectoryInv, LoseRecords
  PROVE  /\ Genuine' /\ FullCovered' /\ OpenedSoFar'
         /\ ~ Sound'
<1> DEFINE Lost == {r[1] : r \in download.page}
<1>1. PICK r \in download.page :
        download' = [download EXCEPT !.page = {}, !.cursor = created[r[1]],
                                     !.broken = TRUE]
  BY DEF LoseRecords, Newest
<1>2. /\ UNCHANGED <<created, names, csv, opened>>
      /\ history' = [history EXCEPT !.faults = @ + 1, !.lost = @ \cup Lost,
                                    !.missed = @ \cup Lost]
  BY DEF LoseRecords, source
<1>3. /\ history'.lost = history.lost \cup Lost
      /\ history'.watched = history.watched /\ history'.result = history.result
      /\ download'.stage = download.stage /\ download'.at = download.at
  BY <1>1, <1>2 DEF DirectoryInv, DownloadInv, TypeOK
<1>4. Visible' = Visible /\ Downloaded' = Downloaded
  BY <1>2 DEF Visible, Downloaded
<1>5. ~ Sound'
  BY <1>1, <1>3 DEF Sound
<1>6. Genuine'
  BY <1>2, <1>3, <1>4 DEF DirectoryInv, Genuine
<1>7. OpenedSoFar'
  BY <1>2, <1>3 DEF DirectoryInv, OpenedSoFar
<1> QED
  BY <1>5, <1>6, <1>7 DEF FullCovered

-----------------------------------------------------------------------------

\* After a full download, everything stored can be fetched, and so can all it
\* refers to and what was watched.
LEMMA AllStored ==
  ASSUME DirectoryInv, history.result = "full", Sound
  PROVE  /\ download.stage = "idle"
         /\ \A n \in 1..5 : Order[n] \in opened
         /\ \A d \in Digest : d \in history.watched => Stored(d)
         /\ \A d \in Digest : Stored(d) =>
              /\ d[1] \in Visible
              /\ \A e \in Digest : Refers(d[1], e) => Stored(e)
<1>1. download.stage = "idle" /\ download.at = 0 /\ FullRun
  BY DEF DirectoryInv, DownloadInv, OpenedSoFar, FullRun
<1>2. \A t \in Types : Fetched(t)
  BY <1>1, OrderType DEF Fetched
<1>3. \A n \in 1..5 : Order[n] \in opened
  BY <1>1 DEF DirectoryInv, OpenedSoFar
<1>4. \A d \in Digest : Doc[d[1]].type \in Types
  BY DocumentsAssumption DEF Digest
<1>5. \A d \in Digest : Wanted(d) => Stored(d)
  BY <1>1, <1>2, <1>4 DEF DirectoryInv, FullCovered
<1>6. \A d \in Digest : d \in history.watched => Stored(d)
  BY <1>5 DEF Wanted
<1>7. ASSUME NEW d \in Digest, Stored(d)
      PROVE  /\ d[1] \in Visible
             /\ \A e \in Digest : Refers(d[1], e) => Stored(e)
  <2>1. d[1] \in Downloaded
    BY <1>7 DEF Stored, Downloaded
  <2>2. \A e : Refers(d[1], e) => Wanted(e)
    BY <1>2, <1>4, <2>1 DEF Wanted
  <2> QED
    BY <1>5, <2>1, <2>2 DEF DirectoryInv, Genuine
<1> QED
  BY <1>1, <1>3, <1>6, <1>7

\* Types are read from the first on.
LEMMA ReadFirst ==
  ASSUME NEW t \in Readable, NEW u \in Types, Before(u, t)
  PROVE  u \in Readable
<1>1. \A v \in Types : Before(v, u) => Before(v, t)
  BY OrderType DEF Before
<1> QED
  BY <1>1 DEF Readable

\* An upload starts with all that can be read.
LEMMA BeginUploadCovers ==
  ASSUME DirectoryInv, NEW skip \in BOOLEAN, BeginUpload(skip)
  PROVE  UploadCovered'
<1>1. /\ UNCHANGED <<created, names, csv, torn, opened>>
      /\ upload'.active = TRUE
      /\ upload'.todo = UNION {Listed(t) : t \in Readable}
      /\ history' = [history EXCEPT !.runs = MaxRuns + 1, !.uploaded = FALSE,
                                    !.refused = {}]
  BY DEF BeginUpload, source, directory
<1>2. history'.refused = {} /\ history'.uploaded = FALSE
  BY <1>1 DEF DirectoryInv, DownloadInv, TypeOK
<1>3. \A d : Read(d)' = Read(d)
  BY <1>1 DEF Read, Stored, Readable
<1>4. ASSUME NEW d \in Digest, Read(d) PROVE d \in upload'.todo
  <2>1. d \in Listed(Doc[d[1]].type)
    BY <1>4 DEF Listed, Stored, Read
  <2> QED
    BY <1>1, <1>4, <2>1 DEF Read
<1>5. \A d \in upload'.todo : Read(d)
  BY <1>1 DEF Listed, Stored, Read
<1> QED
  BY <1>2, <1>3, <1>4, <1>5 DEF UploadCovered

\* Whatever is put gets on record: all it refers to was put before.  It is
\* refused if it is a summary with an entry that does not verify.
LEMMA PutCovers ==
  ASSUME DirectoryInv, UploadCovered, NEW d \in Digest, Put(d)
  PROVE  UploadCovered'
<1> DEFINE c == d[1]
           known == <<Doc[c].type, c>> \in target.recorded
           satisfied == Target(d)!Satisfied(Doc[c].type, c)
           accepted == known \/ (satisfied /\ Verifies(c))
<1>1. /\ upload.active /\ d \in upload.todo
      /\ \A e \in upload.todo : ~ Before(Doc[e[1]].type, Doc[c].type)
      /\ target' = [names    |-> target.names \cup {d},
                    recorded |-> IF satisfied /\ Begins(c)
                                 THEN target.recorded \cup {<<Doc[c].type, c>>}
                                 ELSE target.recorded]
      /\ \/ upload' = [upload EXCEPT !.todo = @ \ {d}]
         \/ upload' = NoUpload
      /\ history' = IF accepted THEN history
                    ELSE [history EXCEPT !.refused = @ \cup {c}]
      /\ UNCHANGED <<created, names, csv, torn, opened>>
  BY DEF Put, source, directory
<1>2. /\ history'.result = history.result /\ history'.loose = history.loose
      /\ history'.lost = history.lost /\ history'.uploaded = history.uploaded
      /\ history'.refused \subseteq history.refused \cup {c}
      /\ accepted => history'.refused = history.refused
  <2>1. \/ history' = history
        \/ ~ accepted /\ history' = [history EXCEPT !.refused = @ \cup {c}]
    BY <1>1
  <2> QED
    BY <2>1 DEF DirectoryInv, DownloadInv, TypeOK
<1>3. /\ Visible' = Visible
      /\ \A e : Stored(e)' = Stored(e)
      /\ \A e : Read(e)' = Read(e)
  BY <1>1 DEF Visible, Stored, Read, Readable
<1>4. Sound' = Sound
  BY <1>1, <1>2, <1>3 DEF Sound, Tied
<1> SUFFICES ASSUME history.result = "full", Sound
             PROVE  UploadCovered'
  BY <1>2, <1>4 DEF UploadCovered
<1>5. /\ \A e \in history.refused : ~Verifies(e)
      /\ \A e \in upload.todo : Read(e)
      /\ \A e \in Digest : Read(e) => e \in upload.todo \/ OnTarget(e)
      /\ history.uploaded => \A e \in Digest : Stored(e) => OnTarget(e)
  BY <1>1 DEF UploadCovered
<1>6. c \in Visible /\ Begins(c)
  BY <1>1, <1>5, AllStored DEF Read, DirectoryInv, SourceClosed
<1>7. ASSUME NEW e \in Digest, Refers(c, e)
      PROVE  OnTarget(e)
  <2>1. Stored(e)
    BY <1>1, <1>5, <1>7, AllStored DEF Read
  <2>2. Before(Doc[e[1]].type, Doc[c].type)
    BY <1>6, <1>7, References, OrderType DEF Before, DirectoryInv, DownloadInv
  <2>3. Doc[e[1]].type \in Types
    BY DocumentsAssumption DEF Digest
  <2>4. Doc[c].type \in Readable
    BY <1>1, <1>5 DEF Read
  <2>5. Read(e)
    BY <2>1, <2>2, <2>3, <2>4, ReadFirst DEF Read
  <2> QED
    BY <1>1, <1>5, <2>2, <2>5
<1>8. satisfied
  BY <1>6, <1>7, Accepts DEF DirectoryInv, DownloadInv
<1>9. Verifies(c) => accepted
  BY <1>8
<1>10. /\ target'.names = target.names \cup {d}
       /\ target'.recorded = target.recorded \cup {<<Doc[c].type, c>>}
  BY <1>1, <1>6, <1>8
<1> HIDE DEF accepted, satisfied, known
<1>11. /\ OnTarget(d)'
       /\ \A e : OnTarget(e) => OnTarget(e)'
  BY <1>10 DEF OnTarget
<1>12. upload'.active => upload'.todo = upload.todo \ {d}
  BY <1>1 DEF DirectoryInv, DownloadInv, TypeOK, NoUpload
<1>13. \A e \in history'.refused : ~Verifies(e)
  BY <1>2, <1>5, <1>9
<1> QED
  BY <1>2, <1>3, <1>5, <1>11, <1>12, <1>13 DEF UploadCovered

\* Any other step of an upload.
LEMMA UploadEnds ==
  ASSUME DirectoryInv, UploadCovered, FinishUpload \/ StopUpload
  PROVE  UploadCovered'
<1>1. /\ UNCHANGED <<created, names, csv, torn, opened, target>>
      /\ upload' = NoUpload
      /\ \/ /\ upload.active /\ upload.todo = {}
            /\ history' = [history EXCEPT
                 !.uploaded = Types = Readable /\ torn = {}]
         \/ history' = history
  BY DEF FinishUpload, StopUpload, source, directory
<1>2. /\ history'.result = history.result /\ history'.loose = history.loose
      /\ history'.lost = history.lost /\ history'.refused = history.refused
  BY <1>1 DEF DirectoryInv, DownloadInv, TypeOK
<1>3. /\ Visible' = Visible /\ ~ upload'.active
      /\ \A d : Stored(d)' = Stored(d)
      /\ \A d : OnTarget(d)' = OnTarget(d)
  BY <1>1 DEF Visible, Stored, OnTarget, NoUpload
<1>4. Sound' = Sound
  BY <1>1, <1>2, <1>3 DEF Sound, Tied
<1>5. history'.uploaded =>
        \/ history.uploaded
        \/ upload.active /\ upload.todo = {} /\ Types = Readable
  BY <1>1 DEF DirectoryInv, DownloadInv, TypeOK
<1>6. \A d \in Digest : Types = Readable /\ Stored(d) => Read(d)
  BY DocumentsAssumption DEF Read, Digest
<1> QED
  BY <1>2, <1>3, <1>4, <1>5, <1>6 DEF UploadCovered

\* The source grows, or nothing happens.
LEMMA UploadStays ==
  ASSUME UploadCovered, SourceGrows, UNCHANGED <<csv, torn, opened, upload, target>>,
         history'.result = history.result, history'.refused = history.refused,
         history'.lost = history.lost, history'.uploaded = history.uploaded
  PROVE  UploadCovered'
<1>1. /\ \A d : Stored(d)' = Stored(d)
      /\ \A d : OnTarget(d)' = OnTarget(d)
      /\ \A d : Read(d)' = Read(d)
  BY DEF Stored, OnTarget, Read, Readable
<1>2. Sound' => Sound
  BY SoundBefore
<1> QED
  BY <1>1, <1>2 DEF UploadCovered

\* What the source begins with is closed.
LEMMA StockInit ==
  ASSUME Init
  PROVE  SourceClosed /\ Visible = DOMAIN Stock
<1> USE MirrorAssumption, DocumentsAssumption
<1>1. Visible = DOMAIN Stock /\ names = StockNames
  <2>1. /\ created = [c \in Contents |-> IF c \in DOMAIN Stock THEN Stock[c] ELSE 0]
        /\ \A c \in Contents : created[c] = IF c \in DOMAIN Stock THEN Stock[c] ELSE 0
    BY DEF Init
  <2>2. ASSUME NEW c \in DOMAIN Stock PROVE Stock[c] > 0
    <3>1. Stock[c] \in 1..MaxTime /\ MaxTime \in Nat
      OBVIOUS
    <3> HIDE MirrorAssumption, DocumentsAssumption
    <3> QED
      BY <3>1
  <2>3. ~(0 > 0)
    OBVIOUS
  <2>4. \A c \in Contents : created[c] > 0 <=> c \in DOMAIN Stock
    BY <2>1, <2>2, <2>3
  <2> QED
    BY <2>4 DEF Init, Visible
<1>2. history.loose = {c \in DOMAIN Stock : ~ArtifactsEntered(c)}
  BY DEF Init
<1>3. \A t, d : Stocked(t, d) => Source!Resolves(t, d)
  BY <1>1 DEF Stocked, Source!Resolves
<1>4. ASSUME NEW c \in Visible
      PROVE  Source!Satisfied(Doc[c].type, c) /\ Begins(c)
  <2>1. /\ Doc[c].type = "bottle" => Doc[c].artifacts \subseteq names
        /\ Doc[c].type \in HasSubject =>
             Stocked(SubjectType(Doc[c].type), Doc[c].subject)
        /\ Doc[c].type = "manifest" => Doc[c].parts = Doc[Doc[c].subject[1]].parts
        /\ Doc[c].type = "signature" => Stocked("bottle", Doc[c].bottle)
        /\ Begins(c)
    BY <1>1, <1>4 DEF StockClosed
  <2> QED
    BY <1>3, <2>1 DEF Source!Satisfied, Source!HasSubject, Source!SubjectType,
       HasSubject, SubjectType
<1> QED
  BY <1>1, <1>2, <1>4 DEF SourceClosed

LEMMA MirrorInit == Init => MirrorInv
<1> SUFFICES ASSUME Init PROVE MirrorInv
  OBVIOUS
<1>1. DownloadInv
  BY DownloadInvInit
<1>2. /\ Downloaded = {}
      /\ download.stage = "idle" /\ download.at = 0
      /\ history.result = "none" /\ history.watched = {}
  BY DEF Init, Downloaded, Idle
<1> QED
  BY <1>1, <1>2, StockInit DEF MirrorInv, Genuine, FullCovered, FullRun,
                               OpenedSoFar, Quiet, UploadCovered

LEMMA MirrorNext == MirrorInv /\ [Next]_vars => MirrorInv'
<1> SUFFICES ASSUME MirrorInv, [Next]_vars PROVE MirrorInv'
  OBVIOUS
<1>1. DownloadInv' /\ TypeOK /\ TypeOK'
  BY DownloadInvNext DEF MirrorInv, DownloadInv
<1>2. SourceGrows /\ SourceClosed'
  BY <1>1, SourceNext DEF MirrorInv
<1>3. DirectoryInv
  BY DEF MirrorInv, DirectoryInv
<1>4. SUFFICES /\ Genuine' /\ FullCovered' /\ OpenedSoFar'
               /\ Quiet' /\ UploadCovered'
  BY <1>1, <1>2 DEF MirrorInv
\* A step of the source, or none.
<1>5. ASSUME UNCHANGED <<directory, download, upload, target>>,
             history'.watched = history.watched,
             history'.result = history.result,
             history'.lost = history.lost,
             history'.refused = history.refused,
             history'.uploaded = history.uploaded
      PROVE  /\ Genuine' /\ FullCovered' /\ OpenedSoFar'
             /\ Quiet' /\ UploadCovered'
  <2>1. Genuine' /\ FullCovered' /\ OpenedSoFar'
    BY <1>2, <1>3, <1>5, SameDirectory DEF directory
  <2>2. UploadCovered'
    BY <1>2, <1>5, UploadStays DEF MirrorInv, directory
  <2>3. Quiet'
    BY <1>5 DEF MirrorInv, Quiet
  <2> QED
    BY <2>1, <2>2, <2>3
<1>6. CASE UNCHANGED vars
  BY <1>5, <1>6 DEF vars
<1>7. ASSUME NEW d \in Offered, Name(d)
      PROVE  /\ Genuine' /\ FullCovered' /\ OpenedSoFar'
             /\ Quiet' /\ UploadCovered'
  BY <1>5, <1>7 DEF Name
<1>8. ASSUME NEW c \in Contents, NEW now \in 1..MaxTime, Enter(c, now)
      PROVE  /\ Genuine' /\ FullCovered' /\ OpenedSoFar'
             /\ Quiet' /\ UploadCovered'
  <2>1. /\ history'.watched = history.watched
        /\ history'.result = history.result
        /\ history'.lost = history.lost
        /\ history'.refused = history.refused
        /\ history'.uploaded = history.uploaded
    BY <1>1, <1>8, EnterGrows
  <2> QED
    BY <1>5, <1>8, <2>1 DEF Enter
<1>9. ASSUME NEW incremental \in BOOLEAN, BeginDownload(incremental)
      PROVE  /\ Genuine' /\ FullCovered' /\ OpenedSoFar'
             /\ Quiet' /\ UploadCovered'
  BY <1>3, <1>9, BeginDirectory DEF Quiet, UploadCovered
<1>10. CASE List \/ WriteRecord
  <2>1. Genuine' /\ FullCovered' /\ OpenedSoFar'
    BY <1>3, <1>10, ListDirectory, RecordDirectory
  <2>2. /\ download.stage # "idle" /\ UNCHANGED <<upload, history>>
    BY <1>10 DEF List, WriteRecord
  <2>3. history'.result = "none"
    BY <2>2 DEF MirrorInv, DownloadInv
  <2> QED
    BY <2>1, <2>2, <2>3 DEF MirrorInv, Quiet, UploadCovered
<1>11. CASE WriteLatest
  BY <1>3, <1>11, LatestDirectory DEF MirrorInv, Quiet, UploadCovered
<1>12. CASE NoticeLoss \/ StopDownload
  <2>1. download'.stage = "idle"
    BY <1>12 DEF NoticeLoss, StopDownload, Idle
  <2> QED
    BY <1>3, <1>12, <2>1, StopDirectory DEF Quiet, UploadCovered
<1>17. CASE LoseRecords
  <2>1. Genuine' /\ FullCovered' /\ OpenedSoFar' /\ ~ Sound'
    BY <1>3, <1>17, LoseDirectory
  <2>2. download.stage # "idle" /\ upload' = upload
    BY <1>17 DEF LoseRecords
  <2>3. history'.refused = history.refused /\ history'.uploaded = history.uploaded
    BY <1>1, <1>17 DEF LoseRecords, TypeOK
  <2> QED
    BY <2>1, <2>2, <2>3 DEF MirrorInv, Quiet, UploadCovered
\* A step of an upload.
<1>13. ASSUME UNCHANGED <<directory, download>>, download.stage = "idle",
              history'.watched = history.watched,
              history'.result = history.result,
              history'.lost = history.lost, UploadCovered'
       PROVE  /\ Genuine' /\ FullCovered' /\ OpenedSoFar'
              /\ Quiet' /\ UploadCovered'
  <2>1. Genuine' /\ FullCovered' /\ OpenedSoFar'
    BY <1>2, <1>3, <1>13, SameDirectory DEF directory
  <2> QED
    BY <1>13, <2>1 DEF Quiet
<1>14. ASSUME NEW skip \in BOOLEAN, BeginUpload(skip)
       PROVE  /\ Genuine' /\ FullCovered' /\ OpenedSoFar'
              /\ Quiet' /\ UploadCovered'
  <2>1. /\ history'.watched = history.watched
        /\ history'.result = history.result
        /\ history'.lost = history.lost
    BY <1>1, <1>14 DEF BeginUpload, TypeOK
  <2>2. UploadCovered'
    BY <1>3, <1>14, BeginUploadCovers
  <2> QED
    BY <1>13, <1>14, <2>1, <2>2 DEF BeginUpload
<1>15. ASSUME NEW d \in Digest, Put(d)
       PROVE  /\ Genuine' /\ FullCovered' /\ OpenedSoFar'
              /\ Quiet' /\ UploadCovered'
  <2>1. \/ history' = history
        \/ history' = [history EXCEPT !.refused = @ \cup {d[1]}]
    BY <1>15 DEF Put
  <2>2. /\ history'.watched = history.watched
        /\ history'.result = history.result
        /\ history'.lost = history.lost
    BY <1>1, <2>1 DEF TypeOK
  <2>3. UploadCovered'
    BY <1>3, <1>15, PutCovers DEF MirrorInv
  <2>4. download.stage = "idle"
    BY <1>15 DEF Put, MirrorInv, Quiet
  <2> QED
    BY <1>13, <1>15, <2>2, <2>3, <2>4 DEF Put
<1>16. CASE FinishUpload \/ StopUpload
  <2>1. /\ history'.watched = history.watched
        /\ history'.result = history.result
        /\ history'.lost = history.lost
    BY <1>1, <1>16 DEF FinishUpload, StopUpload, TypeOK
  <2>2. UploadCovered'
    BY <1>3, <1>16, UploadEnds DEF MirrorInv
  <2>3. download.stage = "idle"
    BY <1>16 DEF FinishUpload, StopUpload, MirrorInv, Quiet
  <2> QED
    BY <1>13, <1>16, <2>1, <2>2, <2>3 DEF FinishUpload, StopUpload
<1> QED
  BY <1>6, <1>7, <1>8, <1>9, <1>10, <1>11, <1>12, <1>14, <1>15, <1>16,
     <1>17
  DEF Next, Grow, DownloadStep, UploadStep

\* What a full download leaves in the directory can be uploaded, for any
\* documents, page size and number of runs, although the source grew meanwhile and
\* earlier downloads stopped anywhere or lost records: nothing is refused but
\* summaries of signatures with an entry that does not verify.
THEOREM NothingIsRefused == Spec => []UploadsAccepted
<1>1. MirrorInv => UploadsAccepted
  BY DEF MirrorInv, UploadCovered, UploadsAccepted
<1> QED
  BY <1>1, MirrorInit, MirrorNext, PTL DEF Spec

\* A full download that lost no record and an upload that finishes make a perfect
\* mirror: the target has every object the source had when the download began,
\* under every digest it had then.
THEOREM MirrorsArePerfect == Spec => []PerfectMirror
<1>1. MirrorInv => PerfectMirror
  <2> SUFFICES ASSUME MirrorInv, history.uploaded, history.result = "full",
                      Sound, NEW d \in history.watched
               PROVE  OnTarget(d)
    BY DEF PerfectMirror, Mirrored, OnTarget
  <2>1. d \in Digest
    BY DEF MirrorInv, DownloadInv, TypeOK
  <2>2. DirectoryInv
    BY DEF MirrorInv, DirectoryInv
  <2>3. Stored(d)
    BY <2>1, <2>2, AllStored
  <2> QED
    BY <2>1, <2>3 DEF MirrorInv, UploadCovered
<1> QED
  BY <1>1, MirrorInit, MirrorNext, PTL DEF Spec

-----------------------------------------------------------------------------
(* Source and target are catalogues *)

\* The target as a catalogue; what bytes it has is not said.
Copy == INSTANCE Catalog
          WITH known <- Contents, names <- target.names,
               recorded <- target.recorded

\* The bytes of every object have a digest.
Named == \A c \in Visible : \E d \in names : d[1] = c

\* The target is closed under references.
CopyClosed == \A r \in target.recorded : Copy!Satisfied(r[1], r[2])

LEMMA CopyStays ==
  ASSUME target.names \subseteq target'.names,
         target.recorded \subseteq target'.recorded,
         NEW t, NEW c, Copy!Satisfied(t, c)
  PROVE  Copy!Satisfied(t, c)'
BY DEF Copy!Satisfied, Copy!Resolves, Copy!HasSubject, Copy!SubjectType

\* Whatever is put keeps the target closed, accepted or not.
LEMMA PutCloses ==
  ASSUME TypeOK, CopyClosed, NEW d \in Digest, Put(d)
  PROVE  CopyClosed'
<1> DEFINE c == d[1]
           satisfied == Target(d)!Satisfied(Doc[c].type, c)
<1>1. target' = [names    |-> target.names \cup {d},
                 recorded |-> IF satisfied /\ Begins(c)
                              THEN target.recorded \cup {<<Doc[c].type, c>>}
                              ELSE target.recorded]
  BY DEF Put
<1>2. /\ target'.names = target.names \cup {d}
      /\ target.recorded \subseteq target'.recorded
      /\ target'.recorded \subseteq target.recorded \cup {<<Doc[c].type, c>>}
      /\ ~ satisfied => target'.recorded = target.recorded
  BY <1>1
<1>3. \A t, e : Copy!Satisfied(t, e) => Copy!Satisfied(t, e)'
  BY <1>2, CopyStays
<1>4. ASSUME Target(d)!Satisfied(Doc[c].type, c)
      PROVE  Copy!Satisfied(Doc[c].type, c)'
  BY <1>2, <1>4 DEF Copy!Satisfied, Copy!Resolves, Copy!HasSubject,
     Copy!SubjectType, Target!Satisfied, Target!Resolves, Target!HasSubject,
     Target!SubjectType
<1>5. ASSUME NEW r \in target'.recorded
      PROVE  Copy!Satisfied(r[1], r[2])'
  <2>1. CASE r \in target.recorded
    BY <1>3, <2>1 DEF CopyClosed
  <2>2. CASE r \notin target.recorded
    <3>1. r = <<Doc[c].type, c>> /\ satisfied
      BY <1>2, <1>5, <2>2
    <3>2. Target(d)!Satisfied(Doc[c].type, c) /\ r[1] = Doc[c].type /\ r[2] = c
      BY <2>2, <3>1
    <3> QED
      BY <1>4, <3>2
  <2> QED
    BY <2>1, <2>2
<1> QED
  BY <1>5 DEF CopyClosed

\* The catalogue that is copied and the copy are closed under references at all
\* times: also while a download runs, after an upload that was cut off, and when
\* --skip-invalid goes on after a 412.
THEOREM CataloguesAreClosed == Spec => [](Source!Closed /\ Copy!Closed)
<1> DEFINE CInv == TypeOK /\ SourceClosed /\ Named /\ CopyClosed
<1>1. Init => CInv
  <2> SUFFICES ASSUME Init PROVE CInv
    OBVIOUS
  <2>1. target.recorded = {} /\ names = StockNames
    BY DEF Init
  <2>2. \A c \in DOMAIN Stock : \E a \in Algs : DigestOf(c, a) \in StockNames
    BY MirrorAssumption DEF StockClosed
  <2>3. \A c \in DOMAIN Stock : \E d \in names : d[1] = c
    BY <2>1, <2>2 DEF DigestOf
  <2>4. Named
    BY <2>3, StockInit DEF Named
  <2> QED
    BY <2>1, <2>4, StockInit, TypeInit DEF CopyClosed
<1>2. CInv /\ [Next]_vars => CInv'
  <2> SUFFICES ASSUME CInv, [Next]_vars PROVE CInv'
    OBVIOUS
  <2>1. TypeOK' /\ SourceClosed' /\ SourceGrows
    BY TypeNext, SourceNext
  <2>2. Named'
    <3>1. CASE \E c \in Contents, now \in 1..MaxTime : Enter(c, now)
      <4>1. PICK c \in Contents, now \in 1..MaxTime : Enter(c, now)
        BY <3>1
      <4>2. Visible' = Visible \cup {c}
        BY <4>1, EnterGrows
      <4>3. \E d \in names : d[1] = c
        BY <4>1 DEF Enter, DigestOf
      <4> QED
        BY <2>1, <4>2, <4>3 DEF Named, SourceGrows
    <3>2. CASE created' = created
      BY <2>1, <3>2 DEF Named, Visible, SourceGrows
    <3> QED
      BY <3>1, <3>2 DEF Next, vars, source, Grow, Name, DownloadStep, List,
         WriteRecord, LoseRecords, NoticeLoss, WriteLatest, BeginDownload,
         StopDownload, BeginUpload,
         UploadStep, Put, FinishUpload, StopUpload
  <2>3. CopyClosed'
    <3>1. CASE \E d \in Digest : Put(d)
      BY <3>1, PutCloses
    <3>2. CASE target' = target
      BY <3>2, CopyStays DEF CopyClosed
    <3> QED
      BY <3>1, <3>2 DEF Next, vars, Grow, Name, Enter, DownloadStep, List,
         WriteRecord, LoseRecords, NoticeLoss, WriteLatest, BeginDownload,
         StopDownload, BeginUpload,
         UploadStep, FinishUpload, StopUpload
  <2> QED
    BY <2>1, <2>2, <2>3
<1>3. CInv => Source!Closed /\ Copy!Closed
  <2> SUFFICES ASSUME CInv PROVE Source!Closed /\ Copy!Closed
    OBVIOUS
  <2>1. Source!Closed
    BY DEF Source!Closed, SourceClosed, Named
  <2>2. \A d \in target.names : d[1] \in Contents
    BY DEF TypeOK, Digest
  <2>3. \A r \in target.recorded : r[2] \in Contents
    BY DEF TypeOK
  <2> QED
    BY <2>1, <2>2, <2>3 DEF Copy!Closed, CopyClosed
<1> QED
  BY <1>1, <1>2, <1>3, PTL DEF Spec

=============================================================================
