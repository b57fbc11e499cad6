------------------------- MODULE ProgressStreamProofs -------------------------
(***************************************************************************)
(* The case page, for every number of documents, reopened streams, errors, *)
(* retries and faults: one source, one automatic request, snapshots that   *)
(* never go back, and an end only where everything has come to rest.       *)
(***************************************************************************)
EXTENDS ProgressStream, SequenceTheorems, TLAPS

Snapshots == [Documents -> Row]
Pages == Snapshots \cup {Nothing}
Stages == {"none", "empty", "ingesting", "failed", "analyzing", "ingested", "analyzed"}
Event == {"progress", "done", "timeout"} \X Snapshots
Source == [client: {"unused", "connecting", "open", "closed"}, handler: BOOLEAN,
           last: Snapshot, wire: Seq(Event)]
Query == [data: Stages, pc: {"idle", "sent"}, fails: 0..MaxRetries]
PostType == [pc: {"none", "sent", "enqueueing", "marking", "accepted"},
             left: SUBSET Documents, at: SUBSET Documents]

StreamTyped ==
    /\ es \in [Sources -> Source]
    /\ \A i \in Sources : Len(es[i].wire) <= MaxWire + 1
    /\ errors \in 0..MaxErrors /\ reopens \in 0..MaxReopens /\ degraded \in BOOLEAN
    /\ progress \in Pages
PageTyped ==
    /\ query \in Query
    /\ mounted \in BOOLEAN /\ mounts \in 0..MaxMounts
    /\ fired \in BOOLEAN /\ marked \in BOOLEAN
    /\ post \in [Requests -> PostType] /\ sent \in [Requests -> Nat]
    /\ faults \in 0..MaxFaults
TypeInv == rows \in Snapshots /\ jobs \in Jobs /\ StreamTyped /\ PageTyped

LEMMA TypeImplies == TypeInv => TypeOK
<1> SUFFICES ASSUME TypeInv PROVE TypeOK
    OBVIOUS
<1>1. ASSUME NEW i \in Sources
      PROVE  /\ [f \in {"client", "handler", "last"} |-> es[i][f]] \in Connection
             /\ Len(es[i].wire) <= MaxWire + 1
             /\ \A k \in 1..Len(es[i].wire) :
                   es[i].wire[k] \in {"progress", "done", "timeout"} \X [Documents -> Row]
  <2>1. es[i] \in Source
    BY DEF TypeInv, StreamTyped
  <2>2. [f \in {"client", "handler", "last"} |-> es[i][f]] \in Connection
    BY <2>1 DEF Source, Connection
  <2>3. \A k \in 1..Len(es[i].wire) : es[i].wire[k] \in Event
    BY <2>1, ElementOfSeq DEF Source
  <2> QED
    BY <2>2, <2>3 DEF TypeInv, StreamTyped, Event, Snapshots
<1> QED
    BY <1>1 DEF TypeInv, StreamTyped, PageTyped, TypeOK, Snapshots, Pages, Query, Stages, PostType
-----------------------------------------------------------------------------
(***************************************************************************)
(* Lemmas about a source and the rows.                                     *)
(***************************************************************************)
LEMMA Limits ==
    /\ MaxReopens \in Nat /\ MaxErrors \in Nat \ {0} /\ MaxWire \in Nat \ {0}
    /\ MaxRetries \in Nat /\ MaxFaults \in Nat /\ MaxMounts \in Nat /\ Illegible \subseteq Documents
BY ProgressAssumption DEF ProgressAssumption

LEMMA SourceKinds ==
    /\ Unused \in Source /\ Connecting \in Source /\ Closed \in Source
    /\ Unused.client = "unused" /\ Unused.wire = <<>>
    /\ Connecting.client = "connecting" /\ Connecting.wire = <<>>
    /\ Closed.client = "closed" /\ Closed.wire = <<>>
    /\ \A c \in {"connecting", "closed"} :
          /\ [Unused EXCEPT !.client = c] \in Source
          /\ [Unused EXCEPT !.client = c].client = c /\ [Unused EXCEPT !.client = c].wire = <<>>
<1>1. Nothing \in Snapshot /\ <<>> \in Seq(Event)
    BY EmptySeq DEF Snapshot
<1>2. Unused \in Source /\ Unused.client = "unused" /\ Unused.wire = <<>>
    BY <1>1 DEF Unused, Source
<1>3. ASSUME NEW c \in {"connecting", "closed"}
      PROVE  /\ [Unused EXCEPT !.client = c] \in Source
             /\ [Unused EXCEPT !.client = c].client = c /\ [Unused EXCEPT !.client = c].wire = <<>>
    BY <1>2 DEF Source
<1> QED
    BY <1>2, <1>3 DEF Connecting, Closed

LEMMA TypeInit == Init => TypeInv
<1> SUFFICES ASSUME Init PROVE TypeInv
    OBVIOUS
<1>1. rows \in Snapshots
    BY DEF Init, Snapshots, Row
<1>2. StreamTyped
  <2>1. Len(Unused.wire) = 0
    BY SourceKinds, EmptySeq
  <2>2. \A i \in Sources : es[i] = Unused
    BY DEF Init
  <2>3. es \in [Sources -> Source] /\ \A i \in Sources : Len(es[i].wire) <= MaxWire + 1
    BY <2>1, <2>2, SourceKinds, Limits DEF Init
  <2>4. errors \in 0..MaxErrors /\ reopens \in 0..MaxReopens
    BY Limits DEF Init
  <2>5. degraded \in BOOLEAN /\ progress \in Pages
    BY DEF Init, Pages
  <2> QED
    BY <2>3, <2>4, <2>5 DEF StreamTyped
<1>3. PageTyped
  <2>1. query \in Query
    BY Limits DEF Init, Query, Stages
  <2>2. post \in [Requests -> PostType] /\ sent \in [Requests -> Nat]
    BY DEF Init, PostType, NoPost, Requests
  <2>3. mounts \in 0..MaxMounts /\ faults \in 0..MaxFaults
    BY Limits DEF Init
  <2>4. mounted \in BOOLEAN /\ fired \in BOOLEAN /\ marked \in BOOLEAN
    BY DEF Init
  <2> QED
    BY <2>1, <2>2, <2>3, <2>4 DEF PageTyped
<1>4. jobs \in Jobs
    BY DEF Init, Jobs
<1> QED
    BY <1>1, <1>2, <1>3, <1>4 DEF TypeInv
-----------------------------------------------------------------------------
(***************************************************************************)
(* The inductive invariant.                                                *)
(***************************************************************************)
(* The source that lives is the one opened last; a case is read for the    *)
(* first time before there is any.                                         *)
SourceOK ==
    /\ \A i \in Sources : Live(i) => /\ i = reopens + 1 /\ mounted /\ errors < MaxErrors
                                     /\ documents # "none"
    /\ \A i \in Sources : es[i].client # "open" => es[i].wire = <<>>
    /\ query.pc = "sent" => mounted
    /\ ~mounted => errors = 0 /\ reopens = 0
    /\ query.pc = "sent" /\ documents = "none" =>
          errors = 0 /\ reopens = 0 /\ \A i \in Sources : ~Live(i)
    /\ \A m \in Requests : post[m].pc # "none" => documents # "none"

AutoOK == sent["auto"] <= 1 /\ (~marked => sent["auto"] = 0)

(* Nothing is analyzed that no ingest has begun with.                      *)
LegalRows ==
    {s \in Snapshots : \A d \in Documents : s[d].status = "uploaded" => s[d].analysis = "pending"}
NotLater(s, t) == \A d \in Documents : NotBehind(s[d], t[d])

(* What was sent, in the order in which it was sent: from the snapshot the *)
(* page has, along the wire, to the rows.                                  *)
ChainOK ==
    /\ rows \in LegalRows
    /\ \A d \in jobs.due : rows[d].status # "uploaded"
    /\ \A m \in Requests : \A d \in post[m].left \cup post[m].at : rows[d].status # "uploaded"
    /\ progress # Nothing => NotLater(progress, rows)
    /\ \A i \in Sources : \A k \in 1..Len(es[i].wire) :
          /\ es[i].wire[k][2] \in LegalRows /\ NotLater(es[i].wire[k][2], rows)
          /\ es[i].wire[k][1] = "done" => AllDone(es[i].wire[k][2])
          /\ progress # Nothing => NotLater(progress, es[i].wire[k][2])
          /\ \A l \in 1..Len(es[i].wire) :
                l < k => NotLater(es[i].wire[l][2], es[i].wire[k][2])

Inv == TypeInv /\ SourceOK /\ AutoOK /\ ChainOK

LEMMA RankBounds == ASSUME NEW r \in Row PROVE Rank(r) \in 0..3 /\ r.setBack \in Nat
BY DEF Rank, Row

LEMMA NotLaterTrans ==
    ASSUME NEW r \in Snapshots, NEW s \in Snapshots, NEW t \in Snapshots,
           NotLater(r, s), NotLater(s, t)
    PROVE  NotLater(r, t)
<1>1. \A d \in Documents : r[d] \in Row /\ s[d] \in Row /\ t[d] \in Row
    BY DEF Snapshots
<1>2. ASSUME NEW x \in Row, NEW y \in Row, NEW z \in Row, NotBehind(x, y), NotBehind(y, z)
      PROVE  NotBehind(x, z)
  <2>1. /\ Rank(x) \in 0..3 /\ Rank(y) \in 0..3 /\ Rank(z) \in 0..3
        /\ x.setBack \in Nat /\ y.setBack \in Nat /\ z.setBack \in Nat
    BY RankBounds
  <2> QED
    BY <1>2, <2>1 DEF NotBehind
<1> QED
    BY <1>1, <1>2 DEF NotLater

LEMMA NotLaterSame == ASSUME NEW s \in Snapshots PROVE NotLater(s, s)
<1>1. \A d \in Documents : Rank(s[d]) \in 0..3 /\ s[d].setBack \in Nat
    BY RankBounds DEF Snapshots
<1> QED
    BY <1>1 DEF NotLater, NotBehind

LEMMA EventKinds ==
    ASSUME TypeInv, NEW i \in Sources
    PROVE  /\ es[i] \in Source /\ es[i].wire \in Seq(Event) /\ Len(es[i].wire) \in Nat
           /\ \A k \in 1..Len(es[i].wire) :
                 es[i].wire[k] \in Event /\ es[i].wire[k][2] \in Snapshots
<1>1. es[i] \in Source /\ es[i].wire \in Seq(Event)
    BY DEF TypeInv, StreamTyped, Source
<1>2. \A k \in 1..Len(es[i].wire) : es[i].wire[k] \in Event
    BY <1>1, ElementOfSeq
<1> QED
    BY <1>1, <1>2, LenProperties DEF Event

LEMMA InvInit == Init => Inv
<1> SUFFICES ASSUME Init PROVE Inv
    OBVIOUS
<1>1. TypeInv
    BY TypeInit
<1>2. \A i \in Sources : es[i].client = "unused" /\ es[i].wire = <<>>
    BY SourceKinds DEF Init
<1>3. \A i \in Sources : ~Live(i)
    BY <1>2 DEF Live
<1>4. SourceOK
    BY <1>2, <1>3 DEF Init, SourceOK, NoPost
<1>5. AutoOK
    BY DEF Init, AutoOK, Requests
<1>6. rows \in LegalRows
    BY <1>1 DEF Init, LegalRows, TypeInv
<1>7. ChainOK
    BY <1>2, <1>6, EmptySeq DEF Init, ChainOK, NoPost
<1> QED
    BY <1>1, <1>4, <1>5, <1>7 DEF Inv

LEMMA InvImplies == Inv => OneSource /\ AutoOnce
BY DEF Inv, SourceOK, AutoOK, OneSource, AutoOnce, Streaming
-----------------------------------------------------------------------------
(***************************************************************************)
(* Step lemmas.                                                            *)
(***************************************************************************)
(* Nothing new is said: sources that stay as they are or begin anew.       *)
LEMMA ChainShrinks ==
    ASSUME Inv, TypeInv', rows' = rows, progress' \in {progress, Nothing},
           \A i \in Sources : es'[i].wire \in {es[i].wire, <<>>},
           \A d \in jobs'.due : rows[d].status # "uploaded",
           \A m \in Requests : \A d \in post'[m].left \cup post'[m].at : rows[d].status # "uploaded"
    PROVE  ChainOK'
<1>1. ASSUME NEW i \in Sources, es'[i].wire = <<>> PROVE Len(es'[i].wire) = 0
    BY <1>1, EmptySeq
<1>2. \A i \in Sources : \A k \in 1..Len(es'[i].wire) : es'[i].wire = es[i].wire
    BY <1>1
<1> QED
    BY <1>2 DEF Inv, ChainOK, NotLater

(* The rows move on.                                                       *)
LEMMA ChainAdvances ==
    ASSUME Inv, TypeInv', rows' \in LegalRows, NotLater(rows, rows'), UNCHANGED <<es, progress>>,
           \A d \in jobs'.due : rows'[d].status # "uploaded",
           \A d \in Documents : rows[d].status # "uploaded" => rows'[d].status # "uploaded",
           \A m \in Requests : post'[m].left \cup post'[m].at \subseteq post[m].left \cup post[m].at
    PROVE  ChainOK'
<1>1. rows \in Snapshots /\ rows' \in Snapshots
    BY DEF Inv, TypeInv
<1>2. progress # Nothing => progress \in Snapshots
    BY DEF Inv, TypeInv, StreamTyped, Pages
<1>3. progress' # Nothing => NotLater(progress', rows')
    BY <1>1, <1>2, NotLaterTrans DEF Inv, ChainOK
<1>4. ASSUME NEW i \in Sources, NEW k \in 1..Len(es[i].wire) PROVE NotLater(es[i].wire[k][2], rows')
    BY <1>1, NotLaterTrans, EventKinds DEF Inv, ChainOK
<1>5. \A m \in Requests : \A d \in post'[m].left \cup post'[m].at : rows'[d].status # "uploaded"
  <2>1. \A m \in Requests : post[m].left \cup post[m].at \subseteq Documents
    BY DEF Inv, TypeInv, PageTyped, PostType
  <2> QED
    BY <2>1 DEF Inv, ChainOK
<1>6. \A i \in Sources : es'[i].wire = es[i].wire
    OBVIOUS
<1> QED
    BY <1>3, <1>4, <1>5, <1>6 DEF Inv, ChainOK, NotLater

(* Only the source that lives has anything on the wire.                    *)
LEMMA OneWire ==
    ASSUME Inv, NEW i \in Sources, Live(i), NEW j \in Sources \ {i}
    PROVE  ~Live(j) /\ es[j].wire = <<>>
BY DEF Inv, SourceOK, Live
-----------------------------------------------------------------------------
(***************************************************************************)
(* The steps.                                                              *)
(***************************************************************************)
(* A row that is written: it moves on, and is never uploaded again.        *)
LEMMA RowWritten ==
    ASSUME Inv, NEW d \in Documents, NEW r \in Row, rows' = [rows EXCEPT ![d] = r],
           r.status # "uploaded", NotBehind(rows[d], r)
    PROVE  /\ rows' \in Snapshots /\ rows' \in LegalRows /\ NotLater(rows, rows')
           /\ \A c \in Documents : rows[c].status # "uploaded" => rows'[c].status # "uploaded"
           /\ rows'[d].status # "uploaded"
<1>1. rows \in Snapshots /\ rows \in LegalRows
    BY DEF Inv, TypeInv, ChainOK
<1>2. /\ rows' \in Snapshots /\ rows'[d] = r
      /\ \A c \in Documents \ {d} : rows'[c] = rows[c]
    BY <1>1 DEF Snapshots
<1>3. rows' \in LegalRows
    BY <1>1, <1>2 DEF LegalRows
<1>4. NotLater(rows, rows')
    BY <1>1, <1>2, NotLaterSame DEF NotLater
<1> QED
    BY <1>2, <1>3, <1>4

LEMMA IngestWrites ==
    ASSUME Inv, NEW d \in Documents, Ingest(d)
    PROVE  \E r \in Row : /\ rows' = [rows EXCEPT ![d] = r] /\ r.status # "uploaded"
                          /\ NotBehind(rows[d], r)
<1>1. rows \in Snapshots /\ rows[d] \in Row /\ rows[d].setBack \in Nat
    BY DEF Inv, TypeInv, Snapshots, Row
<1> DEFINE begun == [rows[d] EXCEPT !.status = "processing"]
           again == [begun EXCEPT !.setBack = @ + 1]
           lost  == [rows[d] EXCEPT !.status = "failed"]
           ready == [rows[d] EXCEPT !.status = "ready", !.analysis = "pending"]
<1>2. CASE IngestBegins(d) /\ rows[d].status = "uploaded"
  <2>1. rows' = [rows EXCEPT ![d] = begun]
    BY <1>1, <1>2 DEF IngestBegins, Snapshots
  <2>2. /\ begun \in Row /\ begun.status = "processing" /\ begun.setBack = rows[d].setBack
        /\ Rank(rows[d]) <= Rank(begun)
    BY <1>1, <1>2 DEF Row, Rank
  <2> HIDE DEF begun
  <2> QED
    BY <2>1, <2>2 DEF NotBehind
<1>3. CASE IngestBegins(d) /\ rows[d].status # "uploaded"
  <2>1. rows' = [rows EXCEPT ![d] = again]
    BY <1>1, <1>3 DEF IngestBegins, Snapshots
  <2>2. again \in Row /\ again.status = "processing" /\ again.setBack = rows[d].setBack + 1
    <3>1. begun \in Row /\ begun.status = "processing" /\ begun.setBack = rows[d].setBack
      BY <1>1 DEF Row
    <3> HIDE DEF begun
    <3> QED
      BY <1>1, <3>1 DEF Row
  <2> HIDE DEF again
  <2>3. rows[d].setBack < again.setBack
    BY <1>1, <2>2
  <2> QED
    BY <2>1, <2>2, <2>3 DEF NotBehind
<1>4. CASE IngestFails(d)
  <2>1. rows' = [rows EXCEPT ![d] = lost] /\ rows[d].status = "processing"
    BY <1>1, <1>4 DEF IngestFails, Snapshots
  <2>2. /\ lost \in Row /\ lost.status = "failed" /\ lost.setBack = rows[d].setBack
        /\ Rank(rows[d]) <= Rank(lost)
    BY <1>1, <2>1 DEF Row, Rank
  <2> HIDE DEF lost
  <2> QED
    BY <2>1, <2>2 DEF NotBehind
<1>5. CASE IngestEnds(d)
  <2>1. rows' = [rows EXCEPT ![d] = ready] /\ rows[d].status = "processing"
    BY <1>1, <1>5 DEF IngestEnds, Snapshots
  <2>2. /\ ready \in Row /\ ready.status = "ready" /\ ready.setBack = rows[d].setBack
        /\ ready.analysis = "pending"
    BY <1>1, <2>1 DEF Row
  <2> HIDE DEF ready
  <2>3. Rank(rows[d]) = 1 /\ Rank(ready) = 2
    BY <2>1, <2>2 DEF Rank
  <2>4. NotBehind(rows[d], ready)
    BY <2>2, <2>3 DEF NotBehind
  <2> QED
    BY <2>1, <2>2, <2>4
<1> QED
    BY <1>2, <1>3, <1>4, <1>5 DEF Ingest

(* What the analysis and its request write: whatever the status is.        *)
LEMMA AnalysisWrites ==
    ASSUME Inv, NEW d \in Documents, rows[d].status # "uploaded",
           NEW a \in {"analyzing", "analyzed", "failed"}, rows' = [rows EXCEPT ![d].analysis = a]
    PROVE  \E r \in Row : /\ rows' = [rows EXCEPT ![d] = r] /\ r.status # "uploaded"
                          /\ NotBehind(rows[d], r)
<1>1. rows \in Snapshots /\ rows[d] \in Row /\ rows[d].setBack \in Nat
    BY DEF Inv, TypeInv, Snapshots, Row
<1> DEFINE r == [rows[d] EXCEPT !.analysis = a]
<1>2. rows' = [rows EXCEPT ![d] = r]
    BY <1>1 DEF Snapshots
<1>3. /\ r \in Row /\ r.status = rows[d].status /\ r.setBack = rows[d].setBack
      /\ r.analysis = a
    BY <1>1 DEF Row
<1> HIDE DEF r
<1>4. Rank(rows[d]) <= Rank(r)
    BY <1>1, <1>3 DEF Rank, Row
<1> QED
    BY <1>2, <1>3, <1>4 DEF NotBehind

LEMMA WorkerKeeps ==
    ASSUME Inv, NEW d \in Documents, Worker(d)
    PROVE  Inv' /\ progress' = progress
<1>1. UNCHANGED <<es, errors, reopens, degraded, progress, query, mounts, mounted,
                  fired, marked, post, sent, faults>>
    BY DEF Worker, Ingest, IngestBegins, IngestFails, IngestEnds, Analyze, AtWork, stream, asking
<1>2. \E r \in Row : /\ rows' = [rows EXCEPT ![d] = r] /\ r.status # "uploaded"
                     /\ NotBehind(rows[d], r)
  <2>1. CASE Ingest(d)
    BY <2>1, IngestWrites
  <2>2. CASE Analyze(d)
    <3>1. rows[d].status # "uploaded"
      BY <2>2 DEF Analyze, Inv, ChainOK
    <3>2. PICK a \in {"analyzing", "analyzed", "failed"} : rows' = [rows EXCEPT ![d].analysis = a]
      BY <2>2 DEF Analyze
    <3> QED
      BY <3>1, <3>2, AnalysisWrites
  <2> QED
    BY <2>1, <2>2 DEF Worker
<1>3. PICK r \in Row : /\ rows' = [rows EXCEPT ![d] = r] /\ r.status # "uploaded"
                      /\ NotBehind(rows[d], r)
    BY <1>2
<1>4. /\ rows' \in Snapshots /\ rows' \in LegalRows /\ NotLater(rows, rows')
      /\ \A c \in Documents : rows[c].status # "uploaded" => rows'[c].status # "uploaded"
      /\ rows'[d].status # "uploaded"
    BY <1>3, RowWritten
<1>5. jobs \in Jobs /\ jobs' \in Jobs /\ jobs'.due \subseteq jobs.due \cup {d}
  <2>1. jobs' \in {jobs, [jobs EXCEPT !.due = @ \cup {d}], [jobs EXCEPT !.due = @ \ {d}]}
    BY DEF Worker, Ingest, IngestBegins, IngestFails, IngestEnds, Analyze
  <2> QED
    BY <2>1 DEF Inv, TypeInv, Jobs
<1>6. TypeInv'
    BY <1>1, <1>4, <1>5 DEF Inv, TypeInv, StreamTyped, PageTyped
<1>7. SourceOK' /\ AutoOK'
    BY <1>1 DEF Inv, SourceOK, AutoOK, Live, documents
<1>8. \A c \in jobs'.due : rows'[c].status # "uploaded"
    BY <1>4, <1>5 DEF Inv, ChainOK, Jobs
<1>9. ChainOK'
    BY <1>1, <1>4, <1>6, <1>8, ChainAdvances
<1> QED
    BY <1>1, <1>6, <1>7, <1>9 DEF Inv

LEMMA RoundSays ==
    ASSUME TypeInv, NEW i \in Sources, NEW expired \in BOOLEAN
    PROVE  LET out == Sent([read |-> rows, last |-> es[i].last], expired) IN
           /\ out \in Seq(Event) /\ Len(out) <= 2
           /\ \A k \in 1..Len(out) : out[k][2] = rows /\ (out[k][1] = "done" => AllDone(rows))
<1> DEFINE news == IF Told(rows) # es[i].last THEN <<<<"progress", rows>>>> ELSE <<>>
           end == IF AllDone(rows) THEN <<<<"done", rows>>>>
                  ELSE IF expired THEN <<<<"timeout", rows>>>> ELSE <<>>
<1>1. <<"progress", rows>> \in Event /\ <<"done", rows>> \in Event /\ <<"timeout", rows>> \in Event
    BY DEF TypeInv, Event
<1>2. news \in Seq(Event) /\ Len(news) <= 1 /\ \A k \in 1..Len(news) : news[k] = <<"progress", rows>>
    BY <1>1
<1>3. end \in Seq(Event) /\ Len(end) <= 1 /\ \A k \in 1..Len(end) :
        end[k][2] = rows /\ (end[k][1] = "done" => AllDone(rows))
    BY <1>1
<1>4. Sent([read |-> rows, last |-> es[i].last], expired) = news \o end
    BY DEF Sent
<1> HIDE DEF news, end
<1>5. /\ news \o end \in Seq(Event) /\ Len(news \o end) <= 2
      /\ \A k \in 1..Len(news \o end) :
            \/ \E j \in 1..Len(news) : (news \o end)[k] = news[j]
            \/ \E j \in 1..Len(end) : (news \o end)[k] = end[j]
  <2>1. /\ news \o end \in Seq(Event) /\ Len(news \o end) = Len(news) + Len(end)
        /\ \A k \in 1..(Len(news) + Len(end)) :
              (news \o end)[k] = IF k <= Len(news) THEN news[k] ELSE end[k - Len(news)]
    BY <1>2, <1>3, ConcatProperties
  <2>2. Len(news) \in Nat /\ Len(end) \in Nat
    BY <1>2, <1>3, LenProperties
  <2>3. ASSUME NEW k \in 1..Len(news \o end)
        PROVE  \/ \E j \in 1..Len(news) : (news \o end)[k] = news[j]
               \/ \E j \in 1..Len(end) : (news \o end)[k] = end[j]
    <3>1. CASE k <= Len(news)
      <4>1. k \in 1..Len(news)
        BY <2>1, <2>2, <3>1
      <4> QED
        BY <2>1, <3>1, <4>1
    <3>2. CASE ~(k <= Len(news))
      <4>1. k - Len(news) \in 1..Len(end) /\ k \in 1..(Len(news) + Len(end))
        BY <2>1, <2>2, <3>2
      <4> QED
        BY <2>1, <3>2, <4>1
    <3> QED
      BY <3>1, <3>2
  <2>4. Len(news \o end) <= 2
    BY <1>2, <1>3, <2>1, <2>2
  <2> QED
    BY <2>1, <2>3, <2>4
<1>6. \A k \in 1..Len(news \o end) :
         (news \o end)[k][2] = rows /\ ((news \o end)[k][1] = "done" => AllDone(rows))
  <2> SUFFICES ASSUME NEW k \in 1..Len(news \o end)
               PROVE  (news \o end)[k][2] = rows /\ ((news \o end)[k][1] = "done" => AllDone(rows))
    OBVIOUS
  <2>1. CASE \E j \in 1..Len(news) : (news \o end)[k] = news[j]
    BY <1>2, <2>1
  <2>2. CASE \E j \in 1..Len(end) : (news \o end)[k] = end[j]
    BY <1>3, <2>2
  <2> QED
    BY <1>5, <2>1, <2>2
<1> QED
    BY <1>4, <1>5, <1>6

LEMMA RoundKeeps ==
    ASSUME Inv, NEW i \in Sources, NEW expired \in BOOLEAN, Round(i, expired)
    PROVE  Inv' /\ progress' = progress
<1> DEFINE out == Sent([read |-> rows, last |-> es[i].last], expired)
           wire == es[i].wire \o out
           over == \E k \in 1..Len(out) : out[k][1] # "progress"
           x == [es[i] EXCEPT !.wire = wire, !.last = Told(rows), !.handler = ~over]
<1>1. /\ out \in Seq(Event) /\ Len(out) <= 2
      /\ \A k \in 1..Len(out) : out[k][2] = rows /\ (out[k][1] = "done" => AllDone(rows))
    BY RoundSays DEF Inv
<1>2. /\ es[i].client = "open" /\ es[i].handler
      /\ Len(es[i].wire) < MaxWire
      /\ es' = [es EXCEPT ![i].wire = @ \o out, ![i].last = Told(rows), ![i].handler = ~over]
      /\ UNCHANGED <<rows, jobs, errors, reopens, degraded, progress, query,
                     mounts, mounted, fired, marked, post, sent, faults>>
    BY DEF Round, asking
<1>3. es[i] \in Source /\ es[i].wire \in Seq(Event) /\ DOMAIN es = Sources
    BY EventKinds DEF Inv, TypeInv, StreamTyped
<1>4. es' = [es EXCEPT ![i] = x]
    BY <1>2, <1>3 DEF Source
<1>5. /\ wire \in Seq(Event) /\ Len(wire) = Len(es[i].wire) + Len(out)
      /\ \A k \in 1..(Len(es[i].wire) + Len(out)) :
            wire[k] = IF k <= Len(es[i].wire) THEN es[i].wire[k] ELSE out[k - Len(es[i].wire)]
    BY <1>1, <1>3, ConcatProperties
<1>6. Len(es[i].wire) \in Nat /\ Len(out) \in Nat
    BY <1>1, <1>3, LenProperties
<1>7. over \in BOOLEAN /\ rows \in Snapshots /\ Told(rows) \in Snapshot
    BY DEF Inv, TypeInv, Snapshots, Snapshot, Told, Row, Columns
<1> HIDE DEF out, wire, over
<1>8. x \in Source /\ x.client = "open" /\ x.wire = wire
    BY <1>2, <1>3, <1>5, <1>7 DEF Source
<1> HIDE DEF x
<1>9. /\ es' \in [Sources -> Source] /\ es'[i] = x /\ \A j \in Sources \ {i} : es'[j] = es[j]
    BY <1>3, <1>4, <1>8 DEF Inv, TypeInv, StreamTyped
<1>10. TypeInv'
  <2>1. \A j \in Sources : Len(es'[j].wire) <= MaxWire + 1
    BY <1>1, <1>2, <1>5, <1>6, <1>8, <1>9, Limits DEF Inv, TypeInv, StreamTyped
  <2> QED
    BY <1>2, <1>9, <2>1 DEF Inv, TypeInv, StreamTyped, PageTyped
<1>11. \A j \in Sources : es'[j].client = es[j].client /\ Live(j)' = Live(j)
    BY <1>2, <1>8, <1>9 DEF Live
<1>12. SourceOK'
    BY <1>2, <1>8, <1>9, <1>11 DEF Inv, SourceOK, documents
<1>13. AutoOK'
    BY <1>2 DEF Inv, AutoOK
<1>14. NotLater(rows, rows) /\ rows \in LegalRows
    BY <1>7, NotLaterSame DEF Inv, ChainOK
<1>15. ASSUME NEW k \in 1..Len(wire)
       PROVE  /\ wire[k][2] \in LegalRows /\ NotLater(wire[k][2], rows)
              /\ wire[k][1] = "done" => AllDone(wire[k][2])
              /\ progress # Nothing => NotLater(progress, wire[k][2])
              /\ \A l \in 1..Len(wire) : l < k => NotLater(wire[l][2], wire[k][2])
  <2>1. CASE k <= Len(es[i].wire)
    <3>1. k \in 1..Len(es[i].wire) /\ wire[k] = es[i].wire[k]
      BY <1>5, <1>6, <2>1
    <3>2. \A l \in 1..Len(wire) : l < k => l \in 1..Len(es[i].wire) /\ wire[l] = es[i].wire[l]
      BY <1>5, <1>6, <2>1
    <3> QED
      BY <3>1, <3>2 DEF Inv, ChainOK
  <2>2. CASE ~(k <= Len(es[i].wire))
    <3>1. k - Len(es[i].wire) \in 1..Len(out) /\ wire[k] = out[k - Len(es[i].wire)]
      BY <1>5, <1>6, <2>2
    <3>2. wire[k][2] = rows /\ (wire[k][1] = "done" => AllDone(rows))
      BY <1>1, <3>1
    <3>3. ASSUME NEW l \in 1..Len(wire) PROVE NotLater(wire[l][2], rows)
      <4>1. CASE l <= Len(es[i].wire)
        <5>1. l \in 1..Len(es[i].wire) /\ wire[l] = es[i].wire[l]
          BY <1>5, <1>6, <4>1
        <5> QED
          BY <5>1 DEF Inv, ChainOK
      <4>2. CASE ~(l <= Len(es[i].wire))
        <5>1. l - Len(es[i].wire) \in 1..Len(out) /\ wire[l] = out[l - Len(es[i].wire)]
          BY <1>5, <1>6, <4>2
        <5> QED
          BY <1>1, <1>14, <5>1
      <4> QED
        BY <4>1, <4>2
    <3> QED
      BY <1>14, <3>2, <3>3 DEF Inv, ChainOK
  <2> QED
    BY <2>1, <2>2
<1>16. ChainOK'
  <2>1. \A j \in Sources \ {i} : es'[j].wire = es[j].wire
    BY <1>9
  <2>2. es'[i].wire = wire
    BY <1>8, <1>9
  <2>3. /\ rows' \in LegalRows /\ (progress' # Nothing => NotLater(progress', rows'))
        /\ \A d \in jobs'.due : rows'[d].status # "uploaded"
        /\ \A m \in Requests : \A d \in post'[m].left \cup post'[m].at : rows'[d].status # "uploaded"
    BY <1>2 DEF Inv, ChainOK, NotLater
  <2>4. ASSUME NEW j \in Sources \ {i}, NEW k \in 1..Len(es[j].wire)
        PROVE  /\ es[j].wire[k][2] \in LegalRows /\ NotLater(es[j].wire[k][2], rows)
               /\ es[j].wire[k][1] = "done" => AllDone(es[j].wire[k][2])
               /\ progress # Nothing => NotLater(progress, es[j].wire[k][2])
               /\ \A l \in 1..Len(es[j].wire) :
                     l < k => NotLater(es[j].wire[l][2], es[j].wire[k][2])
    BY DEF Inv, ChainOK
  <2>5. ASSUME NEW j \in Sources, NEW k \in 1..Len(es'[j].wire)
        PROVE  /\ es'[j].wire[k][2] \in LegalRows /\ NotLater(es'[j].wire[k][2], rows)
               /\ es'[j].wire[k][1] = "done" => AllDone(es'[j].wire[k][2])
               /\ progress # Nothing => NotLater(progress, es'[j].wire[k][2])
               /\ \A l \in 1..Len(es'[j].wire) :
                     l < k => NotLater(es'[j].wire[l][2], es'[j].wire[k][2])
    <3>1. CASE j = i
      BY <1>15, <2>2, <3>1
    <3>2. CASE j # i
      BY <2>1, <2>4, <3>2
    <3> QED
      BY <3>1, <3>2
  <2> QED
    BY <1>2, <2>3, <2>5 DEF ChainOK, NotLater
<1> QED
    BY <1>2, <1>10, <1>12, <1>13, <1>16 DEF Inv

LEMMA Replaced ==
    ASSUME TypeInv, NEW i \in Sources, NEW x \in Source, Len(x.wire) <= MaxWire + 1,
           es' = [es EXCEPT ![i] = x]
    PROVE  /\ es' \in [Sources -> Source] /\ es'[i] = x
           /\ \A j \in Sources \ {i} : es'[j] = es[j]
           /\ \A j \in Sources : Len(es'[j].wire) <= MaxWire + 1
BY DEF TypeInv, StreamTyped

LEMMA NoWire == Len(Unused.wire) <= MaxWire + 1 /\ Len(Connecting.wire) <= MaxWire + 1 /\ Len(Closed.wire) <= MaxWire + 1
BY SourceKinds, EmptySeq, Limits

LEMMA AcceptedKeeps ==
    ASSUME Inv, NEW i \in Sources, Accepted(i)
    PROVE  Inv' /\ progress' = progress
<1> DEFINE x == [es[i] EXCEPT !.client = "open", !.handler = TRUE]
<1>1. /\ es[i].client = "connecting" /\ errors' = 0
      /\ es' = [es EXCEPT ![i].client = "open", ![i].handler = TRUE]
      /\ UNCHANGED <<rows, jobs, reopens, degraded, progress, query, mounts, mounted,
                     fired, marked, post, sent, faults>>
    BY DEF Accepted, asking
<1>2. es[i] \in Source /\ DOMAIN es = Sources
    BY DEF Inv, TypeInv, StreamTyped
<1>3. es' = [es EXCEPT ![i] = x] /\ x \in Source /\ x.client = "open" /\ x.wire = es[i].wire
    BY <1>1, <1>2 DEF Source
<1> HIDE DEF x
<1>4. /\ es' \in [Sources -> Source] /\ es'[i] = x
      /\ \A j \in Sources \ {i} : es'[j] = es[j]
      /\ \A j \in Sources : Len(es'[j].wire) <= MaxWire + 1
  <2>1. Len(x.wire) <= MaxWire + 1
    BY <1>3 DEF Inv, TypeInv, StreamTyped
  <2> QED
    BY <1>3, <2>1, Replaced DEF Inv
<1>5. TypeInv'
    BY <1>1, <1>4, Limits DEF Inv, TypeInv, StreamTyped, PageTyped
<1>6. \A j \in Sources : Live(j)' = Live(j)
    BY <1>1, <1>3, <1>4 DEF Live
<1>7. SourceOK'
    BY <1>1, <1>3, <1>4, <1>6, Limits DEF Inv, SourceOK, documents
<1>8. AutoOK'
    BY <1>1 DEF Inv, AutoOK
<1>9. ChainOK'
  <2>1. \A j \in Sources : es'[j].wire = es[j].wire
    BY <1>3, <1>4
  <2> QED
    BY <1>1, <1>5, <2>1, ChainShrinks DEF Inv, ChainOK
<1> QED
    BY <1>1, <1>5, <1>7, <1>8, <1>9 DEF Inv

LEMMA ErrorKeeps ==
    ASSUME Inv, NEW i \in Sources, ConnectionBreaks(i) \/ Refused(i)
    PROVE  Inv' /\ progress' = progress
<1>1. PICK c \in {"connecting", "closed"} : Live(i) /\ onerror(i, c)
    BY DEF ConnectionBreaks, Refused, Live
<1>2. PICK x \in {[Unused EXCEPT !.client = c], Closed} :
         /\ es' = [es EXCEPT ![i] = x] /\ errors' = errors + 1
         /\ x.client = "connecting" => errors + 1 < MaxErrors
         /\ degraded' \in {degraded, TRUE}
  <2>1. CASE errors + 1 < MaxErrors
    BY <1>1, <2>1 DEF onerror
  <2>2. CASE ~(errors + 1 < MaxErrors)
    BY <1>1, <2>2, SourceKinds DEF onerror
  <2> QED
    BY <2>1, <2>2
<1>3. /\ faults < MaxFaults /\ faults' = faults + 1
      /\ UNCHANGED <<rows, jobs, reopens, progress, query, mounts, mounted, fired, marked, post, sent>>
    BY <1>1 DEF onerror, asking, MayFail
<1>4. x \in Source /\ x.wire = <<>> /\ x.client \in {"connecting", "closed"} /\ Len(x.wire) <= MaxWire + 1
    BY SourceKinds, NoWire
<1>5. /\ es' \in [Sources -> Source] /\ es'[i] = x
      /\ \A j \in Sources \ {i} : es'[j] = es[j]
      /\ \A j \in Sources : Len(es'[j].wire) <= MaxWire + 1
    BY <1>2, <1>4, Replaced DEF Inv
<1>6. errors < MaxErrors /\ mounted /\ i = reopens + 1 /\ documents # "none"
    BY <1>1 DEF Inv, SourceOK
<1>7. TypeInv'
  <2>1. errors' \in 0..MaxErrors /\ faults' \in 0..MaxFaults
    BY <1>2, <1>3, <1>6, Limits DEF Inv, TypeInv, StreamTyped, PageTyped
  <2>2. degraded' \in BOOLEAN
    BY <1>2 DEF Inv, TypeInv, StreamTyped
  <2> QED
    BY <1>3, <1>5, <2>1, <2>2 DEF Inv, TypeInv, StreamTyped, PageTyped
<1>8. \A j \in Sources : Live(j)' => j = i /\ x.client = "connecting"
    BY <1>1, <1>4, <1>5, OneWire DEF Live
<1>9. SourceOK'
  <2>1. \A j \in Sources : es'[j].client # "open" => es'[j].wire = <<>>
    BY <1>4, <1>5 DEF Inv, SourceOK
  <2>2. ~(query.pc = "sent" /\ documents = "none")
    BY <1>1 DEF Inv, SourceOK
  <2> QED
    BY <1>2, <1>3, <1>6, <1>8, <2>1, <2>2 DEF Inv, SourceOK, documents
<1>10. AutoOK'
    BY <1>3 DEF Inv, AutoOK
<1>11. ChainOK'
  <2>1. \A j \in Sources : es'[j].wire \in {es[j].wire, <<>>}
    BY <1>4, <1>5
  <2> QED
    BY <1>3, <1>7, <2>1, ChainShrinks DEF Inv, ChainOK
<1> QED
    BY <1>3, <1>7, <1>9, <1>10, <1>11 DEF Inv

(* The page takes an event: it is no older than what it has.               *)
LEMMA TakeChain ==
    ASSUME Inv, TypeInv', NEW i \in Sources, NEW event, Take(i, event), UNCHANGED <<rows, jobs, post>>,
           es'[i].wire \in {<<>>, Tail(es[i].wire)}, \A j \in Sources \ {i} : es'[j].wire = <<>>
    PROVE  /\ ChainOK'
           /\ progress' \in LegalRows /\ (progress # Nothing => NotLater(progress, progress'))
           /\ event = "done" => AllDone(progress')
<1> DEFINE w == es[i].wire
<1>1. w \in Seq(Event) /\ w # <<>> /\ Head(w)[1] = event /\ progress' = Head(w)[2]
    BY EventKinds DEF Take, Inv
<1>2. /\ Len(w) \in Nat \ {0} /\ Head(w) = w[1] /\ Tail(w) \in Seq(Event)
      /\ Len(Tail(w)) = Len(w) - 1 /\ \A k \in 1..(Len(w) - 1) : Tail(w)[k] = w[k + 1]
    BY <1>1, HeadTailProperties, LenProperties, EmptySeq
<1>3. \A k \in 1..Len(w) :
         /\ w[k][2] \in LegalRows /\ NotLater(w[k][2], rows)
         /\ w[k][1] = "done" => AllDone(w[k][2])
         /\ progress # Nothing => NotLater(progress, w[k][2])
         /\ \A l \in 1..Len(w) : l < k => NotLater(w[l][2], w[k][2])
    BY DEF Inv, ChainOK
<1>4. /\ progress' \in LegalRows /\ NotLater(progress', rows)
      /\ progress # Nothing => NotLater(progress, progress')
      /\ event = "done" => AllDone(progress')
    BY <1>1, <1>2, <1>3
<1> HIDE DEF w
<1>5. ASSUME NEW k \in 1..Len(Tail(w))
      PROVE  /\ Tail(w)[k][2] \in LegalRows /\ NotLater(Tail(w)[k][2], rows)
             /\ Tail(w)[k][1] = "done" => AllDone(Tail(w)[k][2])
             /\ NotLater(progress', Tail(w)[k][2])
             /\ \A l \in 1..Len(Tail(w)) : l < k => NotLater(Tail(w)[l][2], Tail(w)[k][2])
  <2>1. k + 1 \in 1..Len(w) /\ 1 \in 1..Len(w) /\ 1 < k + 1 /\ Tail(w)[k] = w[k + 1]
    BY <1>2
  <2>2. NotLater(w[1][2], w[k + 1][2])
    BY <1>3, <2>1
  <2>3. ASSUME NEW l \in 1..Len(Tail(w)), l < k PROVE NotLater(Tail(w)[l][2], Tail(w)[k][2])
    <3>1. l + 1 \in 1..Len(w) /\ l + 1 < k + 1 /\ Tail(w)[l] = w[l + 1]
      BY <1>2, <2>3
    <3> QED
      BY <1>3, <2>1, <3>1
  <2> QED
    BY <1>1, <1>2, <1>3, <2>1, <2>2, <2>3
<1>6. ASSUME NEW j \in Sources, NEW k \in 1..Len(es'[j].wire)
      PROVE  /\ es'[j].wire[k][2] \in LegalRows /\ NotLater(es'[j].wire[k][2], rows)
             /\ es'[j].wire[k][1] = "done" => AllDone(es'[j].wire[k][2])
             /\ NotLater(progress', es'[j].wire[k][2])
             /\ \A l \in 1..Len(es'[j].wire) :
                   l < k => NotLater(es'[j].wire[l][2], es'[j].wire[k][2])
  <2>1. es'[j].wire # <<>>
    BY EmptySeq
  <2>2. es'[j].wire = Tail(w)
    BY <2>1 DEF w
  <2> QED
    BY <1>5, <2>2
<1>7. ChainOK'
    BY <1>4, <1>6 DEF Inv, ChainOK, NotLater
<1> QED
    BY <1>4, <1>7

LEMMA ReceiveProgressKeeps ==
    ASSUME Inv, NEW i \in Sources, ReceiveProgress(i)
    PROVE  Inv' /\ (progress # Nothing => NotLater(progress, progress'))
<1> DEFINE x == [es[i] EXCEPT !.wire = Tail(es[i].wire)]
<1>1. /\ Take(i, "progress") /\ es[i].client = "open" /\ es[i].wire # <<>>
      /\ es' = [es EXCEPT ![i].wire = Tail(@)]
      /\ progress' = Head(es[i].wire)[2]
      /\ UNCHANGED <<rows, jobs, errors, reopens, degraded, query, mounts, mounted,
                     fired, marked, post, sent, faults>>
    BY DEF ReceiveProgress, Take, asking
<1>2. /\ es[i] \in Source /\ es[i].wire \in Seq(Event) /\ DOMAIN es = Sources
      /\ Head(es[i].wire) = es[i].wire[1] /\ Tail(es[i].wire) \in Seq(Event)
      /\ Len(es[i].wire) \in Nat \ {0} /\ Len(Tail(es[i].wire)) = Len(es[i].wire) - 1
    BY <1>1, EventKinds, HeadTailProperties, LenProperties, EmptySeq
    DEF Inv, TypeInv, StreamTyped
<1>3. es' = [es EXCEPT ![i] = x] /\ x \in Source /\ x.client = "open" /\ x.wire = Tail(es[i].wire)
    BY <1>1, <1>2 DEF Source
<1> HIDE DEF x
<1>4. /\ es' \in [Sources -> Source] /\ es'[i] = x
      /\ \A j \in Sources \ {i} : es'[j] = es[j]
      /\ \A j \in Sources : Len(es'[j].wire) <= MaxWire + 1
  <2>1. Len(x.wire) <= MaxWire + 1
    BY <1>2, <1>3, Limits DEF Inv, TypeInv, StreamTyped
  <2> QED
    BY <1>3, <2>1, Replaced DEF Inv
<1>5. progress' \in Snapshots
    BY <1>1, <1>2, EventKinds DEF Inv
<1>6. TypeInv'
    BY <1>1, <1>4, <1>5 DEF Inv, TypeInv, StreamTyped, PageTyped, Pages
<1>7. \A j \in Sources : Live(j)' = Live(j) /\ es'[j].client = es[j].client
    BY <1>1, <1>3, <1>4 DEF Live
<1>8. \A j \in Sources \ {i} : es'[j].wire = <<>>
    BY <1>1, <1>4, OneWire DEF Live
<1>9. SourceOK'
    BY <1>1, <1>3, <1>4, <1>7, <1>8 DEF Inv, SourceOK, documents
<1>10. AutoOK'
    BY <1>1 DEF Inv, AutoOK
<1> QED
    BY <1>1, <1>3, <1>4, <1>6, <1>8, <1>9, <1>10, TakeChain DEF Inv

(* What ends a stream: the source is closed, and perhaps another opened.   *)
LEMMA SourceCloses ==
    ASSUME Inv, NEW i \in Sources, NEW event, Take(i, event),
           es' \in [Sources -> Source], es'[i] = Closed,
           \A j \in Sources \ {i} :
              es'[j] = es[j] \/ (es'[j] = Connecting /\ j = reopens' + 1),
           reopens' \in 0..MaxReopens, reopens' = reopens \/ reopens' = reopens + 1,
           degraded' \in {degraded, TRUE},
           UNCHANGED <<rows, jobs, errors, mounts, mounted, fired, marked, post, sent, faults>>,
           query' \in Query, query'.data = query.data, query'.pc = "sent" => query.pc = "sent" \/ (event = "done" /\ mounted)
    PROVE  Inv' /\ (progress # Nothing => NotLater(progress, progress'))
           /\ (event = "done" => progress' \in LegalRows /\ AllDone(progress'))
<1>1. /\ es[i].client = "open" /\ es[i].wire # <<>> /\ progress' = Head(es[i].wire)[2]
      /\ Head(es[i].wire)[1] = event
    BY DEF Take
<1>2. /\ es[i].wire \in Seq(Event) /\ Head(es[i].wire) = es[i].wire[1] /\ 1 \in 1..Len(es[i].wire)
    BY <1>1, EventKinds, HeadTailProperties, LenProperties, EmptySeq DEF Inv
<1>3. progress' \in Snapshots /\ (event = "done" => AllDone(progress'))
    BY <1>1, <1>2, EventKinds DEF Inv, ChainOK
<1>4. Live(i) /\ mounted /\ errors < MaxErrors /\ i = reopens + 1
      /\ documents # "none"
    BY <1>1 DEF Inv, SourceOK, Live
<1>5. \A j \in Sources \ {i} : ~Live(j) /\ es[j].wire = <<>> /\ es[j].client # "open"
    BY <1>4, OneWire DEF Live
<1>6. \A j \in Sources : es'[j].wire = <<>> /\ es'[j].client # "open"
    BY <1>5, SourceKinds
<1>7. \A j \in Sources : Live(j)' => j = reopens' + 1
    BY <1>5, SourceKinds DEF Live
<1>8. TypeInv'
    BY <1>3, <1>6, NoWire, EmptySeq, Limits
    DEF Inv, TypeInv, StreamTyped, PageTyped, Pages
<1>9. event = "done" => documents # "none"
    BY <1>4
<1>10. SourceOK'
    BY <1>4, <1>6, <1>7, <1>9 DEF Inv, SourceOK, documents
<1>11. AutoOK'
    BY DEF Inv, AutoOK
<1>12. /\ ChainOK' /\ progress' \in LegalRows
       /\ progress # Nothing => NotLater(progress, progress')
    BY <1>6, <1>8, TakeChain
<1> QED
    BY <1>3, <1>8, <1>10, <1>11, <1>12 DEF Inv

LEMMA QueryKinds ==
    ASSUME TypeInv, NEW pc \in {"idle", "sent"}, NEW fails \in 0..MaxRetries
    PROVE  /\ [query EXCEPT !.pc = pc, !.fails = fails] \in Query
           /\ [query EXCEPT !.pc = pc, !.fails = fails].data = query.data
           /\ [query EXCEPT !.pc = pc, !.fails = fails].pc = pc
<1> DEFINE q == [query EXCEPT !.pc = pc, !.fails = fails]
<1>1. query \in Query
    BY DEF TypeInv, PageTyped
<1>2. q \in Query
    BY <1>1 DEF Query
<1>3. q.data = query.data /\ q.pc = pc
    BY <1>1 DEF Query
<1> QED
    BY <1>2, <1>3

LEMMA InvalidatedKinds ==
    ASSUME TypeInv
    PROVE  /\ Invalidated(query) \in Query /\ Invalidated(query).data = query.data
           /\ Invalidated(query).pc = "sent" => mounted
<1> DEFINE pc == IF mounted THEN "sent" ELSE "idle"
<1>1. pc \in {"idle", "sent"} /\ (pc = "sent" => mounted)
    OBVIOUS
<1>2. Invalidated(query) = [query EXCEPT !.pc = pc, !.fails = 0]
    BY DEF Invalidated
<1>3. 0 \in 0..MaxRetries
    BY Limits
<1> HIDE DEF pc
<1> QED
  <2>1. /\ [query EXCEPT !.pc = pc, !.fails = 0] \in Query
        /\ [query EXCEPT !.pc = pc, !.fails = 0].data = query.data
        /\ [query EXCEPT !.pc = pc, !.fails = 0].pc = pc
    BY <1>1, <1>3, QueryKinds
  <2> QED
    BY <1>1, <1>2, <2>1

LEMMA ReceiveDoneKeeps ==
    ASSUME Inv, NEW i \in Sources, ReceiveDone(i)
    PROVE  Inv' /\ (progress # Nothing => NotLater(progress, progress'))
           /\ progress' \in LegalRows /\ AllDone(progress')
<1>1. /\ Take(i, "done") /\ es' = [es EXCEPT ![i] = Closed] /\ query' = Invalidated(query)
      /\ UNCHANGED <<rows, jobs, errors, reopens, degraded, mounts, mounted,
                     fired, marked, post, sent, faults>>
    BY DEF ReceiveDone, asking
<1>2. /\ es' \in [Sources -> Source] /\ es'[i] = Closed
      /\ \A j \in Sources \ {i} : es'[j] = es[j]
    BY <1>1, Replaced, SourceKinds, NoWire DEF Inv
<1>3. /\ query' \in Query /\ query'.data = query.data /\ (query'.pc = "sent" => mounted)
    BY <1>1, InvalidatedKinds DEF Inv
<1>4. reopens' \in 0..MaxReopens /\ degraded' \in {degraded, TRUE} /\ reopens' = reopens
    BY <1>1 DEF Inv, TypeInv, StreamTyped
<1> QED
    BY <1>1, <1>2, <1>3, <1>4, SourceCloses

LEMMA TimeoutKeeps ==
    ASSUME Inv, NEW i \in Sources, ReceiveTimeout(i)
    PROVE  Inv' /\ (progress # Nothing => NotLater(progress, progress'))
<1>1. /\ Take(i, "timeout")
      /\ UNCHANGED <<rows, jobs, errors, query, mounts, mounted, fired, marked, post, sent, faults>>
    BY DEF ReceiveTimeout, asking
<1>2. query' \in Query /\ reopens \in Nat /\ reopens <= MaxReopens /\ i = reopens + 1
    BY <1>1, Limits DEF Inv, TypeInv, PageTyped, StreamTyped, SourceOK, Live, Take
<1>3. CASE reopens < MaxReopens
  <2>1. /\ reopens' = reopens + 1 /\ degraded' = degraded
        /\ es' = [es EXCEPT ![i] = Closed, ![reopens + 2] = Connecting]
    BY <1>3 DEF ReceiveTimeout
  <2>2. reopens + 2 \in Sources /\ reopens + 2 # i /\ reopens' \in 0..MaxReopens
    BY <1>2, <1>3, <2>1, Limits DEF Sources
  <2>3. /\ es' \in [Sources -> Source] /\ es'[i] = Closed
        /\ \A j \in Sources \ {i} :
              es'[j] = es[j] \/ (es'[j] = Connecting /\ j = reopens' + 1)
    BY <1>2, <2>1, <2>2, SourceKinds DEF Inv, TypeInv, StreamTyped
  <2> QED
    BY <1>1, <1>2, <2>1, <2>2, <2>3, SourceCloses
<1>4. CASE ~(reopens < MaxReopens)
  <2>1. reopens' = reopens /\ degraded' = TRUE /\ es' = [es EXCEPT ![i] = Closed]
    BY <1>4 DEF ReceiveTimeout
  <2>2. /\ es' \in [Sources -> Source] /\ es'[i] = Closed
        /\ \A j \in Sources \ {i} : es'[j] = es[j]
    BY <2>1, SourceKinds, Replaced, NoWire DEF Inv
  <2>3. reopens' \in 0..MaxReopens
    BY <2>1 DEF Inv, TypeInv, StreamTyped
  <2> QED
    BY <1>1, <1>2, <2>1, <2>2, <2>3, SourceCloses
<1> QED
    BY <1>3, <1>4

LEMMA MountKeeps ==
    ASSUME Inv, NEW fresh \in BOOLEAN, Mount(fresh)
    PROVE  Inv' /\ progress' = progress
<1>1. /\ ~mounted /\ mounts < MaxMounts /\ mounted' = TRUE /\ mounts' = mounts + 1
      /\ query' \in {query, [query EXCEPT !.pc = "sent", !.fails = 0]}
      /\ es' = [i \in Sources |-> IF i = 1 /\ documents # "none" THEN Connecting ELSE Unused]
      /\ UNCHANGED <<rows, jobs, errors, reopens, degraded, progress, fired, marked, post, sent, faults>>
    BY DEF Mount, asking
<1>2. es' \in [Sources -> Source] /\ \A i \in Sources :
        es'[i].wire = <<>> /\ es'[i].client # "open" /\ Len(es'[i].wire) <= MaxWire + 1
    BY <1>1, SourceKinds, NoWire
<1>3. query' \in Query /\ query'.data = query.data
  <2>1. 0 \in 0..MaxRetries /\ query \in Query
    BY Limits DEF Inv, TypeInv, PageTyped
  <2> QED
    BY <1>1, <2>1, QueryKinds DEF Inv
<1>4. TypeInv'
  <2>1. mounts' \in 0..MaxMounts
    BY <1>1, Limits DEF Inv, TypeInv, PageTyped
  <2>2. StreamTyped'
    BY <1>1, <1>2 DEF Inv, TypeInv, StreamTyped
  <2>3. PageTyped'
    BY <1>1, <1>3, <2>1 DEF Inv, TypeInv, PageTyped
  <2> QED
    BY <1>1, <2>2, <2>3 DEF Inv, TypeInv
<1>5. \A i \in Sources : Live(i)' => i = 1 /\ documents # "none"
    BY <1>1, SourceKinds DEF Live
<1>6. errors = 0 /\ reopens = 0
    BY <1>1 DEF Inv, SourceOK
<1>7. SourceOK'
    BY <1>1, <1>2, <1>3, <1>5, <1>6, Limits DEF Inv, SourceOK, documents
<1>8. AutoOK'
    BY <1>1 DEF Inv, AutoOK
<1>9. ChainOK'
    BY <1>1, <1>2, <1>4, ChainShrinks DEF Inv, ChainOK
<1> QED
    BY <1>1, <1>4, <1>7, <1>8, <1>9 DEF Inv

LEMMA UnmountKeeps ==
    ASSUME Inv, Unmount
    PROVE  Inv' /\ progress' = Nothing
<1>1. /\ mounted' = FALSE /\ es' = [i \in Sources |-> Unused]
      /\ errors' = 0 /\ reopens' = 0 /\ degraded' = FALSE /\ progress' = Nothing
      /\ query' = [query EXCEPT !.pc = "idle", !.fails = 0] /\ fired' = FALSE
      /\ UNCHANGED <<rows, jobs, mounts, marked, post, sent, faults>>
    BY DEF Unmount
<1>2. es' \in [Sources -> Source] /\ \A i \in Sources :
        es'[i].wire = <<>> /\ es'[i].client = "unused" /\ Len(es'[i].wire) <= MaxWire + 1
    BY <1>1, SourceKinds, NoWire
<1>3. query' \in Query /\ query'.data = query.data /\ query'.pc = "idle"
  <2>1. 0 \in 0..MaxRetries
    BY Limits
  <2> QED
    BY <1>1, <2>1, QueryKinds DEF Inv
<1>4. TypeInv'
  <2>1. errors' \in 0..MaxErrors /\ reopens' \in 0..MaxReopens /\ progress' \in Pages
    BY <1>1, Limits DEF Pages
  <2>2. degraded' \in BOOLEAN /\ mounted' \in BOOLEAN /\ fired' \in BOOLEAN
    BY <1>1
  <2> QED
    BY <1>1, <1>2, <1>3, <2>1, <2>2 DEF Inv, TypeInv, StreamTyped, PageTyped
<1>5. \A i \in Sources : ~Live(i)'
    BY <1>2 DEF Live
<1>6. SourceOK'
    BY <1>1, <1>2, <1>3, <1>5 DEF Inv, SourceOK, documents
<1>7. AutoOK'
    BY <1>1 DEF Inv, AutoOK
<1>8. ChainOK'
    BY <1>1, <1>2, <1>4, ChainShrinks DEF Inv, ChainOK
<1> QED
    BY <1>1, <1>4, <1>6, <1>7, <1>8 DEF Inv

LEMMA CaseReadKeeps ==
    ASSUME Inv, CaseRead
    PROVE  Inv' /\ progress' = progress
<1>1. /\ query.pc = "sent" /\ query' = [data |-> deriveCaseStage(rows), pc |-> "idle", fails |-> 0]
      /\ es' = IF documents = "none" THEN [es EXCEPT ![1] = Connecting] ELSE es
      /\ UNCHANGED <<rows, jobs, errors, reopens, degraded, progress, mounts, mounted,
                     fired, marked, post, sent, faults>>
    BY DEF CaseRead, asking
<1>2. query' \in Query /\ query'.data # "none" /\ query'.pc = "idle"
  <2>1. deriveCaseStage(rows) \in Stages \ {"none"}
    BY DEF deriveCaseStage, Stages
  <2>2. 0 \in 0..MaxRetries
    BY Limits
  <2> HIDE DEF Stages
  <2> QED
    BY <1>1, <2>1, <2>2 DEF Query
<1>4. 1 \in Sources
    BY Limits DEF Sources
<1>5. /\ es' \in [Sources -> Source]
      /\ \A i \in Sources : /\ Len(es'[i].wire) <= MaxWire + 1
                            /\ es'[i] = es[i] \/ (es'[i] = Connecting /\ i = 1 /\ documents = "none")
    BY <1>1, <1>4, Replaced, SourceKinds, NoWire DEF Inv, TypeInv, StreamTyped
<1>6. TypeInv'
    BY <1>1, <1>2, <1>5 DEF Inv, TypeInv, StreamTyped, PageTyped
<1>7. \A i \in Sources : Live(i)' =>
         Live(i) \/ (i = 1 /\ errors = 0 /\ reopens = 0 /\ mounted)
    BY <1>1, <1>5, SourceKinds DEF Live, Inv, SourceOK
<1>8. \A i \in Sources : es'[i].client # "open" => es'[i].wire = <<>>
    BY <1>5, SourceKinds DEF Inv, SourceOK
<1>9. SourceOK'
    BY <1>1, <1>2, <1>7, <1>8, Limits DEF Inv, SourceOK, documents
<1>10. AutoOK'
    BY <1>1 DEF Inv, AutoOK
<1>11. ChainOK'
  <2>1. \A i \in Sources : es'[i].wire \in {es[i].wire, <<>>}
    BY <1>5, SourceKinds
  <2> QED
    BY <1>1, <1>6, <2>1, ChainShrinks DEF Inv, ChainOK
<1> QED
    BY <1>1, <1>6, <1>9, <1>10, <1>11 DEF Inv

(* The case read, the button and the requests: the stream stays as it is.  *)
LEMMA AsideKeeps ==
    ASSUME Inv, UNCHANGED <<stream, mounts, mounted>>, rows' = rows, jobs' \in Jobs,
           \A d \in jobs'.due : rows[d].status # "uploaded",
           query' \in Query, query'.data = query.data, fired' \in BOOLEAN, marked' \in BOOLEAN,
           query'.pc = "sent" => query.pc = "sent" \/ (mounted /\ documents # "none"),
           post' \in [Requests -> PostType], sent' \in [Requests -> Nat], AutoOK',
           faults' \in 0..MaxFaults,
           \A m \in Requests : post'[m].pc # "none" => documents # "none",
           \A m \in Requests : \A d \in post'[m].left \cup post'[m].at : rows[d].status # "uploaded"
    PROVE  Inv' /\ progress' = progress
<1>1. UNCHANGED <<es, errors, reopens, degraded, progress>>
    BY DEF stream
<1>2. TypeInv'
    BY <1>1 DEF Inv, TypeInv, StreamTyped, PageTyped
<1>3. \A i \in Sources : Live(i)' = Live(i)
    BY <1>1 DEF Live
<1>4. SourceOK'
    BY <1>1, <1>3 DEF Inv, SourceOK, documents
<1>5. ChainOK'
    BY <1>1, <1>2, ChainShrinks
<1> QED
    BY <1>1, <1>2, <1>4, <1>5 DEF Inv

LEMMA QueryKeeps ==
    ASSUME Inv, CaseFails \/ Poll
    PROVE  Inv' /\ progress' = progress
<1>1. UNCHANGED <<rows, jobs, stream, mounts, mounted, fired, marked, post, sent>>
    BY DEF CaseFails, Poll, asking
<1>2. /\ fired \in BOOLEAN /\ marked \in BOOLEAN /\ post \in [Requests -> PostType]
      /\ sent \in [Requests -> Nat] /\ query \in Query /\ faults \in 0..MaxFaults
    BY DEF Inv, TypeInv, PageTyped
<1>3. AutoOK' /\ \A m \in Requests : post[m].pc # "none" => documents # "none"
    BY <1>1 DEF Inv, AutoOK, SourceOK
<1>6. /\ jobs' \in Jobs /\ \A d \in jobs'.due : rows[d].status # "uploaded"
      /\ \A m \in Requests : \A d \in post'[m].left \cup post'[m].at : rows[d].status # "uploaded"
    BY <1>1 DEF Inv, TypeInv, ChainOK
<1>4. CASE CaseFails
  <2>1. faults' \in 0..MaxFaults /\ query.pc = "sent"
    BY <1>2, <1>4, Limits DEF CaseFails, MayFail
  <2>2. query' \in Query /\ query'.data = query.data
    <3>1. CASE query.fails < MaxRetries
      <4>1. query.fails + 1 \in 0..MaxRetries
        BY <1>2, <3>1, Limits DEF Query
      <4>2. query' = [query EXCEPT !.pc = "sent", !.fails = query.fails + 1]
        BY <1>2, <1>4, <3>1 DEF CaseFails, Query
      <4> QED
        BY <4>1, <4>2, QueryKinds DEF Inv
    <3>2. CASE ~(query.fails < MaxRetries)
      <4>1. query' = [query EXCEPT !.pc = "idle", !.fails = 0] /\ 0 \in 0..MaxRetries
        BY <1>4, <3>2, Limits DEF CaseFails
      <4> QED
        BY <4>1, QueryKinds DEF Inv
    <3> QED
      BY <3>1, <3>2
  <2> QED
    BY <1>1, <1>2, <1>3, <1>6, <2>1, <2>2, AsideKeeps
<1>5. CASE Poll
  <2>1. /\ mounted /\ documents # "none" /\ faults' = faults
        /\ query' = [query EXCEPT !.pc = "sent"]
    BY <1>5 DEF Poll
  <2>3. query' \in Query /\ query'.data = query.data
    BY <1>2, <2>1 DEF Query
  <2> QED
    BY <1>1, <1>2, <1>3, <1>6, <2>1, <2>3, AsideKeeps
<1> QED
    BY <1>4, <1>5

LEMMA AskKeeps ==
    ASSUME Inv, AutoAnalyze \/ ReRun
    PROVE  Inv' /\ progress' = progress
<1>1. PICK m \in Requests :
         /\ Mutate(m) /\ documents # "none"
         /\ m = "auto" => ~marked /\ marked' = TRUE
         /\ m = "button" => marked' = marked
         /\ fired' \in BOOLEAN /\ marked' \in BOOLEAN
  <2>1. CASE AutoAnalyze
    BY <2>1 DEF AutoAnalyze, Requests
  <2>2. CASE ReRun
    BY <2>2 DEF ReRun, Requests, Inv, TypeInv, PageTyped
  <2> QED
    BY <2>1, <2>2
<1>2. /\ fired \in BOOLEAN /\ post \in [Requests -> PostType]
      /\ sent \in [Requests -> Nat] /\ query \in Query /\ faults \in 0..MaxFaults
    BY DEF Inv, TypeInv, PageTyped
<1>3. /\ post' = [post EXCEPT ![m].pc = "sent"] /\ sent' = [sent EXCEPT ![m] = @ + 1]
      /\ UNCHANGED <<rows, jobs, stream, query, mounts, mounted, faults>>
    BY <1>1 DEF Mutate
<1>4. /\ post' \in [Requests -> PostType]
      /\ \A n \in Requests : post'[n].left = post[n].left /\ post'[n].at = post[n].at
      /\ \A n \in Requests : post'[n].pc # "none" => documents # "none"
    BY <1>1, <1>2, <1>3 DEF PostType
<1>5. sent' \in [Requests -> Nat]
    BY <1>2, <1>3
<1>6. AutoOK'
    BY <1>1, <1>2, <1>3 DEF Inv, AutoOK, Requests
<1>7. /\ jobs' \in Jobs /\ \A d \in jobs'.due : rows[d].status # "uploaded"
      /\ \A n \in Requests : \A d \in post'[n].left \cup post'[n].at : rows[d].status # "uploaded"
    BY <1>3, <1>4 DEF Inv, TypeInv, ChainOK
<1> QED
    BY <1>1, <1>2, <1>3, <1>4, <1>5, <1>6, <1>7, AsideKeeps

LEMMA PostKeeps ==
    ASSUME Inv, NEW m \in Requests,
           AnalyzeCase(m) \/ EnqueueAnalysis(m) \/ AnalyzeAccepted(m) \/ AnalyzeFails(m)
    PROVE  Inv' /\ progress' = progress
<1>1. /\ fired \in BOOLEAN /\ marked \in BOOLEAN /\ post \in [Requests -> PostType]
      /\ sent \in [Requests -> Nat] /\ query \in Query /\ faults \in 0..MaxFaults
      /\ rows \in Snapshots /\ jobs \in Jobs
      /\ \A d \in jobs.due : rows[d].status # "uploaded"
      /\ \A n \in Requests : \A d \in post[n].left \cup post[n].at : rows[d].status # "uploaded"
    BY DEF Inv, TypeInv, PageTyped, ChainOK
<1>2. PICK pc \in {"none", "enqueueing", "marking", "accepted"},
           left \in SUBSET Documents, at \in SUBSET Documents :
         /\ Post(m, pc, left, at) /\ post[m].pc # "none" /\ rows' = rows
         /\ jobs' \in Jobs /\ jobs'.due \subseteq jobs.due \cup at
         /\ \A d \in left \cup at : rows[d].status # "uploaded"
  <2>1. CASE AnalyzeCase(m)
    <3>1. Usable(rows) \in SUBSET Documents /\ \A d \in Usable(rows) : rows[d].status # "uploaded"
      BY <1>1 DEF Usable, Snapshots
    <3>2. \E pc \in {"enqueueing", "accepted"} : Post(m, pc, Usable(rows), {})
      BY <2>1 DEF AnalyzeCase, Remaining
    <3>3. post[m].pc = "sent" /\ rows' = rows /\ jobs' = jobs
      BY <2>1 DEF AnalyzeCase
    <3> QED
      BY <1>1, <3>1, <3>2, <3>3
  <2>2. CASE EnqueueAnalysis(m)
    <3>1. PICK d \in post[m].left : /\ jobs' = [jobs EXCEPT !.due = @ \cup {d}]
                                   /\ Post(m, "marking", post[m].left \ {d}, {d})
      BY <2>2 DEF EnqueueAnalysis
    <3>2. post[m].left \in SUBSET Documents /\ d \in Documents
      BY <1>1, <3>1 DEF PostType
    <3>3. jobs' \in Jobs /\ jobs'.due = jobs.due \cup {d}
      BY <1>1, <3>1, <3>2 DEF Jobs
    <3>4. post[m].pc = "enqueueing" /\ rows' = rows
      BY <2>2 DEF EnqueueAnalysis
    <3>5. \A c \in (post[m].left \ {d}) \cup {d} : rows[c].status # "uploaded"
      BY <1>1, <3>1
    <3>6. (post[m].left \ {d}) \in SUBSET Documents /\ {d} \in SUBSET Documents
      BY <3>2
    <3> QED
      BY <3>1, <3>3, <3>4, <3>5, <3>6
  <2>3. CASE AnalyzeAccepted(m) \/ AnalyzeFails(m)
    <3>1. /\ Post(m, "none", {}, {}) /\ post[m].pc \in {"sent", "accepted"}
          /\ rows' = rows /\ jobs' = jobs
      BY <2>3 DEF AnalyzeAccepted, AnalyzeFails
    <3> QED
      BY <1>1, <3>1
  <2> QED
    BY <2>1, <2>2, <2>3
<1>3. /\ post' = [post EXCEPT ![m] = [pc |-> pc, left |-> left, at |-> at]]
      /\ UNCHANGED <<stream, mounts, mounted, fired, marked, sent>>
    BY <1>2 DEF Post
<1>4. /\ post' \in [Requests -> PostType]
      /\ \A n \in Requests : \A d \in post'[n].left \cup post'[n].at : rows[d].status # "uploaded"
      /\ \A n \in Requests : post'[n].pc # "none" => post[n].pc # "none"
  <2>1. [pc |-> pc, left |-> left, at |-> at] \in PostType
    BY DEF PostType
  <2>2. /\ post'[m] = [pc |-> pc, left |-> left, at |-> at]
        /\ \A n \in Requests \ {m} : post'[n] = post[n]
    BY <1>1, <1>3
  <2> QED
    BY <1>1, <1>2, <1>3, <2>1, <2>2
<1>5. documents # "none" /\ \A n \in Requests : post'[n].pc # "none" => documents # "none"
    BY <1>2, <1>4 DEF Inv, SourceOK
<1>6. /\ query' \in Query /\ query'.data = query.data
      /\ (query'.pc = "sent" => query.pc = "sent" \/ mounted)
      /\ faults' \in 0..MaxFaults
  <2>1. CASE AnalyzeAccepted(m)
    BY <1>1, <2>1, InvalidatedKinds DEF AnalyzeAccepted, Inv
  <2>2. CASE AnalyzeCase(m) \/ EnqueueAnalysis(m) \/ AnalyzeFails(m)
    BY <1>1, <2>2, Limits DEF AnalyzeCase, EnqueueAnalysis, AnalyzeFails, MayFail
  <2> QED
    BY <2>1, <2>2
<1>7. AutoOK'
    BY <1>3 DEF Inv, AutoOK
<1>8. \A d \in jobs'.due : rows[d].status # "uploaded"
    BY <1>1, <1>2
<1> QED
    BY <1>1, <1>2, <1>3, <1>4, <1>5, <1>6, <1>7, <1>8, AsideKeeps

LEMMA MarkKeeps ==
    ASSUME Inv, NEW m \in Requests, MarkAnalyzing(m)
    PROVE  Inv' /\ progress' = progress
<1>1. PICK d \in post[m].at : rows' = [rows EXCEPT ![d].analysis = "analyzing"]
    BY DEF MarkAnalyzing
<1>2. /\ post \in [Requests -> PostType] /\ post[m] \in PostType /\ d \in Documents
      /\ rows[d].status # "uploaded" /\ post[m].pc # "none"
    BY <1>1 DEF MarkAnalyzing, Inv, TypeInv, PageTyped, PostType, ChainOK
<1>3. PICK r \in Row : /\ rows' = [rows EXCEPT ![d] = r] /\ r.status # "uploaded"
                      /\ NotBehind(rows[d], r)
    BY <1>1, <1>2, AnalysisWrites
<1>4. /\ rows' \in Snapshots /\ rows' \in LegalRows /\ NotLater(rows, rows')
      /\ \A c \in Documents : rows[c].status # "uploaded" => rows'[c].status # "uploaded"
    BY <1>2, <1>3, RowWritten
<1>5. PICK pc \in {"enqueueing", "accepted"} : Post(m, pc, post[m].left, {})
    BY DEF MarkAnalyzing, Remaining
<1>6. /\ post' = [post EXCEPT ![m] = [pc |-> pc, left |-> post[m].left, at |-> {}]]
      /\ UNCHANGED <<jobs, es, errors, reopens, degraded, progress, mounts, mounted, fired,
                     marked, sent, query, faults>>
    BY <1>5 DEF Post, stream, MarkAnalyzing
<1>7. /\ post' \in [Requests -> PostType]
      /\ \A n \in Requests : post'[n].left \cup post'[n].at \subseteq post[n].left \cup post[n].at
      /\ \A n \in Requests : post'[n].pc # "none" => post[n].pc # "none"
  <2>1. [pc |-> pc, left |-> post[m].left, at |-> {}] \in PostType
    BY <1>2 DEF PostType
  <2>2. /\ post'[m] = [pc |-> pc, left |-> post[m].left, at |-> {}]
        /\ \A n \in Requests \ {m} : post'[n] = post[n]
    BY <1>2, <1>6
  <2> QED
    BY <1>2, <1>6, <2>1, <2>2
<1>8. TypeInv'
    BY <1>4, <1>6, <1>7 DEF Inv, TypeInv, StreamTyped, PageTyped
<1>9. SourceOK' /\ AutoOK'
    BY <1>6, <1>7 DEF Inv, SourceOK, AutoOK, Live, documents
<1>10. \A c \in jobs'.due : rows'[c].status # "uploaded"
  <2>1. \A c \in jobs.due : c \in Documents /\ rows[c].status # "uploaded"
    BY DEF Inv, TypeInv, ChainOK, Jobs
  <2> QED
    BY <1>4, <1>6, <2>1
<1>11. ChainOK'
    BY <1>4, <1>6, <1>7, <1>8, <1>10, ChainAdvances
<1> QED
    BY <1>6, <1>8, <1>9, <1>11 DEF Inv

Forward == progress # Nothing /\ progress' # Nothing => NotLater(progress, progress')

LEMMA InvNext == Inv /\ [Next]_vars => Inv' /\ Forward
<1> SUFFICES ASSUME Inv, [Next]_vars PROVE Inv' /\ Forward
    OBVIOUS
<1>1. ASSUME progress' = progress PROVE Forward
  <2>1. progress # Nothing => progress \in Snapshots
    BY DEF Inv, TypeInv, StreamTyped, Pages
  <2> QED
    BY <1>1, <2>1, NotLaterSame DEF Forward
<1>2. CASE UNCHANGED vars
  <2>1. UNCHANGED <<rows, jobs, es, errors, reopens, degraded, progress, query, mounts, mounted,
                    fired, marked, post, sent, faults>>
    BY <1>2 DEF vars, stream, asking
  <2>2. TypeInv' /\ SourceOK' /\ AutoOK'
    BY <2>1 DEF Inv, TypeInv, StreamTyped, PageTyped, SourceOK, AutoOK, Live, documents
  <2>3. ChainOK'
    BY <2>1, <2>2, ChainShrinks DEF Inv, ChainOK
  <2> QED
    BY <1>1, <2>1, <2>2, <2>3 DEF Inv
<1>3. ASSUME NEW d \in Documents, Worker(d) PROVE Inv' /\ Forward
    BY <1>1, <1>3, WorkerKeeps
<1>4. ASSUME NEW i \in Sources,
             \/ StreamStep(i) \/ ConnectionBreaks(i) \/ Refused(i)
             \/ \E expired \in BOOLEAN : Round(i, expired)
      PROVE  Inv' /\ Forward
  <2>1. CASE Accepted(i)
    BY <1>1, <2>1, AcceptedKeeps
  <2>2. CASE ConnectionBreaks(i) \/ Refused(i)
    BY <1>1, <2>2, ErrorKeeps
  <2>3. CASE \E expired \in BOOLEAN : Round(i, expired)
    BY <1>1, <2>3, RoundKeeps
  <2>4. CASE ReceiveProgress(i) \/ ReceiveDone(i) \/ ReceiveTimeout(i)
    BY <2>4, ReceiveProgressKeeps, ReceiveDoneKeeps, TimeoutKeeps DEF Forward
  <2> QED
    BY <1>4, <2>1, <2>2, <2>3, <2>4 DEF StreamStep
<1>5. CASE (\E fresh \in BOOLEAN : Mount(fresh)) \/ Unmount
    BY <1>1, <1>5, MountKeeps, UnmountKeeps DEF Forward
<1>6. CASE QueryStep \/ CaseFails \/ AutoAnalyze \/ ReRun
    BY <1>1, <1>6, CaseReadKeeps, QueryKeeps, AskKeeps DEF QueryStep
<1>7. ASSUME NEW m \in Requests, PostStep(m) \/ AnalyzeFails(m) PROVE Inv' /\ Forward
    BY <1>1, <1>7, PostKeeps, MarkKeeps DEF PostStep
<1> QED
    BY <1>2, <1>3, <1>4, <1>5, <1>6, <1>7 DEF Next

LEMMA AllDoneIsSettled ==
    ASSUME NEW s \in LegalRows, AllDone(s)
    PROVE  /\ isSettled(deriveCaseStage(s)) \/ \E d \in Documents : Reingested(s[d])
           /\ \A d \in Documents : s[d].status = "ready" => s[d].analysis \in {"analyzed", "failed"}
<1>1. DOMAIN s = Documents /\ \A d \in Documents : s[d] \in Row
    BY DEF LegalRows, Snapshots
<1>2. \A d \in Documents : /\ s[d].status \in {"ready", "failed"} \/ Reingested(s[d])
                           /\ s[d].status = "ready" => s[d].analysis \in {"analyzed", "failed"}
    BY <1>1 DEF LegalRows, AllDone, IsTerminal, Row, Reingested
<1>3. ASSUME \A d \in Documents : s[d].status \in {"ready", "failed"}
      PROVE  isSettled(deriveCaseStage(s))
  <2>1. deriveCaseStage(s) \in {"empty", "failed", "analyzed"}
    BY <1>1, <1>2, <1>3 DEF deriveCaseStage, Usable
  <2> QED
    BY <2>1 DEF isSettled
<1> QED
    BY <1>2, <1>3

(* The page as a whole, for every number of documents, reopened streams,   *)
(* errors, retries, faults and ingests that run again: one source at a     *)
(* time and none once the page is gone, one automatic request, snapshots   *)
(* that go back only where an ingest has set the document back, across the *)
(* streams they come from, and a `done` only where no document waits for   *)
(* its analysis, in a stage that is settled unless one whose analysis has  *)
(* failed is being ingested again.                                         *)
THEOREM PageAlwaysTrue == Spec => PageIsTrue
<1>1. Inv => TypeOK /\ OneSource /\ AutoOnce
    BY TypeImplies, InvImplies DEF Inv
<1>2. Inv /\ [Next]_vars =>
        [progress # Nothing /\ progress' # Nothing =>
            \A d \in Documents : NotBehind(progress[d], progress'[d])]_vars
    BY InvNext DEF Forward, NotLater
<1>3. Inv /\ [Next]_vars =>
        [\A i \in Sources : ReceiveDone(i) =>
            /\ \/ isSettled(deriveCaseStage(progress'))
               \/ \E d \in Documents : Reingested(progress'[d])
            /\ \A d \in Documents : progress'[d].status = "ready" =>
                  progress'[d].analysis \in {"analyzed", "failed"}]_vars
    BY ReceiveDoneKeeps, AllDoneIsSettled
<1> QED
    BY <1>1, <1>2, <1>3, InvInit, InvNext, PTL DEF Spec, PageIsTrue, NeverBackwards, DoneIsSettled
=============================================================================
